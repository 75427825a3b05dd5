# A TLA+ model of nontainer

nontainer gives an LLM agent a workspace: a filesystem and a key-value store
with history, in which it runs python and shell code, delegates tasks to
sub-agents, is sent messages while it works, and publishes what it made. This
directory holds TLA+ modules of its stateful core, the TLC configurations that
check them on small instances, and TLAPS proofs of the same properties for
every size.

Contents: [the system](#the-system) ·
[the modules and the code](#the-modules-and-the-code) ·
[the runs](#the-runs) ·
[what the documentation says and the code does not do](#what-the-documentation-says-and-the-code-does-not-do) ·
[the proofs](#the-proofs) ·
[only model-checked](#only-model-checked) ·
[not modelled](#not-modelled) · [the plan](#the-plan)

Run a check with `tlc -config KvgitRace.cfg MCKvgit` (each run's module is in
the table below), a proof with `tlapm SessionsProofs.tla`. Paths are relative
to `src/nontainer/` unless they say otherwise.

## The system

| component | state it keeps | operations | hard behaviours | what makes it correct |
|---|---|---|---|---|
| **Versioned store**, `providers/kvgit.py` over the kvgit library | branches, tags and commits of a repository; per handle a head and a buffer of staged keys | open, write, commit, commit_keys, discard, refresh, checkout, land, merge, apply, fork, tag, delete, garbage collection | several handles, threads and processes on one branch; optimistic commits that are merged, retried or refused, differently per verb; collection beside live names | heads only move forward, no unseen value is overwritten, a verb does all of its work or none, planes do not cross sessions, no name dangles |
| **Delegation**, `sessions.py` | job rows, reservations, child handles, futures, answers, event waiters | ask, resume, run, land, record, announce, cancel, result, take, wait, keep, sweep, close | runs on threads or an event loop race cancels, resumes, sweeps and close; critical sections with work between them | one run per branch, an answer answers its own task, is announced once and taken once, cancelled answers vanish, close is quiet, waits end |
| **Turns and inbox**, `turns.py`, `inbox.py` | pending and delivered notes, the open turn | put, withdraw, drain, deliver_now, restore, requeue, settle; begin, deliver, end | tool results that deliver on parallel threads, sources and frames that raise, cancelled callbacks, runs that cannot be stored | no note is lost, told twice in an attempt, or forgotten unread |
| **Workspace**, `workspace/core.py`, `workspace/facades.py`, `runtime.py`, with the guest of `executor_dud.py` | the provider's tree and the guest's copy, the view, attachments, flags for a stale guest and a failed harvest, a parked machine | tool calls, absorb or unwind after each, host writes, commit, checkout, take, discard, merge, attach, close, open | a machine that dies, fails to sync or is resumed; a ws-* verb in the middle of a script; a harvest refused in part | the guest holds the workspace's files, a parked machine its commit's, a call lands whole or is unwound, earlier work is kept |
| **Publications**, `store/publications.py` | registry rows, publication branches, version tags | publish, adopt, set_current, set_meta, unpublish, open, resolve | a crash between branch, tag and row; two publishers; tags made by hand without the lock | a listed version is its commit, what a crash strands can be cleared, a read serves what is listed |
| **Agent-facing git**, `agentgit.py`, `wsgit.py`, `wsverb.py` | agent head, staged set, outstanding merge, in one blob beside the files; stash branches | add, unstage, commit, checkout, stash, merge, revert, cherry-pick | the blob moves in other commits than the files it speaks of; two commits per verb with others in between | a commit holds what was chosen, work left out survives, a checkout is whole, a merge ends where its markers are gone |
| **Executors**, `executor.py`, `executor_dud.py`, `remote.py` | view worker pool, sandboxes, budgets | run, reserve, start, shelve, evict, fill, close | slots reserved outside the lock, worker death, a close beside calls | one holder per worker, no slot lost, pooled workers end |
| **Conversation, compaction**, `conversation.py`, `compaction.py`, `planes.py`, `adapters/agno_db.py`, `adapters/agno_compaction.py` | an index and one body per run, folds | incremental write, read, rebind, clear, wipe, fold | a write that fails half-way; turns deleted or rewound under a loop that writes them back | index and bodies agree, a loop only adds its run, files land with their run, every run reaches the model |
| **Store, references**, `store/core.py`, `store/refs.py`, `store/layout.py` | session names, tags | open, fork, delete, resolve | deletion beside readers | names resolve to what they named |
| Views, cache, second provider, migration | path filters; a kv mapping; an SQLite binding; a one-off conversion | | mostly sequential | |
| Adapters, apps, test runners | framework glue, request routing, browser drivers | | I/O against external processes | |
| Values, artifacts, rendering, traces, corpus, protocols | none | formatting, serialisation, projections, declarations | | |

How they interact. A workspace owns one provider handle and calls it under its
own lock; a second process, a forked workspace or a delegate's workspace is a
second handle on the repository, so the provider is where concurrent writers
meet. `Sessions` forks a child through the store, runs a caller-supplied runner
on a worker thread or an event loop, commits what the child left, and records
an answer; `answer_notes` turns answers into inbox notes as a *source* of a
turn. A turn hands notes to the model on tool results, and its end stores the
run, settles the notes and asks the workspace for one commit, which takes files
and conversation together. Publications and the agent-facing git sit on the
same provider verbs: one cuts a reserved branch out of a session, the other
keeps a graph of its own in a key of the session's tree.

## The modules and the code

| module | what it is |
|---|---|
| `KvgitProvider` | the versioned store: every verb of `providers/kvgit.py` that moves a branch, a tag or a buffer |
| `SessionLog` | what a session promises its readers: a log of trees that only grows |
| `KvgitRefinement` | the mapping by which `KvgitProvider` implements `SessionLog` |
| `Sessions` | one delegation helper: `sessions.py` |
| `Turns` | one inbox and the turns that deliver it: `inbox.py`, `turns.py` |
| `Workspace` | one session's workspace on a remote executor: `workspace/core.py` and what it calls |
| `Publications` | a store's published versions: `store/publications.py` |
| `AgentGit` | the agent's git over a session's history: `agentgit.py` and the `ws-git` verbs |
| `WorkerPool` | `_ViewWorkerPool` of `executor.py` |
| `Conversation` | the stored conversation, the loop that writes it and the folds that compact it |
| `MC*` | instances for TLC: symmetry, small data, and next-state relations that are parts of `Next` |
| `*Proofs` | the theorems about each module and their proofs |

Definitions named `Bad...` (and `WideRestore`, `LeaveUnwound`, `DropUnwound`,
`LeftOn`, `StartFailsForGood`, `RecyclesAnyway`) are mutants: the mapped
definition beside them with a plausible bug, used to see that a property can
fail. No specification uses them.

### KvgitProvider

* `commits` is a sequence; a commit's id is its index, so ids grow along
  every line of history and `past` (everything reachable) is stored with each
  commit. `branch`, `tags` and `swept` are kvgit's refs and what its
  collection removed. `wt[h]` is a handle's worktree: the head it last saw,
  its view and the keys staged over it. `op[h]` is the call it is in.
* A tree maps every key to contents or `Absent`. Keys come in the planes the
  merge rules tell apart: files, cache, conversation, book-keeping (the ws-git
  blob and the view record) and the cwd. A file key stands for the blob and
  its metadata row.
* One action per verb. `checkout`, `land` and `merge` plan and then commit, so
  they are several steps: `CheckoutBegin` / `CheckoutCommit` /
  `CheckoutConflict`, `LandBegin` / `LandJudge` / `LandCommit` / `LandMoved`,
  `MergeBegin` / `MergeCommit`. Any other handle may commit in between. The
  other verbs take effect at one compare-and-swap and are one action.
* What kvgit itself does is taken from how the provider uses it, its comments
  and its tests: a commit whose compare-and-swap is lost is a three-way merge
  into one commit whose first parent is the tip; `MergeChoice.OURS` keeps our
  side of a key whole; a registered merge function is consulted only where
  both sides changed the key, so a side that alone changed it wins; a land
  commits with `on_moved="raise"`; collection sweeps unreachable commits older
  than an age and never the empty commit branches start from.
* A contested file may or may not be markable (binary contents are not), which
  is a nondeterministic choice between `Marked` and a refusal.

**Refinement.** `SessionLog` knows no branch, buffer, merge or race: a session
is a log of trees, extended one tree at a time, created, forked from a log some
session had, or deleted. `KvgitRefinement` maps a session to the first-parent
line of its head, which is what `history()` walks; `ImplementsSessionLog` says
that every provider step is one step of the log or none, races and retries
included. A checkout that was merged with a concurrent commit and retried is
several entries; it never removes one.

### Sessions

* The tables of the helper are variables of the same meaning: `status`, `kept`
  and `idle` are parts of a job's row, `busy` is `_busy` with the token of the
  holder, `child` the open handles, `answer`, `uncollected`, `recorded`,
  `future` the answers and futures, `token` the counter.
* A run is its token. `run[r].pc` follows `_work` / `_awork`: queued, driving
  (the runner), answered, describing (between the landing's check and its
  record, when the child's remainder is committed), recording, announcing,
  exiting, over. `dropped` is a run that a cancel prevented.
* Every action is one critical section of the helper's lock or one step taken
  outside it. Calls of several sections have a place in `caller[c]`: an ask
  (`AskFork` or `ResumeCheck` and `ResumeOpen`, then `Submit`), a cancel
  (`CancelMark`, then the task or the future, then `CancelRelease`), a join, a
  wait.
* `AsyncRunner` chooses between worker threads and an event loop; the steps
  that differ (`CancelTask`, `CancelAsyncFuture`, `StoppedWhileLanding`, the
  close) test it.
* `SubmitUnscheduled` is the `except` of `_submit`: the run could not be
  scheduled, its child handle and its reservation are given back and its row
  stays. `SweepFails` is a sweep whose deletion raises: some branches may be
  gone, no row is touched. An executor that raises after it has queued the run
  (a pool that cannot start a thread) is outside the model, as is a future
  that was cancelled before it was handed out.
* `told`, `collected`, `disowned` and `promised` are history: how often
  `on_answer` heard of a run, who collected its answer, which runs were
  cancelled while running, which names `keep()` has answered for. A name's
  promise lapses when a later ask makes a new job of it.

### Turns

* `pending`, `delivered` and `minted` are the inbox's fields; each inbox call
  is one action (or part of one), atomic as under its lock. A note is its id.
* `call[c]` is a delivery on a tool thread: `DeliverBegin` drains; for each
  source `SourceBegin` takes the set of delivered notes, `SourceMint` mints
  through `deliver_now`, and `SourceReturn` or `SourceRaise` ends it;
  `Collected` restores what failing sources minted; `Attach` renders, or
  restores when the frame raises; `Announce` hands the result over, or restores
  when a cancel reaches an awaited callback. `collect()` does not ask whether
  its turn is open, so a delivery may begin late, after the end.
* `phase` is the turn's life. `EndBegin` sets `_ending` and refuses other ends;
  `EndStore` goes on when the run is stored or nothing was given to store, and
  when storing raises requeues and releases the slot; `EndSettle` settles,
  commits and releases. `Retry` is a loop that throws an attempt away and
  requeues (`adapters/agno.py`, `begin_turn`). Neither waits for a delivery:
  both `Overtake` those under way, whose results no model will read (`unread`).
* `read`, `kept`, `settled` and `withdrawn` are history: the notes on results
  the model read in this attempt, those it read in an attempt whose end went on
  to settle, those forgotten, those dropped.
* `disturbed` is history too, and names the notes whose delivery was not left
  alone: those a delivery had in hand, or takes later, when a retry or an end
  overtook it or it began late, and those a source that raised took for its
  own while another delivery had put them there. `OnePlace` says of every note
  that it is not lost; that it is in one place only, that what was read is not
  told again and that what is settled was read, the properties say of the notes
  that were not disturbed. The section on the documentation says what becomes
  of the others.

### Workspace

* There are two copies of the tree. `work` is the provider's (tree, cache,
  the record of the view); `guest` is the machine's, with the `base` its diff
  is taken against. `stale`, `pending` and `unsure` are the flags for a guest
  to be pushed to, a harvest that failed inside a verb, and a machine whose
  content is not known; `parked` is the machine `close()` left behind and the
  commit it is tagged with.
* A file's content is the sequence of writes that made it, each named by the
  call or host operation, so a write undone, done twice or lost can be seen.
* `call` is the tool call in hand: `Sync`, the steps of its script
  (`GuestWrites`, `Verb`, `VerbRefused`, `VerbSyncFails`), `RunLost` with its
  one retry, `RunEnds` (or `WriteBackRefused`, on a frozen session), `Harvest`
  or `HarvestLost`, `Settle` or `SettleTorn`. A failed boot, a second loss and a
  harvest that raises leave the call where they are, with what it had staged.
  Between calls the host writes, commits, checks out, attaches and closes.
* A script is a constant: a tool and a sequence of steps. What agent code
  computes is of no interest here; which paths it writes, in what order with
  ws-* verbs, is.
* `TidyNext`, which the run uses, leaves out four turns of events of `Next`,
  for each of which the section on the documentation names what then fails: a
  harvest that fails at the end of a call (`HarvestFails`), a machine lost
  behind a harvest a verb already took, an attachment made on a pooled workspace, and a pooled
  workspace closed while its view shows more than is recorded.

### Publications

* `registry`, `branch` and `tag` are the three places a version is written to;
  `commits` is what publish committed, each with the request it was made for.
  `lock` is the registry's file lock. `client[c]` is a call and what it has
  read inside the lock.
* `publish` is `PublishCall`, then under the lock `PublishAdopts` or
  `PublishWrites`, `CreateBranch`, `CommitTree`, `MintTag`, `RecordVersion`;
  `unpublish` is `RemoveTag`, `RemoveBranch`, `DropVersion`. `Crash` may come
  before any of them: the lock is freed and what was written stays.
* `TagByHand`, `TagVersion` and `UntagByHand` are the store's tag verbs on the
  same names; the first and the last take no lock, as in the code.

### AgentGit

* `commits` is the session's linear history; each entry has its tree, the blob
  in it and, for an agent's commit, its own parent and files. `work[h]` is a
  handle's head, tree and blob. `op[h]` is the verb under way: `settle` and
  `land` for the verbs that bring another tree in, `record` and `again` for the
  second commit, which stores the blob and is tried twice.
* `Commit` puts what it leaves out back to the agent's head, makes the keyed
  commit and restores the tree; `Record` is the second commit, after which the
  handle has refreshed. Refused, it is tried again on the head that won
  (`Reread`) and then given up (`GiveUp`). `Autocommit` is the framework's own
  commit and may come from another handle at any time.
* `Checkout`, `AbortMerge` and `StashPush` restore a tree and record it;
  `MergeCall`, `CherryPick`, `Revert` and `StashPop` share `Settle`, the
  three-way merge with markers, and the landing that follows.
* A commit that the store refuses leaves the tree and the blob as they were, so
  it is no step.

### WorkerPool

* `idle`, `live` and `closed` are `_idle`, `_live` and `_closed`. `up`,
  `crashed` and `home` are the worker processes; `since` orders the shelf, as
  the last one in is the first one out.
* `at[c]` is what a calling thread is doing: a slot is reserved under the lock
  (`Reserve`, `FillReserves`), its worker is started outside it (`Start`,
  `StartFails`), a release looks whether the worker lives and then takes the
  lock (`CallEnds`, `Shelve`, `Retire`), and whatever is to be shut down is
  chosen under the lock and shut down after it (`Close`, `ReapIdle`,
  `ShutDown`). `Die` may come at any moment.

### Conversation

* `commits` is every commit with what it holds (the keys of the conversation's
  two planes, the folds, the runs whose files are in the tree) and its parent.
  `staged[s]` is what a live workspace holds: its head and its buffer.
* A database call holds the workspace's lock and is one action; what the loop
  read before a call and writes after others have written is in `loop[s]`:
  `BeginRun` reads, `Ask` sends the model a request and may fold, `Checkpoint`
  and `Finish` upsert the whole session, `UpsertRun` a row, `KeepRead` and
  `KeepWrite` keep an aborted run, `EndTurn` and `EndWithBody` end the turn.
* `Writes` gives every outcome of `conversation.write`: all of the plan, or a
  failure after a part of it, in the order it is made in (`Partway`), with the
  put-back that follows.
* `ByHand` is whoever else commits a live session, at any moment of a run:
  the host's `ws.commit` and a `ws-git merge`, which settles the session first,
  take everything staged (`CommitAll`), the agent's `ws-git commit` files alone
  (`CommitFiles`).
* A fold is the run it is made through and the runs it covers. `said` and
  `rest` are the request: the summary's coverage and the runs in full.
* `ByItsLoop`, `FromOutside` and `Starts` divide `Next` by who acts.
  `QuietSpec` keeps `FromOutside` from a conversation whose loop is running.

## The runs

Each run takes up to three minutes with two workers. Every property of every run
has at least one mutant of the code that breaks it.

| run | module | instance | shows |
|---|---|---|---|
| `KvgitRace` | `MCKvgit` | 1 session, 2 handles, a file and the cwd, 2 values, 2 attempts, 3 commits | commits, refreshes, checkouts and lands race: `HandleOnItsBranch`, `OverwritesOnlyWhatItSaw`, `CheckoutConverges`, `LandsAllOrNothing`, and every step is one of `SessionLog` or none |
| `KvgitAll` | `MCKvgit` | 2 sessions, 1 handle, a file and a conversation key, 2 values, 3 commits, every verb, deletion and collection at every age | `EveryNameResolves` (types included), `PlanesStayHome`, and every verb is a step of `SessionLog` |
| `SessionsRace` | `MCSessions` | threads, 1 child, 2 callers, 3 runs, 2 workers | `OneRunPerBranch`, `AnswersItsOwnTask`, `ToldUnlessDisowned`, `ClosedIsQuiet`, `KeptIsNeverSwept` |
| `SessionsAsync` | `MCSessions` | event loop, 1 child, 2 callers, 2 runs | `TypeOK`, `TakenOnce`, and with fairness `BranchesAreFreed` |
| `SessionsEnd` | `MCSessions` | threads, 1 child, 2 callers, 2 runs, 1 worker | with fairness `CallsReturn`: every call returns, a `wait` included, unless a row stands beside it whose run was never scheduled |
| `TurnsRace` | `MCTurns` | 2 delivering threads, 1 source, 2 turns, 3 deliveries, 2 notes; retries, ends and late deliveries that overtake | `OnePlace` (types included), `ReadStaysDelivered`, `SettledWasRead` |
| `PublicationsRace` | `MCPublications` | 2 clients, 1 name, 2 versions, 3 requests, 2 commits, a crash at every step | `ListedIsItsCommit` (types and the pointer included), `StrandedCanBeCleared`, `RowsLeaveByUnpublish`, `ServesOnlyListed` |
| `AgentGitRace` | `MCAgentGit` | 2 paths, 2 contents, another session to merge, 6 commits; the agent's handle, alone or beside one that edits and commits | `LeftOutStaysOut`, `WorkIsKept`, `CheckoutAllOrNothing`, `MarkersOutlastTheCommit` |
| `WorkspaceCalls` | `MCWorkspace` | a shown and a hidden path, 7 scripts, 4 ways to open, 3 calls or writes, 3 commits, 2 faults | `GuestIsTheWorkspace` (types included), `ParkedIsItsCommit`, `EachCallSettles`, `EarlierWorkIsKept` |
| `PoolRace` | `MCWorkerPool` | 3 threads, 3 processes, a pool of 2 for one view, 3 releases | `OneHolder`, `SlotsAreCounted`, and with fairness `PooledWorkersEnd` |
| `ConversationRace` | `MCConversation` | a session with two earlier runs, one folded, and a fork of it; 3 runs, 3 commits, legacy and current keys; a loop that reads back one run; commits by hand | `OneSessionPerBranch`, `IndexNamesWhatIsStored` (types included), `LoopAddsItsRun`, `LandsWithItsRun` |
| `ConversationFolds` | `MCConversation` | a session with three earlier runs, one folded, and two more; `QuietSpec` | `EarlierRunsAreTold` |

**Bounds.** Each is a constant of its module and sits in the guard of what
*starts* something: verbs and calls under way go on.

* Versioned store: three commits after the root are what it takes for one
  handle's commit to be contested, a restore of an older state to be attempted
  on top, and the retry to be merged again. Two handles make every pairwise
  race; a third would repeat the role of "somebody moved the branch". Two
  attempts let a retry both happen and run out. Two values are a base and a
  change, or two changes that differ.
* Delegation: `MaxRuns` bounds the runs ever asked for. Three runs of one child
  are a run, the resume that replaced it, and one more that finds the tables
  after both. No table relates two names.
* Turns: two notes are one on each thread, or one queued and one minted; three
  deliveries are two that overlap and one that finds what became of their
  notes, late or in the next turn; two turns let one inherit what the other
  left; one source is enough to raise beside another delivery.
* Publications: two versions and two commits let an attempt be adopted, cleared
  and published again; three requests differ from each other in the caller's
  info alone and in the commit.
* Agent git: six commits are two verbs with their records, another handle's
  commit in between, and the first commit.
* Workspace: three numbered writes are an earlier write, a call, and a call or
  write that finds what both left; two faults let a machine die and the boot
  that follows fail. The scripts write one path, write a path the session may
  be refused, read, commit or rewrite through a verb, and write the cache.
* Pool: three threads are two that hold the pool's workers and one that finds
  it saturated, closes or reaps it. `MaxReleases` and `MaxDead` bound the clock
  and the corpses.
* Conversation: one loop per session, and a fork, are the writers; two earlier
  runs are one that a fold covers and one it does not, three let a deletion or
  a rewind fall between. In `ConversationRace` a loop reads back one run of
  more, or the whole of a history that a deletion has left with one; in
  `ConversationFolds`, as compaction asks, all of them.

The theorems hold for every value of these constants.

**Deadlock.** It is checked in the runs of the versioned store, in
`SessionsAsync`, `SessionsEnd` and `PublicationsRace`. The others may stop at
their bounds: past the last run, note, commit or numbered write nothing is
enabled.

**Symmetry** is used only in runs without liveness properties: over handles,
sessions and values, over children and callers, over threads, over clients,
and over the runs yet to be minted of `ConversationFolds`. No definition tells
members of those sets apart.

**Fairness** is assumed of two modules only, and all of it is weak.
`Sessions!Fairness`: a run goes on (worker threads run, and a runner comes back
because its budget bounds it), and a caller in the middle of a call goes on.
`WorkerPool!Spec`: a thread in the middle of a call goes on, since starts,
shutdowns and view calls are bounded by timeouts. Nothing is assumed of callers
between calls, of sweeps, of closes, or of processes that may die.

## What the documentation says and the code does not do

Statements of the repository that the modules refute. Where the refuted
statement is short it is kept as a definition under the heading of this name in
its module; checking it with the run named finds the behaviour.

**Delegation**

* With an async runner, a job cancelled before its coroutine has registered its
  task falls through to `future.cancel()`, whose success is read as "the worker
  never started" (`sessions.py:772`). The task's cancellation reaches the
  coroutine only at its first await, so the run starts, on a branch the cancel
  has released: a resume drives it too, and `OneRunPerBranch` is false. The
  cancelling thread then closes whatever child handle the name has
  (`sessions.py:782`), which may be the new run's: its landing finds no handle,
  drops the answer, and a waiter sleeps for ever (`CallsReturn` fails).
* `RunsDriveTheChild` (`sessions.py:439`): a sweep between a resume's check and
  its reservation deletes the branch; opening it again creates an empty one,
  and the run drives that.
* `CancelCommitsNothing` (`sessions.py:1451`): the landing reads the cancelled
  status once and commits the child's remainder outside the lock, so a cancel
  in between is followed by a commit.
* `wait` is said to end when no job is running (`sessions.py:619`). A run that
  cannot be scheduled, because the pool or the event loop refuses it, leaves
  its row saying `running` with no run behind it (`sessions.py:1123`), so a
  wait without a timeout sleeps until someone asks the child again, cancels
  the job or closes. `CallsReturn` names this as the one exception, and holds
  beside it.

**Turns**

The first two are why the properties speak of notes that were not `disturbed`.

* `OnlyTheseMove`: `inbox.py:320` says of `restore` that only a failed
  delivery's notes move and what was delivered earlier in the attempt
  "reached the model and stays delivered". What a failing source minted is
  found by comparing delivered notes before and after it (`turns.py:373`):
  with two tool results delivered at once, the notes that the other delivery
  drained are taken for the source's, put back in the queue, and told to the
  model again, or twice.
* `OnlyReadIsForgotten` (`inbox.py:311`): `collect()` (`turns.py:359`) does
  not ask whether its turn is open, and neither a retry nor an end waits for
  a delivery: a cancel ends the turn inline (`turns.py:607`, `626` to `635`)
  while a tool thread is between its drain and its result. What such a
  delivery has in hand is settled though no model read it, by that end or
  the next; or it is requeued by the retry and then restored by the
  delivery, and is queued twice. What is never the case, whatever overtakes
  what, is that a note is in no place at all (`OnePlace`).
* `settle` (`inbox.py:311`) forgets notes, "correct once the model's reply
  to it is part of the conversation", and `end()` requeues them when storing
  raises because "no stored run holds them" (`turns.py:521`). A turn that
  ends without a body or a record stores nothing and settles all the same
  (`turns.py:550` to `560`), as `test_every_ending_settles_the_inbox` has it
  (`src/tests/test_turn_api.py:145`). `SettledWasRead` is therefore about the
  attempt that the end kept, not about a stored run.

**Versioned store**

* A restore that loses its race to a commit that wrote one of its keys
  differently raises kvgit's merge conflict out of `checkout` and leaves the
  target staged (`CheckoutConflict`; `providers/kvgit.py:782`), where
  `protocol.py:524` says such a write is superseded.
* `checkout` measures the target against the handle's own head
  (`providers/kvgit.py:767`), so a stale handle that checks out the state it
  stands on returns its old head and restores nothing.
* A merge brings over a cwd that only the source session moved: the cwd's
  policy is a merge function (`providers/kvgit.py:1529`), which is consulted
  only when both sides changed the key.

**Publications**

* `HandTagsSpared`: the documentation of `unpublish`
  (`store/publications.py:867` to 890) says that a tag without publish's
  provenance is left exactly as it is. The provenance is read and the tag then
  removed by name (`_remove_version_state`, 1183), and hands take no lock, so a
  tag made by hand in between is removed.

**Agent git**

* `HeadIsTheAgents`: the agent's head may be a commit of the framework's own,
  after a revert or a merge of the host's went through the same blob
  (`workspace/core.py:2195`, `providers/kvgit.py:1375`; the documentation is at
  `agentgit.py:491` and `1293`).
* `ExactlyWhatWasCommitted` (`agentgit.py:712`; the documentation is at
  `agentgit.py:27`): what the agent staged but the framework had committed
  already is in the tree of a commit that leaves it out. `LeftOutStaysOut`
  states what does hold.
* `MarkersOutlastTheCommit` holds of paths no other handle has committed; the
  record's refresh, which takes another handle's version of a path, is
  documented.

**Workspace.** The first two fail under `Spec` and are why the run uses `TidySpec`.

* `GuestIsTheWorkspace`: a machine lost behind a harvest that a verb already
  took is booted anew, the script runs again from its start, and what the first
  run staged is pushed back under it (`workspace/core.py:3312` to `3327`). And a
  write of the last harvest that the provider refuses raises out of the call
  with part of it staged and the machine, rebased, not flagged (`HarvestFails`).
* `ParkedIsItsCommit`: the machine is tagged by whether work is staged, not by
  whether it shows what the commit records (`executor_dud.py:1125`, comment at
  1105).
* A refused call is to be "an errored RESULT, not an early exit", so that it
  does not leave "an autocommit workspace dirty" (comment at
  `workspace/core.py:895`). It still does in these cases, which
  `EachCallSettles` allows one by one and which leave no more than the call had
  staged before: the last harvest is refused whole, so that nothing landed and
  nothing is committed (`workspace/core.py:907`), after a ws-* verb staged
  something or beside what the script kept in the cache; the call raises, as
  when the machine is lost before the harvest and the boot that should replace
  it fails, out of `_harvest` (`executor_dud.py:1573`) past the `except` of
  `workspace/core.py:3307`, with the cache entries staged; or the harvest itself
  raises while it is being staged (`HarvestFails`). With these exceptions the
  property holds of every step, those that `TidySpec` leaves out included.
* `WritesLandOnce` (`executor_dud.py:1144`): a script that is run again writes
  again over what its first run landed.
* `ViewIsItsRecord` (`workspace/core.py:2743` and `1148`, documentation at
  1857): `discard` and `checkout` change what is recorded to be shown and leave
  the view that is in force.
* `run_python` never clears the failure of a harvest inside a verb
  (`_pending_sync_error`); the next `terminal` would report it. Verbs are only
  run by `terminal`, which clears it at its own end, so no call finds one.

**Pool**

* After `close()` has cleared `_live`, a start that fails in a slot reserved
  before raises `KeyError` from `self._live[key] -= 1`, which hides the reason
  the worker did not start.

**Conversation**

* `commit="turn"` is to land a run's files with the run. Three others commit a
  live session without asking whether a turn is open: the agent's `ws-git
  commit` (`agentgit.py:805`), a ws-git verb that settles the session before it
  merges (`wsgit.py:1061`), and the host's `ws.commit`. Files of the run under
  way then land ahead of its record. `LandsWithItsRun` says what they may take:
  files of that run or of one whose record is staged, and that loops, deletes
  and checkouts never do so.
* A run deleted before the turn's commit is said never to land
  (`adapters/agno_db.py:906`); the loop that has it upserts the whole session
  again at its next checkpoint or at its end, and the run lands.
* `EarlierRunsAreTold` is false under `Spec`: delete run b of a, b, c; begin a
  loop, which reads a, c; check out the commit that still has b; the loop folds
  what it read, through c, onto that conversation; its own run is refused, but
  the fold stays staged. The next loop reads a, b, c and the fold in force
  stands for c and all before it, so b is never told. `docs/compaction.md` (119
  to 124) says that a fold lands with the turn that made it. Under `QuietSpec`,
  where nobody rewinds or deletes under a running loop, the property holds.
* A process that dies between the commit that creates a fork's branch and the
  one that rebinds its conversation leaves a child whose index names its parent
  (`workspace/core.py:1789`, `adapters/agno_db.py:1002`). In the model a fork is
  one step.

**Apps**, which have no module: an `HttpError` raised after a write is not
rolled back (`apps/dispatch.py:13` against 1062 to 1120); `apps/driver.py:62`
says a scenario stops at the first failure, and a failed assertion continues
(`apps/driver_playwright.py:603`).


## The proofs

Eight modules hold the theorems; TLAPS checks each to its last leaf. They hold
for every value of the constants that satisfies the assumptions named in the
modules, which say only that bounds are numbers, that markers such as `Absent`
are not values, and that the scripts and trees given are of the model's types.
No assumption is about behaviour except those named with the theorems that need
them: `~AsyncRunner` and the specifications `TidySpec` and `QuietSpec`; for
each of them the section above names what fails without it.

All proofs have one shape. An inductive invariant is stated at the head of the
module as a conjunction of named parts; a frame lemma says what a step leaves
alone of a part (that commits only grow, that another caller's record did not
move); there is one proof step per action; the properties follow from the
invariant, or, when they speak of steps, from the invariant and one step.

| module | inductive invariant | what follows |
|---|---|---|
| `KvgitProofs` | `KvInv` | `HandleOnItsBranch`, `OverwritesOnlyWhatItSaw`, `PlanesStayHome`, `EveryNameResolves`, `CheckoutConverges`, `LandsAllOrNothing`, `HeadsMoveForward`, `ImplementsSessionLog` |
| `SessionsProofs` | `TInv`, `Collecting`, and `Inv` | `TypeOK`, `KeptIsNeverSwept`, `TakenOnce` for both runners; `OneRunPerBranch`, `AnswersItsOwnTask`, `ToldUnlessDisowned`, `CancelDiscardsTheAnswer`, `HandlesHaveARun`, `ClosedIsQuiet` for threads |
| `TurnsProofs` | `TurnInv` | `OnePlace`, `ReadStaysDelivered`, `SettledWasRead` |
| `WorkspaceProofs` | `WorkInv`, with `Scripted` for `EarlierWorkIsKept`; `Shaped` and `Clean`, under `Spec`, for `EachCallSettles` | `GuestIsTheWorkspace`, `ParkedIsItsCommit`, `EarlierWorkIsKept`, `EachCallSettles` |
| `PublicationsProofs` | `PubInv` | `ListedIsItsCommit`, `StrandedCanBeCleared`, `RowsLeaveByUnpublish`, `ServesOnlyListed` |
| `AgentGitProofs` | `GitInv` | `TypeOK`, `LeftOutStaysOut`, `WorkIsKept`, `CheckoutAllOrNothing`, `MarkersOutlastTheCommit` |
| `WorkerPoolProofs` | `PoolInv` | `TypeOK`, `OneHolder`, `SlotsAreCounted` |
| `ConversationProofs` | `ConvInv`, with `TellInv` for the last | `OneSessionPerBranch`, `IndexNamesWhatIsStored`, `LoopAddsItsRun`, `LandsWithItsRun`, `EarlierRunsAreTold` |

### KvgitProofs

The properties are about calls of several steps during which other handles
commit, so the invariant says what is still true of a plan when it is acted on.
`Graph`: a commit's first parent and everything in its `past` is older, and
`past` is transitive. `Names`: every branch and tag names a commit that
collection has not swept, nor anything it reaches. `Stands(h)`: a handle's head
is in the past of its branch's tip, and its view differs from that head only in
the keys it staged. `Under(h)`: between the steps of a call, a land that was
judged still holds the plan of the head it was judged on and was not refused
there, and a finished call has done what `Over` and `Whole` say of it.

`HeadsMoveForward` follows from `Graph`: every compare-and-swap puts the old
tip in the new commit's past. The refinement needs the first-parent line of a
commit not to change when commits are appended; `Lines` is a recursive function
on ids, and since the provers cannot use an induction rule that takes a formula
as a parameter, facts about it are proved for a least counterexample, whose
first parent is smaller.

### SessionsProofs

`TypeOK` is not inductive: it bounds tokens by `MaxRuns`, and `Submit` takes a
token without asking again whether one is left. `TInv` adds `Budget` (the tokens
given out and the asks under way never exceed `MaxRuns`, so that each ask has
one set aside) and `Named` (a caller in the middle of a call is on a child, a
run that was asked for has a name). `KeptIsNeverSwept` rests on every promised
name being kept; the step that could break it is `Submit`, which replaces the
row and copies `kept` again in the section that installs the run.

`Collecting`, for both runners, is `Recorded` (an answer in the tables is of a
run that is past recording it, and so is whatever was collected) and `Fresh` (of
an answer still to be collected nobody was given anything); recording is the one
step that puts an answer in, and no run records twice.

`Inv`, for worker threads, has these parts. `HoldsItsBranch(r)`: while a run's
answer is outstanding it holds its branch and its future, its job says running
or, if it was disowned, cancelled, and until it lands it has its handle. Two
runs of one child would therefore both be `busy[n]`. `Accounted(r)` ties `told`,
`collected`, `disowned`, `recorded` and `resolved` to the place the run has
reached, so that an announcement can happen only once. `RowOf(n)` ties each
row's tables to runs: a held answer is its future's, a running job has an
unanswered run, a reservation belongs to the last future and not to a run that
is over. `CallOf(c)`: a cancel that prevented a run is the only one to release
what the run reserved. `ClosedMeansOver`: after a close no run is under way and
no handle open.

### TurnsProofs

The properties speak of queues, the invariant of the sets of their notes and of
no note being in one twice: `Placed` (every note minted is pending, delivered,
settled or withdrawn, and in one of these unless it was disturbed), `Shared`
(an undisturbed note is delivered when it was read, or is in the hands of
exactly one delivery), `Handled` (a delivery that no model reads has only
disturbed notes), `Sound` (a delivery's own record), `Turning` (once a turn's
end has begun no delivery reaches a model, and what was read is kept before it
is settled). No assumption is made on which steps overlap: the argument is that
each step which breaks the sharing for a note puts that note into `disturbed`.
The lemmas relate each operation on sequences to its set. `Without` is a
recursive function in the model, and what it removes is proved by a least
length.

### WorkspaceProofs

`Copied`: between scripts the guest holds its base, and a guest that is alive
and neither stale nor unsure has the base the session is shown. `Calling`: a
verb's failed harvest leaves the guest flagged and is settled by its own call,
and until a verb stages something, a call that found nothing staged has nothing
of its own in the tree. That part is what lets a machine be lost and booted
again under a call. `Parking` and `Grown`: since it was opened at the commit a
machine is parked under, a workspace has come to show only paths that commit has
no file at; so a later park under the same tag is of the same tree.

`EarlierWorkIsKept` is about what a script did, of which the state has only the
outcome, so its invariant speaks of the script. `Scripted`: a file that differs
from the guest's base was removed by the call or has the call's own write in
it, and a step of the script before this one did it, after any verb. What a
call lands is a removal or a write of its own, and so is never what was
committed before, unless the call's own verb committed it.

`EachCallSettles` needs neither and is proved along all of `Spec`, for every
script. `Clean`: while a call that found nothing staged has staged nothing
early (`StagedEarly`: a verb's harvest or write, or a cache entry), nothing is
staged; and nothing is once a lost harvest was unwound, or all of it refused.
The steps that end a call then leave the tree committed, or are one of the
exceptions the property names. `Shaped` says as much of types as this takes.

### PublicationsProofs

`Inside(c)` is what a client knows at each step of its call, in particular that
inside the lock the registry it read is the registry there is, that a publish
about to write found its version unlisted, and that an unpublish does not take
the current version from others. `Attempts`: whatever publish left under a name
was made for that name and version, whether or not its row was written; this
makes clearing possible after any crash, and is what hands that make tags
without the lock cannot break. `Rows`: a listed version is the commit its row
names, and its branch is at it or gone.

### AgentGitProofs

`Typed` says that a blob, a commit and a worktree only name commits the session
has, at the time they are stored. `HandleOK`: a commit or checkout whose record
is still to be written has in the tree what it is to leave there. The four
properties are about one step each and follow by cases: the keyed commit, the
record, and its second try after another handle's commit.

### WorkerPoolProofs

`Shape(c)` says what a caller holds at each place of its call, and
`SlotsAreCounted` that a view's count is the number of workers on its shelf and
of callers that have or are starting one. The proof counts sets: each action
moves one element between two of them, or none.

### ConversationProofs

`StoreOK`: in every commit and every live buffer the index is injective, names
bodies that are there, and belongs to the branch. `LoopsOK`: what a loop holds
is runs given out. `History`: while a loop runs nothing is behind its run on its
branch, in the buffer or in any commit before; and the files staged are
committed already, or of a run in the conversation, of a run that was lost, or
of the run still running. `LandsWithItsRun` needs this of the whole past,
because a rewind brings an old index under new files. `HandStep` is what a
commit by hand may be: the conversation staged or the one there was, with files
of those staged; `History` outlives it because a run whose files it takes is
still the run under way or has its record staged.

`TellInv`, for `QuietSpec`: every fold, stored or staged, covers exactly the
runs of its index up to the one it is made through, and what a loop is told is
a prefix of what it read, folded, and the rest in full. It is not an invariant
of `Spec`, for the reason given above.

## Only model-checked

* `BranchesAreFreed` and `CallsReturn` of `Sessions` and `PooledWorkersEnd` of
  `WorkerPool` are liveness properties: the prover has no rule for fairness
  that it can apply without `ENABLED`.
* The theorems that assume `~AsyncRunner` leave `TypeOK`, `KeptIsNeverSwept`,
  `TakenOnce` and what `SessionsAsync` checks as all there is for an event loop.

## Not modelled

* **Versioned store**: the `adjust`, `ignore`, `paths` and `admit` hooks, frozen
  handles, metadata rows apart from their blobs, and the conversion of old
  layouts. Deletion is only of sessions without an open handle, because what
  kvgit does with a worktree whose branch is gone cannot be seen from here. A
  checkout's target is in the handle's own history, as the workspace requires.
* **Delegation**: provenance and change reports, names and origins, timeouts of
  `wait`, the `until_settled` drivers. `touched` is not a clock, so an answer
  that comes after the idle cutoff (`sessions.py:871`) is not told apart. A
  session re-opened after a failed seed refuses the retry, which no doc
  contradicts.
* **Turns**: rendering and `split`, the events, `opening()`, which delivers as
  `deliver` does. What a conversation write stores is in `Conversation`.
* **Workspace**: events, tracebacks, configuration, bindings, and the local
  executor, whose guest is the workspace itself and has nothing to copy.
* **Publications**: the lock file as a file, listing, and collection's age.
* **Agent git**: tags in the blob, ignored and view-hidden paths, file names
  that nest, `checkout REF -- paths`, `log` and `diff`.
* **Executors**: `RemoteExecutor`, the sandbox's policies, budgets and streams.
  The kernel and process protocols are I/O against systems not in this
  repository.
* **Conversation**: names, users, parentage and metadata of an index, the
  listing of `KvgitStoreDb`, the harnesses other than the agno adapter,
  recording. Files against runs are of the mode `commit="turn"`.
  `clear` and `wipe` delete key by key (`conversation.py:342` to 360); a delete
  the store refuses on the way, which nothing puts back, is not modelled, and
  neither is a put-back that fails itself (279 to 303). Files brought over from
  another session, by a merge or `ws.take`, are no run's.
  `compaction.md` and `adapters/agno_compaction.py:12` require an unlimited
  `num_history_runs`; the instance with folds has one.
* **Without a module**: views, the host cache, the second provider (AgentFS),
  migration, framework adapters, apps, the test runners, values and rendering,
  traces, the conformance corpus. `PROJECT.json` has the reason for each; most
  are sequential, formatting, or I/O.
* **Hazards without a property**: what an early release does to an event loop's
  next run (`sessions.py:782`, `1395`) and the clock of the sweep
  (`sessions.py:871`). The notes beside them in `PROJECT.json` say why.

## The plan

1. **An answer's way**: the composition of `Sessions` and `Turns`, in which an
   answer becomes a note through a source and is settled with the run that read
   it, and none is lost between the two.
2. **Apps**: the contract of a request (stage, commit or unwind) and its
   dispatch.
3. **Algorithms** against reference definitions: the metadata rows' merge, view
   path filtering.
