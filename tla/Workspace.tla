----------------------------- MODULE Workspace -----------------------------
(***************************************************************************)
(* A workspace over one session, run on a remote executor: workspace/      *)
(* core.py, workspace/facades.py, runtime.py, wsverb.py, executor_dud.py.  *)
(*                                                                         *)
(* There are two copies of the tree.  The provider's (`work`) is what is   *)
(* committed; the guest's is what the agent's code reads and writes.  A    *)
(* tool call runs a script in the guest, harvests what it changed and      *)
(* stages that in the provider, then commits.  A ws-* verb inside a script *)
(* harvests in the middle of the call.  The host writes the provider's     *)
(* copy directly and only flags the guest `stale`; the next call pushes.   *)
(* A machine can die at any moment, and a closed one is parked under the   *)
(* commit its tree is said to hold, for the next open to resume.           *)
(*                                                                         *)
(* A file's content is the sequence of writes that made it, each named by  *)
(* the call or host operation that wrote it; <<>> is no file.              *)
(***************************************************************************)
EXTENDS Naturals, Sequences

CONSTANTS
    Paths,
    Hidden,        \* files a narrow view does not show
    Mounts,        \* paths under a read-only mount
    Attachable,    \* paths under the point an attachment takes
    OpenedAs,      \* how the workspace may be opened
    Scripts,       \* what a tool call may run
    Artifact,      \* where a rich ui value is written
    NoMachine,
    MaxIds,        \* bound: calls and host writes
    MaxCommits,    \* bound: commits
    MaxFaults      \* bound: machines that die, boots and writes that fail

ASSUME WorkspaceAssumption ==
    /\ Hidden \subseteq Paths /\ Mounts \subseteq Paths /\ Attachable \subseteq Paths
    /\ Artifact \in Paths
    /\ OpenedAs \subseteq [frozen : BOOLEAN, auto : BOOLEAN, narrow : BOOLEAN, pooled : BOOLEAN]
    /\ \A o \in OpenedAs : o.frozen => ~o.auto
    /\ MaxIds \in Nat \ {0} /\ MaxCommits \in Nat \ {0} /\ MaxFaults \in Nat

\* A step acts on a path of the tree.  A ws-* verb is a function of the guest's
\* shell, which only terminal() runs; the cache is given to run_python()'s code.
StepType == [do : {"append", "remove", "cache", "verb"}, path : Paths,
             verb : {"none", "read", "commit", "rewrite"}]
ASSUME ScriptsAssumption ==
    \A s \in Scripts :
        /\ s \in [tool : {"terminal", "run_python"}, steps : Seq(StepType), ui : BOOLEAN]
        /\ \A i \in DOMAIN s.steps :
              /\ s.steps[i].do = "verb" => s.tool = "terminal"
              /\ s.steps[i].do = "cache" => s.tool = "run_python"

VARIABLES
    mode,     \* [frozen, auto, narrow, pooled]: how the workspace was opened
    commits,  \* the branch, oldest first; the last is the head
    work,     \* the provider's working state: [tree, cache, rec]
    view,     \* the paths ViewFS shows, in memory
    attached, \* an attachment is mounted
    open,     \* the workspace is open
    stale,    \* Runtime._executor_stale
    pending,  \* _pending_sync_error is set
    guest,    \* the executor's machine: [alive, tree, base], or NoMachine
    unsure,   \* DudExecutor._tree_stale
    parked,   \* the machine in the pool: [tag, tree], or NoMachine
    call,     \* the tool call under way
    ids,      \* the writes named so far
    faults    \* the faults had so far

vars == <<mode, commits, work, view, attached, open, stale, pending, guest, unsure, parked,
          call, ids, faults>>

Contents == Seq(1..MaxIds)
Trees == [Paths -> Contents]
NoFiles == [p \in Paths |-> <<>>]
States == [tree : Trees, cache : 0..MaxIds, rec : SUBSET Paths]
Machines == [alive : BOOLEAN, tree : Trees, base : Trees]
ParkedMachines == [tag : 0..MaxCommits, tree : Trees]

ASSUME MachineAssumption == NoMachine \notin Machines \cup ParkedMachines

NoScript == [tool |-> "none", steps |-> <<>>, ui |-> FALSE]
Idle == [pc |-> "idle", script |-> NoScript, at |-> 0, id |-> 0, dirty |-> FALSE,
         retried |-> FALSE, mid |-> FALSE, landed |-> FALSE, torn |-> FALSE, lost |-> FALSE]

Dead == [alive |-> FALSE, tree |-> NoFiles, base |-> NoFiles]
Holding(tree) == [alive |-> TRUE, tree |-> tree, base |-> tree]

Tip == commits[Len(commits)]
Dirty == work # Tip
Whole == Paths
Seen == Paths \ Hidden

Init ==
    /\ mode \in OpenedAs
    /\ \E given \in SUBSET Hidden :
          LET tree == [p \in Paths |-> IF p \in given \cup Mounts THEN <<1>> ELSE <<>>]
          IN  /\ work = [tree |-> tree, cache |-> 0,
                         rec |-> IF mode.narrow THEN Seen ELSE Whole]
              /\ commits = <<work>>
    /\ view = work.rec
    /\ attached = FALSE /\ open = TRUE /\ stale = FALSE /\ pending = FALSE
    /\ guest = NoMachine /\ unsure = FALSE /\ parked = NoMachine
    /\ call = Idle /\ ids = 1 /\ faults = 0

-----------------------------------------------------------------------------
(* What the session sees, and what it commits. *)

\* An attachment shadows what is under its point; a narrow view hides the rest.
ShownOf(tree, seen, over) ==
    [p \in Paths |-> IF over /\ p \in Attachable THEN <<1>>
                     ELSE IF p \in seen THEN tree[p] ELSE <<>>]

Shown == ShownOf(work.tree, view, attached)

ReadOnly == Mounts \cup (IF attached THEN Attachable ELSE {})

\* A path the write rule keeps from a narrow session: it holds a file not shown.
Kept(p) == p \notin view /\ work.tree[p] # <<>>

\* Writing a path that is not shown makes the view show it, and records that.
Staged(w, paths, contents) ==
    [w EXCEPT !.tree = [p \in Paths |-> IF p \in paths THEN contents[p] ELSE w.tree[p]],
              !.rec = IF paths \subseteq view THEN w.rec ELSE view \cup paths]

CommitOf(w) == IF w # Tip THEN Append(commits, w) ELSE commits

MayCommit == Len(commits) < MaxCommits

\* _maybe_commit
MaybeCommit(w) == commits' = IF mode.auto THEN CommitOf(w) ELSE commits

Named == ids < MaxIds /\ ids' = ids + 1

Fault == faults < MaxFaults /\ faults' = faults + 1

-----------------------------------------------------------------------------
(* The machine. *)

\* _state_identity: the commit the tree equals, or none while work is staged.
Identity == IF Dirty THEN 0 ELSE Len(commits)

Resumable == parked # NoMachine /\ Identity # 0 /\ parked.tag = Identity

\* _bind_session: a machine parked at this very commit is taken as it is.
BootOk ==
    /\ unsure' = FALSE
    /\ \/ /\ Resumable
          /\ guest' = Holding(parked.tree)
          /\ parked' = NoMachine
       \/ /\ ~Resumable
          /\ guest' = Holding(Shown)
          /\ parked' \in {parked, NoMachine}

BootFails ==
    /\ Fault
    /\ guest' \in {NoMachine, Dead} /\ unsure' = TRUE
    /\ UNCHANGED parked

\* A call that raises: what it staged stays staged.
Raise == call' = Idle

\* sync_if_stale, then _ensure_session.
NeedsPush == stale /\ guest # NoMachine
NeedsBoot == guest = NoMachine \/ (NeedsPush /\ ~guest.alive)

Sync ==
    /\ call.pc = "sync"
    /\ \/ /\ NeedsBoot
          /\ BootOk
          /\ stale' = FALSE
          /\ call' = [call EXCEPT !.pc = "run"]
          /\ UNCHANGED faults
       \/ /\ NeedsBoot
          /\ BootFails
          /\ stale' = NeedsPush
          /\ Raise
       \/ /\ NeedsPush /\ guest.alive
          /\ guest' = Holding(Shown) /\ unsure' = FALSE
          /\ stale' = FALSE
          /\ call' = [call EXCEPT !.pc = "run"]
          /\ UNCHANGED <<parked, faults>>
       \/ /\ NeedsPush /\ guest.alive
          /\ Fault
          /\ unsure' = TRUE
          /\ Raise
          /\ UNCHANGED <<guest, parked, stale>>
       \/ /\ ~NeedsBoot /\ ~NeedsPush
          /\ call' = [call EXCEPT !.pc = "run"]
          /\ UNCHANGED <<guest, unsure, parked, stale, faults>>
    /\ UNCHANGED <<mode, commits, work, view, attached, open, pending, ids>>

\* A machine may vanish at any time.
Dies ==
    /\ guest # NoMachine /\ guest.alive
    /\ Fault
    /\ guest' = Dead
    /\ UNCHANGED <<mode, commits, work, view, attached, open, stale, pending, unsure, parked,
                   call, ids>>

-----------------------------------------------------------------------------
(* Harvesting. *)

Changed == {p \in Paths : guest.tree[p] # guest.base[p]}

\* Why a harvest, or part of it, does not land.
WhollyRefused == Changed # {} /\ (mode.frozen \/ \E p \in Changed : Kept(p))
\* A harvest refused in part that nobody flags the machine for.
BadRefused == WhollyRefused

Refused == WhollyRefused \/ Changed \cap ReadOnly # {}

Lands == IF WhollyRefused THEN {} ELSE Changed \ ReadOnly

\* The harvest is the machine's new baseline whatever becomes of it.
Rebase == guest' = [guest EXCEPT !.base = guest.tree]

\* _absorb_executor_diff, with these paths applied.
Absorb(paths) ==
    /\ Rebase
    /\ work' = Staged(work, paths, guest.tree)
    /\ view' = view \cup paths

-----------------------------------------------------------------------------
(* A tool call. *)

CallTool(s) ==
    /\ call.pc = "idle" /\ open
    /\ Named
    /\ call' = [Idle EXCEPT !.pc = "sync", !.script = s, !.at = 1, !.id = ids', !.dirty = Dirty]
    /\ UNCHANGED <<mode, commits, work, view, attached, open, stale, pending, guest, unsure,
                   parked, faults>>

Step == call.script.steps[call.at]

Running == call.pc = "run" /\ guest.alive

Advance == [call EXCEPT !.at = @ + 1]

\* The script writes its own copy of the tree.
GuestWrites ==
    /\ Running /\ call.at <= Len(call.script.steps)
    /\ Step.do \in {"append", "remove", "cache"}
    /\ guest' = CASE Step.do = "append" -> [guest EXCEPT !.tree[Step.path] = Append(@, call.id)]
                  [] Step.do = "remove" -> [guest EXCEPT !.tree[Step.path] = <<>>]
                  [] OTHER -> guest
    /\ call' = Advance
    /\ UNCHANGED <<mode, commits, work, view, attached, open, stale, pending, unsure, parked,
                   ids, faults>>

\* The verb's own write goes where the session may write.
Rewrites ==
    Step.verb = "rewrite" /\ ~mode.frozen /\ ~Kept(Step.path) /\ Step.path \notin ReadOnly

\* What the verb then does: read, or be refused its write; commit the tree; or
\* rewrite a file of it.
VerbRuns(landed) ==
    \/ /\ Step.verb # "commit" /\ ~Rewrites
       /\ work' = Staged(work, landed, guest.tree) /\ stale' = stale
       /\ UNCHANGED commits
    \/ /\ Step.verb = "commit" /\ MayCommit
       /\ work' = Staged(work, landed, guest.tree)
       /\ commits' = CommitOf(work') /\ stale' = stale
    \/ /\ Rewrites
       /\ work' = Staged(work, landed \cup {Step.path},
                         [guest.tree EXCEPT ![Step.path] = <<call.id>>])
       /\ stale' = TRUE
       /\ UNCHANGED commits

\* WsVerbHostHandler.run: a ws-* verb works on what the script has written so far.
Verb ==
    /\ Running /\ call.at <= Len(call.script.steps)
    /\ Step.do = "verb" /\ ~Refused
    /\ Rebase
    /\ VerbRuns(Lands)
    /\ view' = view \cup Lands \cup (IF Rewrites THEN {Step.path} ELSE {})
    /\ call' = [Advance EXCEPT !.mid = @ \/ Lands # {} \/ Step.verb = "commit" \/ Rewrites]
    /\ UNCHANGED <<mode, attached, open, pending, unsure, parked, ids, faults>>

\* A verb whose harvest is refused, in whole or in part, is not run.
VerbRefused ==
    /\ Running /\ call.at <= Len(call.script.steps)
    /\ Step.do = "verb" /\ Refused
    /\ Absorb(Lands)
    /\ stale' = TRUE
    /\ call' = [Advance EXCEPT !.mid = @ \/ Lands # {}]
    /\ UNCHANGED <<mode, commits, attached, open, pending, unsure, parked, ids, faults>>

\* _absorb_before_verb: the harvest fails part-way.
VerbSyncFails ==
    /\ Running /\ call.at <= Len(call.script.steps)
    /\ Step.do = "verb" /\ ~Refused /\ Lands # {}
    /\ Fault
    /\ \E some \in SUBSET Lands : some # Lands /\ Absorb(some)
    /\ stale' = TRUE /\ pending' = TRUE
    /\ call' = [Advance EXCEPT !.mid = TRUE]
    /\ UNCHANGED <<mode, commits, attached, open, unsure, parked, ids>>

\* _with_recovery: the machine is lost under the script, which runs again from
\* its start, once.
RunLost ==
    /\ call.pc = "run" /\ ~guest.alive
    /\ \/ /\ ~call.retried
          /\ BootOk
          /\ call' = [call EXCEPT !.at = 1, !.retried = TRUE]
          /\ UNCHANGED faults
       \/ /\ ~call.retried
          /\ BootFails
          /\ Raise
       \/ /\ call.retried
          /\ Raise
          /\ UNCHANGED <<guest, unsure, parked, faults>>
    /\ UNCHANGED <<mode, commits, work, view, attached, open, stale, pending, ids>>

Caching == \E i \in DOMAIN call.script.steps : call.script.steps[i].do = "cache"

\* What a script kept in the cache is written back when it succeeds.
RunEnds ==
    /\ Running /\ call.at > Len(call.script.steps)
    /\ ~(mode.frozen /\ Caching)
    /\ work' = IF Caching THEN [work EXCEPT !.cache = call.id] ELSE work
    /\ call' = [call EXCEPT !.pc = "harvest"]
    /\ UNCHANGED <<mode, commits, view, attached, open, stale, pending, guest, unsure, parked,
                   ids, faults>>

\* _refused_frozen: a frozen session refuses that write, and the call ends there,
\* nothing of it harvested.
WriteBackRefused ==
    /\ Running /\ call.at > Len(call.script.steps)
    /\ mode.frozen /\ Caching
    /\ stale' = TRUE
    /\ call' = Idle
    /\ UNCHANGED <<mode, commits, work, view, attached, open, pending, guest, unsure, parked,
                   ids, faults>>

Harvest ==
    /\ call.pc = "harvest" /\ guest.alive
    /\ Absorb(Lands)
    /\ stale' = (stale \/ Refused)
    /\ call' = [call EXCEPT !.pc = "settle", !.landed = Lands # {}, !.torn = Refused]
    /\ UNCHANGED <<mode, commits, attached, open, pending, unsure, parked, ids, faults>>

\* The provider refuses a write of the harvest: the exception leaves the call.
HarvestFails ==
    /\ call.pc = "harvest" /\ guest.alive
    /\ ~WhollyRefused /\ Lands # {}
    /\ Fault
    /\ \E some \in SUBSET Lands : some # Lands /\ Absorb(some)
    /\ stale' = (stale \/ Refused)
    /\ Raise
    /\ UNCHANGED <<mode, commits, attached, open, pending, unsure, parked, ids>>

\* What a lost call staged is left, or everything staged is dropped.
LeaveUnwound == work
DropUnwound == Tip

\* HarvestLost: what was staged since a clean entry is dropped.
Unwound == IF call.dirty THEN work ELSE Tip

HarvestLost ==
    /\ call.pc = "harvest" /\ ~guest.alive
    /\ \/ /\ BootOk
          /\ work' = Unwound
          /\ call' = [call EXCEPT !.pc = "settle", !.torn = TRUE, !.lost = TRUE]
          /\ UNCHANGED faults
       \/ /\ BootFails
          /\ Raise
          /\ UNCHANGED work
    /\ UNCHANGED <<mode, commits, view, attached, open, stale, pending, ids>>

\* _materialize_ui: a rich value is written as a file of this call's own.
WithArtifact(w) == Staged(w, {Artifact}, [w.tree EXCEPT ![Artifact] = <<call.id>>])
Materializes == call.script.ui /\ ~mode.frozen /\ ~Kept(Artifact) /\ Artifact \notin ReadOnly

\* terminal() unwinds a verb's failed harvest as it does a torn call.
SyncFailed == pending /\ call.script.tool = "terminal"

\* The end of terminal() and run_python().
SettleTorn ==
    /\ call.pc = "settle" /\ (call.torn \/ SyncFailed)
    /\ MayCommit
    /\ work' = IF SyncFailed THEN Unwound ELSE work
    /\ pending' = (pending /\ call.script.tool # "terminal")
    /\ IF call.landed THEN MaybeCommit(work') ELSE UNCHANGED commits
    /\ call' = Idle
    /\ UNCHANGED <<mode, view, attached, open, stale, guest, unsure, parked, ids, faults>>

Settle ==
    /\ call.pc = "settle" /\ ~call.torn /\ ~SyncFailed
    /\ MayCommit
    /\ work' = IF Materializes THEN WithArtifact(work) ELSE work
    /\ view' = IF Materializes THEN view \cup {Artifact} ELSE view
    /\ stale' = (stale \/ Materializes)
    /\ MaybeCommit(work')
    /\ call' = Idle
    /\ UNCHANGED <<mode, attached, open, pending, guest, unsure, parked, ids, faults>>

-----------------------------------------------------------------------------
(* The host, under the workspace's lock between calls. *)

HostTurn == call.pc = "idle" /\ open

Untouched == UNCHANGED <<mode, open, pending, guest, unsure, parked, call, faults>>

MayWrite(p) == ~Kept(p) /\ p \notin ReadOnly

\* ws.files.write / edit / put: a commit of its own.
FilesWrite(p) ==
    /\ HostTurn /\ ~mode.frozen /\ MayWrite(p) /\ MayCommit
    /\ Named
    /\ work' = Staged(work, {p}, [work.tree EXCEPT ![p] = <<ids'>>])
    /\ view' = view \cup {p}
    /\ stale' = TRUE
    /\ MaybeCommit(work')
    /\ Untouched /\ UNCHANGED attached

FilesRemove(p) ==
    /\ HostTurn /\ ~mode.frozen /\ MayCommit
    /\ Shown[p] # <<>> /\ p \notin ReadOnly
    /\ work' = [work EXCEPT !.tree[p] = <<>>]
    /\ stale' = TRUE
    /\ MaybeCommit(work')
    /\ Untouched /\ UNCHANGED <<view, attached, ids>>

\* ws.files.fs.write: stages, and flags the machine; nothing commits.
RawWrite(p) ==
    /\ HostTurn /\ ~mode.frozen /\ MayWrite(p)
    /\ Named
    /\ work' = Staged(work, {p}, [work.tree EXCEPT ![p] = <<ids'>>])
    /\ view' = view \cup {p}
    /\ stale' = TRUE
    /\ Untouched /\ UNCHANGED <<commits, attached>>

\* ws.cache[...] = ...: the cache is not part of the machine's tree.
CacheWrite ==
    /\ HostTurn /\ ~mode.frozen
    /\ Named
    /\ work' = [work EXCEPT !.cache = ids']
    /\ Untouched /\ UNCHANGED <<commits, view, attached, stale>>

Commit ==
    /\ HostTurn /\ ~mode.frozen /\ MayCommit /\ Dirty
    /\ commits' = CommitOf(work)
    /\ Untouched /\ UNCHANGED <<work, view, attached, stale, ids>>

\* ws.checkout(commit): the whole recorded state, the view's record with it.
Checkout(c) ==
    /\ HostTurn /\ ~mode.frozen /\ MayCommit
    /\ work' = commits[c]
    /\ commits' = CommitOf(work')
    /\ stale' = TRUE
    /\ Untouched /\ UNCHANGED <<view, attached, ids>>

\* ws.checkout(ref, paths=): a path made to match a commit.
Take(c, p) ==
    /\ HostTurn /\ ~mode.frozen /\ MayCommit
    /\ commits[c].tree[p] # <<>> /\ MayWrite(p)
    /\ work' = Staged(work, {p}, commits[c].tree)
    /\ view' = view \cup {p}
    /\ stale' = TRUE
    /\ MaybeCommit(work')
    /\ Untouched /\ UNCHANGED <<attached, ids>>

Discard ==
    /\ HostTurn
    /\ work' = Tip
    /\ stale' = TRUE
    /\ Untouched /\ UNCHANGED <<commits, view, attached, ids>>

\* ws.index.merge: another session's file arrives whatever the view shows; one
\* left in conflict joins the view, in a commit of its own.
Merge(p, conflicted) ==
    /\ HostTurn /\ ~mode.frozen /\ Len(commits) + 1 < MaxCommits /\ ~Dirty
    /\ conflicted => Tip.tree[p] # <<>>
    /\ Named
    /\ LET merged == [work EXCEPT !.tree[p] = <<ids'>>]
           shown == conflicted /\ p \notin view
       IN  /\ work' = IF shown THEN [merged EXCEPT !.rec = view \cup {p}] ELSE merged
           /\ view' = IF shown THEN view \cup {p} ELSE view
           /\ commits' = IF shown THEN commits \o <<merged, work'>> ELSE Append(commits, merged)
    /\ stale' = TRUE
    /\ Untouched /\ UNCHANGED attached

Attach ==
    /\ HostTurn /\ ~attached /\ Attachable # {}
    /\ attached' = TRUE /\ stale' = TRUE
    /\ Untouched /\ UNCHANGED <<commits, work, view, ids>>

Detach ==
    /\ HostTurn /\ attached
    /\ attached' = FALSE /\ stale' = TRUE
    /\ Untouched /\ UNCHANGED <<commits, work, view, ids>>

\* warm(): boots ahead of the first call.
Warm ==
    /\ HostTurn /\ guest = NoMachine
    /\ BootOk
    /\ UNCHANGED <<mode, commits, work, view, attached, open, stale, pending, call, ids, faults>>

-----------------------------------------------------------------------------
(* Closing, and opening again. *)

\* Runtime.close settles the stale flag first, and swallows a failure.
SyncedAtClose ==
    IF stale /\ guest # NoMachine
    THEN {[machine |-> Holding(Shown), unsure |-> FALSE]}
         \cup (IF faults < MaxFaults THEN {[machine |-> guest, unsure |-> TRUE]} ELSE {})
    ELSE {[machine |-> guest, unsure |-> unsure]}

\* A push that failed at the close is not remembered.
BadParkedAs(s) ==
    IF s.machine = NoMachine \/ ~mode.pooled THEN parked
    ELSE IF ~s.machine.alive THEN parked
    ELSE [tag |-> Identity, tree |-> s.machine.tree]

\* Parked under the commit its tree holds, or under none.
ParkedAs(s) ==
    IF s.machine = NoMachine \/ ~mode.pooled THEN parked
    ELSE IF ~s.machine.alive THEN parked
    ELSE [tag |-> IF s.unsure THEN 0 ELSE Identity, tree |-> s.machine.tree]

Gone ==
    /\ open' = FALSE /\ attached' = FALSE
    /\ stale' = FALSE /\ pending' = FALSE
    /\ guest' = NoMachine /\ unsure' = FALSE
    /\ work' = Tip
    /\ UNCHANGED <<mode, commits, view, call, ids>>

Close ==
    /\ HostTurn
    /\ \E s \in SyncedAtClose :
          /\ parked' = ParkedAs(s)
          /\ faults' = IF s.unsure /\ ~unsure THEN faults + 1 ELSE faults
    /\ Gone

\* The process ends: its machine is not parked, nor its staged work kept.
Crash ==
    /\ open
    /\ call' = Idle
    /\ open' = FALSE /\ attached' = FALSE
    /\ stale' = FALSE /\ pending' = FALSE
    /\ guest' = NoMachine /\ unsure' = FALSE
    /\ work' = Tip
    /\ UNCHANGED <<mode, commits, view, parked, ids, faults>>

Open ==
    /\ ~open
    /\ open' = TRUE
    /\ view' = Tip.rec
    /\ UNCHANGED <<mode, commits, work, attached, stale, pending, guest, unsure, parked, call,
                   ids, faults>>

-----------------------------------------------------------------------------
CallStep ==
    \/ \E s \in Scripts : CallTool(s)
    \/ Sync \/ GuestWrites \/ Verb \/ VerbRefused \/ VerbSyncFails
    \/ RunLost \/ RunEnds \/ WriteBackRefused \/ Harvest \/ HarvestLost \/ SettleTorn \/ Settle

HostStep ==
    \/ \E p \in Paths : FilesWrite(p) \/ FilesRemove(p) \/ RawWrite(p)
    \/ \E c \in 1..Len(commits) : Checkout(c) \/ \E p \in Paths : Take(c, p)
    \/ \E p \in Paths, conflicted \in BOOLEAN : Merge(p, conflicted)
    \/ CacheWrite \/ Commit \/ Discard \/ Detach \/ Warm \/ Crash \/ Open

Next == CallStep \/ HostStep \/ Dies \/ HarvestFails \/ Attach \/ Close

Spec == Init /\ [][Next]_vars

\* The same, without the turns of events README.md lists under the workspace's
\* findings: a machine lost behind a harvest that a verb already took; a harvest
\* that fails at the end of a call; a machine parked, or resumed, where the tree
\* shows more than the commit holds.
TidyNext ==
    \/ CallStep \/ HostStep
    \/ Dies /\ ~call.mid /\ ~pending
    \/ Attach /\ ~mode.pooled
    \/ Close /\ (mode.pooled => view = work.rec)

TidySpec == Init /\ [][TidyNext]_vars

-----------------------------------------------------------------------------
(* Properties. *)

\* Every variable has its type.
TypeOK ==
    /\ mode \in OpenedAs
    /\ commits \in Seq(States) /\ Len(commits) \in 1..(MaxCommits + 1)
    /\ work \in States
    /\ view \subseteq Paths
    /\ {attached, open, stale, pending, unsure} \subseteq BOOLEAN
    /\ guest = NoMachine \/ guest \in Machines
    /\ parked = NoMachine \/ parked \in ParkedMachines
    /\ call.pc \in {"idle", "sync", "run", "harvest", "settle"}
    /\ call.script \in Scripts \cup {NoScript}
    /\ call.id \in 0..MaxIds /\ ids \in 1..MaxIds /\ faults \in 0..MaxFaults

\* Between calls, a machine not flagged for a push holds exactly the files the
\* session is shown: no file of a call that was undone, none the host has since
\* changed, none a refused call wrote.
GuestIsTheWorkspace == TypeOK /\
    ((call.pc = "idle" /\ guest # NoMachine /\ ~stale /\ ~unsure /\ guest.alive)
        => guest.tree = Shown)

\* A machine parked under a commit holds that commit's files, as a session opened
\* at it is shown them; resuming it needs no push.
ParkedIsItsCommit ==
    (parked # NoMachine /\ parked.tag # 0) =>
        LET c == commits[parked.tag] IN parked.tree = ShownOf(c.tree, c.rec, FALSE)

\* What a call under way may have staged before its end: what a verb of it took
\* from the guest or wrote, and what its run kept in the cache.
StagedEarly == call.mid \/ (Caching /\ call.pc \in {"harvest", "settle"})

\* It ends with that left staged: it raises, or the last harvest is refused whole
\* and no verb's harvest failed before it.
LeavesEarly ==
    \/ call.pc # "settle"
    \/ call.torn /\ ~call.landed /\ ~call.lost /\ ~SyncFailed

\* It raises out of a last harvest that was being staged.
HarvestRaises == call.pc = "harvest" /\ guest.alive

\* On an autocommit workspace a call that found nothing staged leaves nothing
\* staged, however it ends: what of it landed is committed under its own name, and
\* what did not is gone, a lost machine's cache entries and a verb's failed
\* harvest included.  A call that raises, or whose harvest is refused whole,
\* leaves no more than it had staged before that.
EachCallSettles ==
    [][(call.pc # "idle" /\ call'.pc = "idle" /\ open' /\ mode.auto /\ ~call.dirty)
           => \/ work' = Tip'
              \/ StagedEarly /\ LeavesEarly /\ work' = work
              \/ HarvestRaises]_vars

\* A file with a write of this call's in it.
Wrote(id, content) == \E i \in DOMAIN content : content[i] = id

\* A call that found earlier work staged never puts a staged file back to what was
\* committed before it: that work is not the call's to drop.
EarlierWorkIsKept ==
    [][(call.pc # "idle" /\ open' /\ call.dirty /\ commits' = commits) =>
           \A p \in Paths : work.tree[p] # Tip.tree[p] /\ Tip.tree[p] # <<>>
                             /\ ~Wrote(call.id, Tip.tree[p])
                                => work'.tree[p] # Tip.tree[p]]_vars

(* What the documentation says and the code does not do *)

\* However often its script ran, a call's write is in a file once.
WritesLandOnce ==
    \A p \in Paths : \A i, j \in DOMAIN work.tree[p] :
        work.tree[p][i] = work.tree[p][j] => i = j

\* What is shown is what is recorded to be shown.
ViewIsItsRecord == (open /\ call.pc = "idle") => view = work.rec
=============================================================================
