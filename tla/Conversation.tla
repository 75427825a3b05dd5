---------------------------- MODULE Conversation ----------------------------
(* The stored conversation of a session (src/nontainer/conversation.py), as *)
(* the agno database writes it (adapters/agno_db.py), folds compact it      *)
(* (compaction.py, adapters/agno_compaction.py) and forks and checkouts     *)
(* carry it (workspace/core.py).                                            *)
(*                                                                          *)
(* A session's branch holds one conversation in the same commits as the     *)
(* files its runs wrote.  An index names the session it belongs to and its  *)
(* runs in order; each run has a body.  A branch never written since the    *)
(* plane moved holds both under the legacy keys instead.  Every database    *)
(* call holds the workspace's lock, so it is one step here; what the agent  *)
(* loop read before a call, and writes after others have written, is not.   *)
(*                                                                          *)
(* Abstracted: a run is its id, its status and whether it has written       *)
(* files; the harness's own session record, lineage, names, users and       *)
(* timestamps are left out, and so is a conversation of another harness.    *)
(* Files brought from another session (a merge, a take) are no run's here.  *)
EXTENDS Integers, SequencesExt

CONSTANTS
    Sessions,       \* session ids, which are also the branch names
    First,          \* the session whose branch is there from the start
    Earlier,        \* the runs it has had by then, in order
    Runs,           \* run ids, each minted once
    Folded,         \* how many of those its last fold covers
    ReadLimits,     \* how many runs a loop reads back: a set of numbers
    Absent, NoRun, NoOwner,
    MaxCommits, MaxLoops   \* bounds of the model

ASSUME FirstAssumption == First \in Sessions
ASSUME LimitAssumption == ReadLimits \subseteq Nat \ {0}
ASSUME EarlierAssumption ==
    Earlier \in Seq(Runs) /\ IsInjective(Earlier) /\ Folded \in 0 .. Len(Earlier)
ASSUME BoundAssumption == {MaxCommits, MaxLoops} \subseteq Nat

VARIABLES
    commits,    \* every commit: what it holds and its parent
    head,       \* the commit at each branch's head, 0 for no branch
    staged,     \* what each live workspace holds: its head and its buffer
    loop,       \* the agent loop of each session
    minted,     \* the run ids given out
    unstored    \* runs whose record was lost, dropped or refused

vars == <<commits, head, staged, loop, minted, unstored>>

-----------------------------------------------------------------------------
(* The keys of the two planes, and what is read from them. *)

Index == <<"index", NoRun>>
LegacyIndex == <<"legacy-index", NoRun>>
Body(r) == <<"run", r>>
LegacyBody(r) == <<"legacy-run", r>>
LegacyKeys == {LegacyIndex} \cup {LegacyBody(r) : r \in Runs}
Keys == {Index} \cup {Body(r) : r \in Runs} \cup LegacyKeys

Statuses == {"running", "cancelled", "completed"}
IndexType == [owner : Sessions, runs : Seq(Runs)]
ASSUME AbsentAssumption == Absent \notin IndexType \cup Statuses /\ NoRun \notin Runs

Folds == [through : Runs, covers : SUBSET Runs]
NoIndex == [owner |-> NoOwner, runs |-> <<>>]

Empty == [kv |-> [k \in Keys |-> Absent], folds |-> <<>>, files |-> {}]

OnLegacy(kv) == kv[Index] = Absent /\ kv[LegacyIndex] # Absent
ReadIndex(kv) ==
    IF kv[Index] # Absent THEN kv[Index]
    ELSE IF kv[LegacyIndex] # Absent THEN kv[LegacyIndex] ELSE NoIndex
Holds(kv) == ReadIndex(kv) # NoIndex
ReadRun(kv, r) == IF OnLegacy(kv) THEN kv[LegacyBody(r)] ELSE kv[Body(r)]

IndexOf(s) == ReadIndex(staged[s].kv)
RunsOf(s) == ToSet(IndexOf(s).runs)

-----------------------------------------------------------------------------
(* conversation.write: every change is planned, the index last, and those   *)
(* made are put back when one of them fails.                                *)

Plan(kv, index, bodies, dropped) ==
    LET given == DOMAIN bodies
        migrating == kv[LegacyIndex] # Absent
        carried == {r \in ToSet(index.runs) \ (given \cup dropped) :
                       migrating /\ kv[LegacyBody(r)] # Absent}
        put == {Body(r) : r \in given \cup carried}
        gone == {Body(r) : r \in dropped} \cup (IF migrating THEN LegacyKeys ELSE {})
    IN  [k \in {Index} \cup put \cup gone |->
            IF k = Index THEN index
            ELSE IF k \notin put THEN Absent
            ELSE IF k[2] \in given THEN bodies[k[2]] ELSE kv[LegacyBody(k[2])]]

Made(kv, plan, done) == [k \in Keys |-> IF k \in done THEN plan[k] ELSE kv[k]]
Wrote(kv, plan) == Made(kv, plan, DOMAIN plan)

\* The put-back: a key the write changed is as it was, or gone again.
BadPutBack(kv, torn, done) == [k \in Keys |-> IF k \in done /\ kv[k] # Absent THEN kv[k] ELSE torn[k]]
PutBack(kv, torn, done) == [k \in Keys |-> IF k \in done THEN kv[k] ELSE torn[k]]

\* What a write may have done when it fails: a migration's deletes come first,
\* then the runs dropped, then the bodies.
Partway(plan) ==
    LET keys == DOMAIN plan \ {Index}
        legacy == keys \cap LegacyKeys
        put == {k \in keys : plan[k] # Absent}
        dropped == keys \ (legacy \cup put)
    IN  SUBSET legacy \cup {legacy \cup done : done \in SUBSET dropped}
        \cup {legacy \cup dropped \cup done : done \in SUBSET put}

\* The kv a write can leave, and whether it raised.
Writes(kv, index, bodies, dropped) ==
    LET plan == Plan(kv, index, bodies, dropped)
    IN  {[kv |-> Wrote(kv, plan), raised |-> FALSE]}
        \cup {[kv |-> PutBack(kv, Made(kv, plan, done), done), raised |-> TRUE] :
                  done \in Partway(plan)}

Only(r, status) == [x \in {r} |-> status]
NoBodies == [x \in {} |-> Absent]

\* rebind and reclaim: the conversation becomes this session's own.
BadRebound(c, s) == c
Rebound(c, s) ==
    LET index == ReadIndex(c.kv)
    IN  IF index.owner \in {NoOwner, s} THEN c
        ELSE [c EXCEPT !.kv = Wrote(@, Plan(@, [index EXCEPT !.owner = s], NoBodies, {}))]

\* wipe and clear, which delete key by key: a delete the store refuses on the
\* way, which nothing puts back, is not modelled.
Cleared(c) == [c EXCEPT !.kv = Empty.kv]
Wiped(c) == [Cleared(c) EXCEPT !.folds = <<>>]
\* fork_session with a fresh conversation: the index stays, with no runs.
Emptied(c) ==
    LET index == ReadIndex(c.kv)
        stored == {r \in Runs : c.kv[Body(r)] # Absent}
        plan == Plan(c.kv, [index EXCEPT !.runs = <<>>], NoBodies, stored \cup ToSet(index.runs))
    IN  [c EXCEPT !.folds = <<>>, !.kv = IF Holds(@) THEN Wrote(@, plan) ELSE @]

-----------------------------------------------------------------------------
(* Commits: each holds the files and the conversation together. *)

Live(s) == head[s] # 0
HeadOf(s) == commits[head[s]].holds
Uncommitted(s) == staged[s] # HeadOf(s)

\* The commits of a branch's history, its head included.
Past[c \in 0 .. Len(commits)] == IF c = 0 THEN {} ELSE {c} \cup Past[commits[c].parent]

\* A branch of a log once these contents have been committed on it: what
\* changes nothing makes no commit.
Extend(branch, contents) ==
    IF contents = branch.log[branch.head].holds THEN branch
    ELSE [log |-> Append(branch.log, [holds |-> contents, parent |-> branch.head]),
          head |-> Len(branch.log) + 1]

Branch(at) == [log |-> commits, head |-> at]

Leave(s, holds) ==
    staged' = [staged EXCEPT ![s] = holds] /\ UNCHANGED <<commits, head>>
Commit(s, holds) ==
    LET landed == Extend(Branch(head[s]), holds)
    IN  /\ Len(landed.log) <= MaxCommits
        /\ commits' = landed.log
        /\ head' = [head EXCEPT ![s] = landed.head]
Land(s, holds) == staged' = [staged EXCEPT ![s] = holds] /\ Commit(s, holds)

-----------------------------------------------------------------------------
(* The agent loop.  It reads the session when its run begins, and writes it *)
(* back with the run: said and rest are the request its model is sent, the  *)
(* summary's coverage and the earlier runs in full.                         *)

Idle == [at |-> "idle", run |-> NoRun, prior |-> <<>>, turn |-> FALSE, whole |-> TRUE,
         said |-> {}, anchor |-> NoRun, rest |-> <<>>]

At(s, phase) == loop[s].at = phase
Goto(s, phase) ==
    loop' = [loop EXCEPT ![s] = IF phase = "idle" THEN Idle ELSE [@ EXCEPT !.at = phase]]
\* Once the run is written, or lost, an open turn is still to be ended.
Over(s) == IF loop[s].turn THEN "ending" ELSE "idle"

\* The first session has runs behind it, on the legacy plane or on its own.
Init ==
    /\ \E legacy \in BOOLEAN :
          LET index == [owner |-> First, runs |-> Earlier]
              named(k) == k = IF legacy THEN LegacyIndex ELSE Index
              stored(k) == k \in {IF legacy THEN LegacyBody(r) ELSE Body(r) : r \in ToSet(Earlier)}
              kv == [k \in Keys |-> IF named(k) THEN index
                                    ELSE IF stored(k) THEN "completed" ELSE Absent]
              fold == [through |-> Earlier[Folded], covers |-> ToSet(SubSeq(Earlier, 1, Folded))]
              c == [kv |-> kv, folds |-> IF Folded = 0 THEN <<>> ELSE <<fold>>,
                    files |-> ToSet(Earlier)]
          IN  /\ commits = <<[holds |-> c, parent |-> 0]>>
              /\ staged = [s \in Sessions |-> IF s = First THEN c ELSE Empty]
              /\ minted = ToSet(Earlier)
    /\ head = [s \in Sessions |-> IF s = First THEN 1 ELSE 0]
    /\ loop = [s \in Sessions |-> Idle]
    /\ unstored = {}

\* The run begins: the session's last runs are read, and the session record
\* is created, uncommitted, when there is none.
BeginRun(s, r, limit, turn) ==
    LET index == IndexOf(s)
        n == Len(index.runs)
        prior == SubSeq(index.runs, IF n > limit THEN n - limit + 1 ELSE 1, n)
    IN  /\ Live(s) /\ At(s, "idle")
        /\ Cardinality({t \in Sessions : ~At(t, "idle")}) < MaxLoops
        /\ r \notin minted /\ minted' = minted \cup {r}
        /\ index.owner \in {NoOwner, s}
        /\ \E w \in IF Holds(staged[s].kv) THEN {[kv |-> staged[s].kv, raised |-> FALSE]}
                    ELSE Writes(staged[s].kv, [owner |-> s, runs |-> <<>>], NoBodies, {}) :
              /\ ~w.raised
              /\ Leave(s, [staged[s] EXCEPT !.kv = w.kv])
        /\ loop' = [loop EXCEPT ![s] = [at |-> "running", run |-> r, prior |-> prior,
                                         turn |-> turn, whole |-> prior = index.runs,
                                         said |-> {}, anchor |-> NoRun, rest |-> prior]]
        /\ UNCHANGED <<unstored>>

\* A tool call of the run writes a file; commit="turn" leaves it staged.
ToolCall(s) ==
    /\ At(s, "running") /\ loop[s].run \notin staged[s].files
    /\ Leave(s, [staged[s] EXCEPT !.files = @ \cup {loop[s].run}])
    /\ UNCHANGED <<loop, minted, unstored>>

InForce(folds, present) ==
    LET usable == {i \in DOMAIN folds : folds[i].through \in present}
    IN  {folds[i] : i \in {j \in usable : \A l \in usable : l <= j}}

\* What a fold made now records: it stands for all that it was made from.
BadFoldOf(said, rest) == [through |-> Last(rest), covers |-> ToSet(rest)]
FoldOf(said, rest) == [through |-> Last(rest), covers |-> said \cup ToSet(rest)]

\* A request to the model: the fold in force stands for what it covers, and
\* over the budget the rest is folded too.  A loop that compacts reads every
\* run back (docs/compaction.md).
Ask(s, due) ==
    LET l == loop[s]
        present == ToSet(l.rest) \cup ({l.anchor} \ {NoRun})
        fold == {f \in InForce(staged[s].folds, present) : f.through # l.anchor}
        after(f) == SelectInSeq(l.rest, LAMBDA r : r = f.through)
        Apply(f) == [l EXCEPT !.said = f.covers, !.anchor = f.through,
                              !.rest = SubSeq(@, after(f) + 1, Len(@))]
        seen == IF fold = {} THEN l ELSE Apply(CHOOSE f \in fold : TRUE)
        made == FoldOf(seen.said, seen.rest)
    IN  /\ At(s, "running") /\ loop[s].whole
        /\ IF due /\ seen.rest # <<>>
           THEN /\ Leave(s, [staged[s] EXCEPT !.folds = Append(@, made)])
                /\ loop' = [loop EXCEPT ![s] = [seen EXCEPT !.said = made.covers,
                                                  !.anchor = made.through, !.rest = <<>>]]
           ELSE /\ seen # l
                /\ loop' = [loop EXCEPT ![s] = seen]
                /\ UNCHANGED <<staged, commits, head>>
        /\ UNCHANGED <<minted, unstored>>

-----------------------------------------------------------------------------
(* Writing the run back. *)

\* What a session upsert with these runs finds and would leave.
Known(s) == IndexOf(s).runs
PriorOf(s, incoming) ==
    IF incoming # <<>> /\ Last(incoming) \notin ToSet(Known(s)) THEN Front(incoming) ELSE incoming
Kept(s, incoming) == Len(Known(s)) - Len(PriorOf(s, incoming))
LeadsOn(s, incoming) ==
    /\ IndexOf(s).owner \in {NoOwner, s}
    /\ Kept(s, incoming) >= 0
    /\ SubSeq(Known(s), Kept(s, incoming) + 1, Len(Known(s))) = PriorOf(s, incoming)
BadUpsertedRuns(s, incoming) == incoming
UpsertedRuns(s, incoming) == SubSeq(Known(s), 1, Kept(s, incoming)) \o incoming

\* upsert_session: refused, failed partway, or written, and committed when it
\* changed a run and no turn is open.  then is where the loop goes next.
Upsert(s, incoming, status, next, lost) ==
    LET r == Last(incoming)
        changed == IF ReadRun(staged[s].kv, r) = status THEN NoBodies ELSE Only(r, status)
        index == [owner |-> s, runs |-> UpsertedRuns(s, incoming)]
    IN  \/ /\ ~LeadsOn(s, incoming)
           /\ Goto(s, lost) /\ unstored' = unstored \cup {r}
           /\ UNCHANGED <<commits, head, staged>>
        \/ /\ LeadsOn(s, incoming)
           /\ \E w \in Writes(staged[s].kv, index, changed, {}) :
                 LET holds == [staged[s] EXCEPT !.kv = w.kv]
                 IN  IF w.raised
                     THEN /\ Leave(s, holds) /\ Goto(s, lost)
                          /\ unstored' = unstored \cup ({r} \ RunsOf(s))
                     ELSE /\ IF changed = NoBodies \/ loop[s].turn THEN Leave(s, holds)
                             ELSE Land(s, holds)
                          /\ Goto(s, next) /\ UNCHANGED unstored

\* A checkpoint stores the run while it runs.
Checkpoint(s) ==
    /\ At(s, "running")
    /\ ReadRun(staged[s].kv, loop[s].run) = Absent
    /\ Upsert(s, Append(loop[s].prior, loop[s].run), "running", "running", Over(s))
    /\ UNCHANGED minted

\* The run is over and stored, with the status the loop gives it.
Finish(s, status) ==
    /\ At(s, "running")
    /\ Upsert(s, Append(loop[s].prior, loop[s].run), status,
              IF status = "cancelled" THEN "cut" ELSE "stored", Over(s))
    /\ UNCHANGED minted

\* A provider failure raises out of the loop with nothing stored.
Abandon(s) ==
    /\ At(s, "running")
    /\ Goto(s, Over(s)) /\ unstored' = unstored \cup {loop[s].run}
    /\ UNCHANGED <<commits, head, staged, minted>>

\* agno 3 writes the run's row after its session, and so does a kept run;
\* agno 2 does not.
StoreRow(s, status) ==
    LET r == loop[s].run
        index == IndexOf(s)
        listed == IF r \in ToSet(index.runs) THEN index.runs ELSE Append(index.runs, r)
        changed == IF ReadRun(staged[s].kv, r) = status THEN NoBodies ELSE Only(r, status)
    IN  IF index.owner # s \/ (changed = NoBodies /\ listed = index.runs)
        THEN UNCHANGED <<commits, head, staged>>
        ELSE \E w \in Writes(staged[s].kv, [index EXCEPT !.runs = listed], changed, {}) :
                Leave(s, [staged[s] EXCEPT !.kv = w.kv])
UpsertRun(s, written) ==
    /\ At(s, "stored")
    /\ IF written THEN StoreRow(s, "completed") ELSE UNCHANGED <<commits, head, staged>>
    /\ Goto(s, Over(s))
    /\ UNCHANGED <<minted, unstored>>

\* keep_aborted_run reads the session in one call and writes it in the next,
\* the cancelled run marked completed.  A session has one loop at a time, so
\* that run is the last of those it read.
KeepRead(s) ==
    LET index == IndexOf(s)
    IN  /\ At(s, "cut")
        /\ IF index.owner = s /\ loop[s].run \in ToSet(index.runs)
                 /\ ReadRun(staged[s].kv, loop[s].run) = "cancelled"
           THEN loop' = [loop EXCEPT ![s].at = "keeping", ![s].prior = index.runs]
           ELSE Goto(s, Over(s))
        /\ UNCHANGED <<commits, head, staged, minted, unstored>>
KeepWrite(s) ==
    /\ At(s, "keeping")
    /\ Upsert(s, loop[s].prior, "completed", "stored", Over(s))
    /\ UNCHANGED minted

\* The turn's end commits what is staged, whatever became of the run.
EndTurn(s) ==
    /\ At(s, "ending")
    /\ Land(s, staged[s])
    /\ Goto(s, "idle")
    /\ UNCHANGED <<minted, unstored>>

\* A harness without a database stores the run with the turn's end: a write
\* that fails ends the turn without a commit.
EndWithBody(s) ==
    LET r == loop[s].run
        index == IndexOf(s)
        listed == IF r \in ToSet(index.runs) THEN index.runs ELSE Append(index.runs, r)
    IN  /\ At(s, "running") /\ loop[s].turn
        /\ \E w \in Writes(staged[s].kv, [owner |-> s, runs |-> listed], Only(r, "completed"), {}) :
              LET holds == [staged[s] EXCEPT !.kv = w.kv]
              IN  IF w.raised
                  THEN Leave(s, holds) /\ unstored' = unstored \cup ({r} \ RunsOf(s))
                  ELSE Land(s, holds) /\ UNCHANGED unstored
        /\ Goto(s, "idle")
        /\ UNCHANGED minted

-----------------------------------------------------------------------------
(* What others do to the session, between the loop's calls. *)

\* A delete made between turns commits; beside uncommitted work it stays with
\* that work.
BadManagement(s, holds) == Land(s, holds)
Management(s, holds) ==
    IF ~Uncommitted(s) /\ ~loop[s].turn
    THEN Land(s, holds) ELSE Leave(s, holds)

\* The runs that are not r, in their order.
Without(runs, r) ==
    LET left[i \in 0 .. Len(runs)] == IF i = 0 THEN <<>>
                                      ELSE IF runs[i] = r THEN left[i - 1]
                                      ELSE Append(left[i - 1], runs[i])
    IN  left[Len(runs)]

DeleteRun(s, r) ==
    LET index == IndexOf(s)
        left == [index EXCEPT !.runs = Without(@, r)]
    IN  /\ Live(s) /\ r \in ToSet(index.runs)
        /\ \E w \in Writes(staged[s].kv, left, NoBodies, {r}) :
              LET holds == [staged[s] EXCEPT !.kv = w.kv]
              IN  IF w.raised THEN Leave(s, holds) /\ UNCHANGED unstored
                  ELSE Management(s, holds) /\ unstored' = unstored \cup {r}
        /\ UNCHANGED <<loop, minted>>

DeleteSession(s) ==
    /\ Live(s) /\ Holds(staged[s].kv) /\ IndexOf(s).owner = s
    /\ Management(s, Cleared(staged[s]))
    /\ unstored' = unstored \cup RunsOf(s)
    /\ UNCHANGED <<loop, minted>>

\* A checkout lands an earlier commit of the branch's history again, as this
\* session's own; uncommitted work is dropped.
Checkout(s, c) ==
    LET target == Rebound(commits[c].holds, s)
    IN  /\ Live(s) /\ c \in Past[head[s]]
        /\ Land(s, target)
        /\ unstored' = unstored \cup (RunsOf(s) \ ToSet(ReadIndex(target.kv).runs))
        /\ UNCHANGED <<loop, minted>>

Discard(s) ==
    /\ Live(s) /\ Uncommitted(s)
    /\ Leave(s, HeadOf(s))
    /\ unstored' = unstored \cup (RunsOf(s) \ ToSet(ReadIndex(HeadOf(s).kv).runs))
    /\ UNCHANGED <<loop, minted>>

\* What a run has staged may be committed before its record is: all of it by the
\* host's ws.commit, or by a ws-git verb of the run that settles the session
\* first; files alone by the agent's ws-git commit, whose commits are keyed.
CommitAll(s) ==
    /\ Live(s) /\ Uncommitted(s)
    /\ Commit(s, staged[s])
    /\ UNCHANGED <<staged, loop, minted, unstored>>
CommitFiles(s, taken) ==
    /\ Live(s) /\ taken # {} /\ taken \subseteq staged[s].files \ HeadOf(s).files
    /\ Commit(s, [HeadOf(s) EXCEPT !.files = @ \cup taken])
    /\ UNCHANGED <<staged, loop, minted, unstored>>
ByHand(s) == CommitAll(s) \/ \E taken \in SUBSET staged[s].files : CommitFiles(s, taken)

\* A fork begins at a commit, the head with the staged work committed first
\* when none is named, and makes the conversation its own, or drops it, in
\* commits of its own.
Inheritances == {"full", "fresh", "fresh-session"}
Seeded(base, k, inherit) ==
    LET c == base.log[base.head].holds
        rebound == Rebound(c, k)
    IN  CASE inherit = "full" -> Extend(base, rebound)
          [] inherit = "fresh" -> Extend(base, Wiped(c))
          [] inherit = "fresh-session" -> Extend(Extend(base, rebound), Emptied(rebound))

Fork(p, k, at, inherit) ==
    LET own == Extend(Branch(head[p]), staged[p])
        child == Seeded(IF at = 0 THEN own ELSE Branch(at), k, inherit)
    IN  /\ Live(p) /\ ~Live(k) /\ at \in {0} \cup Past[head[p]]
        /\ Len(child.log) <= MaxCommits
        /\ commits' = child.log
        /\ head' = [head EXCEPT ![k] = child.head, ![p] = IF at = 0 THEN own.head ELSE @]
        /\ staged' = [staged EXCEPT ![k] = child.log[child.head].holds]
        /\ UNCHANGED <<loop, minted, unstored>>

\* agno's own fork: its copy of a conversation, under a fresh id, is written
\* into a branch that holds no run.
Seed(k, r) ==
    LET index == [owner |-> k, runs |-> <<r>>]
    IN  /\ Live(k) /\ k # First /\ IndexOf(k).runs = <<>> /\ At(k, "idle")
        /\ r \notin minted /\ minted' = minted \cup {r}
        /\ \E w \in Writes(staged[k].kv, index, Only(r, "completed"), {}) :
              LET holds == [staged[k] EXCEPT !.kv = w.kv]
              IN  IF w.raised THEN Leave(k, holds) ELSE Land(k, holds)
        /\ UNCHANGED <<loop, unstored>>

\* The host ends: what is staged is gone, and every loop with it.
Crash ==
    /\ \E s \in Sessions : Live(s) /\ (Uncommitted(s) \/ ~At(s, "idle"))
    /\ staged' = [s \in Sessions |-> IF Live(s) THEN HeadOf(s) ELSE staged[s]]
    /\ loop' = [s \in Sessions |-> Idle]
    /\ unstored' = unstored \cup {r \in minted : \A s \in Sessions :
                      Live(s) => r \notin ToSet(ReadIndex(HeadOf(s).kv).runs)}
    /\ UNCHANGED <<commits, head, minted>>

ByItsLoop(s) ==
    \/ \E r \in Runs, n \in ReadLimits, turn \in BOOLEAN : BeginRun(s, r, n, turn)
    \/ ToolCall(s) \/ Ask(s, TRUE) \/ Ask(s, FALSE) \/ Checkpoint(s)
    \/ Finish(s, "completed") \/ Finish(s, "cancelled") \/ Abandon(s)
    \/ UpsertRun(s, TRUE) \/ UpsertRun(s, FALSE)
    \/ KeepRead(s) \/ KeepWrite(s)
    \/ EndTurn(s) \/ EndWithBody(s)
FromOutside(s) ==
    \/ \E r \in Runs : DeleteRun(s, r)
    \/ DeleteSession(s) \/ Discard(s)
    \/ \E c \in 1 .. Len(commits) : Checkout(s, c)
Starts(s) ==
    \/ \E r \in Runs : Seed(s, r)
    \/ \E k \in Sessions, at \in 0 .. Len(commits), i \in Inheritances : Fork(s, k, at, i)

Next ==
    Crash \/ \E s \in Sessions : ByItsLoop(s) \/ ByHand(s) \/ FromOutside(s) \/ Starts(s)

Spec == Init /\ [][Next]_vars

\* Nobody rewinds or deletes a conversation while a loop of it runs.
QuietNext ==
    Crash \/ \E s \in Sessions :
        ByItsLoop(s) \/ ByHand(s) \/ (At(s, "idle") /\ FromOutside(s)) \/ Starts(s)
QuietSpec == Init /\ [][QuietNext]_vars

-----------------------------------------------------------------------------
(* Properties. *)

\* Every variable has its type: the contents of a branch are keys of the two
\* planes, folds and files, and a branch's head is a commit.
KvOK(kv) ==
    /\ DOMAIN kv = Keys
    /\ \A k \in {Index, LegacyIndex} : kv[k] = Absent \/ kv[k] \in IndexType
    /\ \A r \in Runs : {kv[Body(r)], kv[LegacyBody(r)]} \subseteq {Absent} \cup Statuses
ContentsOK(c) ==
    /\ KvOK(c.kv) /\ c.folds \in Seq(Folds) /\ c.files \subseteq minted
TypeOK ==
    /\ \A i \in DOMAIN commits : ContentsOK(commits[i].holds) /\ commits[i].parent \in 0 .. i - 1
    /\ head \in [Sessions -> 0 .. Len(commits)]
    /\ \A s \in Sessions : ContentsOK(staged[s])
    /\ \A s \in Sessions : loop[s].run \in minted \cup {NoRun}
    /\ minted \subseteq Runs /\ unstored \subseteq minted

\* A branch holds its own session's conversation, or none, committed or
\* staged: through forks at any commit, checkouts of commits from before the
\* fork, and writes that migrate the legacy plane.
OneSessionPerBranch ==
    \A s \in Sessions : Live(s) =>
        {IndexOf(s).owner, ReadIndex(HeadOf(s).kv).owner} \subseteq {NoOwner, s}

\* The index names exactly the runs whose bodies are stored, in one plane and
\* each once, whatever write has failed partway and been put back.
Stores(kv, body(_), index) == {r \in Runs : kv[body(r)] # Absent} = ToSet(index.runs)
IndexNamesWhatIsStored == TypeOK /\
    \A s \in Sessions :
        LET kv == staged[s].kv
            index == ReadIndex(kv)
        IN  /\ IsInjective(index.runs)
            /\ Stores(kv, Body, IF kv[Index] = Absent THEN NoIndex ELSE index)
            /\ Stores(kv, LegacyBody, IF OnLegacy(kv) THEN index ELSE NoIndex)
            /\ kv[Index] = Absent \/ kv[LegacyIndex] = Absent

\* A loop adds its own run to the end of what the branch holds and changes no
\* other: a limited read never shortens the history, and turns rewound or
\* deleted behind a loop's back never return with its write.
LoopAddsItsRun ==
    [][Crash \/ \A s \in Sessions :
          \/ loop'[s] = loop[s]
          \/ IndexOf(s)'.runs \in {IndexOf(s).runs, Append(IndexOf(s).runs, loop[s].run)}]_vars

\* The files a commit takes in that the branch's history had not, of runs neither
\* in its conversation nor lost.
AheadOfRecord(s) ==
    LET new == commits'[head'[s]].holds
        had == UNION {commits[c].holds.files : c \in Past[head[s]]}
    IN  new.files \ (had \cup ToSet(ReadIndex(new.kv).runs) \cup unstored')

\* The files of a run are committed with its record, by the loops, deletes and
\* checkouts of every session.  They land ahead of it only where somebody commits
\* what is staged, a fork included: then they are the files of the run under way,
\* or of one whose record is staged.
LandsWithItsRun ==
    [][\A s \in Sessions : Live(s) /\ head'[s] # head[s] =>
          \A r \in AheadOfRecord(s) :
              /\ ByHand(s) \/ \E k \in Sessions : ~Live(k) /\ head'[k] # 0
              /\ r \in RunsOf(s) \/ (At(s, "running") /\ r = loop[s].run)]_vars

\* What the model is sent stands for every earlier run its loop read, once: in
\* full, or within the summary of the fold in force.  It is so of QuietSpec: a
\* checkout that brings back a deleted run behind a loop leaves that loop's next
\* fold, made without the run, on a conversation that has it.
EarlierRunsAreTold ==
    \A s \in Sessions : At(s, "running") =>
        /\ ToSet(loop[s].prior) \subseteq loop[s].said \cup ToSet(loop[s].rest)
        /\ loop[s].said \cap ToSet(loop[s].rest) = {}
=============================================================================
