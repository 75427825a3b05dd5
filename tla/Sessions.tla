------------------------------ MODULE Sessions ------------------------------
(***************************************************************************)
(* Delegation: one Sessions helper of a parent workspace.  An ask forks a  *)
(* child branch (or resumes one), reserves it and puts a run on a worker;  *)
(* the run drives the child, lands, records its answer and exits.  Callers *)
(* cancel, read, take, keep, wait and close meanwhile, and an embedder     *)
(* sweeps idle branches.                                                   *)
(*                                                                         *)
(* Every action is one critical section of the helper's lock, or one step  *)
(* the code takes outside it.  A run is its token.  What an answer says is *)
(* left out: the answer held for a name is the token of the run that gave  *)
(* it.                                                                     *)
(***************************************************************************)
EXTENDS Integers, FiniteSets

CONSTANTS
    Names,         \* child session names
    Callers,       \* threads that call the helper
    NoName,        \* a caller that is on no child
    MaxWorkers,    \* runs that may be under way at once
    AsyncRunner,   \* TRUE: runs are tasks of an event loop
    MaxRuns        \* bound: how many runs are ever asked for

Runs == 1..MaxRuns

ASSUME SessionsAssumption ==
    /\ NoName \notin Names
    /\ MaxWorkers \in Nat \ {0}
    /\ MaxRuns \in Nat
    /\ AsyncRunner \in BOOLEAN
    /\ IsFiniteSet(Callers)

VARIABLES
    status,       \* the status of each name's job, "none" without a job
    kept,         \* names whose job is kept
    idle,         \* names no caller has dealt with since a sweep's cutoff
    busy,         \* the run that holds each branch, 0 when it is free
    child,        \* the run each open child handle was taken for, 0 for none
    answer,       \* the run whose answer is held for each name, 0 for none
    uncollected,  \* names whose answer no caller has collected
    recorded,     \* runs whose answer on_answer has yet to be told of
    token,        \* the last token given out
    future,       \* the run whose future is held for each name, 0 for none
    run,          \* each run: its name and where it is
    stopping,     \* runs a stop is on its way to
    resolved,     \* runs whose future has resolved
    committed,    \* runs that committed a remainder of their child's
    branch,       \* each name's branch: none, the forked child, or an empty
                  \* branch that opening a missing name created
    caller,       \* each caller: where it is in a call of several steps
    closing,      \* open, closing, closed
    \* history
    told,         \* how often on_answer was called for each run
    collected,    \* how each run's answer was collected first, and again
    disowned,     \* runs whose job was cancelled while running
    promised      \* names keep() has answered for

tables == <<status, kept, idle, busy, child, answer, uncollected, recorded, token, future>>
runVars == <<run, stopping, resolved, committed>>
history == <<told, collected, disowned, promised>>
vars == <<tables, runVars, branch, caller, closing, history>>

-----------------------------------------------------------------------------

At(pc, n, r) == [pc |-> pc, name |-> n, run |-> r]
AtRest == At("idle", NoName, 0)

\* A run between its start and the return of its worker.
UnderWay(r) == run[r].pc \in
    {"driving", "answered", "describing", "recording", "announcing", "exiting"}

\* A run that may still act on its child's branch or its job's row.
Acting(r) == run[r].pc \in {"driving", "answered", "describing", "recording"}

Asking(c) == caller[c].pc \in {"forked", "checked", "reopened"}
AskingCallers == {c \in Callers : Asking(c)}
MayAsk == token + Cardinality(AskingCallers) < MaxRuns

\* Mutant: a run frees the branch whoever holds it now.
BadReleased(n, r) == [busy EXCEPT ![n] = 0]

\* _release_locked: a run gives up the branch it reserved and no other.
Released(n, r) == IF busy[n] = r THEN [busy EXCEPT ![n] = 0] ELSE busy

\* Mutant: one waiter is woken, not all.
BadNotified(cs) ==
    LET asleep == {c \in Callers : cs[c].pc = "asleep"}
    IN  IF asleep = {} THEN cs ELSE [cs EXCEPT ![CHOOSE c \in asleep : TRUE].pc = "waiting"]

\* _notify_locked: everything asleep in wait() looks again.
Notified(cs) ==
    [c \in Callers |-> IF cs[c].pc = "asleep" THEN [cs[c] EXCEPT !.pc = "waiting"] ELSE cs[c]]

\* Collecting an answer: who had it first, and whether take() repeats it.
Collect(r, how) ==
    IF collected[r] = "no" THEN how ELSE IF how = "taken" THEN "again" ELSE collected[r]

-----------------------------------------------------------------------------
(* ask() *)

\* Mutant: the helper may have closed since the ask's first check.
BadMayInstall(n) == busy[n] = 0

\* _submit checks again, in the section that installs the run.
MayInstall(n) == closing = "open" /\ busy[n] = 0

\* Mutant: the row's copy from before the resume was prepared.
BadKeptStill(c, n) == FALSE

\* A resumed child stays kept, as its row says when the run is installed.
KeptStill(c, n) == caller[c].pc = "reopened" /\ n \in kept

\* Mutant: two runs are given one token.
BadTakeToken == UNCHANGED token

\* Each run has a token of its own.
TakeToken == token' = token + 1

\* Mutant: the answer to the last task stays.
BadForgotten(n) == answer

\* The previous answer goes: it does not answer this task.
Forgotten(n) == [answer EXCEPT ![n] = 0]

\* A new child: _fork mints a name no branch has and takes the fork.
AskFork(c, n) ==
    /\ caller[c].pc = "idle" /\ closing = "open" /\ MayAsk
    /\ branch[n] = "none"
    /\ branch' = [branch EXCEPT ![n] = "child"]
    /\ caller' = [caller EXCEPT ![c] = At("forked", n, 0)]
    /\ UNCHANGED <<tables, runVars, closing, history>>

\* A resume: _resumed refuses an expired or a busy child ...
ResumeCheck(c, n) ==
    /\ caller[c].pc = "idle" /\ closing = "open" /\ MayAsk
    /\ status[n] \notin {"none", "expired"} /\ busy[n] = 0
    /\ caller' = [caller EXCEPT ![c] = At("checked", n, 0)]
    /\ UNCHANGED <<tables, runVars, branch, closing, history>>

\* ... and _reopen opens its branch, which store.open creates when missing.
ResumeOpen(c) ==
    /\ caller[c].pc = "checked"
    /\ branch' = [branch EXCEPT ![caller[c].name] = IF @ = "none" THEN "empty" ELSE @]
    /\ caller' = [caller EXCEPT ![c].pc = "reopened"]
    /\ UNCHANGED <<tables, runVars, closing, history>>

\* _submit: reserve the branch, install the job, schedule the run, in one
\* critical section.  With wait=True the caller then joins the run.
Submit(c, wait) ==
    LET n == caller[c].name
        r == token + 1
    IN  /\ caller[c].pc \in {"forked", "reopened"}
        /\ MayInstall(n)
        /\ TakeToken
        /\ busy' = [busy EXCEPT ![n] = r]
        /\ status' = [status EXCEPT ![n] = "running"]
        /\ kept' = IF KeptStill(c, n) THEN kept ELSE kept \ {n}
        /\ idle' = idle \ {n}
        /\ answer' = Forgotten(n)
        /\ uncollected' = uncollected \ {n}
        /\ child' = [child EXCEPT ![n] = r]
        /\ future' = [future EXCEPT ![n] = r]
        /\ run' = [run EXCEPT ![r] = [name |-> n, pc |-> "queued"]]
        /\ caller' = [caller EXCEPT ![c] = IF wait THEN At("joining", n, r) ELSE AtRest]
        /\ promised' = IF caller[c].pc = "reopened" THEN promised ELSE promised \ {n}
        /\ UNCHANGED <<recorded, stopping, resolved, committed, branch, closing, told,
                       collected, disowned>>

\* Scheduling raised: the handle is closed and the branch released again.  The
\* row already says running and the previous answer is gone; the table of
\* futures still holds the run before.
SubmitUnscheduled(c) ==
    LET n == caller[c].name
    IN  /\ caller[c].pc \in {"forked", "reopened"}
        /\ MayInstall(n)
        /\ TakeToken
        /\ status' = [status EXCEPT ![n] = "running"]
        /\ kept' = IF KeptStill(c, n) THEN kept ELSE kept \ {n}
        /\ idle' = idle \ {n}
        /\ answer' = Forgotten(n)
        /\ uncollected' = uncollected \ {n}
        /\ child' = [child EXCEPT ![n] = 0]
        /\ caller' = [caller EXCEPT ![c] = AtRest]
        /\ promised' = IF caller[c].pc = "reopened" THEN promised ELSE promised \ {n}
        /\ UNCHANGED <<busy, recorded, future, runVars, branch, closing, told, collected,
                       disowned>>

\* The branch was taken, or the helper closed, since the first check.
SubmitRefused(c) ==
    /\ caller[c].pc \in {"forked", "reopened"}
    /\ ~MayInstall(caller[c].name)
    /\ caller' = [caller EXCEPT ![c] = AtRest]
    /\ UNCHANGED <<tables, runVars, branch, closing, history>>

-----------------------------------------------------------------------------
(* A run: _work or _awork, _settle, _land, _record, _announce *)

\* A worker takes it up, or the loop: an async run registers its task at once
\* and waits for its slot while "driving".  One whose future was cancelled
\* before this starts all the same: the cancel reaches its task one turn of
\* the loop later.
Start(r) ==
    /\ run[r].pc = "queued"
    /\ AsyncRunner \/ Cardinality({q \in Runs : UnderWay(q)}) < MaxWorkers
    /\ run' = [run EXCEPT ![r].pc = "driving"]
    /\ UNCHANGED <<tables, stopping, resolved, committed, branch, caller, closing, history>>

\* The runner returns, raises, or is stopped at an await.
Finish(r) ==
    /\ run[r].pc = "driving"
    /\ run' = [run EXCEPT ![r].pc = "answered"]
    /\ stopping' = stopping \ {r}
    /\ UNCHANGED <<tables, resolved, committed, branch, caller, closing, history>>

\* A job cancelled before its run recorded an answer.
Discarded(n) == status[n] = "cancelled"

\* _land, first half: the child's handle is taken from the table; a job
\* cancelled by now is discarded, as is a run whose handle is gone.
Land(r) ==
    LET n == run[r].name
        lands == child[n] # 0 /\ ~Discarded(n)
    IN  /\ run[r].pc = "answered"
        /\ child' = [child EXCEPT ![n] = 0]
        /\ run' = [run EXCEPT ![r].pc = IF lands THEN "describing" ELSE "announcing"]
        /\ UNCHANGED <<status, kept, idle, busy, answer, uncollected, recorded, token, future,
                       stopping, resolved, committed, branch, caller, closing, history>>

\* _land, second half, outside the lock: the remainder the child left
\* uncommitted, if any, is committed and the work described.
Describe(r, remainder) ==
    /\ run[r].pc = "describing"
    /\ run' = [run EXCEPT ![r].pc = "recording"]
    /\ committed' = IF remainder THEN committed \cup {r} ELSE committed
    /\ UNCHANGED <<tables, stopping, resolved, branch, caller, closing, history>>

\* _record: the answer, the branch's release and the job's end in one
\* critical section, unless a cancel came first.
Record(r, outcome) ==
    LET n == run[r].name
    IN  /\ run[r].pc = "recording"
        /\ ~Discarded(n)
        /\ busy' = Released(n, r)
        /\ answer' = [answer EXCEPT ![n] = r]
        /\ uncollected' = uncollected \cup {n}
        /\ recorded' = recorded \cup {r}
        /\ status' = [status EXCEPT ![n] = outcome]
        /\ run' = [run EXCEPT ![r].pc = "announcing"]
        /\ caller' = Notified(caller)
        /\ UNCHANGED <<kept, idle, child, token, future, stopping, resolved, committed, branch,
                       closing, history>>

RecordCancelled(r) ==
    /\ run[r].pc = "recording"
    /\ Discarded(run[r].name)
    /\ run' = [run EXCEPT ![r].pc = "announcing"]
    /\ UNCHANGED <<tables, stopping, resolved, committed, branch, caller, closing, history>>

\* Mutant: asked of the job's current answer rather than of the run.
BadAnnounce(r) ==
    /\ run[r].pc = "announcing"
    /\ recorded' = recorded \ {r}
    /\ told' = IF answer[run[r].name] = r THEN [told EXCEPT ![r] = @ + 1] ELSE told
    /\ run' = [run EXCEPT ![r].pc = "exiting"]
    /\ UNCHANGED <<status, kept, idle, busy, child, answer, uncollected, token, future,
                   stopping, resolved, committed, branch, caller, closing, collected, disowned,
                   promised>>

\* _announce: on_answer, for an answer this run recorded.
Announce(r) ==
    /\ run[r].pc = "announcing"
    /\ recorded' = recorded \ {r}
    /\ told' = IF r \in recorded THEN [told EXCEPT ![r] = @ + 1] ELSE told
    /\ run' = [run EXCEPT ![r].pc = "exiting"]
    /\ UNCHANGED <<status, kept, idle, busy, child, answer, uncollected, token, future,
                   stopping, resolved, committed, branch, caller, closing, collected, disowned,
                   promised>>

\* Mutant: only a recorded answer frees the branch.
BadExit(r) ==
    /\ run[r].pc = "exiting"
    /\ run' = [run EXCEPT ![r].pc = "over"]
    /\ resolved' = resolved \cup {r}
    /\ UNCHANGED <<tables, stopping, committed, branch, caller, closing, history>>

\* The finally: the branch is released if this run still holds it.
Exit(r) ==
    /\ run[r].pc = "exiting"
    /\ busy' = Released(run[r].name, r)
    /\ run' = [run EXCEPT ![r].pc = "over"]
    /\ resolved' = resolved \cup {r}
    /\ UNCHANGED <<status, kept, idle, child, answer, uncollected, recorded, token, future,
                   stopping, committed, branch, caller, closing, history>>

\* An async run stopped while its landing runs on a thread: the coroutine
\* leaves by its finally, the thread goes on.
StoppedWhileLanding(r) ==
    /\ AsyncRunner /\ r \in stopping
    /\ run[r].pc \in {"answered", "describing", "recording", "announcing"}
    /\ busy' = Released(run[r].name, r)
    /\ stopping' = stopping \ {r}
    /\ resolved' = resolved \cup {r}
    /\ UNCHANGED <<status, kept, idle, child, answer, uncollected, recorded, token, future,
                   run, committed, branch, caller, closing, history>>

-----------------------------------------------------------------------------
(* cancel() *)

\* The transition that discards the answer; the job's future and the task
\* registered for the run that holds the branch are read in the same section.
\* A row without a run (SubmitUnscheduled) has the future of the run before,
\* or none.
CancelMark(c, n) ==
    LET task == AsyncRunner /\ busy[n] # 0 /\ UnderWay(busy[n])
    IN  /\ caller[c].pc = "idle" /\ status[n] = "running"
        /\ status' = [status EXCEPT ![n] = "cancelled"]
        /\ disowned' = disowned \cup ({busy[n]} \ {0})
        /\ caller' = [Notified(caller) EXCEPT ![c] =
                        IF future[n] = 0 THEN AtRest
                        ELSE At(IF task THEN "stopping" ELSE "cancelling", n, future[n])]
        /\ UNCHANGED <<kept, idle, busy, child, answer, uncollected, recorded, token, future,
                       runVars, branch, closing, told, collected, promised>>

\* An async run is stopped through its task.
CancelTask(c) ==
    LET r == caller[c].run
    IN  /\ caller[c].pc = "stopping"
        /\ stopping' = IF run[r].pc \in {"exiting", "over"} THEN stopping ELSE stopping \cup {r}
        /\ caller' = [caller EXCEPT ![c] = AtRest]
        /\ UNCHANGED <<tables, run, resolved, committed, branch, closing, history>>

\* future.cancel(): it bites a run no worker has started, which will not
\* happen ...
CancelFuture(c) ==
    LET r == caller[c].run
    IN  /\ caller[c].pc = "cancelling"
        /\ ~AsyncRunner /\ run[r].pc = "queued"
        /\ run' = [run EXCEPT ![r].pc = "dropped"]
        /\ resolved' = resolved \cup {r}
        /\ caller' = [caller EXCEPT ![c].pc = "bitten"]
        /\ UNCHANGED <<tables, stopping, committed, branch, closing, history>>

\* ... and an async run that is not over, which goes on to start, or to its
\* next await.
CancelAsyncFuture(c) ==
    LET r == caller[c].run
    IN  /\ caller[c].pc = "cancelling"
        /\ AsyncRunner /\ r \notin resolved
        /\ stopping' = stopping \cup {r}
        /\ resolved' = resolved \cup {r}
        /\ caller' = [caller EXCEPT ![c].pc = "bitten"]
        /\ UNCHANGED <<tables, run, committed, branch, closing, history>>

\* It does not bite a run at work on a thread, nor one that is over.  (A
\* future cancelled before says yes once more, which only a row without a
\* run can ask; it holds neither a reservation nor a handle.)
CancelTooLate(c) ==
    LET r == caller[c].run
    IN  /\ caller[c].pc = "cancelling"
        /\ IF AsyncRunner THEN r \in resolved ELSE run[r].pc # "queued"
        /\ caller' = [caller EXCEPT ![c] = AtRest]
        /\ UNCHANGED <<tables, runVars, branch, closing, history>>

\* It bit: what the run reserved is released and its handle closed.
CancelRelease(c) ==
    LET n == caller[c].name
    IN  /\ caller[c].pc = "bitten"
        /\ busy' = Released(n, caller[c].run)
        /\ child' = [child EXCEPT ![n] = 0]
        /\ caller' = [caller EXCEPT ![c] = AtRest]
        /\ UNCHANGED <<status, kept, idle, answer, uncollected, recorded, token, future,
                       runVars, branch, closing, history>>

-----------------------------------------------------------------------------
(* Collecting, keeping, waiting *)

\* Mutant: reading does not count as collecting.
BadResult(c, n) ==
    /\ caller[c].pc = "idle"
    /\ answer[n] # 0 /\ status[n] \notin {"running", "expired"}
    /\ idle' = idle \ {n}
    /\ collected' = [collected EXCEPT ![answer[n]] = Collect(answer[n], "read")]
    /\ UNCHANGED <<status, kept, busy, child, answer, uncollected, recorded, token, future,
                   runVars, branch, caller, closing, told, disowned, promised>>

\* result(): reading an answer collects it; the answer stays readable.
Result(c, n) ==
    /\ caller[c].pc = "idle"
    /\ answer[n] # 0 /\ status[n] \notin {"running", "expired"}
    /\ uncollected' = uncollected \ {n}
    /\ idle' = idle \ {n}
    /\ collected' = [collected EXCEPT ![answer[n]] = Collect(answer[n], "read")]
    /\ UNCHANGED <<status, kept, busy, child, answer, recorded, token, future, runVars, branch,
                   caller, closing, told, disowned, promised>>

\* take(): every answer not collected yet.
Take(c) ==
    LET ready == {n \in uncollected : answer[n] # 0 /\ status[n] # "expired"}
    IN  /\ caller[c].pc = "idle" /\ uncollected # {}
        /\ uncollected' = {}
        /\ idle' = idle \ ready
        /\ collected' = [r \in Runs |->
                            IF \E n \in ready : answer[n] = r THEN Collect(r, "taken")
                            ELSE collected[r]]
        /\ UNCHANGED <<status, kept, busy, child, answer, recorded, token, future, runVars,
                       branch, caller, closing, told, disowned, promised>>

\* ask(wait=True): the future resolves, or was cancelled, and the answer is
\* read if there is one.
Join(c) ==
    LET n == caller[c].name
        reads == answer[n] # 0 /\ status[n] \notin {"running", "expired"}
    IN  /\ caller[c].pc = "joining"
        /\ caller[c].run \in resolved
        /\ caller' = [caller EXCEPT ![c] = AtRest]
        /\ uncollected' = IF reads THEN uncollected \ {n} ELSE uncollected
        /\ idle' = IF reads THEN idle \ {n} ELSE idle
        /\ collected' = IF reads THEN [collected EXCEPT ![answer[n]] = Collect(answer[n], "read")]
                        ELSE collected
        /\ UNCHANGED <<status, kept, busy, child, answer, recorded, token, future, runVars,
                       branch, closing, told, disowned, promised>>

Keep(c, n) ==
    /\ caller[c].pc = "idle"
    /\ status[n] \notin {"none", "expired"}
    /\ kept' = kept \cup {n}
    /\ idle' = idle \ {n}
    /\ promised' = promised \cup {n}
    /\ UNCHANGED <<status, busy, child, answer, uncollected, recorded, token, future, runVars,
                   branch, caller, closing, told, collected, disowned>>

\* wait(): look under the lock, sleep on the condition when there is an
\* answer to wait for and none is here.
Ready == {n \in uncollected : status[n] # "expired" /\ answer[n] # 0}
Waiting == closing = "open" /\ \E n \in Names : status[n] = "running"

Wait(c) ==
    /\ caller[c].pc = "idle"
    /\ caller' = [caller EXCEPT ![c] = At("waiting", NoName, 0)]
    /\ UNCHANGED <<tables, runVars, branch, closing, history>>

WaitLook(c) ==
    /\ caller[c].pc = "waiting"
    /\ caller' = [caller EXCEPT ![c] =
                    IF Ready # {} \/ ~Waiting THEN AtRest ELSE [@ EXCEPT !.pc = "asleep"]]
    /\ UNCHANGED <<tables, runVars, branch, closing, history>>

-----------------------------------------------------------------------------
(* Retention and closing *)

\* Time passes: nobody has dealt with a job for as long as a sweep asks.
Idle(n) ==
    /\ status[n] # "none" /\ n \notin idle
    /\ idle' = idle \cup {n}
    /\ UNCHANGED <<status, kept, busy, child, answer, uncollected, recorded, token, future, runVars,
                   branch, caller, closing, history>>

Idlers ==
    {n \in Names : /\ status[n] \notin {"none", "running", "expired"}
                   /\ busy[n] = 0 /\ n \notin kept /\ n \in idle}

\* sweep(): one critical section, the deletion included.
Sweep ==
    /\ Idlers # {}
    /\ branch' = [n \in Names |-> IF n \in Idlers THEN "none" ELSE branch[n]]
    /\ answer' = [n \in Names |-> IF n \in Idlers THEN 0 ELSE answer[n]]
    /\ uncollected' = uncollected \ Idlers
    /\ status' = [n \in Names |-> IF n \in Idlers THEN "expired" ELSE status[n]]
    /\ UNCHANGED <<kept, idle, busy, child, recorded, token, future, runVars, caller, closing,
                   history>>

\* The deletion raised partway: the branches it reached are gone and no row
\* says so.
SweepFails ==
    \E gone \in SUBSET Idlers :
        /\ branch' = [n \in Names |-> IF n \in gone THEN "none" ELSE branch[n]]
        /\ UNCHANGED <<tables, runVars, caller, closing, history>>

CloseBegin ==
    /\ closing = "open"
    /\ closing' = "closing"
    /\ caller' = Notified(caller)
    /\ UNCHANGED <<tables, runVars, branch, history>>

\* The workers are joined, or the last future of each name is awaited; then
\* the handles left are closed.
CloseEnd ==
    /\ closing = "closing"
    /\ \A r \in Runs :
        run[r].pc # "none" /\ (AsyncRunner => r = future[run[r].name]) => r \in resolved
    /\ closing' = "closed"
    /\ child' = [n \in Names |-> 0]
    /\ UNCHANGED <<status, kept, idle, busy, answer, uncollected, recorded, token, future,
                   runVars, branch, caller, history>>

-----------------------------------------------------------------------------

Init ==
    /\ status = [n \in Names |-> "none"]
    /\ kept = {} /\ idle = {}
    /\ busy = [n \in Names |-> 0]
    /\ child = [n \in Names |-> 0]
    /\ answer = [n \in Names |-> 0]
    /\ uncollected = {}
    /\ recorded = {}
    /\ token = 0
    /\ future = [n \in Names |-> 0]
    /\ run = [r \in Runs |-> [name |-> NoName, pc |-> "none"]]
    /\ stopping = {} /\ resolved = {} /\ committed = {}
    /\ branch = [n \in Names |-> "none"]
    /\ caller = [c \in Callers |-> AtRest]
    /\ closing = "open"
    /\ told = [r \in Runs |-> 0]
    /\ collected = [r \in Runs |-> "no"]
    /\ disowned = {}
    /\ promised = {}

RunStep(r) ==
    \/ Start(r) \/ Finish(r) \/ Land(r)
    \/ \E remainder \in BOOLEAN : Describe(r, remainder)
    \/ \E outcome \in {"answered", "failed"} : Record(r, outcome)
    \/ RecordCancelled(r) \/ Announce(r) \/ Exit(r) \/ StoppedWhileLanding(r)

\* A call of several steps, once begun.
CallStep(c) ==
    \/ ResumeOpen(c) \/ SubmitRefused(c)
    \/ SubmitUnscheduled(c) \/ \E wait \in BOOLEAN : Submit(c, wait)
    \/ CancelTask(c) \/ CancelFuture(c) \/ CancelAsyncFuture(c) \/ CancelTooLate(c)
    \/ CancelRelease(c)
    \/ Join(c) \/ WaitLook(c)

CallBegin(c) ==
    \/ \E n \in Names : AskFork(c, n) \/ ResumeCheck(c, n) \/ CancelMark(c, n)
                        \/ Result(c, n) \/ Keep(c, n)
    \/ Take(c) \/ Wait(c)

Next ==
    \/ \E c \in Callers : CallBegin(c) \/ CallStep(c)
    \/ \E r \in Runs : RunStep(r)
    \/ \E n \in Names : Idle(n)
    \/ Sweep \/ SweepFails \/ CloseBegin \/ CloseEnd

Spec == Init /\ [][Next]_vars

\* A worker thread keeps running and a runner comes back (its budget bounds
\* it); a caller in the middle of a call goes on with it.
Fairness ==
    /\ \A r \in Runs : WF_vars(RunStep(r))
    /\ \A c \in Callers : WF_vars(CallStep(c))

-----------------------------------------------------------------------------
(* Properties *)

Statuses == {"none", "running", "answered", "failed", "cancelled", "expired"}

RunStates == [name : Names \cup {NoName},
              pc : {"none", "queued", "driving", "answered", "describing", "recording",
                    "announcing", "exiting", "over", "dropped"}]
Calls(last) == [name : Names \cup {NoName}, run : 0..last,
                pc : {"idle", "forked", "checked", "reopened", "joining", "cancelling",
                      "stopping", "bitten", "waiting", "asleep"}]

TablesOK ==
    /\ token \in 0..MaxRuns
    /\ status \in [Names -> Statuses] /\ kept \subseteq Names /\ idle \subseteq Names
    /\ busy \in [Names -> 0..token] /\ child \in [Names -> 0..token]
    /\ answer \in [Names -> 0..token] /\ future \in [Names -> 0..token]
    /\ uncollected \subseteq Names /\ recorded \subseteq Runs

HistoryOK ==
    /\ told \in [Runs -> Nat] /\ collected \in [Runs -> {"no", "read", "taken", "again"}]
    /\ disowned \subseteq 0..token /\ promised \subseteq Names

\* The tables, the runs and the callers are what they should be.
TypeOK ==
    /\ TablesOK /\ HistoryOK
    /\ run \in [Runs -> RunStates]
    /\ stopping \subseteq Runs /\ resolved \subseteq Runs /\ committed \subseteq Runs
    /\ caller \in [Callers -> Calls(token)]
    /\ branch \in [Names -> {"none", "child", "empty"}]
    /\ closing \in {"open", "closing", "closed"}

\* "A branch runs one job at a time": no two runs drive one child or land
\* on its row, whatever resumes, cancels and late exits interleave.
OneRunPerBranch ==
    \A r, q \in Runs : r # q /\ Acting(r) /\ Acting(q) => run[r].name # run[q].name

\* The answer a caller can read or take answers the task last asked of that
\* child: a run that exits late never lands its answer against the next job.
AnswersItsOwnTask ==
    \A n \in Names : answer[n] # 0 =>
        answer[n] = future[n] /\ status[n] \in {"answered", "failed"}

\* on_answer is told of every run's answer exactly once, even when a resume
\* replaces the answer first, and never of a cancelled run's.
ToldUnlessDisowned ==
    \A r \in Runs : run[r].pc \in {"exiting", "over"} =>
        told[r] = IF r \in disowned THEN 0 ELSE 1

\* Cancel wins outright: the answer of a run cancelled while running is
\* never held, announced or collected.
CancelDiscardsTheAnswer ==
    \A r \in disowned : /\ r \notin recorded /\ collected[r] = "no"
                        /\ \A n \in Names : answer[n] # r

\* take() hands an answer over once, and not after result() did.
TakenOnce == \A r \in Runs : collected[r] # "again"

\* keep() exempts a branch from the sweep for good, through later resumes.
KeptIsNeverSwept ==
    [][\A n \in promised \cap promised' : branch'[n] = "none" => branch[n] = "none"]_vars

\* "A job holds no store open between turns": an open child handle has a
\* run that has yet to land, or a cancel about to close it.
HandlesHaveARun ==
    \A n \in Names : child[n] # 0 =>
        \/ run[child[n]].pc \in {"queued", "driving", "answered"}
        \/ \E c \in Callers : caller[c].pc = "bitten" /\ caller[c].run = child[n]

\* A close waits for every run and leaves no handle, and no branch reserved
\* but by a run whose cancel is still returning: no ask that passed its first
\* check before the close starts a run after it.
ClosedIsQuiet ==
    closing = "closed" =>
        /\ \A r \in Runs : run[r].pc \in {"none", "over", "dropped"}
        /\ \A n \in Names :
            /\ child[n] = 0
            /\ busy[n] # 0 => \E c \in Callers : /\ caller[c].pc = "bitten"
                                                /\ caller[c].run = busy[n]

\* Every branch a run reserves is free for another task in the end, whether
\* the run answers, fails, or is cancelled before or after it starts.
BranchesAreFreed ==
    \A r \in Runs : run[r].pc = "queued" ~> \A n \in Names : busy[n] # r

\* A row that says running with no run behind it: none was scheduled.
Unscheduled(n) == status[n] = "running" /\ busy[n] = 0

\* Every call returns, wait() too: a waiter is woken by whatever ends its
\* wait, and it sleeps for ever beside one thing only, a row whose run was
\* never scheduled, which no run will ever settle.  (The claim is made again
\* at every moment of the call, so a row that is resumed or cancelled later
\* excuses nothing after that.)
CallsReturn ==
    \A c \in Callers : caller[c].pc # "idle" ~>
        \/ caller[c].pc = "idle"
        \/ caller[c].pc = "asleep" /\ \E n \in Names : Unscheduled(n)

(* What the documentation says and the code does not do *)

\* cancel: "Either way nothing is committed for it"; "the helper writes
\* nothing to the child's branch either way".
CancelCommitsNothing ==
    [][(committed' \ committed) \cap disowned = {}]_vars

\* ask: "resume gives a new task to a child this session already has: the
\* same branch with its conversation kept".
RunsDriveTheChild ==
    \A r \in Runs : run[r].pc = "driving" => branch[run[r].name] = "child"
=============================================================================
