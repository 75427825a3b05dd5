----------------------------- MODULE WorkerPool -----------------------------
(***************************************************************************)
(* _ViewWorkerPool: the workers a LocalExecutor keeps for the view calls   *)
(* of its apps.  Calls come from many threads.  A slot is reserved under   *)
(* the pool's lock and its worker is started outside it; a release reads   *)
(* whether the worker lives before it takes the lock; and whatever is to   *)
(* be shut down is chosen under the lock and shut down after it.  In       *)
(* between, other callers take, fill, reap and close.                      *)
(*                                                                         *)
(* A worker is an operating-system process.  It may die at any moment.     *)
(***************************************************************************)
EXTENDS Integers, FiniteSets

CONSTANTS
    Callers,     \* threads that use the pool
    Workers,     \* names for worker processes
    Views,       \* view keys
    Size,        \* workers kept for one view
    MaxReleases, \* bound: calls begin and idle workers are reaped while
                 \* fewer workers were released than this
    MaxDead,     \* bound: dead workers nobody has shut down yet
    NoWorker     \* what a caller without a worker holds

ASSUME PoolAssumption ==
    /\ Size \in Nat
    /\ MaxReleases \in Nat
    /\ MaxDead \in Nat
    /\ IsFiniteSet(Callers)
    /\ IsFiniteSet(Workers)
    /\ NoWorker \notin Workers
    /\ Views # {}

VARIABLES
    up,      \* worker processes that have not been shut down
    crashed, \* those of them that have died
    home,    \* the view a worker was built for
    idle,    \* _idle: workers waiting in the pool
    since,   \* the moment each of them went idle
    clock,   \* the moments so far
    live,    \* _live: slots taken, for the views that have an entry
    closed,  \* _closed
    at       \* what each caller is doing

vars == <<up, crashed, home, idle, since, clock, live, closed, at>>
processes == <<up, crashed, home>>
shelf == <<idle, since, clock>>

Resting == [pc |-> "resting", view |-> "none", worker |-> NoWorker,
            pooled |-> FALSE, filling |-> FALSE, alive |-> FALSE, doomed |-> {}]

\* Between two workers of a fill.
Filling(v) == [pc |-> "filling", view |-> v, worker |-> NoWorker,
               pooled |-> FALSE, filling |-> TRUE, alive |-> FALSE, doomed |-> {}]

Alive(w) == w \in up \ crashed
IdleFor(v) == {w \in idle : home[w] = v}
Live(v) == IF v \in DOMAIN live THEN live[v] ELSE 0

WithLive(v, n) == [u \in DOMAIN live \union {v} |-> IF u = v THEN n ELSE live[u]]

\* The worker processes somebody still has to shut down.
HeldBy(c) == at[c].doomed \union ({at[c].worker} \ {NoWorker})

(* The last worker shelved for a view is the first one taken. *)
Newest(ws) == {w \in ws : \A u \in ws : since[u] <= since[w]}

(* Plausible error: a worker is read from the shelf and left there. *)
LeftOn(ws) ==
    /\ idle' = idle
    /\ since' = [w \in Workers |-> IF w \in ws THEN 0 ELSE since[w]]

(* Workers leave the shelf, and their time on it is forgotten. *)
Off(ws) ==
    /\ idle' = idle \ ws
    /\ since' = [w \in Workers |-> IF w \in ws THEN 0 ELSE since[w]]

Goto(c, pc) == at' = [at EXCEPT ![c].pc = pc]

-----------------------------------------------------------------------------
(* A view call: checkout(), around acquire() and release() *)

AskForWorker(c, v) ==
    /\ at[c] = Resting
    /\ clock < MaxReleases
    /\ at' = [at EXCEPT ![c].view = v,
                        ![c].pc = IF Size <= 0 \/ closed THEN "transient" ELSE "acquiring"]
    /\ UNCHANGED <<processes, shelf, live, closed>>

(* The dead workers on top of a view's stack: popped, they free their
   slots and are shut down before the lock is given up. *)
DeadOnTop(v) ==
    {w \in IdleFor(v) : \A u \in IdleFor(v) : Alive(u) => since[u] < since[w]}

AfterPopping(v) ==
    IF DeadOnTop(v) = {} THEN live
    ELSE WithLive(v, Live(v) - Cardinality(DeadOnTop(v)))

Popped(v) ==
    /\ up' = up \ DeadOnTop(v)
    /\ crashed' = crashed \ DeadOnTop(v)

TakeIdle(c) ==
    LET v == at[c].view IN
    /\ at[c].pc = "acquiring"
    /\ \E w \in Newest({u \in IdleFor(v) : Alive(u)}) :
        /\ Off(DeadOnTop(v) \union {w})
        /\ at' = [at EXCEPT ![c].pc = "using", ![c].worker = w, ![c].pooled = TRUE]
    /\ Popped(v)
    /\ live' = AfterPopping(v)
    /\ UNCHANGED <<home, clock, closed>>

NothingIdle(c) ==
    /\ at[c].pc = "acquiring"
    /\ \A u \in IdleFor(at[c].view) : ~Alive(u)
    /\ Popped(at[c].view)
    /\ Off(DeadOnTop(at[c].view))
    /\ UNCHANGED <<home, clock, closed>>

Slots(v) == Live(v) - Cardinality(DeadOnTop(v))

Saturated(c) ==
    /\ NothingIdle(c)
    /\ Slots(at[c].view) >= Size
    /\ live' = AfterPopping(at[c].view)
    /\ Goto(c, "transient")

Reserve(c) ==
    /\ NothingIdle(c)
    /\ Slots(at[c].view) < Size
    /\ live' = WithLive(at[c].view, Slots(at[c].view) + 1)
    /\ Goto(c, "starting")

-----------------------------------------------------------------------------
(* fill(): start workers until the view holds as many as the pool keeps *)

AskToFill(c, v) ==
    /\ at[c] = Resting
    /\ clock < MaxReleases
    /\ Size > 0
    /\ at' = [at EXCEPT ![c] = Filling(v)]
    /\ UNCHANGED <<processes, shelf, live, closed>>

Filled(c) ==
    /\ at[c].pc = "filling"
    /\ closed \/ Live(at[c].view) >= Size
    /\ at' = [at EXCEPT ![c] = Resting]
    /\ UNCHANGED <<processes, shelf, live, closed>>

FillReserves(c) ==
    /\ at[c].pc = "filling"
    /\ ~closed
    /\ Live(at[c].view) < Size
    /\ live' = WithLive(at[c].view, Live(at[c].view) + 1)
    /\ Goto(c, "starting")
    /\ UNCHANGED <<processes, shelf, closed>>

-----------------------------------------------------------------------------
(* Starting a worker, in a reserved slot or for one call alone *)

(* Names of processes are interchangeable: a new one takes any free name. *)
Unused == CHOOSE w \in Workers : w \notin up

Born(w, v) ==
    /\ up # Workers
    /\ w = Unused
    /\ up' = up \union {w}
    /\ home' = [home EXCEPT ![w] = v]

Start(c) ==
    /\ at[c].pc = "starting"
    /\ \E w \in Workers :
        /\ Born(w, at[c].view)
        /\ at' = [at EXCEPT ![c].worker = w, ![c].pooled = TRUE, ![c].pc = "using"]
    /\ UNCHANGED <<crashed, shelf, live, closed>>

(* Plausible error: a start that failed keeps its slot. *)
StartFailsForGood(c) ==
    /\ at[c].pc = "starting"
    /\ live' = live
    /\ at' = [at EXCEPT ![c] = Resting]
    /\ UNCHANGED <<processes, shelf, closed>>

(* Building or starting fails: the slot is given back, if the pool still
   counts the view, and the caller gets an error. *)
StartFails(c) ==
    /\ at[c].pc = "starting"
    /\ live' = IF at[c].view \in DOMAIN live
               THEN WithLive(at[c].view, Live(at[c].view) - 1) ELSE live
    /\ at' = [at EXCEPT ![c] = Resting]
    /\ UNCHANGED <<processes, shelf, closed>>

StartTransient(c) ==
    /\ at[c].pc = "transient"
    /\ \E w \in Workers :
        /\ Born(w, at[c].view)
        /\ at' = [at EXCEPT ![c].worker = w, ![c].pc = "using"]
    /\ UNCHANGED <<crashed, shelf, live, closed>>

TransientFails(c) ==
    /\ at[c].pc = "transient"
    /\ at' = [at EXCEPT ![c] = Resting]
    /\ UNCHANGED <<processes, shelf, live, closed>>

-----------------------------------------------------------------------------
(* Giving a worker back *)

(* The call ends, well or by raising, and release() looks whether the
   worker is still there; a fill releases what it has just started. *)
CallEnds(c) ==
    /\ at[c].pc = "using"
    /\ at' = IF at[c].pooled
             THEN [at EXCEPT ![c].pc = "releasing", ![c].alive = Alive(at[c].worker)]
             ELSE [at EXCEPT ![c].pc = "shutting", ![c].worker = NoWorker,
                             ![c].doomed = {at[c].worker}]
    /\ UNCHANGED <<processes, shelf, live, closed>>

(* Plausible error: a release does not look whether the pool was closed. *)
RecyclesAnyway(c) == at[c].alive

Recycles(c) == at[c].alive /\ ~closed

(* Back on the shelf: the call is over, and a fill goes round again. *)
Shelve(c) ==
    /\ at[c].pc = "releasing"
    /\ Recycles(c)
    /\ idle' = idle \union {at[c].worker}
    /\ since' = [since EXCEPT ![at[c].worker] = clock]
    /\ clock' = clock + 1
    /\ at' = [at EXCEPT ![c] = IF at[c].filling THEN Filling(at[c].view) ELSE Resting]
    /\ UNCHANGED <<processes, live, closed>>

Retire(c) ==
    /\ at[c].pc = "releasing"
    /\ ~Recycles(c)
    /\ live' = WithLive(at[c].view,
                        (IF at[c].view \in DOMAIN live THEN live[at[c].view] ELSE 1) - 1)
    /\ at' = [at EXCEPT ![c].pc = "shutting", ![c].worker = NoWorker,
                        ![c].doomed = {at[c].worker}]
    /\ UNCHANGED <<processes, shelf, closed>>

(* _shutdown_quietly, one worker after another, outside the lock. *)
ShutDown(c) ==
    /\ at[c].pc = "shutting"
    /\ \E w \in at[c].doomed :
        /\ up' = up \ {w}
        /\ crashed' = crashed \ {w}
        /\ at' = [at EXCEPT ![c] =
                    IF at[c].doomed # {w} THEN [at[c] EXCEPT !.doomed = @ \ {w}]
                    ELSE IF at[c].filling THEN Filling(at[c].view) ELSE Resting]
    /\ UNCHANGED <<home, shelf, live, closed>>

-----------------------------------------------------------------------------
(* close() and reap_idle() *)

Dooming(c, ws) ==
    at' = IF ws = {} THEN at
          ELSE [at EXCEPT ![c].pc = "shutting", ![c].doomed = ws]

Close(c) ==
    /\ at[c] = Resting
    /\ closed' = TRUE
    /\ Off(idle)
    /\ live' = [v \in {} |-> 0]
    /\ Dooming(c, idle)
    /\ UNCHANGED <<processes, clock>>

(* The slots left when ws are taken off the shelf; a view none is left
   for drops out of the bookkeeping, if it has idle workers to look at. *)
SlotsWithout(ws) ==
    LET left == [v \in DOMAIN live |->
                   live[v] - Cardinality({w \in ws : home[w] = v})]
        looked == {home[w] : w \in idle}
    IN  [v \in {u \in DOMAIN live : ~(u \in looked /\ left[u] = 0)} |-> left[v]]

ReapIdle(c) ==
    /\ at[c] = Resting
    /\ clock < MaxReleases
    /\ ~closed
    /\ Size > 0
    /\ \E maxAge \in 0..clock :
        LET old == {w \in idle : clock - since[w] >= maxAge} IN
        /\ old # {}
        /\ Off(old)
        /\ live' = SlotsWithout(old)
        /\ Dooming(c, old)
    /\ UNCHANGED <<processes, clock, closed>>

-----------------------------------------------------------------------------
(* A worker dies of its own: out of memory, killed, unresponsive. *)
Die(w) ==
    /\ w \in up \ crashed
    /\ Cardinality(crashed) < MaxDead
    /\ crashed' = crashed \union {w}
    /\ UNCHANGED <<up, home, shelf, live, closed, at>>

Init ==
    /\ up = {}
    /\ crashed = {}
    /\ home \in [Workers -> {CHOOSE v \in Views : TRUE}]
    /\ idle = {}
    /\ since = [w \in Workers |-> 0]
    /\ clock = 0
    /\ live = [v \in {} |-> 0]
    /\ closed = FALSE
    /\ at = [c \in Callers |-> Resting]

Begin(c) ==
    \/ \E v \in Views : AskForWorker(c, v) \/ AskToFill(c, v)
    \/ Close(c)
    \/ ReapIdle(c)

Proceed(c) ==
    \/ TakeIdle(c) \/ Saturated(c) \/ Reserve(c)
    \/ Filled(c) \/ FillReserves(c)
    \/ Start(c) \/ StartFails(c) \/ StartTransient(c) \/ TransientFails(c)
    \/ CallEnds(c) \/ Shelve(c) \/ Retire(c) \/ ShutDown(c)

Next ==
    \/ \E c \in Callers : Begin(c) \/ Proceed(c)
    \/ \E w \in Workers : Die(w)

(* Threads are scheduled, a start and a shutdown are bounded by timeouts,
   and so is a view call. *)
Spec == Init /\ [][Next]_vars /\ \A c \in Callers : WF_vars(Proceed(c))

-----------------------------------------------------------------------------
(* Properties *)

Steps == {"resting", "acquiring", "filling", "starting", "transient", "using",
          "releasing", "shutting"}

(* The shape of the pool's state. *)
TypeOK ==
    /\ up \subseteq Workers
    /\ crashed \subseteq up
    /\ home \in [Workers -> Views]
    /\ idle \subseteq up
    /\ since \in [Workers -> Nat]
    /\ clock \in Nat
    /\ DOMAIN live \subseteq Views
    /\ \A v \in DOMAIN live : live[v] \in Int
    /\ closed \in BOOLEAN
    /\ at \in [Callers -> [pc : Steps, view : Views \union {"none"},
                           worker : Workers \union {NoWorker}, pooled : BOOLEAN,
                           filling : BOOLEAN, alive : BOOLEAN, doomed : SUBSET Workers]]

(* Checkout is exclusive: a worker process is on the shelf or in the hands
   of one caller, never of two, and never of none: none leaks.  (A sandbox's
   exec writes and reads one pipe without a lock.) *)
OneHolder ==
    /\ \A w \in up : w \in idle \/ \E c \in Callers : w \in HeldBy(c)
    /\ \A c \in Callers : HeldBy(c) \subseteq up \ idle
    /\ \A c, d \in Callers : c # d => HeldBy(c) \intersect HeldBy(d) = {}

(* The callers whose worker, present or to come, has a slot of the view. *)
Occupying(v) ==
    {c \in Callers : /\ at[c].view = v
                     /\ \/ at[c].pc = "starting"
                        \/ at[c].pooled /\ at[c].pc \in {"using", "releasing"}}

(* While the pool is open its count of a view's slots is the workers that
   hold one: those idle, those out on a pooled call and those being
   started.  So no failed start or dead worker eats into the pool for
   good, and no more than Size are ever resident for a view. *)
SlotsAreCounted ==
    ~closed => \A v \in Views :
        /\ Live(v) = Cardinality(IdleFor(v)) + Cardinality(Occupying(v))
        /\ Live(v) <= Size

(* close(): the workers still out are shut down by their own release, so
   once the pool is closed every worker it kept ends, however the calls
   interleave with it.  Calls that come later get a worker of their own. *)
PooledWorkersEnd ==
    <>[](closed => idle = {} /\ \A c \in Callers : Occupying(at[c].view) = {})

=============================================================================
