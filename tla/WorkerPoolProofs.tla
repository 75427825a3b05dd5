-------------------------- MODULE WorkerPoolProofs --------------------------
(***************************************************************************)
(* What the view worker pool guarantees for any number of callers, worker  *)
(* processes and views, and any size: types, exclusive checkout, and a     *)
(* count of slots that agrees with the workers there are.                  *)
(***************************************************************************)
EXTENDS WorkerPool, FiniteSetTheorems, TLAPS

-----------------------------------------------------------------------------
(* The inductive invariant *)

\* A caller's record goes with the step it is at: it holds a worker exactly
\* while it uses or releases one, has workers to shut down exactly while it
\* does that, and the worker of a pooled call was built for the call's view.
Shape(c) ==
    /\ at[c].pc = "resting" => at[c] = Resting
    /\ at[c].pc \in {"acquiring", "filling", "starting", "transient", "using", "releasing"}
          => at[c].view \in Views
    /\ at[c].filling => at[c].view \in Views
    /\ at[c].worker # NoWorker <=> at[c].pc \in {"using", "releasing"}
    /\ at[c].doomed # {} <=> at[c].pc = "shutting"
    /\ at[c].pooled => at[c].pc \in {"using", "releasing", "shutting"}
    /\ at[c].pc = "releasing" => at[c].pooled
    /\ at[c].pooled /\ at[c].pc \in {"using", "releasing"}
          => home[at[c].worker] = at[c].view

PoolInv ==
    /\ TypeOK
    /\ OneHolder
    /\ SlotsAreCounted
    /\ \A c \in Callers : Shape(c)

\* A caller whose worker, present or to come, has a slot of the view.
Occupies(c, v) ==
    /\ at[c].view = v
    /\ \/ at[c].pc = "starting"
       \/ at[c].pooled /\ at[c].pc \in {"using", "releasing"}

CallerType ==
    [pc : Steps, view : Views \union {"none"}, worker : Workers \union {NoWorker},
     pooled : BOOLEAN, filling : BOOLEAN, alive : BOOLEAN, doomed : SUBSET Workers]

-----------------------------------------------------------------------------
(* Counting *)

\* Taking a part out of a finite set takes its size off.
LEMMA SizeWithout ==
  ASSUME NEW S, IsFiniteSet(S), NEW T, T \subseteq S
  PROVE  /\ IsFiniteSet(S \ T) /\ IsFiniteSet(T)
         /\ Cardinality(S) \in Nat /\ Cardinality(T) \in Nat /\ Cardinality(S \ T) \in Nat
         /\ Cardinality(S \ T) = Cardinality(S) - Cardinality(T)
<1>1. IsFiniteSet(T) /\ IsFiniteSet(S \ T)
  BY FS_Subset
<1>2. /\ Cardinality(S) \in Nat /\ Cardinality(T) \in Nat /\ Cardinality(S \ T) \in Nat
  BY <1>1, FS_CardinalityType
<1>3. Cardinality((S \ T) \cup T) =
          Cardinality(S \ T) + Cardinality(T) - Cardinality((S \ T) \cap T)
  BY <1>1, FS_Union
<1>4. (S \ T) \cup T = S /\ (S \ T) \cap T = {}
  OBVIOUS
<1>5. Cardinality((S \ T) \cap T) = 0
  BY <1>4, FS_EmptySet
<1> QED BY <1>1, <1>2, <1>3, <1>4, <1>5

\* The workers idle for a view, and the callers that occupy a slot of it, are
\* finitely many.
LEMMA Finite ==
  ASSUME TypeOK, NEW v
  PROVE  /\ IsFiniteSet(idle) /\ IsFiniteSet(IdleFor(v)) /\ IsFiniteSet(Occupying(v))
         /\ Cardinality(IdleFor(v)) \in Nat /\ Cardinality(Occupying(v)) \in Nat
<1>1. idle \subseteq Workers /\ IdleFor(v) \subseteq Workers /\ Occupying(v) \subseteq Callers
  BY DEF TypeOK, IdleFor, Occupying
<1>2. IsFiniteSet(Workers) /\ IsFiniteSet(Callers)
  BY PoolAssumption DEF PoolAssumption
<1>3. IsFiniteSet(idle) /\ IsFiniteSet(IdleFor(v)) /\ IsFiniteSet(Occupying(v))
  BY <1>1, <1>2, FS_Subset
<1> QED BY <1>3, FS_CardinalityType

\* When one caller moves, a view's occupied slots change by that caller.
LEMMA OccupiedBy ==
  ASSUME TypeOK, NEW v, NEW c \in Callers,
         \A d \in Callers \ {c} : at'[d] = at[d]
  PROVE  /\ Occupies(c, v)' /\ ~Occupies(c, v) =>
               Cardinality(Occupying(v)') = Cardinality(Occupying(v)) + 1
         /\ ~Occupies(c, v)' /\ Occupies(c, v) =>
               Cardinality(Occupying(v)') = Cardinality(Occupying(v)) - 1
         /\ (Occupies(c, v)' <=> Occupies(c, v)) => Occupying(v)' = Occupying(v)
<1>1. /\ Occupying(v) = {d \in Callers : Occupies(d, v)}
      /\ Occupying(v)' = {d \in Callers : Occupies(d, v)'}
  BY DEF Occupying, Occupies
<1>2. \A d \in Callers \ {c} : Occupies(d, v)' <=> Occupies(d, v)
  BY DEF Occupies
<1>3. IsFiniteSet(Occupying(v)) /\ Cardinality(Occupying(v)) \in Nat
  BY Finite
<1>4. CASE Occupies(c, v)' /\ ~Occupies(c, v)
  <2>1. Occupying(v)' = Occupying(v) \cup {c} /\ c \notin Occupying(v)
    BY <1>1, <1>2, <1>4
  <2> QED BY <2>1, <1>3, <1>4, FS_AddElement
<1>5. CASE ~Occupies(c, v)' /\ Occupies(c, v)
  <2>1. Occupying(v)' = Occupying(v) \ {c} /\ c \in Occupying(v)
    BY <1>1, <1>2, <1>5
  <2> QED BY <2>1, <1>3, <1>5, FS_RemoveElement
<1>6. CASE Occupies(c, v)' <=> Occupies(c, v)
  BY <1>1, <1>2, <1>6
<1> QED BY <1>4, <1>5, <1>6

\* What leaves the shelf leaves the views it was idle for.
LEMMA IdleWithout ==
  ASSUME TypeOK, NEW v, NEW ws, ws \subseteq idle, idle' = idle \ ws, home' = home
  PROVE  /\ IdleFor(v)' = IdleFor(v) \ {w \in ws : home[w] = v}
         /\ Cardinality(IdleFor(v)') =
               Cardinality(IdleFor(v)) - Cardinality({w \in ws : home[w] = v})
         /\ Cardinality({w \in ws : home[w] = v}) \in Nat
<1>1. IdleFor(v)' = IdleFor(v) \ {w \in ws : home[w] = v}
  BY DEF IdleFor
<1>2. {w \in ws : home[w] = v} \subseteq IdleFor(v)
  BY DEF IdleFor
<1>3. IsFiniteSet(IdleFor(v))
  BY Finite
<1> QED BY <1>1, <1>2, <1>3, SizeWithout

\* The count of one view is set and the others are left.
LEMMA LiveIs ==
  ASSUME TypeOK, NEW u \in Views, NEW n \in Int, live' = WithLive(u, n)
  PROVE  /\ \A v : Live(v)' = IF v = u THEN n ELSE Live(v)
         /\ DOMAIN live' \subseteq Views
         /\ \A v \in DOMAIN live' : live'[v] \in Int
BY DEF TypeOK, WithLive, Live

LEMMA LiveIsInt ==
  ASSUME TypeOK, NEW v
  PROVE  Live(v) \in Int
BY DEF TypeOK, Live

-----------------------------------------------------------------------------
(* Frames: what a step of one caller leaves as it was *)

\* What one caller holds and the shelf are exchanged among themselves, with
\* processes started or shut down: nobody else's workers are touched.
LEMMA Exchange ==
  ASSUME OneHolder, NEW c \in Callers, idle \subseteq up,
         \A d \in Callers \ {c} : at'[d] = at[d],
         up' = (up \ (HeldBy(c) \cup idle)) \cup (HeldBy(c)' \cup idle'),
         HeldBy(c)' \cap idle' = {},
         (HeldBy(c)' \cup idle') \cap (up \ (HeldBy(c) \cup idle)) = {}
  PROVE  OneHolder'
<1>1. \A d \in Callers \ {c} : HeldBy(d)' = HeldBy(d)
  BY DEF HeldBy
<1>2. \A d \in Callers : HeldBy(d) \subseteq up \ idle
  BY DEF OneHolder
<1>3. \A d \in Callers \ {c} : HeldBy(d) \subseteq up \ (HeldBy(c) \cup idle)
  BY <1>2 DEF OneHolder
<1>4. ASSUME NEW w \in up' PROVE w \in idle' \/ \E d \in Callers : w \in HeldBy(d)'
  <2>1. CASE w \in HeldBy(c)' \cup idle'
    BY <2>1
  <2>2. CASE w \in up \ (HeldBy(c) \cup idle)
    <3>1. PICK d \in Callers : w \in HeldBy(d)
      BY <2>2 DEF OneHolder
    <3> QED BY <3>1, <2>2, <1>1
  <2> QED BY <1>4, <2>1, <2>2
<1>5. ASSUME NEW d \in Callers PROVE HeldBy(d)' \subseteq up' \ idle'
  BY <1>1, <1>3
<1>6. ASSUME NEW d \in Callers, NEW e \in Callers, d # e
      PROVE  HeldBy(d)' \cap HeldBy(e)' = {}
  <2>1. CASE d = c
    BY <2>1, <1>1, <1>3, <1>6
  <2>2. CASE e = c
    BY <2>2, <1>1, <1>3, <1>6
  <2>3. CASE d # c /\ e # c
    <3>1. HeldBy(d) \cap HeldBy(e) = {}
      BY <1>6 DEF OneHolder
    <3> QED BY <2>3, <3>1, <1>1
  <2> QED BY <2>1, <2>2, <2>3
<1> QED BY <1>4, <1>5, <1>6 DEF OneHolder

\* A step that neither starts nor ends a process nor touches the shelf.
LEMMA StillHeld ==
  ASSUME PoolInv, NEW c \in Callers, \A d \in Callers \ {c} : at'[d] = at[d],
         up' = up, idle' = idle, HeldBy(c)' = HeldBy(c)
  PROVE  OneHolder'
<1>1. \A d \in Callers : HeldBy(d)' = HeldBy(d)
  BY DEF HeldBy
<1> QED BY <1>1 DEF PoolInv, OneHolder

\* The other callers keep their shape.
LEMMA OthersKeepShape ==
  ASSUME PoolInv, NEW c \in Callers, \A d \in Callers \ {c} : at'[d] = at[d],
         \A w \in up : home'[w] = home[w]
  PROVE  \A d \in Callers \ {c} : Shape(d)'
<1> SUFFICES ASSUME NEW d \in Callers \ {c} PROVE Shape(d)'
  OBVIOUS
<1>1. Shape(d) /\ HeldBy(d) \subseteq up /\ at'[d] = at[d]
  BY DEF PoolInv, OneHolder
<1>2. at[d].worker # NoWorker => home'[at[d].worker] = home[at[d].worker]
  BY <1>1 DEF HeldBy
<1> QED BY <1>1, <1>2 DEF Shape

\* The invariant after one caller's step, from what is left to see for it.
LEMMA Assembled ==
  ASSUME PoolInv, NEW c \in Callers, \A d \in Callers \ {c} : at'[d] = at[d],
         \A w \in up : home'[w] = home[w],
         TypeOK', OneHolder', Shape(c)', SlotsAreCounted'
  PROVE  PoolInv'
BY OthersKeepShape DEF PoolInv

\* A step that changes neither the shelf, nor the count, nor which slots the
\* caller occupies, leaves every view counted.
LEMMA SameCount ==
  ASSUME PoolInv, NEW c \in Callers, \A d \in Callers \ {c} : at'[d] = at[d],
         idle' = idle, \A w \in idle : home'[w] = home[w],
         live' = live, closed' = closed,
         \A v \in Views : Occupies(c, v)' <=> Occupies(c, v)
  PROVE  SlotsAreCounted'
<1>1. ASSUME NEW v \in Views
      PROVE  /\ IdleFor(v)' = IdleFor(v) /\ Live(v)' = Live(v)
             /\ Occupying(v)' = Occupying(v)
  BY OccupiedBy DEF IdleFor, Live, PoolInv
<1> QED BY <1>1 DEF PoolInv, SlotsAreCounted

\* A caller's record, by its fields.
Caller(pc, v, w, pooled, filling, alive, doomed) ==
    [pc |-> pc, view |-> v, worker |-> w, pooled |-> pooled,
     filling |-> filling, alive |-> alive, doomed |-> doomed]

LEMMA CallerTyped ==
  ASSUME NEW pc \in Steps, NEW v \in Views \cup {"none"}, NEW w \in Workers \cup {NoWorker},
         NEW p \in BOOLEAN, NEW f \in BOOLEAN, NEW a \in BOOLEAN, NEW d \in SUBSET Workers
  PROVE  Caller(pc, v, w, p, f, a, d) \in CallerType
BY DEF Caller, CallerType

\* The invariant and the fields of one caller, as the steps below use them.
LEMMA Parts ==
  ASSUME PoolInv, NEW c \in Callers
  PROVE  /\ TypeOK /\ Shape(c) /\ at \in [Callers -> CallerType]
         /\ at[c].pc \in Steps /\ at[c].view \in Views \cup {"none"}
         /\ at[c].worker \in Workers \cup {NoWorker} /\ at[c].pooled \in BOOLEAN
         /\ at[c].filling \in BOOLEAN /\ at[c].alive \in BOOLEAN
         /\ at[c].doomed \in SUBSET Workers
BY DEF PoolInv, TypeOK, CallerType

\* The types after a step of one caller that leaves the rest typed.
LEMMA StepTyped ==
  ASSUME TypeOK, at' \in [Callers -> CallerType],
         up' \subseteq Workers, crashed' \subseteq up', idle' \subseteq up',
         home' \in [Workers -> Views], since' \in [Workers -> Nat], clock' \in Nat,
         DOMAIN live' \subseteq Views, \A v \in DOMAIN live' : live'[v] \in Int,
         closed' \in BOOLEAN
  PROVE  TypeOK'
BY DEF TypeOK, CallerType

-----------------------------------------------------------------------------
(* Every step keeps the invariant *)

LEMMA InitPool == ASSUME Init PROVE PoolInv
<1>1. TypeOK
  BY PoolAssumption DEF Init, TypeOK, PoolAssumption, Resting, Steps
<1>2. OneHolder
  BY DEF Init, OneHolder, HeldBy, Resting
<1>3. \A v \in Views : Live(v) = 0 /\ IdleFor(v) = {} /\ Occupying(v) = {}
  BY DEF Init, Live, IdleFor, Occupying, Resting
<1>4. SlotsAreCounted
  BY <1>3, FS_EmptySet, PoolAssumption DEF SlotsAreCounted, PoolAssumption
<1>5. \A c \in Callers : Shape(c)
  BY DEF Init, Shape, Resting
<1> QED BY <1>1, <1>2, <1>4, <1>5 DEF PoolInv

\* A call begins.
LEMMA AskStep ==
  ASSUME PoolInv, NEW c \in Callers, NEW v \in Views, AskForWorker(c, v)
  PROVE  PoolInv'
<1>0. PICK pc \in {"transient", "acquiring"} :
        at[c] = Resting /\ at' = [at EXCEPT ![c].view = v, ![c].pc = pc]
  BY DEF AskForWorker
<1>1. /\ at'[c] = Caller(pc, v, NoWorker, FALSE, FALSE, FALSE, {})
      /\ \A d \in Callers \ {c} : at'[d] = at[d]
  BY <1>0, Parts DEF CallerType, Caller, Resting, Filling
<1>2. at' \in [Callers -> CallerType]
  <2>1. Caller(pc, v, NoWorker, FALSE, FALSE, FALSE, {}) \in CallerType
    BY CallerTyped DEF Steps
  <2> QED BY <1>0, <1>1, <2>1, Parts
<1>3. UNCHANGED <<up, crashed, home, idle, since, clock, live, closed>>
  BY DEF AskForWorker, processes, shelf
<1>4. TypeOK'
  BY <1>2, <1>3, Parts, StepTyped DEF TypeOK
<1>5. OneHolder'
  <2>1. HeldBy(c)' = HeldBy(c)
    <3>1. at[c].worker = NoWorker /\ at[c].doomed = {}
      BY <1>0 DEF Resting
    <3>2. at'[c].worker = NoWorker /\ at'[c].doomed = {}
      BY <1>1 DEF Caller
    <3> QED BY <3>1, <3>2 DEF HeldBy
  <2> QED BY <1>1, <1>3, <2>1, StillHeld
<1>6. Shape(c)'
  BY <1>1 DEF Shape, Caller
<1>7. SlotsAreCounted'
  <2>1. \A u \in Views : ~Occupies(c, u)' /\ ~Occupies(c, u)
    BY <1>0, <1>1 DEF Occupies, Caller, Resting
  <2> QED BY <1>1, <1>3, <2>1, SameCount
<1> QED BY <1>1, <1>3, <1>4, <1>5, <1>6, <1>7, Assembled

\* A fill begins.
LEMMA AskToFillStep ==
  ASSUME PoolInv, NEW c \in Callers, NEW v \in Views, AskToFill(c, v)
  PROVE  PoolInv'
<1>0. /\ at[c] = Resting
      /\ at' = [at EXCEPT ![c] = Filling(v)]
  BY DEF AskToFill
<1>1. /\ at'[c] = Caller("filling", v, NoWorker, FALSE, TRUE, FALSE, {})
      /\ \A d \in Callers \ {c} : at'[d] = at[d]
  BY <1>0, Parts DEF CallerType, Caller, Resting, Filling
<1>2. at' \in [Callers -> CallerType]
  <2>1. Caller("filling", v, NoWorker, FALSE, TRUE, FALSE, {}) \in CallerType
    BY Parts, CallerTyped DEF Steps
  <2> QED BY <1>0, <1>1, <2>1, Parts
<1>3. UNCHANGED <<up, crashed, home, idle, since, clock, live, closed>>
  BY DEF AskToFill, processes, shelf
<1>4. TypeOK'
  BY <1>2, <1>3, Parts, StepTyped DEF TypeOK
<1>5. OneHolder'
  <2>1. HeldBy(c)' = HeldBy(c)
    <3>1. at[c].worker = NoWorker /\ at[c].doomed = {}
      BY <1>0, Parts DEF Resting, Shape
    <3>2. at'[c].worker = NoWorker /\ at'[c].doomed = {}
      BY <1>1 DEF Caller
    <3> QED BY <3>1, <3>2 DEF HeldBy
  <2> QED BY <1>1, <1>3, <2>1, StillHeld
<1>6. Shape(c)'
  BY <1>1 DEF Shape, Caller, Resting
<1>7. SlotsAreCounted'
  <2>1. \A u \in Views : ~Occupies(c, u)' /\ ~Occupies(c, u)
    BY <1>0, <1>1, Parts DEF Occupies, Caller, Resting, Shape
  <2> QED BY <1>1, <1>3, <2>1, SameCount
<1> QED BY <1>1, <1>3, <1>4, <1>5, <1>6, <1>7, Assembled

\* A fill is done, or finds the pool closed.
LEMMA FilledStep ==
  ASSUME PoolInv, NEW c \in Callers, Filled(c)
  PROVE  PoolInv'
<1>0. /\ at[c].pc = "filling"
      /\ at' = [at EXCEPT ![c] = Resting]
  BY DEF Filled
<1>1. /\ at'[c] = Caller("resting", "none", NoWorker, FALSE, FALSE, FALSE, {})
      /\ \A d \in Callers \ {c} : at'[d] = at[d]
  BY <1>0, Parts DEF CallerType, Caller, Resting, Filling
<1>2. at' \in [Callers -> CallerType]
  <2>1. Caller("resting", "none", NoWorker, FALSE, FALSE, FALSE, {}) \in CallerType
    BY Parts, CallerTyped DEF Steps
  <2> QED BY <1>0, <1>1, <2>1, Parts
<1>3. UNCHANGED <<up, crashed, home, idle, since, clock, live, closed>>
  BY DEF Filled, processes, shelf
<1>4. TypeOK'
  BY <1>2, <1>3, Parts, StepTyped DEF TypeOK
<1>5. OneHolder'
  <2>1. HeldBy(c)' = HeldBy(c)
    <3>1. at[c].worker = NoWorker /\ at[c].doomed = {}
      BY <1>0, Parts DEF Resting, Shape
    <3>2. at'[c].worker = NoWorker /\ at'[c].doomed = {}
      BY <1>1 DEF Caller
    <3> QED BY <3>1, <3>2 DEF HeldBy
  <2> QED BY <1>1, <1>3, <2>1, StillHeld
<1>6. Shape(c)'
  BY <1>1 DEF Shape, Caller, Resting
<1>7. SlotsAreCounted'
  <2>1. \A u \in Views : ~Occupies(c, u)' /\ ~Occupies(c, u)
    BY <1>0, <1>1, Parts DEF Occupies, Caller, Resting, Shape
  <2> QED BY <1>1, <1>3, <2>1, SameCount
<1> QED BY <1>1, <1>3, <1>4, <1>5, <1>6, <1>7, Assembled

\* A transient worker could not be started.
LEMMA TransientFailsStep ==
  ASSUME PoolInv, NEW c \in Callers, TransientFails(c)
  PROVE  PoolInv'
<1>0. /\ at[c].pc = "transient"
      /\ at' = [at EXCEPT ![c] = Resting]
  BY DEF TransientFails
<1>1. /\ at'[c] = Caller("resting", "none", NoWorker, FALSE, FALSE, FALSE, {})
      /\ \A d \in Callers \ {c} : at'[d] = at[d]
  BY <1>0, Parts DEF CallerType, Caller, Resting, Filling
<1>2. at' \in [Callers -> CallerType]
  <2>1. Caller("resting", "none", NoWorker, FALSE, FALSE, FALSE, {}) \in CallerType
    BY Parts, CallerTyped DEF Steps
  <2> QED BY <1>0, <1>1, <2>1, Parts
<1>3. UNCHANGED <<up, crashed, home, idle, since, clock, live, closed>>
  BY DEF TransientFails, processes, shelf
<1>4. TypeOK'
  BY <1>2, <1>3, Parts, StepTyped DEF TypeOK
<1>5. OneHolder'
  <2>1. HeldBy(c)' = HeldBy(c)
    <3>1. at[c].worker = NoWorker /\ at[c].doomed = {}
      BY <1>0, Parts DEF Resting, Shape
    <3>2. at'[c].worker = NoWorker /\ at'[c].doomed = {}
      BY <1>1 DEF Caller
    <3> QED BY <3>1, <3>2 DEF HeldBy
  <2> QED BY <1>1, <1>3, <2>1, StillHeld
<1>6. Shape(c)'
  BY <1>1 DEF Shape, Caller, Resting
<1>7. SlotsAreCounted'
  <2>1. \A u \in Views : ~Occupies(c, u)' /\ ~Occupies(c, u)
    BY <1>0, <1>1, Parts DEF Occupies, Caller, Resting, Shape
  <2> QED BY <1>1, <1>3, <2>1, SameCount
<1> QED BY <1>1, <1>3, <1>4, <1>5, <1>6, <1>7, Assembled

\* What popping the dead workers of a view does to its count.
LEMMA TakesOff ==
  ASSUME PoolInv, NEW c \in Callers, at[c].pc = "acquiring"
  PROVE  LET v == at[c].view IN
         /\ v \in Views
         /\ DeadOnTop(v) \subseteq IdleFor(v)
         /\ Cardinality(DeadOnTop(v)) \in Nat
         /\ \E n \in Int : n = Live(v) - Cardinality(DeadOnTop(v))
         /\ \A u : (live' = AfterPopping(v)) =>
               Live(u)' = IF u = v THEN Live(v) - Cardinality(DeadOnTop(v)) ELSE Live(u)
         /\ (live' = AfterPopping(v)) =>
               DOMAIN live' \subseteq Views /\ \A u \in DOMAIN live' : live'[u] \in Int
<1> DEFINE v == at[c].view
<1>1. TypeOK /\ v \in Views
  BY DEF PoolInv, Shape
<1>2. DeadOnTop(v) \subseteq IdleFor(v)
  BY DEF DeadOnTop
<1>3. IsFiniteSet(DeadOnTop(v)) /\ Cardinality(DeadOnTop(v)) \in Nat
  BY <1>1, <1>2, Finite, SizeWithout
<1>4. Live(v) \in Int
  BY <1>1, LiveIsInt
<1> DEFINE n == Live(v) - Cardinality(DeadOnTop(v))
<1>5. n \in Int
  BY <1>3, <1>4
<1>6. ASSUME live' = AfterPopping(v)
      PROVE  /\ \A u : Live(u)' = IF u = v THEN n ELSE Live(u)
             /\ DOMAIN live' \subseteq Views /\ \A u \in DOMAIN live' : live'[u] \in Int
  <2>1. CASE DeadOnTop(v) = {}
    <3>1. live' = live /\ Cardinality(DeadOnTop(v)) = 0
      BY <1>6, <2>1, FS_EmptySet DEF AfterPopping
    <3> QED BY <3>1, <1>1, <1>4 DEF TypeOK, Live
  <2>2. CASE DeadOnTop(v) # {}
    <3>1. live' = WithLive(v, n)
      BY <1>6, <2>2 DEF AfterPopping
    <3> HIDE DEF n, v
    <3> QED BY <3>1, <1>1, <1>5, LiveIs
  <2> QED BY <2>1, <2>2
<1> QED BY <1>1, <1>2, <1>3, <1>5, <1>6

\* A fill reserves a slot.
LEMMA FillReservesStep ==
  ASSUME PoolInv, NEW c \in Callers, FillReserves(c)
  PROVE  PoolInv'
<1>0. /\ at[c].pc = "filling"
      /\ at' = [at EXCEPT ![c].pc = "starting"]
  BY DEF FillReserves, Goto
<1>1. /\ at'[c] = Caller("starting", at[c].view, at[c].worker, at[c].pooled, at[c].filling,
                       at[c].alive, at[c].doomed)
      /\ \A d \in Callers \ {c} : at'[d] = at[d]
  BY <1>0, Parts DEF CallerType, Caller, Resting
<1>2. at' \in [Callers -> CallerType]
  <2>1. at \in [Callers -> CallerType] /\ at[c] \in CallerType
    BY Parts
  <2>2. Caller("starting", at[c].view, at[c].worker, at[c].pooled, at[c].filling,
                       at[c].alive, at[c].doomed) \in CallerType
    BY <2>1 DEF Caller, CallerType, Steps
  <2> QED BY <1>0, <1>1, <2>1, <2>2
<1>3. UNCHANGED <<up, crashed, home, idle, since, clock, closed>>
  BY DEF FillReserves, processes, shelf
<1>4. /\ at[c].view \in Views /\ ~at[c].pooled
      /\ Live(at[c].view) + 1 \in Int /\ live' = WithLive(at[c].view, Live(at[c].view) + 1)
      /\ Live(at[c].view) < Size
  BY <1>0, Parts, LiveIsInt DEF Shape, FillReserves
<1>5. TypeOK'
  BY <1>2, <1>3, <1>4, Parts, LiveIs, StepTyped DEF TypeOK
<1>6. OneHolder'
  <2>1. at'[c].worker = at[c].worker /\ at'[c].doomed = at[c].doomed
    BY <1>1 DEF Caller
  <2>2. HeldBy(c)' = HeldBy(c)
    BY <2>1 DEF HeldBy
  <2> QED BY <1>1, <1>3, <2>2, StillHeld
<1>7. Shape(c)'
  BY <1>0, <1>1, <1>4, Parts DEF Shape, Caller
<1>8. SlotsAreCounted'
  <2> SUFFICES ASSUME ~closed', NEW u \in Views
               PROVE  /\ Live(u)' = Cardinality(IdleFor(u)') + Cardinality(Occupying(u)')
                      /\ Live(u)' <= Size
    BY DEF SlotsAreCounted
  <2>1. Live(u) = Cardinality(IdleFor(u)) + Cardinality(Occupying(u)) /\ Live(u) <= Size
    BY <1>3 DEF SlotsAreCounted, PoolInv
  <2>2. /\ Cardinality(IdleFor(u)) \in Nat /\ Cardinality(Occupying(u)) \in Nat
        /\ Live(u) \in Int /\ Size \in Nat
    BY Finite, LiveIsInt, PoolAssumption DEF PoolInv, PoolAssumption
  <2>3. IdleFor(u)' = IdleFor(u)
    BY <1>3 DEF IdleFor
  <2>4. Live(u)' = IF u = at[c].view THEN Live(u) + 1 ELSE Live(u)
    BY <1>4, LiveIs DEF PoolInv
  <2>5. ~Occupies(c, u) /\ (Occupies(c, u)' <=> u = at[c].view)
    BY <1>0, <1>1, <1>4 DEF Occupies, Caller
  <2>6. Cardinality(Occupying(u)') =
           IF u = at[c].view THEN Cardinality(Occupying(u)) + 1 ELSE Cardinality(Occupying(u))
    BY <1>1, <2>5, OccupiedBy DEF PoolInv
  <2> QED BY <1>4, <2>1, <2>2, <2>3, <2>4, <2>6
<1> QED BY <1>1, <1>3, <1>5, <1>6, <1>7, <1>8, Assembled

\* A worker could not be started: its slot is given back.
LEMMA StartFailsStep ==
  ASSUME PoolInv, NEW c \in Callers, StartFails(c)
  PROVE  PoolInv'
<1>0. /\ at[c].pc = "starting"
      /\ at' = [at EXCEPT ![c] = Resting]
  BY DEF StartFails, Goto
<1>1. /\ at'[c] = Caller("resting", "none", NoWorker, FALSE, FALSE, FALSE, {})
      /\ \A d \in Callers \ {c} : at'[d] = at[d]
  BY <1>0, Parts DEF CallerType, Caller, Resting
<1>2. at' \in [Callers -> CallerType]
  <2>1. at \in [Callers -> CallerType] /\ at[c] \in CallerType
    BY Parts
  <2>2. Caller("resting", "none", NoWorker, FALSE, FALSE, FALSE, {}) \in CallerType
    BY <2>1 DEF Caller, CallerType, Steps
  <2> QED BY <1>0, <1>1, <2>1, <2>2
<1>3. UNCHANGED <<up, crashed, home, idle, since, clock, closed>>
  BY DEF StartFails, processes, shelf
<1>4. /\ at[c].view \in Views /\ Live(at[c].view) - 1 \in Int
      /\ at[c].view \in DOMAIN live => live' = WithLive(at[c].view, Live(at[c].view) - 1)
      /\ at[c].view \notin DOMAIN live => live' = live
  BY <1>0, Parts, LiveIsInt DEF Shape, StartFails
<1>5. TypeOK'
  <2>1. DOMAIN live' \subseteq Views /\ \A v \in DOMAIN live' : live'[v] \in Int
    BY <1>4, Parts, LiveIs DEF TypeOK
  <2> QED BY <1>2, <1>3, <2>1, Parts, StepTyped DEF TypeOK
<1>6. OneHolder'
  <2>1. at[c].worker = NoWorker /\ at[c].doomed = {}
    BY <1>0, Parts DEF Shape
  <2>2. at'[c].worker = NoWorker /\ at'[c].doomed = {}
    BY <1>1 DEF Caller
  <2>3. HeldBy(c)' = HeldBy(c)
    BY <2>1, <2>2 DEF HeldBy
  <2> QED BY <1>1, <1>3, <2>3, StillHeld
<1>7. Shape(c)'
  BY <1>1 DEF Shape, Caller, Resting
<1>8. SlotsAreCounted'
  <2> SUFFICES ASSUME ~closed', NEW u \in Views
               PROVE  /\ Live(u)' = Cardinality(IdleFor(u)') + Cardinality(Occupying(u)')
                      /\ Live(u)' <= Size
    BY DEF SlotsAreCounted
  <2>1. Live(u) = Cardinality(IdleFor(u)) + Cardinality(Occupying(u)) /\ Live(u) <= Size
    BY <1>3 DEF SlotsAreCounted, PoolInv
  <2>2. /\ Cardinality(IdleFor(u)) \in Nat /\ Cardinality(Occupying(u)) \in Nat
        /\ Live(u) \in Int /\ Size \in Nat
    BY Finite, LiveIsInt, PoolAssumption DEF PoolInv, PoolAssumption
  <2>3. IdleFor(u)' = IdleFor(u)
    BY <1>3 DEF IdleFor
  <2>4. ~Occupies(c, u)' /\ (Occupies(c, u) <=> u = at[c].view)
    BY <1>0, <1>1, Parts DEF Occupies, Caller, Shape
  <2>5. Cardinality(Occupying(u)') =
           IF u = at[c].view THEN Cardinality(Occupying(u)) - 1 ELSE Cardinality(Occupying(u))
    BY <1>1, <2>4, OccupiedBy DEF PoolInv
  <2>6. Live(u)' = IF u = at[c].view THEN Live(u) - 1 ELSE Live(u)
    <3>1. CASE at[c].view \in DOMAIN live
      BY <3>1, <1>4, LiveIs DEF PoolInv
    <3>2. CASE at[c].view \notin DOMAIN live
      <4>1. live' = live
        BY <3>2, <1>4
      <4>2. u # at[c].view
        <5> SUFFICES ASSUME u = at[c].view PROVE FALSE
          OBVIOUS
        <5>1. Live(u) = 0 /\ c \in Occupying(u)
          BY <3>2, <2>4 DEF Live, Occupies, Occupying
        <5>2. Cardinality(Occupying(u)) # 0
          BY <5>1, Finite, FS_EmptySet DEF PoolInv
        <5> QED BY <5>1, <5>2, <2>1, <2>2
      <4> QED BY <4>1, <4>2 DEF Live
    <3> QED BY <3>1, <3>2
  <2> QED BY <2>1, <2>2, <2>3, <2>5, <2>6
<1> QED BY <1>1, <1>3, <1>5, <1>6, <1>7, <1>8, Assembled

\* A call is over; what it used is handed back, or is to be shut down.
LEMMA CallEndsStep ==
  ASSUME PoolInv, NEW c \in Callers, CallEnds(c)
  PROVE  PoolInv'
<1>0. at[c].pc = "using" /\ at[c].worker \in Workers /\ at[c].doomed = {}
  BY Parts DEF CallEnds, Shape
<1>1. /\ at'[c] = IF at[c].pooled
                  THEN Caller("releasing", at[c].view, at[c].worker, TRUE, at[c].filling,
                              Alive(at[c].worker), at[c].doomed)
                  ELSE Caller("shutting", at[c].view, NoWorker, FALSE, at[c].filling,
                              at[c].alive, {at[c].worker})
      /\ \A d \in Callers \ {c} : at'[d] = at[d]
  <2>1. at \in [Callers -> CallerType]
    BY Parts
  <2>2. CASE at[c].pooled
    <3>1. at' = [at EXCEPT ![c].pc = "releasing", ![c].alive = Alive(at[c].worker)]
      BY <2>2 DEF CallEnds
    <3>2. at'[c] = Caller("releasing", at[c].view, at[c].worker, at[c].pooled, at[c].filling,
                           Alive(at[c].worker), at[c].doomed)
      BY <3>1, <2>1 DEF CallerType, Caller
    <3>3. at[c].pooled = TRUE
      BY <2>2, Parts
    <3> QED BY <3>1, <3>2, <3>3, <2>1, <2>2
  <2>3. CASE ~at[c].pooled
    <3>1. at' = [at EXCEPT ![c].pc = "shutting", ![c].worker = NoWorker,
                           ![c].doomed = {at[c].worker}]
      BY <2>3 DEF CallEnds
    <3>2. at'[c] = Caller("shutting", at[c].view, NoWorker, at[c].pooled, at[c].filling,
                           at[c].alive, {at[c].worker})
      BY <3>1, <2>1 DEF CallerType, Caller
    <3>3. at[c].pooled = FALSE
      BY <2>3, Parts
    <3> QED BY <3>1, <3>2, <3>3, <2>1, <2>3
  <2> QED BY <2>2, <2>3
<1>2. at' \in [Callers -> CallerType]
  <2>1. at \in [Callers -> CallerType] /\ at[c] \in CallerType
    BY Parts
  <2>2. Alive(at[c].worker) \in BOOLEAN
    BY DEF Alive
  <2>3. at'[c] \in CallerType
    <3>1. CASE at[c].pooled
      <4>1. Caller("releasing", at[c].view, at[c].worker, TRUE, at[c].filling,
                   Alive(at[c].worker), at[c].doomed) \in CallerType
        BY <2>1, <2>2 DEF Caller, CallerType, Steps
      <4> QED BY <1>1, <3>1, <4>1
    <3>2. CASE ~at[c].pooled
      <4>1. Caller("shutting", at[c].view, NoWorker, FALSE, at[c].filling,
                   at[c].alive, {at[c].worker}) \in CallerType
        BY <1>0, <2>1 DEF Caller, CallerType, Steps
      <4> QED BY <1>1, <3>2, <4>1
    <3> QED BY <3>1, <3>2
  <2>4. \E r : at' = [at EXCEPT ![c] = r]
    <3>1. CASE at[c].pooled
      BY <2>1, <3>1 DEF CallEnds
    <3>2. CASE ~at[c].pooled
      BY <2>1, <3>2 DEF CallEnds
    <3> QED BY <3>1, <3>2
  <2> QED BY <2>1, <2>3, <2>4
<1>3. UNCHANGED <<up, crashed, home, idle, since, clock, live, closed>>
  BY DEF CallEnds, processes, shelf
<1>4. TypeOK'
  BY <1>2, <1>3, Parts, StepTyped DEF TypeOK
<1>5. OneHolder'
  <2>1. HeldBy(c)' = HeldBy(c)
    <3>1. CASE at[c].pooled
      <4>1. at'[c].worker = at[c].worker /\ at'[c].doomed = at[c].doomed
        BY <1>1, <3>1 DEF Caller
      <4> QED BY <4>1 DEF HeldBy
    <3>2. CASE ~at[c].pooled
      <4>1. at'[c].worker = NoWorker /\ at'[c].doomed = {at[c].worker}
        BY <1>1, <3>2 DEF Caller
      <4>2. at[c].worker # NoWorker
        BY <1>0, PoolAssumption DEF PoolAssumption
      <4> QED BY <1>0, <4>1, <4>2 DEF HeldBy
    <3> QED BY <3>1, <3>2
  <2> QED BY <1>1, <1>3, <2>1, StillHeld
<1>6. Shape(c)'
  <2>1. Shape(c) /\ NoWorker \notin Workers
    BY Parts, PoolAssumption DEF PoolAssumption
  <2>2. CASE at[c].pooled
    BY <1>0, <1>1, <1>3, <2>1, <2>2 DEF Shape, Caller
  <2>3. CASE ~at[c].pooled
    BY <1>0, <1>1, <1>3, <2>1, <2>3 DEF Shape, Caller
  <2> QED BY <2>2, <2>3
<1>7. SlotsAreCounted'
  <2>1. \A u \in Views : Occupies(c, u)' <=> Occupies(c, u)
    <3>1. CASE at[c].pooled
      BY <1>0, <1>1, <3>1 DEF Occupies, Caller
    <3>2. CASE ~at[c].pooled
      BY <1>0, <1>1, <3>2 DEF Occupies, Caller
    <3> QED BY <3>1, <3>2
  <2> QED BY <1>1, <1>3, <2>1, SameCount
<1> QED BY <1>1, <1>3, <1>4, <1>5, <1>6, <1>7, Assembled

\* A worker goes back on the shelf.
LEMMA ShelveStep ==
  ASSUME PoolInv, NEW c \in Callers, Shelve(c)
  PROVE  PoolInv'
<1>0. /\ at[c].pc = "releasing" /\ at[c].pooled /\ ~closed
      /\ at[c].view \in Views /\ at[c].worker \in Workers /\ at[c].doomed = {}
      /\ home[at[c].worker] = at[c].view
  BY Parts DEF Shelve, Shape, Recycles
<1>1. /\ at'[c] = IF at[c].filling
                  THEN Caller("filling", at[c].view, NoWorker, FALSE, TRUE, FALSE, {})
                  ELSE Caller("resting", "none", NoWorker, FALSE, FALSE, FALSE, {})
      /\ \A d \in Callers \ {c} : at'[d] = at[d]
  <2>1. at \in [Callers -> CallerType]
    BY Parts
  <2>2. at'[c] = IF at[c].filling THEN Filling(at[c].view) ELSE Resting
    BY <2>1 DEF Shelve
  <2>3. Filling(at[c].view) = Caller("filling", at[c].view, NoWorker, FALSE, TRUE, FALSE, {})
    BY DEF Filling, Caller
  <2>4. Resting = Caller("resting", "none", NoWorker, FALSE, FALSE, FALSE, {})
    BY DEF Resting, Caller
  <2>5. \A d \in Callers \ {c} : at'[d] = at[d]
    BY <2>1 DEF Shelve
  <2> QED BY <2>2, <2>3, <2>4, <2>5
<1>2. at' \in [Callers -> CallerType]
  <2>1. at'[c] \in CallerType
    BY <1>0, <1>1 DEF Caller, CallerType, Steps
  <2> QED BY <1>1, <2>1, Parts DEF Shelve
<1>3. /\ UNCHANGED <<up, crashed, home, live, closed>>
      /\ idle' = idle \cup {at[c].worker} /\ clock' = clock + 1
      /\ since' = [since EXCEPT ![at[c].worker] = clock]
  BY DEF Shelve, processes
<1>4. HeldBy(c) = {at[c].worker} /\ HeldBy(c)' = {} /\ at[c].worker \in up \ idle
  <2>1. HeldBy(c) = {at[c].worker}
    BY <1>0, PoolAssumption DEF HeldBy, PoolAssumption
  <2>2. at'[c].worker = NoWorker /\ at'[c].doomed = {}
    BY <1>1 DEF Caller
  <2>3. HeldBy(c) \subseteq up \ idle
    BY DEF PoolInv, OneHolder
  <2> QED BY <2>1, <2>2, <2>3 DEF HeldBy
<1>5. TypeOK'
  <2>1. idle' \subseteq up' /\ since' \in [Workers -> Nat] /\ clock' \in Nat
    BY <1>0, <1>3, <1>4, Parts DEF TypeOK
  <2> QED BY <1>2, <1>3, <2>1, Parts, StepTyped DEF TypeOK
<1>6. OneHolder'
  BY <1>1, <1>3, <1>4, Parts, Exchange DEF PoolInv, TypeOK
<1>7. Shape(c)'
  <2>1. CASE at[c].filling
    BY <1>0, <1>1, <2>1 DEF Shape, Caller
  <2>2. CASE ~at[c].filling
    BY <1>1, <2>2 DEF Shape, Caller, Resting
  <2> QED BY <2>1, <2>2
<1>8. SlotsAreCounted'
  <2> SUFFICES ASSUME ~closed', NEW u \in Views
               PROVE  /\ Live(u)' = Cardinality(IdleFor(u)') + Cardinality(Occupying(u)')
                      /\ Live(u)' <= Size
    BY DEF SlotsAreCounted
  <2>1. Live(u) = Cardinality(IdleFor(u)) + Cardinality(Occupying(u)) /\ Live(u) <= Size
    BY <1>0 DEF SlotsAreCounted, PoolInv
  <2>2. /\ Cardinality(IdleFor(u)) \in Nat /\ Cardinality(Occupying(u)) \in Nat
        /\ Live(u) \in Int /\ Size \in Nat
    BY Finite, LiveIsInt, PoolAssumption DEF PoolInv, PoolAssumption
  <2>3. ~Occupies(c, u)' /\ (Occupies(c, u) <=> u = at[c].view)
    BY <1>0, <1>1 DEF Occupies, Caller
  <2>4. Cardinality(Occupying(u)') =
           IF u = at[c].view THEN Cardinality(Occupying(u)) - 1 ELSE Cardinality(Occupying(u))
    BY <1>1, <2>3, OccupiedBy DEF PoolInv
  <2>5. Cardinality(IdleFor(u)') =
           IF u = at[c].view THEN Cardinality(IdleFor(u)) + 1 ELSE Cardinality(IdleFor(u))
    <3>1. IsFiniteSet(IdleFor(u)) /\ at[c].worker \notin IdleFor(u)
      BY <1>4, Finite DEF PoolInv, IdleFor
    <3>2. CASE u = at[c].view
      <4>1. IdleFor(u)' = IdleFor(u) \cup {at[c].worker}
        BY <1>0, <1>3, <3>2 DEF IdleFor
      <4> QED BY <3>1, <3>2, <4>1, FS_AddElement
    <3>3. CASE u # at[c].view
      <4>1. IdleFor(u)' = IdleFor(u)
        BY <1>0, <1>3, <3>3 DEF IdleFor
      <4> QED BY <3>3, <4>1
    <3> QED BY <3>2, <3>3
  <2>6. Live(u)' = Live(u)
    BY <1>3 DEF Live
  <2> QED BY <2>1, <2>2, <2>4, <2>5, <2>6
<1> QED BY <1>1, <1>3, <1>5, <1>6, <1>7, <1>8, Assembled

\* A worker that is dead, or whose pool was closed, is taken out of the count.
LEMMA RetireStep ==
  ASSUME PoolInv, NEW c \in Callers, Retire(c)
  PROVE  PoolInv'
<1>0. /\ at[c].pc = "releasing" /\ at[c].pooled
      /\ at[c].view \in Views /\ at[c].worker \in Workers /\ at[c].doomed = {}
      /\ at' = [at EXCEPT ![c].pc = "shutting", ![c].worker = NoWorker,
                         ![c].doomed = {at[c].worker}]
  BY Parts DEF Retire, Shape
<1>1. /\ at'[c] = Caller("shutting", at[c].view, NoWorker, at[c].pooled, at[c].filling,
                       at[c].alive, {at[c].worker})
      /\ \A d \in Callers \ {c} : at'[d] = at[d]
  BY <1>0, Parts DEF CallerType, Caller
<1>2. at' \in [Callers -> CallerType]
  <2>1. at \in [Callers -> CallerType] /\ at[c] \in CallerType
    BY Parts
  <2>2. Caller("shutting", at[c].view, NoWorker, at[c].pooled, at[c].filling,
               at[c].alive, {at[c].worker}) \in CallerType
    BY <1>0, <2>1 DEF Caller, CallerType, Steps
  <2> QED BY <1>0, <1>1, <2>1, <2>2
<1>3. UNCHANGED <<up, crashed, home, idle, since, clock, closed>>
  BY DEF Retire, processes, shelf
<1> DEFINE before == IF at[c].view \in DOMAIN live THEN live[at[c].view] ELSE 1
<1>4. before \in Int /\ live' = WithLive(at[c].view, before - 1)
  BY Parts DEF TypeOK, Retire
<1> HIDE DEF before
<1>5. TypeOK'
  <2>1. DOMAIN live' \subseteq Views /\ \A v \in DOMAIN live' : live'[v] \in Int
    BY <1>0, <1>4, Parts, LiveIs
  <2> QED BY <1>2, <1>3, <2>1, Parts, StepTyped DEF TypeOK
<1>6. OneHolder'
  <2>1. at'[c].worker = NoWorker /\ at'[c].doomed = {at[c].worker}
    BY <1>1 DEF Caller
  <2>2. HeldBy(c)' = HeldBy(c)
    BY <1>0, <2>1, PoolAssumption DEF HeldBy, PoolAssumption
  <2> QED BY <1>1, <1>3, <2>2, StillHeld
<1>7. Shape(c)'
  <2>1. /\ at'[c].pc = "shutting" /\ at'[c].view = at[c].view /\ at'[c].worker = NoWorker
        /\ at'[c].doomed = {at[c].worker}
    BY <1>1 DEF Caller
  <2> QED BY <1>0, <2>1 DEF Shape
<1>8. SlotsAreCounted'
  <2> SUFFICES ASSUME ~closed', NEW u \in Views
               PROVE  /\ Live(u)' = Cardinality(IdleFor(u)') + Cardinality(Occupying(u)')
                      /\ Live(u)' <= Size
    BY DEF SlotsAreCounted
  <2>1. Live(u) = Cardinality(IdleFor(u)) + Cardinality(Occupying(u)) /\ Live(u) <= Size
    BY <1>3 DEF SlotsAreCounted, PoolInv
  <2>2. /\ Cardinality(IdleFor(u)) \in Nat /\ Cardinality(Occupying(u)) \in Nat
        /\ Live(u) \in Int /\ Size \in Nat
    BY Finite, LiveIsInt, PoolAssumption DEF PoolInv, PoolAssumption
  <2>3. IdleFor(u)' = IdleFor(u)
    BY <1>3 DEF IdleFor
  <2>4. ~Occupies(c, u)' /\ (Occupies(c, u) <=> u = at[c].view)
    BY <1>0, <1>1 DEF Occupies, Caller
  <2>5. Cardinality(Occupying(u)') =
           IF u = at[c].view THEN Cardinality(Occupying(u)) - 1 ELSE Cardinality(Occupying(u))
    BY <1>1, <2>4, OccupiedBy DEF PoolInv
  <2>6. u = at[c].view => u \in DOMAIN live
    <3> SUFFICES ASSUME u = at[c].view, u \notin DOMAIN live PROVE FALSE
      OBVIOUS
    <3>1. Live(u) = 0 /\ c \in Occupying(u)
      BY <2>4 DEF Live, Occupies, Occupying
    <3>2. Cardinality(Occupying(u)) # 0
      BY <3>1, Finite, FS_EmptySet DEF PoolInv
    <3> QED BY <3>1, <3>2, <2>1, <2>2
  <2>7. u = at[c].view => before = Live(u)
    BY <2>6 DEF before, Live
  <2>8. Live(u)' = IF u = at[c].view THEN before - 1 ELSE Live(u)
    BY <1>0, <1>4, LiveIs DEF PoolInv
  <2> QED BY <2>1, <2>2, <2>3, <2>5, <2>7, <2>8
<1> QED BY <1>1, <1>3, <1>5, <1>6, <1>7, <1>8, Assembled

\* One of the workers a caller has to shut down is shut down.
LEMMA ShutDownStep ==
  ASSUME PoolInv, NEW c \in Callers, ShutDown(c)
  PROVE  PoolInv'
<1>0. PICK w \in at[c].doomed :
        /\ at[c].pc = "shutting" /\ at[c].worker = NoWorker
        /\ up' = up \ {w} /\ crashed' = crashed \ {w}
        /\ at' = [at EXCEPT ![c] =
                     IF at[c].doomed # {w} THEN [at[c] EXCEPT !.doomed = @ \ {w}]
                     ELSE IF at[c].filling THEN Filling(at[c].view) ELSE Resting]
  BY Parts DEF ShutDown, Shape
<1>1. /\ at'[c] = IF at[c].doomed # {w}
                  THEN Caller("shutting", at[c].view, NoWorker, at[c].pooled, at[c].filling,
                              at[c].alive, at[c].doomed \ {w})
                  ELSE IF at[c].filling
                  THEN Caller("filling", at[c].view, NoWorker, FALSE, TRUE, FALSE, {})
                  ELSE Caller("resting", "none", NoWorker, FALSE, FALSE, FALSE, {})
      /\ \A d \in Callers \ {c} : at'[d] = at[d]
  <2>1. at \in [Callers -> CallerType]
    BY Parts
  <2>2. \A d \in Callers \ {c} : at'[d] = at[d]
    BY <1>0, <2>1
  <2>3. CASE at[c].doomed # {w}
    <3>1. at' = [at EXCEPT ![c] = [at[c] EXCEPT !.doomed = @ \ {w}]]
      BY <1>0, <2>3
    <3>2. at'[c] = Caller("shutting", at[c].view, NoWorker, at[c].pooled, at[c].filling,
                          at[c].alive, at[c].doomed \ {w})
      BY <1>0, <2>1, <3>1 DEF CallerType, Caller
    <3> QED BY <2>2, <2>3, <3>2
  <2>4. CASE at[c].doomed = {w}
    <3>1. at'[c] = IF at[c].filling THEN Filling(at[c].view) ELSE Resting
      BY <1>0, <2>1, <2>4
    <3> QED BY <2>2, <2>4, <3>1 DEF Filling, Resting, Caller
  <2> QED BY <2>3, <2>4
<1>2. at' \in [Callers -> CallerType]
  <2>1. /\ at \in [Callers -> CallerType] /\ at[c] \in CallerType
        /\ at[c].filling => at[c].view \in Views
    BY Parts DEF Shape
  <2>2. Caller("shutting", at[c].view, NoWorker, at[c].pooled, at[c].filling,
               at[c].alive, at[c].doomed \ {w}) \in CallerType
    BY <2>1 DEF Caller, CallerType, Steps
  <2>3. at[c].filling =>
          Caller("filling", at[c].view, NoWorker, FALSE, TRUE, FALSE, {}) \in CallerType
    BY <2>1, CallerTyped DEF Steps
  <2>4. Caller("resting", "none", NoWorker, FALSE, FALSE, FALSE, {}) \in CallerType
    BY CallerTyped DEF Steps
  <2>5. at'[c] \in CallerType
    BY <1>1, <2>2, <2>3, <2>4
  <2>6. \E r : at' = [at EXCEPT ![c] = r]
    BY <1>0
  <2> QED BY <2>1, <2>5, <2>6
<1>3. /\ UNCHANGED <<home, idle, since, clock, live, closed>>
      /\ up' = up \ {w} /\ crashed' = crashed \ {w}
  BY <1>0 DEF ShutDown, shelf
<1>4. HeldBy(c) = at[c].doomed /\ HeldBy(c)' = at[c].doomed \ {w} /\ HeldBy(c) \subseteq up \ idle
  <2>1. HeldBy(c) = at[c].doomed
    BY <1>0 DEF HeldBy
  <2>2. at'[c].worker = NoWorker /\ at'[c].doomed = at[c].doomed \ {w}
    <3>1. CASE at[c].doomed # {w}
      BY <1>1, <3>1 DEF Caller
    <3>2. CASE at[c].doomed = {w} /\ at[c].filling
      BY <1>1, <3>2 DEF Caller
    <3>3. CASE at[c].doomed = {w} /\ ~at[c].filling
      BY <1>1, <3>3 DEF Caller
    <3> QED BY <3>1, <3>2, <3>3
  <2>3. HeldBy(c)' = at[c].doomed \ {w}
    BY <2>2 DEF HeldBy
  <2>4. HeldBy(c) \subseteq up \ idle
    BY DEF PoolInv, OneHolder
  <2> QED BY <2>1, <2>3, <2>4
<1>5. TypeOK'
  <2>1. up' \subseteq Workers /\ crashed' \subseteq up' /\ idle' \subseteq up'
    BY <1>0, <1>3, <1>4, Parts DEF TypeOK
  <2> QED BY <1>2, <1>3, <2>1, Parts, StepTyped DEF TypeOK
<1>6. OneHolder'
  BY <1>0, <1>1, <1>3, <1>4, Parts, Exchange DEF PoolInv, TypeOK
<1>7. Shape(c)'
  <2>1. at[c].filling => at[c].view \in Views
    BY Parts DEF Shape
  <2>2. CASE at[c].doomed # {w}
    <3>1. at[c].doomed \ {w} # {}
      BY <1>0, <2>2
    <3> QED BY <1>1, <2>1, <2>2, <3>1 DEF Shape, Caller
  <2>3. CASE at[c].doomed = {w} /\ at[c].filling
    BY <1>1, <2>1, <2>3 DEF Shape, Caller
  <2>4. CASE at[c].doomed = {w} /\ ~at[c].filling
    BY <1>1, <2>4 DEF Shape, Caller, Resting
  <2> QED BY <2>2, <2>3, <2>4
<1>8. SlotsAreCounted'
  <2>1. at'[c].pc \in {"shutting", "filling", "resting"}
    BY <1>1 DEF Caller
  <2>2. \A u \in Views : ~Occupies(c, u)' /\ ~Occupies(c, u)
    BY <1>0, <2>1 DEF Occupies
  <2> QED BY <1>1, <1>3, <2>2, SameCount
<1> QED BY <1>1, <1>3, <1>5, <1>6, <1>7, <1>8, Assembled

\* The view is saturated: its dead workers are popped, and the call is to have a
\* worker of its own.
LEMMA SaturatedStep ==
  ASSUME PoolInv, NEW c \in Callers, Saturated(c)
  PROVE  PoolInv'
<1>0. /\ at[c].pc = "acquiring"
      /\ at' = [at EXCEPT ![c].pc = "transient"]
  BY DEF Saturated, Goto, NothingIdle
<1>1. /\ at'[c] = Caller("transient", at[c].view, at[c].worker, at[c].pooled, at[c].filling,
                       at[c].alive, at[c].doomed)
      /\ \A d \in Callers \ {c} : at'[d] = at[d]
  BY <1>0, Parts DEF CallerType, Caller, Resting
<1>2. at' \in [Callers -> CallerType]
  <2>1. at \in [Callers -> CallerType] /\ at[c] \in CallerType
    BY Parts
  <2>2. Caller("transient", at[c].view, at[c].worker, at[c].pooled, at[c].filling,
                       at[c].alive, at[c].doomed) \in CallerType
    BY <2>1 DEF Caller, CallerType, Steps
  <2> QED BY <1>0, <1>1, <2>1, <2>2
<1> DEFINE dead == DeadOnTop(at[c].view)
<1>3. /\ UNCHANGED <<home, clock, closed>>
      /\ up' = up \ dead /\ crashed' = crashed \ dead /\ idle' = idle \ dead
      /\ since' = [w \in Workers |-> IF w \in dead THEN 0 ELSE since[w]]
  BY DEF Saturated, NothingIdle, Popped, Off
<1>4. /\ at[c].view \in Views /\ ~at[c].pooled /\ at[c].worker = NoWorker
      /\ dead \subseteq IdleFor(at[c].view) /\ dead \subseteq idle
      /\ Live(at[c].view) - Cardinality(dead) \in Int
  BY <1>0, Parts, TakesOff DEF Shape, IdleFor
<1>5. /\ \A u : Live(u)' = IF u = at[c].view THEN Live(u) - Cardinality(dead) ELSE Live(u)
      /\ DOMAIN live' \subseteq Views /\ \A u \in DOMAIN live' : live'[u] \in Int
  BY <1>0, TakesOff DEF Saturated
<1>6. TypeOK'
  <2>1. /\ up' \subseteq Workers /\ crashed' \subseteq up' /\ idle' \subseteq up'
        /\ since' \in [Workers -> Nat]
    BY <1>3, <1>4, Parts DEF TypeOK
  <2> QED BY <1>2, <1>3, <1>5, <2>1, Parts, StepTyped DEF TypeOK
<1>7. OneHolder'
  <2>1. at'[c].worker = at[c].worker /\ at'[c].doomed = at[c].doomed
    BY <1>1 DEF Caller
  <2>2. HeldBy(c)' = HeldBy(c)
    BY <2>1 DEF HeldBy
  <2>3. HeldBy(c) \subseteq up \ idle
    BY DEF PoolInv, OneHolder
  <2>4. dead \subseteq idle /\ idle \subseteq up
    BY <1>4, Parts DEF TypeOK
  <2> HIDE DEF dead
  <2>5. up' = (up \ (HeldBy(c) \cup idle)) \cup (HeldBy(c)' \cup idle')
    BY <1>3, <2>2, <2>3, <2>4
  <2> QED BY <1>1, <1>3, <2>2, <2>3, <2>4, <2>5, Exchange DEF PoolInv
<1>8. Shape(c)'
  BY <1>0, <1>1, <1>4, Parts DEF Shape, Caller
<1>9. SlotsAreCounted'
  <2> SUFFICES ASSUME ~closed', NEW u \in Views
               PROVE  /\ Live(u)' = Cardinality(IdleFor(u)') + Cardinality(Occupying(u)')
                      /\ Live(u)' <= Size
    BY DEF SlotsAreCounted
  <2>1. Live(u) = Cardinality(IdleFor(u)) + Cardinality(Occupying(u)) /\ Live(u) <= Size
    BY <1>3 DEF SlotsAreCounted, PoolInv
  <2>2. /\ Cardinality(IdleFor(u)) \in Nat /\ Cardinality(Occupying(u)) \in Nat
        /\ Live(u) \in Int /\ Size \in Nat
    BY Finite, LiveIsInt, PoolAssumption DEF PoolInv, PoolAssumption
  <2>3. ~Occupies(c, u) /\ (Occupies(c, u)' <=> FALSE)
    BY <1>0, <1>1, <1>4 DEF Occupies, Caller
  <2>4. Cardinality(Occupying(u)') =
           IF FALSE THEN Cardinality(Occupying(u)) + 1 ELSE Cardinality(Occupying(u))
    BY <1>1, <2>3, OccupiedBy DEF PoolInv
  <2>5. Cardinality(IdleFor(u)') =
           IF u = at[c].view THEN Cardinality(IdleFor(u)) - Cardinality(dead)
                             ELSE Cardinality(IdleFor(u))
    <3>1. /\ Cardinality(IdleFor(u)') =
                Cardinality(IdleFor(u)) - Cardinality({w \in dead : home[w] = u})
          /\ IdleFor(u)' = IdleFor(u) \ {w \in dead : home[w] = u}
      BY <1>3, <1>4, IdleWithout DEF PoolInv
    <3>2. CASE u = at[c].view
      <4>1. {w \in dead : home[w] = u} = dead
        BY <1>4, <3>2 DEF IdleFor
      <4> QED BY <3>1, <3>2, <4>1
    <3>3. CASE u # at[c].view
      <4>1. {w \in dead : home[w] = u} = {}
        BY <1>4, <3>3 DEF IdleFor
      <4>2. IdleFor(u)' = IdleFor(u)
        BY <3>1, <4>1
      <4> QED BY <3>3, <4>2
    <3> QED BY <3>2, <3>3
  <2>6. Cardinality(dead) \in Nat
    BY <1>0, TakesOff
  <2> HIDE DEF dead
  <2> QED BY <1>5, <2>1, <2>2, <2>4, <2>5, <2>6
<1> QED BY <1>1, <1>3, <1>6, <1>7, <1>8, <1>9, Assembled

\* The dead workers of the view are popped, and a slot of it is reserved.
LEMMA ReserveStep ==
  ASSUME PoolInv, NEW c \in Callers, Reserve(c)
  PROVE  PoolInv'
<1>0. /\ at[c].pc = "acquiring"
      /\ at' = [at EXCEPT ![c].pc = "starting"]
  BY DEF Reserve, Goto, NothingIdle
<1>1. /\ at'[c] = Caller("starting", at[c].view, at[c].worker, at[c].pooled, at[c].filling,
                       at[c].alive, at[c].doomed)
      /\ \A d \in Callers \ {c} : at'[d] = at[d]
  BY <1>0, Parts DEF CallerType, Caller, Resting
<1>2. at' \in [Callers -> CallerType]
  <2>1. at \in [Callers -> CallerType] /\ at[c] \in CallerType
    BY Parts
  <2>2. Caller("starting", at[c].view, at[c].worker, at[c].pooled, at[c].filling,
                       at[c].alive, at[c].doomed) \in CallerType
    BY <2>1 DEF Caller, CallerType, Steps
  <2> QED BY <1>0, <1>1, <2>1, <2>2
<1> DEFINE dead == DeadOnTop(at[c].view)
<1>3. /\ UNCHANGED <<home, clock, closed>>
      /\ up' = up \ dead /\ crashed' = crashed \ dead /\ idle' = idle \ dead
      /\ since' = [w \in Workers |-> IF w \in dead THEN 0 ELSE since[w]]
  BY DEF Reserve, NothingIdle, Popped, Off
<1>4. /\ at[c].view \in Views /\ ~at[c].pooled /\ at[c].worker = NoWorker
      /\ dead \subseteq IdleFor(at[c].view) /\ dead \subseteq idle
      /\ Live(at[c].view) - Cardinality(dead) \in Int
  BY <1>0, Parts, TakesOff DEF Shape, IdleFor
<1>5. /\ \A u : Live(u)' = IF u = at[c].view THEN Live(u) - Cardinality(dead) + 1 ELSE Live(u)
      /\ DOMAIN live' \subseteq Views /\ \A u \in DOMAIN live' : live'[u] \in Int
  <2>1. live' = WithLive(at[c].view, Live(at[c].view) - Cardinality(dead) + 1)
    BY DEF Reserve, Slots
  <2> HIDE DEF dead
  <2> QED BY <1>4, <2>1, LiveIs DEF PoolInv
<1>6. Live(at[c].view) - Cardinality(dead) < Size
  BY DEF Reserve, Slots
<1>7. TypeOK'
  <2>1. /\ up' \subseteq Workers /\ crashed' \subseteq up' /\ idle' \subseteq up'
        /\ since' \in [Workers -> Nat]
    BY <1>3, <1>4, Parts DEF TypeOK
  <2> QED BY <1>2, <1>3, <1>5, <2>1, Parts, StepTyped DEF TypeOK
<1>8. OneHolder'
  <2>1. at'[c].worker = at[c].worker /\ at'[c].doomed = at[c].doomed
    BY <1>1 DEF Caller
  <2>2. HeldBy(c)' = HeldBy(c)
    BY <2>1 DEF HeldBy
  <2>3. HeldBy(c) \subseteq up \ idle
    BY DEF PoolInv, OneHolder
  <2>4. dead \subseteq idle /\ idle \subseteq up
    BY <1>4, Parts DEF TypeOK
  <2> HIDE DEF dead
  <2>5. up' = (up \ (HeldBy(c) \cup idle)) \cup (HeldBy(c)' \cup idle')
    BY <1>3, <2>2, <2>3, <2>4
  <2> QED BY <1>1, <1>3, <2>2, <2>3, <2>4, <2>5, Exchange DEF PoolInv
<1>9. Shape(c)'
  BY <1>0, <1>1, <1>4, Parts DEF Shape, Caller
<1>10. SlotsAreCounted'
  <2> SUFFICES ASSUME ~closed', NEW u \in Views
               PROVE  /\ Live(u)' = Cardinality(IdleFor(u)') + Cardinality(Occupying(u)')
                      /\ Live(u)' <= Size
    BY DEF SlotsAreCounted
  <2>1. Live(u) = Cardinality(IdleFor(u)) + Cardinality(Occupying(u)) /\ Live(u) <= Size
    BY <1>3 DEF SlotsAreCounted, PoolInv
  <2>2. /\ Cardinality(IdleFor(u)) \in Nat /\ Cardinality(Occupying(u)) \in Nat
        /\ Live(u) \in Int /\ Size \in Nat
    BY Finite, LiveIsInt, PoolAssumption DEF PoolInv, PoolAssumption
  <2>3. ~Occupies(c, u) /\ (Occupies(c, u)' <=> u = at[c].view)
    BY <1>0, <1>1, <1>4 DEF Occupies, Caller
  <2>4. Cardinality(Occupying(u)') =
           IF u = at[c].view THEN Cardinality(Occupying(u)) + 1 ELSE Cardinality(Occupying(u))
    BY <1>1, <2>3, OccupiedBy DEF PoolInv
  <2>5. Cardinality(IdleFor(u)') =
           IF u = at[c].view THEN Cardinality(IdleFor(u)) - Cardinality(dead)
                             ELSE Cardinality(IdleFor(u))
    <3>1. /\ Cardinality(IdleFor(u)') =
                Cardinality(IdleFor(u)) - Cardinality({w \in dead : home[w] = u})
          /\ IdleFor(u)' = IdleFor(u) \ {w \in dead : home[w] = u}
      BY <1>3, <1>4, IdleWithout DEF PoolInv
    <3>2. CASE u = at[c].view
      <4>1. {w \in dead : home[w] = u} = dead
        BY <1>4, <3>2 DEF IdleFor
      <4> QED BY <3>1, <3>2, <4>1
    <3>3. CASE u # at[c].view
      <4>1. {w \in dead : home[w] = u} = {}
        BY <1>4, <3>3 DEF IdleFor
      <4>2. IdleFor(u)' = IdleFor(u)
        BY <3>1, <4>1
      <4> QED BY <3>3, <4>2
    <3> QED BY <3>2, <3>3
  <2>6. Cardinality(dead) \in Nat
    BY <1>0, TakesOff
  <2> HIDE DEF dead
  <2> QED BY <1>5, <2>1, <2>2, <2>4, <2>5, <2>6, <1>6
<1> QED BY <1>1, <1>3, <1>7, <1>8, <1>9, <1>10, Assembled

\* A live worker is taken from the shelf, and the dead ones above it are popped.
LEMMA TakeIdleStep ==
  ASSUME PoolInv, NEW c \in Callers, TakeIdle(c)
  PROVE  PoolInv'
<1> DEFINE dead == DeadOnTop(at[c].view)
<1>0. PICK w \in Newest({u \in IdleFor(at[c].view) : Alive(u)}) :
        /\ at[c].pc = "acquiring"
        /\ Off(dead \cup {w})
        /\ at' = [at EXCEPT ![c].pc = "using", ![c].worker = w, ![c].pooled = TRUE]
  BY DEF TakeIdle
<1>1. /\ at'[c] = Caller("using", at[c].view, w, TRUE, at[c].filling, at[c].alive, at[c].doomed)
      /\ \A d \in Callers \ {c} : at'[d] = at[d]
  <2>1. /\ at \in [Callers -> CallerType]
        /\ at' = [at EXCEPT ![c].pc = "using", ![c].worker = w, ![c].pooled = TRUE]
    BY <1>0, Parts
  <2> QED BY <2>1 DEF CallerType, Caller
<1>2. /\ w \in IdleFor(at[c].view) /\ w \notin dead /\ w \in Workers /\ w \in up /\ w # NoWorker
      /\ dead \subseteq IdleFor(at[c].view) /\ at[c].view \in Views
      /\ IdleFor(at[c].view) \subseteq idle
  <2>1. w \in IdleFor(at[c].view) /\ Alive(w)
    BY <1>0 DEF Newest
  <2>2. w \notin dead
    <3> SUFFICES ASSUME w \in dead PROVE FALSE
      OBVIOUS
    <3>1. since[w] < since[w]
      BY <2>1 DEF DeadOnTop
    <3>2. since[w] \in Nat
      BY <2>1, Parts DEF TypeOK, Alive
    <3> QED BY <3>1, <3>2
  <2>3. dead \subseteq IdleFor(at[c].view) /\ at[c].view \in Views
    BY <1>0, TakesOff
  <2> QED BY <2>1, <2>2, <2>3, Parts, PoolAssumption DEF Alive, TypeOK, IdleFor, PoolAssumption
<1>3. /\ UNCHANGED <<home, clock, closed>>
      /\ up' = up \ dead /\ crashed' = crashed \ dead /\ idle' = idle \ (dead \cup {w})
      /\ since' = [x \in Workers |-> IF x \in dead \cup {w} THEN 0 ELSE since[x]]
  BY <1>0 DEF TakeIdle, Popped, Off
<1>4. /\ \A u : Live(u)' = IF u = at[c].view THEN Live(u) - Cardinality(dead) ELSE Live(u)
      /\ DOMAIN live' \subseteq Views /\ \A u \in DOMAIN live' : live'[u] \in Int
      /\ Cardinality(dead) \in Nat
  BY <1>0, TakesOff DEF TakeIdle
<1>5. at' \in [Callers -> CallerType]
  <2>1. at \in [Callers -> CallerType] /\ at[c] \in CallerType
    BY Parts
  <2>2. Caller("using", at[c].view, w, TRUE, at[c].filling, at[c].alive, at[c].doomed)
          \in CallerType
    BY <1>2, <2>1 DEF Caller, CallerType, Steps
  <2> QED BY <1>0, <1>1, <2>1, <2>2
<1> HIDE DEF dead
<1>6. TypeOK'
  <2>1. /\ up' \subseteq Workers /\ crashed' \subseteq up' /\ idle' \subseteq up'
        /\ since' \in [Workers -> Nat]
    BY <1>2, <1>3, Parts DEF TypeOK
  <2> QED BY <1>3, <1>4, <1>5, <2>1, Parts, StepTyped DEF TypeOK
<1>7. OneHolder'
  <2>1. at[c].worker = NoWorker /\ at[c].doomed = {}
    BY <1>0, Parts DEF Shape
  <2>2. at'[c].worker = w /\ at'[c].doomed = {}
    BY <1>1, <2>1 DEF Caller
  <2>3. HeldBy(c) = {} /\ HeldBy(c)' = {w}
    BY <1>2, <2>1, <2>2 DEF HeldBy
  <2>4. idle \subseteq up
    BY Parts DEF TypeOK
  <2>5. up' = (up \ (HeldBy(c) \cup idle)) \cup (HeldBy(c)' \cup idle')
    BY <1>2, <1>3, <2>3, <2>4
  <2> QED BY <1>1, <1>2, <1>3, <2>3, <2>4, <2>5, Exchange DEF PoolInv
<1>8. Shape(c)'
  <2>1. /\ at'[c].pc = "using" /\ at'[c].view = at[c].view /\ at'[c].worker = w
        /\ at'[c].doomed = {} /\ home'[w] = at[c].view
    BY <1>0, <1>1, <1>2, <1>3, Parts DEF Caller, Shape, IdleFor
  <2> QED BY <1>2, <2>1 DEF Shape
<1>9. SlotsAreCounted'
  <2> SUFFICES ASSUME ~closed', NEW u \in Views
               PROVE  /\ Live(u)' = Cardinality(IdleFor(u)') + Cardinality(Occupying(u)')
                      /\ Live(u)' <= Size
    BY DEF SlotsAreCounted
  <2>1. Live(u) = Cardinality(IdleFor(u)) + Cardinality(Occupying(u)) /\ Live(u) <= Size
    BY <1>3 DEF SlotsAreCounted, PoolInv
  <2>2. /\ Cardinality(IdleFor(u)) \in Nat /\ Cardinality(Occupying(u)) \in Nat
        /\ Live(u) \in Int /\ Size \in Nat
    BY Finite, LiveIsInt, PoolAssumption DEF PoolInv, PoolAssumption
  <2>3. ~Occupies(c, u) /\ (Occupies(c, u)' <=> u = at[c].view)
    BY <1>0, <1>1, Parts DEF Occupies, Caller, Shape
  <2>4. Cardinality(Occupying(u)') =
           IF u = at[c].view THEN Cardinality(Occupying(u)) + 1 ELSE Cardinality(Occupying(u))
    BY <1>1, <2>3, OccupiedBy DEF PoolInv
  <2>5. Cardinality(IdleFor(u)') =
           IF u = at[c].view THEN Cardinality(IdleFor(u)) - Cardinality(dead) - 1
                             ELSE Cardinality(IdleFor(u))
    <3>1. /\ Cardinality(IdleFor(u)') =
                Cardinality(IdleFor(u)) - Cardinality({x \in dead \cup {w} : home[x] = u})
          /\ IdleFor(u)' = IdleFor(u) \ {x \in dead \cup {w} : home[x] = u}
      BY <1>2, <1>3, IdleWithout DEF PoolInv
    <3>2. CASE u = at[c].view
      <4>1. {x \in dead \cup {w} : home[x] = u} = dead \cup {w}
        BY <1>2, <3>2 DEF IdleFor
      <4>2. IsFiniteSet(dead)
        BY <1>2, Finite, SizeWithout DEF PoolInv
      <4>3. Cardinality(dead \cup {w}) = Cardinality(dead) + 1
        BY <1>2, <4>2, FS_AddElement
      <4>4. Cardinality({x \in dead \cup {w} : home[x] = u}) = Cardinality(dead) + 1
        BY <4>1, <4>3
      <4> QED BY <1>4, <2>2, <3>1, <3>2, <4>4
    <3>3. CASE u # at[c].view
      <4>1. {x \in dead \cup {w} : home[x] = u} = {}
        BY <1>2, <3>3 DEF IdleFor
      <4>2. IdleFor(u)' = IdleFor(u)
        BY <3>1, <4>1
      <4> QED BY <3>3, <4>2
    <3> QED BY <3>2, <3>3
  <2> QED BY <1>4, <2>1, <2>2, <2>4, <2>5
<1> QED BY <1>1, <1>3, <1>6, <1>7, <1>8, <1>9, Assembled

\* A worker is started in the slot reserved for it.
LEMMA StartStep ==
  ASSUME PoolInv, NEW c \in Callers, Start(c)
  PROVE  PoolInv'
<1>0. PICK w \in Workers :
        /\ at[c].pc = "starting" /\ Born(w, at[c].view)
        /\ at' = [at EXCEPT ![c].worker = w, ![c].pooled = TRUE, ![c].pc = "using"]
  BY DEF Start
<1>1. /\ at'[c] = Caller("using", at[c].view, w, TRUE, at[c].filling, at[c].alive, at[c].doomed)
      /\ \A d \in Callers \ {c} : at'[d] = at[d]
  <2>1. /\ at \in [Callers -> CallerType]
        /\ at' = [at EXCEPT ![c].worker = w, ![c].pooled = TRUE, ![c].pc = "using"]
    BY <1>0, Parts
  <2> QED BY <2>1 DEF CallerType, Caller
<1>2. w \notin up /\ w # NoWorker /\ w \in Workers
  <2>1. \E x \in Workers : x \notin up
    BY <1>0, Parts DEF Born, TypeOK
  <2>2. w = Unused /\ Unused \notin up
    BY <1>0, <2>1 DEF Born, Unused
  <2> QED BY <2>2, PoolAssumption DEF PoolAssumption
<1>3. /\ UNCHANGED <<crashed, idle, since, clock, live, closed>>
      /\ up' = up \cup {w} /\ home' = [home EXCEPT ![w] = at[c].view]
  BY <1>0 DEF Start, Born, shelf
<1>4. at[c].view \in Views /\ at[c].worker = NoWorker /\ at[c].doomed = {} /\ ~at[c].pooled
  BY <1>0, Parts DEF Shape
<1>5. at' \in [Callers -> CallerType]
  <2>1. at \in [Callers -> CallerType] /\ at[c] \in CallerType
    BY Parts
  <2>2. Caller("using", at[c].view, w, TRUE, at[c].filling, at[c].alive, at[c].doomed)
           \in CallerType
    BY <1>2, <2>1 DEF Caller, CallerType, Steps
  <2> QED BY <1>0, <1>1, <2>1, <2>2
<1>6. TypeOK'
  <2>1. /\ up' \subseteq Workers /\ crashed' \subseteq up' /\ idle' \subseteq up'
        /\ home' \in [Workers -> Views]
    BY <1>2, <1>3, <1>4, Parts DEF TypeOK
  <2> QED BY <1>3, <1>5, <2>1, Parts, StepTyped DEF TypeOK
<1>7. OneHolder'
  <2>1. at'[c].worker = w /\ at'[c].doomed = {}
    BY <1>1, <1>4 DEF Caller
  <2>2. HeldBy(c) = {} /\ HeldBy(c)' = {w}
    BY <1>2, <1>4, <2>1 DEF HeldBy
  <2>3. idle \subseteq up
    BY Parts DEF TypeOK
  <2>4. up' = (up \ (HeldBy(c) \cup idle)) \cup (HeldBy(c)' \cup idle')
    BY <1>2, <1>3, <2>2, <2>3
  <2> QED BY <1>1, <1>2, <1>3, <2>2, <2>3, <2>4, Exchange DEF PoolInv
<1>8. \A x \in up : home'[x] = home[x]
  BY <1>2, <1>3, Parts DEF TypeOK
<1>9. Shape(c)'
  <2>1. /\ at'[c].pc = "using" /\ at'[c].view = at[c].view /\ at'[c].worker = w
        /\ at'[c].doomed = {} /\ home'[w] = at[c].view
    BY <1>1, <1>2, <1>3, <1>4, Parts DEF Caller, TypeOK
  <2> QED BY <1>2, <1>4, <2>1 DEF Shape
<1>10. SlotsAreCounted'
  <2>1. \A u \in Views : Occupies(c, u)' <=> Occupies(c, u)
    BY <1>0, <1>1, <1>4 DEF Occupies, Caller
  <2>2. \A x \in idle : home'[x] = home[x]
    BY <1>8, Parts DEF TypeOK
  <2> QED BY <1>1, <1>3, <2>1, <2>2, SameCount
<1> QED BY <1>1, <1>6, <1>7, <1>8, <1>9, <1>10, Assembled

\* A worker is started for one call alone.
LEMMA StartTransientStep ==
  ASSUME PoolInv, NEW c \in Callers, StartTransient(c)
  PROVE  PoolInv'
<1>0. PICK w \in Workers :
        /\ at[c].pc = "transient" /\ Born(w, at[c].view)
        /\ at' = [at EXCEPT ![c].worker = w, ![c].pc = "using"]
  BY DEF StartTransient
<1>1. /\ at'[c] = Caller("using", at[c].view, w, at[c].pooled, at[c].filling, at[c].alive,
                        at[c].doomed)
      /\ \A d \in Callers \ {c} : at'[d] = at[d]
  <2>1. /\ at \in [Callers -> CallerType]
        /\ at' = [at EXCEPT ![c].worker = w, ![c].pc = "using"]
    BY <1>0, Parts
  <2> QED BY <2>1 DEF CallerType, Caller
<1>2. w \notin up /\ w # NoWorker /\ w \in Workers
  <2>1. \E x \in Workers : x \notin up
    BY <1>0, Parts DEF Born, TypeOK
  <2>2. w = Unused /\ Unused \notin up
    BY <1>0, <2>1 DEF Born, Unused
  <2> QED BY <2>2, PoolAssumption DEF PoolAssumption
<1>3. /\ UNCHANGED <<crashed, idle, since, clock, live, closed>>
      /\ up' = up \cup {w} /\ home' = [home EXCEPT ![w] = at[c].view]
  BY <1>0 DEF StartTransient, Born, shelf
<1>4. at[c].view \in Views /\ at[c].worker = NoWorker /\ at[c].doomed = {} /\ ~at[c].pooled
  BY <1>0, Parts DEF Shape
<1>5. at' \in [Callers -> CallerType]
  <2>1. at \in [Callers -> CallerType] /\ at[c] \in CallerType
    BY Parts
  <2>2. Caller("using", at[c].view, w, at[c].pooled, at[c].filling, at[c].alive, at[c].doomed)
           \in CallerType
    BY <1>2, <2>1 DEF Caller, CallerType, Steps
  <2> QED BY <1>0, <1>1, <2>1, <2>2
<1>6. TypeOK'
  <2>1. /\ up' \subseteq Workers /\ crashed' \subseteq up' /\ idle' \subseteq up'
        /\ home' \in [Workers -> Views]
    BY <1>2, <1>3, <1>4, Parts DEF TypeOK
  <2> QED BY <1>3, <1>5, <2>1, Parts, StepTyped DEF TypeOK
<1>7. OneHolder'
  <2>1. at'[c].worker = w /\ at'[c].doomed = {}
    BY <1>1, <1>4 DEF Caller
  <2>2. HeldBy(c) = {} /\ HeldBy(c)' = {w}
    BY <1>2, <1>4, <2>1 DEF HeldBy
  <2>3. idle \subseteq up
    BY Parts DEF TypeOK
  <2>4. up' = (up \ (HeldBy(c) \cup idle)) \cup (HeldBy(c)' \cup idle')
    BY <1>2, <1>3, <2>2, <2>3
  <2> QED BY <1>1, <1>2, <1>3, <2>2, <2>3, <2>4, Exchange DEF PoolInv
<1>8. \A x \in up : home'[x] = home[x]
  BY <1>2, <1>3, Parts DEF TypeOK
<1>9. Shape(c)'
  <2>1. /\ at'[c].pc = "using" /\ at'[c].view = at[c].view /\ at'[c].worker = w
        /\ at'[c].doomed = {} /\ home'[w] = at[c].view
    BY <1>1, <1>2, <1>3, <1>4, Parts DEF Caller, TypeOK
  <2> QED BY <1>2, <1>4, <2>1 DEF Shape
<1>10. SlotsAreCounted'
  <2>1. \A u \in Views : Occupies(c, u)' <=> Occupies(c, u)
    BY <1>0, <1>1, <1>4 DEF Occupies, Caller
  <2>2. \A x \in idle : home'[x] = home[x]
    BY <1>8, Parts DEF TypeOK
  <2> QED BY <1>1, <1>3, <2>1, <2>2, SameCount
<1> QED BY <1>1, <1>6, <1>7, <1>8, <1>9, <1>10, Assembled

\* What a caller takes off the shelf to shut it down, it holds.
LEMMA Doomed ==
  ASSUME PoolInv, NEW c \in Callers, at[c] = Resting, NEW ws, ws \subseteq idle, Dooming(c, ws),
         up' = up, home' = home, idle' = idle \ ws
  PROVE  /\ at' \in [Callers -> CallerType] /\ \A d \in Callers \ {c} : at'[d] = at[d]
         /\ OneHolder' /\ Shape(c)'
         /\ \A u \in Views : ~Occupies(c, u)' /\ ~Occupies(c, u)
<1>1. at \in [Callers -> CallerType] /\ ws \subseteq Workers /\ idle \subseteq up
  BY Parts DEF TypeOK
<1>2. /\ \A d \in Callers \ {c} : at'[d] = at[d]
      /\ at'[c] = IF ws = {} THEN Caller("resting", "none", NoWorker, FALSE, FALSE, FALSE, {})
                  ELSE Caller("shutting", "none", NoWorker, FALSE, FALSE, FALSE, ws)
  <2>1. CASE ws = {}
    BY <2>1 DEF Dooming, Resting, Caller
  <2>2. CASE ws # {}
    <3>1. at' = [at EXCEPT ![c].pc = "shutting", ![c].doomed = ws]
      BY <2>2 DEF Dooming
    <3>2. at'[c] = Caller("shutting", "none", NoWorker, FALSE, FALSE, FALSE, ws)
      <4>1. at'[c] = Caller("shutting", at[c].view, at[c].worker, at[c].pooled,
                            at[c].filling, at[c].alive, ws)
        BY <1>1, <3>1 DEF CallerType, Caller
      <4>2. /\ at[c].view = "none" /\ at[c].worker = NoWorker /\ at[c].pooled = FALSE
            /\ at[c].filling = FALSE /\ at[c].alive = FALSE
        BY DEF Resting
      <4> QED BY <4>1, <4>2
    <3> QED BY <1>1, <2>2, <3>1, <3>2
  <2> QED BY <2>1, <2>2
<1>3. at' \in [Callers -> CallerType]
  <2>1. at'[c] \in CallerType
    <3>1. Caller("resting", "none", NoWorker, FALSE, FALSE, FALSE, {}) \in CallerType
      BY CallerTyped DEF Steps
    <3>2. Caller("shutting", "none", NoWorker, FALSE, FALSE, FALSE, ws) \in CallerType
      BY <1>1, CallerTyped DEF Steps
    <3> QED BY <1>2, <3>1, <3>2
  <2>2. \E r : at' = [at EXCEPT ![c] = r]
    <3>1. CASE ws = {}
      BY <1>1, <3>1 DEF Dooming
    <3>2. CASE ws # {}
      BY <1>1, <3>2 DEF Dooming
    <3> QED BY <3>1, <3>2
  <2> QED BY <1>1, <2>1, <2>2
<1>4. /\ at'[c].worker = NoWorker /\ at'[c].doomed = ws /\ ~at'[c].pooled /\ ~at'[c].filling
      /\ at'[c].pc = IF ws = {} THEN "resting" ELSE "shutting"
  BY <1>2 DEF Caller
<1>5. HeldBy(c) = {} /\ HeldBy(c)' = ws
  <2>1. at[c].worker = NoWorker /\ at[c].doomed = {}
    BY DEF Resting
  <2> QED BY <1>4, <2>1 DEF HeldBy
<1>6. OneHolder'
  <2>1. up' = (up \ (HeldBy(c) \cup idle)) \cup (HeldBy(c)' \cup idle')
    BY <1>1, <1>5
  <2> QED BY <1>1, <1>2, <1>5, <2>1, Exchange DEF PoolInv
<1>7. Shape(c)'
  <2>1. CASE ws = {}
    BY <1>2, <2>1 DEF Shape, Caller, Resting
  <2>2. CASE ws # {}
    BY <1>4, <2>2 DEF Shape
  <2> QED BY <2>1, <2>2
<1>8. \A u \in Views : ~Occupies(c, u)' /\ ~Occupies(c, u)
  BY <1>4 DEF Occupies, Resting
<1> QED BY <1>2, <1>3, <1>6, <1>7, <1>8

\* The pool is closed: what was idle is to be shut down.
LEMMA CloseStep ==
  ASSUME PoolInv, NEW c \in Callers, Close(c)
  PROVE  PoolInv'
<1>1. /\ UNCHANGED <<up, crashed, home, clock>>
      /\ closed' = TRUE /\ idle' = idle \ idle /\ live' = [v \in {} |-> 0]
      /\ since' = [w \in Workers |-> IF w \in idle THEN 0 ELSE since[w]]
      /\ at[c] = Resting /\ Dooming(c, idle)
  BY DEF Close, Off, processes
<1>2. /\ at' \in [Callers -> CallerType] /\ \A d \in Callers \ {c} : at'[d] = at[d]
      /\ OneHolder' /\ Shape(c)'
  BY <1>1, Doomed
<1>3. TypeOK'
  <2>1. since' \in [Workers -> Nat]
    BY <1>1, Parts DEF TypeOK
  <2>2. DOMAIN live' = {}
    BY <1>1
  <2> QED BY <1>1, <1>2, <2>1, <2>2, Parts, StepTyped DEF TypeOK
<1>4. SlotsAreCounted'
  BY <1>1 DEF SlotsAreCounted
<1> QED BY <1>1, <1>2, <1>3, <1>4, Assembled

\* Workers idle for too long are taken off the shelf, and out of the count.
LEMMA ReapIdleStep ==
  ASSUME PoolInv, NEW c \in Callers, ReapIdle(c)
  PROVE  PoolInv'
<1>1. PICK maxAge \in 0..clock :
        LET old == {w \in idle : clock - since[w] >= maxAge} IN
        Off(old) /\ live' = SlotsWithout(old) /\ Dooming(c, old)
  BY DEF ReapIdle
<1> DEFINE old == {w \in idle : clock - since[w] >= maxAge}
           Old(v) == {w \in old : home[w] = v}
<1>2. /\ UNCHANGED <<up, crashed, home, clock, closed>>
      /\ old \subseteq idle /\ idle' = idle \ old /\ live' = SlotsWithout(old)
      /\ since' = [w \in Workers |-> IF w \in old THEN 0 ELSE since[w]]
      /\ at[c] = Resting /\ Dooming(c, old) /\ ~closed
  BY <1>1 DEF ReapIdle, Off, processes
<1> HIDE DEF old
<1>3. /\ at' \in [Callers -> CallerType] /\ \A d \in Callers \ {c} : at'[d] = at[d]
      /\ OneHolder' /\ Shape(c)'
      /\ \A u \in Views : ~Occupies(c, u)' /\ ~Occupies(c, u)
  BY <1>2, Doomed
<1>4. \A u : /\ Cardinality(Old(u)) \in Nat
             /\ Cardinality(IdleFor(u)') = Cardinality(IdleFor(u)) - Cardinality(Old(u))
             /\ Old(u) \subseteq IdleFor(u)
  <2> SUFFICES ASSUME NEW u
               PROVE  /\ Cardinality(Old(u)) \in Nat
                      /\ Cardinality(IdleFor(u)') = Cardinality(IdleFor(u)) - Cardinality(Old(u))
                      /\ Old(u) \subseteq IdleFor(u)
    OBVIOUS
  <2>1. Old(u) \subseteq IdleFor(u)
    BY <1>2 DEF IdleFor
  <2> QED BY <1>2, <2>1, IdleWithout DEF PoolInv
<1>5. /\ DOMAIN live' \subseteq DOMAIN live
      /\ \A v \in DOMAIN live' : live'[v] = live[v] - Cardinality(Old(v))
      /\ \A v \in DOMAIN live \ DOMAIN live' : live[v] - Cardinality(Old(v)) = 0
  BY <1>2 DEF SlotsWithout
<1> HIDE DEF Old
<1>6. TypeOK'
  <2>1. DOMAIN live' \subseteq Views /\ \A v \in DOMAIN live' : live'[v] \in Int
    BY <1>4, <1>5, Parts DEF TypeOK
  <2>2. since' \in [Workers -> Nat] /\ idle' \subseteq up'
    BY <1>2, Parts DEF TypeOK
  <2> QED BY <1>2, <1>3, <2>1, <2>2, Parts, StepTyped DEF TypeOK
<1>7. SlotsAreCounted'
  <2> SUFFICES ASSUME NEW u \in Views
               PROVE  /\ Live(u)' = Cardinality(IdleFor(u)') + Cardinality(Occupying(u)')
                      /\ Live(u)' <= Size
    BY DEF SlotsAreCounted
  <2>1. Live(u) = Cardinality(IdleFor(u)) + Cardinality(Occupying(u)) /\ Live(u) <= Size
    BY <1>2 DEF SlotsAreCounted, PoolInv
  <2>2. /\ Cardinality(IdleFor(u)) \in Nat /\ Cardinality(Occupying(u)) \in Nat
        /\ Live(u) \in Int /\ Size \in Nat
    BY Finite, LiveIsInt, PoolAssumption DEF PoolInv, PoolAssumption
  <2>3. Occupying(u)' = Occupying(u)
    BY <1>3, OccupiedBy DEF PoolInv
  <2>4. Live(u)' = Live(u) - Cardinality(Old(u))
    <3>1. CASE u \in DOMAIN live'
      BY <1>5, <3>1 DEF Live
    <3>2. CASE u \in DOMAIN live \ DOMAIN live'
      BY <1>5, <3>2 DEF Live
    <3>3. CASE u \notin DOMAIN live
      <4>1. Live(u) = 0 /\ Live(u)' = 0
        BY <1>5, <3>3 DEF Live
      <4>2. Cardinality(IdleFor(u)) = 0
        BY <2>1, <2>2, <4>1
      <4>3. IdleFor(u) = {}
        BY <4>2, Finite, FS_EmptySet DEF PoolInv
      <4>4. Old(u) = {}
        BY <1>4, <4>3
      <4> QED BY <4>1, <4>4, FS_EmptySet
    <3> QED BY <1>5, <3>1, <3>2, <3>3
  <2> QED BY <1>4, <2>1, <2>2, <2>3, <2>4
<1> QED BY <1>2, <1>3, <1>6, <1>7, Assembled

\* What no caller does leaves what the callers hold, and the count.
LEMMA Apart ==
  ASSUME PoolInv, UNCHANGED <<up, home, idle, live, closed, at>>, TypeOK'
  PROVE  PoolInv'
<1>1. /\ \A c \in Callers : HeldBy(c)' = HeldBy(c) /\ (Shape(c)' <=> Shape(c))
      /\ \A v : IdleFor(v)' = IdleFor(v) /\ Occupying(v)' = Occupying(v) /\ Live(v)' = Live(v)
  BY DEF HeldBy, Shape, IdleFor, Occupying, Live
<1> QED BY <1>1 DEF PoolInv, OneHolder, SlotsAreCounted

\* The invariant holds in every reachable state.
THEOREM PoolInvHolds == Spec => []PoolInv
<1>1. Init => PoolInv
  BY InitPool
<1>2. PoolInv /\ [Next]_vars => PoolInv'
  <2> SUFFICES ASSUME PoolInv, [Next]_vars PROVE PoolInv'
    OBVIOUS
  <2>1. ASSUME NEW c \in Callers, Begin(c) PROVE PoolInv'
    BY <2>1, AskStep, AskToFillStep, CloseStep, ReapIdleStep DEF Begin
  <2>2. ASSUME NEW c \in Callers, Proceed(c) PROVE PoolInv'
    BY <2>2, TakeIdleStep, SaturatedStep, ReserveStep, FilledStep, FillReservesStep, StartStep,
       StartFailsStep, StartTransientStep, TransientFailsStep, CallEndsStep, ShelveStep,
       RetireStep, ShutDownStep DEF Proceed
  <2>3. ASSUME NEW w \in Workers, Die(w) PROVE PoolInv'
    <3>1. UNCHANGED <<up, home, idle, since, clock, live, closed, at>> /\ crashed' \subseteq up
      BY <2>3 DEF Die, shelf, PoolInv, TypeOK
    <3>2. TypeOK'
      BY <3>1 DEF PoolInv, TypeOK
    <3> QED BY <3>1, <3>2, Apart
  <2>4. CASE UNCHANGED vars
    <3>1. UNCHANGED <<up, crashed, home, idle, since, clock, live, closed, at>>
      BY <2>4 DEF vars
    <3>2. TypeOK'
      BY <3>1 DEF PoolInv, TypeOK
    <3> QED BY <3>1, <3>2, Apart
  <2> QED BY <2>1, <2>2, <2>3, <2>4 DEF Next
<1> QED BY <1>1, <1>2, PTL DEF Spec

\* The pool's variables keep their types.
THEOREM PoolTypesHold == Spec => []TypeOK
BY PoolInvHolds, PTL DEF PoolInv

\* A worker process is on the shelf or with one caller, and none leaks.
THEOREM OneHolderHolds == Spec => []OneHolder
BY PoolInvHolds, PTL DEF PoolInv

\* An open pool's count of a view's slots is the workers that have one, and
\* at most Size: neither a failed start nor a death eats into it.
THEOREM SlotsAreCountedHolds == Spec => []SlotsAreCounted
BY PoolInvHolds, PTL DEF PoolInv

=============================================================================
