-------------------------- MODULE ConversationProofs --------------------------
(***************************************************************************)
(* What a stored conversation keeps for any sessions, runs, earlier runs   *)
(* and bounds: index and bodies agree whatever write is put back partway,  *)
(* each branch holds its own session's conversation, a loop adds only its  *)
(* run, and the files of a run land with its record.                       *)
(***************************************************************************)
EXTENDS Conversation, SequenceTheorems, NaturalsInduction,
        WellFoundedInduction, TLAPS

-----------------------------------------------------------------------------
(* The stored contents, in order *)

Values == IndexType \cup {Absent} \cup Statuses
KvType == [Keys -> Values]
Contents == [kv : KvType, folds : Seq(Folds), files : SUBSET Runs]
Commits == [holds : Contents, parent : Nat]

\* An index in one plane at most, and under it the bodies it names.
KvGood(kv) ==
    /\ kv \in KvType
    /\ \A k \in {Index, LegacyIndex} : kv[k] = Absent \/ kv[k] \in IndexType
    /\ \A r \in Runs : {kv[Body(r)], kv[LegacyBody(r)]} \subseteq {Absent} \cup Statuses
    /\ kv[Index] = Absent \/ kv[LegacyIndex] = Absent
    /\ \A k \in {Index, LegacyIndex} : kv[k] # Absent => IsInjective(kv[k].runs)
    /\ \A r \in Runs :
          /\ kv[Body(r)] # Absent <=> kv[Index] # Absent /\ r \in ToSet(kv[Index].runs)
          /\ kv[LegacyBody(r)] # Absent
                <=> kv[LegacyIndex] # Absent /\ r \in ToSet(kv[LegacyIndex].runs)

RunsIn(c) == ToSet(ReadIndex(c.kv).runs)

GoodIn(c, m) == c \in Contents /\ KvGood(c.kv) /\ RunsIn(c) \subseteq m /\ c.files \subseteq m

Owned(c, s) == ReadIndex(c.kv).owner \in {NoOwner, s}

-----------------------------------------------------------------------------
(* Keys and indexes *)

LEMMA KeyFacts ==
    /\ Index \in Keys /\ LegacyIndex \in Keys /\ Index # LegacyIndex
    /\ LegacyKeys \subseteq Keys /\ LegacyIndex \in LegacyKeys /\ Index \notin LegacyKeys
    /\ \A r \in Runs :
          /\ Body(r) \in Keys /\ LegacyBody(r) \in Keys /\ LegacyBody(r) \in LegacyKeys
          /\ Body(r) \notin LegacyKeys
          /\ Body(r) # Index /\ Body(r) # LegacyIndex /\ LegacyBody(r) # Index
          /\ LegacyBody(r) # LegacyIndex
          /\ Body(r)[2] = r /\ LegacyBody(r)[2] = r
          /\ \A q \in Runs : /\ Body(r) # LegacyBody(q)
                             /\ Body(r) = Body(q) => r = q
                             /\ LegacyBody(r) = LegacyBody(q) => r = q
BY DEF Index, LegacyIndex, Body, LegacyBody, LegacyKeys, Keys

LEMMA IndexFields ==
    ASSUME NEW x \in IndexType
    PROVE  x.owner \in Sessions /\ x.runs \in Seq(Runs) /\ x # Absent
BY AbsentAssumption DEF IndexType, AbsentAssumption

LEMMA NoneIn == ToSet(<<>>) = {} /\ IsInjective(<<>>) /\ <<>> \in Seq(Runs)
BY DEF ToSet, IsInjective

LEMMA ToSetIs ==
    ASSUME NEW X, NEW s \in Seq(X)
    PROVE  /\ ToSet(s) \in SUBSET X /\ \A x : x \in ToSet(s) <=> \E i \in 1 .. Len(s) : s[i] = x
           /\ s # <<>> => Last(s) \in ToSet(s) /\ Len(s) \in Nat \ {0}
BY DEF ToSet, Last

\* What reading a good plane finds: an index, and the body of each of its runs.
LEMMA ReadIs ==
    ASSUME NEW kv, KvGood(kv)
    PROVE  /\ ReadIndex(kv).runs \in Seq(Runs) /\ IsInjective(ReadIndex(kv).runs)
           /\ ToSet(ReadIndex(kv).runs) \in SUBSET Runs
           /\ ReadIndex(kv) = NoIndex \/ ReadIndex(kv) \in IndexType
           /\ \A r \in Runs : ReadRun(kv, r) # Absent <=> r \in ToSet(ReadIndex(kv).runs)
<1>1. CASE kv[Index] # Absent
  <2>1. ReadIndex(kv) = kv[Index] /\ ~OnLegacy(kv)
    BY <1>1 DEF ReadIndex, OnLegacy
  <2>2. kv[Index] \in IndexType /\ IsInjective(kv[Index].runs)
    BY <1>1 DEF KvGood
  <2>3. \A r \in Runs : ReadRun(kv, r) # Absent <=> r \in ToSet(kv[Index].runs)
    BY <1>1, <2>1 DEF ReadRun, KvGood
  <2> QED BY <2>1, <2>2, <2>3, IndexFields, ToSetIs
<1>2. CASE kv[Index] = Absent /\ kv[LegacyIndex] # Absent
  <2>1. ReadIndex(kv) = kv[LegacyIndex] /\ OnLegacy(kv)
    BY <1>2 DEF ReadIndex, OnLegacy
  <2>2. kv[LegacyIndex] \in IndexType /\ IsInjective(kv[LegacyIndex].runs)
    BY <1>2 DEF KvGood
  <2>3. \A r \in Runs : ReadRun(kv, r) # Absent <=> r \in ToSet(kv[LegacyIndex].runs)
    BY <1>2, <2>1 DEF ReadRun, KvGood
  <2> QED BY <2>1, <2>2, <2>3, IndexFields, ToSetIs
<1>3. CASE kv[Index] = Absent /\ kv[LegacyIndex] = Absent
  <2>1. ReadIndex(kv) = NoIndex /\ NoIndex.runs = <<>> /\ ~OnLegacy(kv)
    BY <1>3 DEF ReadIndex, OnLegacy, NoIndex
  <2>2. \A r \in Runs : ReadRun(kv, r) = Absent
    BY <1>3, <2>1 DEF ReadRun, KvGood
  <2> QED BY <2>1, <2>2, NoneIn
<1> QED BY <1>1, <1>2, <1>3

-----------------------------------------------------------------------------
(* conversation.write *)

\* Runs a write may list: those there were and those it is given, without
\* those it drops.
Lists(kv, index, bodies, dropped) ==
    /\ index \in IndexType /\ IsInjective(index.runs)
    /\ DOMAIN bodies \in SUBSET Runs /\ \A r \in DOMAIN bodies : bodies[r] \in Statuses
    /\ dropped \in SUBSET Runs /\ dropped \cap DOMAIN bodies = {}
    /\ ToSet(index.runs) = (ToSet(ReadIndex(kv).runs) \cup DOMAIN bodies) \ dropped

LEMMA WroteIs ==
    ASSUME NEW kv, KvGood(kv), NEW index, NEW bodies, NEW dropped,
           Lists(kv, index, bodies, dropped)
    PROVE  /\ KvGood(Wrote(kv, Plan(kv, index, bodies, dropped)))
           /\ ReadIndex(Wrote(kv, Plan(kv, index, bodies, dropped))) = index
<1> DEFINE given == DOMAIN bodies
           migrating == kv[LegacyIndex] # Absent
           carried == {r \in ToSet(index.runs) \ (given \cup dropped) :
                          migrating /\ kv[LegacyBody(r)] # Absent}
           put == {Body(r) : r \in given \cup carried}
           gone == {Body(r) : r \in dropped} \cup (IF migrating THEN LegacyKeys ELSE {})
           planned == {Index} \cup put \cup gone
           plan == [k \in planned |->
                       IF k = Index THEN index
                       ELSE IF k \notin put THEN Absent
                       ELSE IF k[2] \in given THEN bodies[k[2]] ELSE kv[LegacyBody(k[2])]]
           new == Wrote(kv, plan)
           old == ToSet(ReadIndex(kv).runs)
<1>1. Plan(kv, index, bodies, dropped) = plan
  BY DEF Plan
<1>2. /\ index \in IndexType /\ IsInjective(index.runs) /\ given \in SUBSET Runs
      /\ \A r \in given : bodies[r] \in Statuses
      /\ dropped \in SUBSET Runs /\ dropped \cap given = {}
      /\ ToSet(index.runs) = (old \cup given) \ dropped
      /\ index # Absent /\ ToSet(index.runs) \in SUBSET Runs
  BY IndexFields, ToSetIs DEF Lists
<1>3. carried \in SUBSET Runs
  BY <1>2
<1>4. /\ \A r \in Runs : Body(r) \in put <=> r \in given \cup carried
      /\ \A r \in Runs : LegacyBody(r) \notin put
      /\ Index \notin put /\ LegacyIndex \notin put
  BY <1>2, <1>3, KeyFacts
<1>5. /\ \A r \in Runs : Body(r) \in gone <=> r \in dropped
      /\ \A r \in Runs : LegacyBody(r) \in gone <=> migrating
      /\ LegacyIndex \in gone <=> migrating
  BY <1>2, KeyFacts
<1> HIDE DEF put, gone
<1>6. DOMAIN plan = planned /\ new = [k \in Keys |-> IF k \in planned THEN plan[k] ELSE kv[k]]
  BY DEF Wrote, Made
<1> HIDE DEF new
<1>7. new[Index] = index
  BY <1>6, KeyFacts
<1>8. new[LegacyIndex] = IF migrating THEN Absent ELSE kv[LegacyIndex]
  BY <1>4, <1>5, <1>6, KeyFacts
<1>9. new[LegacyIndex] = Absent
  BY <1>8
<1>10. \A r \in Runs : new[LegacyBody(r)] = IF migrating THEN Absent ELSE kv[LegacyBody(r)]
  BY <1>4, <1>5, <1>6, KeyFacts
<1>11. \A r \in Runs : new[LegacyBody(r)] = Absent
  <2>1. ~migrating => \A r \in Runs : kv[LegacyBody(r)] = Absent
    BY DEF KvGood
  <2> QED BY <1>10, <2>1
<1>12. \A r \in Runs : new[Body(r)] = IF r \in given THEN bodies[r]
                                      ELSE IF r \in carried THEN kv[LegacyBody(r)]
                                      ELSE IF r \in dropped THEN Absent ELSE kv[Body(r)]
  BY <1>4, <1>5, <1>6, KeyFacts
<1>13. \A r \in Runs : new[Body(r)] # Absent <=> r \in ToSet(index.runs)
  <2>1. \A r \in given : bodies[r] # Absent
    BY <1>2, AbsentAssumption DEF AbsentAssumption
  <2>2. CASE kv[Index] # Absent
    <3>1. ReadIndex(kv) = kv[Index] /\ ~migrating
      BY <2>2 DEF ReadIndex, KvGood
    <3>2. \A r \in Runs : kv[Body(r)] # Absent <=> r \in old
      BY <2>2, <3>1 DEF KvGood
    <3> QED BY <1>2, <1>12, <2>1, <3>1, <3>2
  <2>3. CASE kv[Index] = Absent /\ migrating
    <3>1. ReadIndex(kv) = kv[LegacyIndex]
      BY <2>3 DEF ReadIndex
    <3>2. \A r \in Runs : kv[Body(r)] = Absent /\ (kv[LegacyBody(r)] # Absent <=> r \in old)
      BY <2>3, <3>1 DEF KvGood
    <3>3. \A r \in Runs : r \in carried <=> r \in (ToSet(index.runs) \ (given \cup dropped)) \cap old
      BY <2>3, <3>2
    <3> HIDE DEF carried
    <3> QED BY <1>2, <1>12, <2>1, <3>2, <3>3
  <2>4. CASE kv[Index] = Absent /\ ~migrating
    <3>1. old = {}
      BY <2>4, NoneIn DEF ReadIndex, NoIndex
    <3>2. \A r \in Runs : kv[Body(r)] = Absent
      BY <2>4 DEF KvGood
    <3> QED BY <1>2, <1>12, <2>1, <2>4, <3>1, <3>2
  <2> QED BY <2>2, <2>3, <2>4
<1>14. \A r \in Runs : {new[Body(r)], new[LegacyBody(r)]} \subseteq {Absent} \cup Statuses
  <2>1. \A r \in Runs : {kv[Body(r)], kv[LegacyBody(r)]} \subseteq {Absent} \cup Statuses
    BY DEF KvGood
  <2> QED BY <1>2, <1>11, <1>12, <2>1
<1>15. new \in KvType
  <2>1. \A k \in Keys : new[k] \in Values
    BY <1>2, <1>7, <1>9, <1>14 DEF Keys, LegacyKeys, Values
  <2>2. new = [k \in Keys |-> new[k]]
    BY <1>6
  <2> QED BY <2>1, <2>2 DEF KvType
<1>16. KvGood(new)
  BY <1>2, <1>7, <1>9, <1>11, <1>13, <1>14, <1>15 DEF KvGood
<1>17. ReadIndex(new) = index
  BY <1>2, <1>7 DEF ReadIndex
<1> QED BY <1>1, <1>16, <1>17 DEF new

\* A write that raised left the plane as it was; one that did not, good.
LEMMA WritesAre ==
    ASSUME NEW kv, KvGood(kv), NEW index, NEW bodies, NEW dropped,
           Lists(kv, index, bodies, dropped), NEW w \in Writes(kv, index, bodies, dropped)
    PROVE  /\ w.raised => w.kv = kv
           /\ ~w.raised => KvGood(w.kv) /\ ReadIndex(w.kv) = index
           /\ w.raised \in BOOLEAN
<1> DEFINE plan == Plan(kv, index, bodies, dropped)
<1>1. KvGood(Wrote(kv, plan)) /\ ReadIndex(Wrote(kv, plan)) = index
  BY WroteIs
<1> HIDE DEF plan
<1>2. kv = [k \in Keys |-> kv[k]]
  BY DEF KvGood, KvType
<1>3. ASSUME NEW done
      PROVE  PutBack(kv, Made(kv, plan, done), done) = kv
  <2>1. PutBack(kv, Made(kv, plan, done), done) = [k \in Keys |-> kv[k]]
    BY DEF PutBack, Made
  <2> QED BY <1>2, <2>1
<1>4. \/ w = [kv |-> Wrote(kv, plan), raised |-> FALSE]
      \/ \E done : w = [kv |-> PutBack(kv, Made(kv, plan, done), done), raised |-> TRUE]
  BY DEF Writes, plan
<1>5. CASE w = [kv |-> Wrote(kv, plan), raised |-> FALSE]
  <2>1. w.kv = Wrote(kv, plan) /\ w.raised = FALSE
    BY <1>5
  <2> QED BY <1>1, <2>1
<1>6. CASE \E done : w = [kv |-> PutBack(kv, Made(kv, plan, done), done), raised |-> TRUE]
  <2>1. PICK done : w = [kv |-> PutBack(kv, Made(kv, plan, done), done), raised |-> TRUE]
    BY <1>6
  <2>2. w.kv = PutBack(kv, Made(kv, plan, done), done) /\ w.raised = TRUE
    BY <2>1
  <2>3. w.kv = kv
    BY <1>3, <2>2
  <2> QED BY <2>2, <2>3
<1> QED BY <1>4, <1>5, <1>6

-----------------------------------------------------------------------------
(* What is done to a branch's contents *)

LEMMA WithKv ==
    ASSUME NEW m, NEW c, GoodIn(c, m), NEW kv, KvGood(kv), ToSet(ReadIndex(kv).runs) \in SUBSET m
    PROVE  /\ GoodIn([c EXCEPT !.kv = kv], m)
           /\ [c EXCEPT !.kv = kv].kv = kv
           /\ [c EXCEPT !.kv = kv].files = c.files
           /\ [c EXCEPT !.kv = kv].folds = c.folds
<1> DEFINE d == [c EXCEPT !.kv = kv]
<1>1. c \in [kv : KvType, folds : Seq(Folds), files : SUBSET Runs] /\ kv \in KvType
  BY DEF GoodIn, Contents, KvGood
<1>2. d.kv = kv /\ d.files = c.files /\ d.folds = c.folds
  BY <1>1
<1>3. d \in Contents
  BY <1>1 DEF Contents
<1> HIDE DEF d
<1>4. GoodIn(d, m)
  BY <1>2, <1>3 DEF GoodIn, RunsIn
<1> QED BY <1>2, <1>4 DEF d

\* What is good among some runs is good among more.
LEMMA GoodAmongMore ==
    ASSUME NEW m, NEW n, m \in SUBSET n, NEW c, GoodIn(c, m)
    PROVE  GoodIn(c, n)
BY DEF GoodIn

LEMMA ReboundIs ==
    ASSUME NEW m, NEW c, GoodIn(c, m), NEW s \in Sessions
    PROVE  /\ GoodIn(Rebound(c, s), m) /\ Owned(Rebound(c, s), s)
           /\ ReadIndex(Rebound(c, s).kv).runs = ReadIndex(c.kv).runs
           /\ Rebound(c, s).files = c.files /\ Rebound(c, s).folds = c.folds
<1> DEFINE index == ReadIndex(c.kv)
           own == [index EXCEPT !.owner = s]
           kv == Wrote(c.kv, Plan(c.kv, own, NoBodies, {}))
<1>1. CASE index.owner \in {NoOwner, s}
  <2>1. Rebound(c, s) = c
    BY <1>1 DEF Rebound
  <2> QED BY <1>1, <2>1 DEF Owned
<1>2. CASE index.owner \notin {NoOwner, s}
  <2>1. Rebound(c, s) = [c EXCEPT !.kv = kv]
    BY <1>2 DEF Rebound
  <2>2. KvGood(c.kv)
    BY DEF GoodIn
  <2>3. index \in IndexType /\ IsInjective(index.runs)
    BY <1>2, <2>2, ReadIs DEF NoIndex
  <2>4. own \in IndexType /\ own.runs = index.runs /\ own.owner = s
    BY <2>3 DEF IndexType
  <2> HIDE DEF own
  <2>5. DOMAIN NoBodies = {}
    BY DEF NoBodies
  <2>6. Lists(c.kv, own, NoBodies, {})
    BY <2>3, <2>4, <2>5 DEF Lists
  <2>7. KvGood(kv) /\ ReadIndex(kv) = own
    BY <2>2, <2>6, WroteIs
  <2> HIDE DEF kv
  <2>8. ToSet(ReadIndex(kv).runs) \in SUBSET m
    BY <2>4, <2>7 DEF GoodIn, RunsIn
  <2>9. PICK d : d = [c EXCEPT !.kv = kv]
    OBVIOUS
  <2>10. GoodIn(d, m) /\ d.kv = kv /\ d.files = c.files /\ d.folds = c.folds
    BY <2>7, <2>8, <2>9, WithKv
  <2> QED BY <2>1, <2>4, <2>7, <2>9, <2>10 DEF Owned
<1> QED BY <1>1, <1>2

LEMMA EmptyKv ==
    KvGood(Empty.kv) /\ ReadIndex(Empty.kv) = NoIndex /\ NoIndex.owner = NoOwner /\ NoIndex.runs = <<>>
<1> DEFINE kv == [k \in Keys |-> Absent]
<1>1. Empty.kv = kv
  BY DEF Empty
<1>2. \A k \in Keys : kv[k] = Absent
  OBVIOUS
<1>3. kv \in KvType
  BY DEF KvType, Values
<1> HIDE DEF kv
<1>4. KvGood(kv)
  BY <1>2, <1>3, KeyFacts DEF KvGood
<1>5. ReadIndex(kv) = NoIndex
  BY <1>2, KeyFacts DEF ReadIndex
<1> QED BY <1>1, <1>4, <1>5 DEF NoIndex

LEMMA ClearedIs ==
    ASSUME NEW m, NEW c, GoodIn(c, m)
    PROVE  /\ GoodIn(Cleared(c), m) /\ \A s : Owned(Cleared(c), s)
           /\ ReadIndex(Cleared(c).kv).runs = <<>> /\ Cleared(c).files = c.files
           /\ Cleared(c).folds = c.folds
<1>1. ToSet(ReadIndex(Empty.kv).runs) \in SUBSET m
  BY EmptyKv, NoneIn
<1>2. PICK kv : kv = Empty.kv
  OBVIOUS
<1>3. GoodIn([c EXCEPT !.kv = kv], m) /\ [c EXCEPT !.kv = kv].kv = kv
      /\ [c EXCEPT !.kv = kv].files = c.files /\ [c EXCEPT !.kv = kv].folds = c.folds
  BY <1>1, <1>2, WithKv, EmptyKv
<1>4. Cleared(c) = [c EXCEPT !.kv = kv]
  BY <1>2 DEF Cleared
<1> QED BY <1>2, <1>3, <1>4, EmptyKv DEF Owned

LEMMA NoFolds ==
    ASSUME NEW m, NEW c, GoodIn(c, m)
    PROVE  /\ GoodIn([c EXCEPT !.folds = <<>>], m) /\ [c EXCEPT !.folds = <<>>].kv = c.kv
           /\ [c EXCEPT !.folds = <<>>].files = c.files /\ [c EXCEPT !.folds = <<>>].folds = <<>>
<1>1. PICK none : none = <<>> /\ none \in Seq(Folds)
  BY EmptySeq
<1> DEFINE d == [c EXCEPT !.folds = none]
<1>2. c \in [kv : KvType, folds : Seq(Folds), files : SUBSET Runs]
  BY DEF GoodIn, Contents
<1>3. d.kv = c.kv /\ d.files = c.files /\ d.folds = none
  BY <1>2
<1>4. d \in Contents
  BY <1>1, <1>2 DEF Contents
<1> HIDE DEF d
<1>5. GoodIn(d, m)
  BY <1>3, <1>4 DEF GoodIn, RunsIn
<1> QED BY <1>1, <1>3, <1>5 DEF d

LEMMA WipedIs ==
    ASSUME NEW m, NEW c, GoodIn(c, m)
    PROVE  /\ GoodIn(Wiped(c), m) /\ (\A s : Owned(Wiped(c), s)) /\ Wiped(c).files = c.files
           /\ Wiped(c).folds = <<>>
<1>1. PICK d : d = Cleared(c)
  OBVIOUS
<1>2. GoodIn(d, m) /\ (\A s : Owned(d, s)) /\ d.files = c.files
  BY <1>1, ClearedIs
<1>3. PICK e : e = [d EXCEPT !.folds = <<>>]
  OBVIOUS
<1>4. GoodIn(e, m) /\ e.kv = d.kv /\ e.files = d.files /\ e.folds = <<>>
  BY <1>2, <1>3, NoFolds
<1>5. Wiped(c) = e
  BY <1>1, <1>3 DEF Wiped
<1> QED BY <1>2, <1>4, <1>5 DEF Owned

LEMMA EmptiedIs ==
    ASSUME NEW m, NEW c, GoodIn(c, m), NEW s \in Sessions, Owned(c, s)
    PROVE  /\ GoodIn(Emptied(c), m) /\ Owned(Emptied(c), s) /\ Emptied(c).files = c.files
           /\ Emptied(c).folds = <<>>
<1> DEFINE index == ReadIndex(c.kv)
           left == [index EXCEPT !.runs = <<>>]
           stored == {r \in Runs : c.kv[Body(r)] # Absent}
           all == stored \cup ToSet(index.runs)
           kv == IF Holds(c.kv) THEN Wrote(c.kv, Plan(c.kv, left, NoBodies, all)) ELSE c.kv
<1>1. KvGood(c.kv) /\ ToSet(index.runs) \in SUBSET Runs
  BY ReadIs DEF GoodIn
<1>2. KvGood(kv) /\ ToSet(ReadIndex(kv).runs) \in SUBSET m /\ ReadIndex(kv).owner \in {NoOwner, s}
  <2>1. CASE Holds(c.kv)
    <3>1. index \in IndexType
      BY <1>1, <2>1, ReadIs DEF Holds
    <3>2. left \in IndexType /\ left.runs = <<>> /\ left.owner = index.owner
      BY <3>1, NoneIn DEF IndexType
    <3> HIDE DEF left
    <3>3. DOMAIN NoBodies = {}
      BY DEF NoBodies
    <3>4. Lists(c.kv, left, NoBodies, all)
      BY <1>1, <3>2, <3>3, NoneIn DEF Lists
    <3> HIDE DEF all
    <3>5. KvGood(kv) /\ ReadIndex(kv) = left
      BY <1>1, <2>1, <3>4, WroteIs
    <3> HIDE DEF kv
    <3> QED BY <3>2, <3>5, NoneIn DEF Owned
  <2>2. CASE ~Holds(c.kv)
    <3>1. kv = c.kv
      BY <2>2
    <3> QED BY <1>1, <3>1 DEF GoodIn, RunsIn, Owned
  <2> QED BY <2>1, <2>2
<1> HIDE DEF kv
<1>3. PICK d : d = [c EXCEPT !.kv = kv]
  OBVIOUS
<1>4. GoodIn(d, m) /\ d.kv = kv /\ d.files = c.files
  BY <1>2, <1>3, WithKv
<1>5. PICK e : e = [d EXCEPT !.folds = <<>>]
  OBVIOUS
<1>6. GoodIn(e, m) /\ e.kv = d.kv /\ e.files = d.files /\ e.folds = <<>>
  BY <1>4, <1>5, NoFolds
<1>7. Emptied(c) = e
  <2>1. c \in [kv : KvType, folds : Seq(Folds), files : SUBSET Runs]
    BY DEF GoodIn, Contents
  <2>2. Emptied(c) = [c EXCEPT !.folds = <<>>, !.kv = kv]
    BY DEF Emptied, kv
  <2> QED BY <1>3, <1>5, <2>1, <2>2
<1> QED BY <1>2, <1>4, <1>6, <1>7 DEF Owned

-----------------------------------------------------------------------------
(* Runs in order *)

LEMMA SubSeqIs ==
    ASSUME NEW X, NEW s \in Seq(X), NEW a \in Nat \ {0}, NEW b \in Nat, b <= Len(s)
    PROVE  /\ SubSeq(s, a, b) \in Seq(X)
           /\ Len(SubSeq(s, a, b)) = IF a <= b THEN b - a + 1 ELSE 0
           /\ \A i \in 1 .. Len(SubSeq(s, a, b)) : SubSeq(s, a, b)[i] = s[a + i - 1]
<1>1. \A i \in a .. b : s[i] \in X
  BY ElementOfSeq
<1> QED BY <1>1, SubSeqProperties

LEMMA AppendIs ==
    ASSUME NEW X, NEW s \in Seq(X), NEW x \in X
    PROVE  /\ Append(s, x) \in Seq(X) /\ Append(s, x) # <<>>
           /\ Len(Append(s, x)) = Len(s) + 1
           /\ \A i \in 1 .. Len(s) : Append(s, x)[i] = s[i]
           /\ Append(s, x)[Len(s) + 1] = x
           /\ Last(Append(s, x)) = x
           /\ ToSet(Append(s, x)) = ToSet(s) \cup {x}
           /\ IsInjective(s) /\ x \notin ToSet(s) => IsInjective(Append(s, x))
<1>1. /\ Append(s, x) \in Seq(X) /\ Append(s, x) # <<>>
      /\ Len(Append(s, x)) = Len(s) + 1
      /\ \A i \in 1 .. Len(s) : Append(s, x)[i] = s[i]
      /\ Append(s, x)[Len(s) + 1] = x
  OBVIOUS
<1> DEFINE t == Append(s, x)
<1>2. Last(t) = x
  BY <1>1 DEF Last
<1>3. /\ \A y : y \in ToSet(t) <=> \E i \in 1 .. Len(t) : t[i] = y
      /\ \A y : y \in ToSet(s) <=> \E i \in 1 .. Len(s) : s[i] = y
  BY <1>1, ToSetIs
<1> HIDE DEF t
<1>4. Len(s) \in Nat /\ Len(t) = Len(s) + 1 /\ t[Len(s) + 1] = x
      /\ (\A i \in 1 .. Len(s) : t[i] = s[i]) /\ t \in Seq(X)
  BY <1>1 DEF t
<1>5. ToSet(t) = ToSet(s) \cup {x}
  <2>1. ASSUME NEW y \in ToSet(t)
        PROVE  y \in ToSet(s) \cup {x}
    <3>1. PICK i \in 1 .. Len(t) : t[i] = y
      BY <1>3
    <3>2. i \in 1 .. Len(s) \/ i = Len(s) + 1
      BY <1>4
    <3> QED BY <1>3, <1>4, <3>1, <3>2
  <2>2. ASSUME NEW y \in ToSet(s)
        PROVE  y \in ToSet(t)
    <3>1. PICK i \in 1 .. Len(s) : s[i] = y
      BY <1>3
    <3>2. i \in 1 .. Len(t) /\ t[i] = y
      BY <1>4, <3>1
    <3> QED BY <1>3, <3>2
  <2>3. x \in ToSet(t)
    BY <1>3, <1>4
  <2> QED BY <2>1, <2>2, <2>3
<1>6. ASSUME IsInjective(s), x \notin ToSet(s)
      PROVE  IsInjective(t)
  <2>1. \A a, b \in 1 .. Len(s) : s[a] = s[b] => a = b
    BY <1>6 DEF IsInjective
  <2>2. \A a \in 1 .. Len(s) : s[a] # x
    BY <1>3, <1>6
  <2>3. ASSUME NEW a \in 1 .. Len(t), NEW b \in 1 .. Len(t), t[a] = t[b]
        PROVE  a = b
    <3>1. (a \in 1 .. Len(s) \/ a = Len(s) + 1) /\ (b \in 1 .. Len(s) \/ b = Len(s) + 1)
      BY <1>4
    <3> QED BY <1>4, <2>1, <2>2, <2>3, <3>1
  <2>4. DOMAIN t = 1 .. Len(t)
    BY <1>4
  <2> QED BY <2>3, <2>4 DEF IsInjective
<1> QED BY <1>1, <1>2, <1>5, <1>6 DEF t

LEMMA FrontIs ==
    ASSUME NEW X, NEW s \in Seq(X), s # <<>>
    PROVE  /\ Front(s) \in Seq(X) /\ Len(Front(s)) = Len(s) - 1
           /\ \A i \in 1 .. Len(Front(s)) : Front(s)[i] = s[i]
           /\ s[Len(s)] = Last(s) /\ Last(s) \in X
           /\ Len(s) \in Nat \ {0}
<1>1. Len(s) \in Nat \ {0}
  BY EmptySeq
<1>2. PICK b \in Nat : b = Len(s) - 1
  BY <1>1
<1>3. b <= Len(s) /\ 1 \in Nat \ {0} /\ (IF 1 <= b THEN b - 1 + 1 ELSE 0) = b
  BY <1>1, <1>2
<1>4. SubSeq(s, 1, b) \in Seq(X) /\ Len(SubSeq(s, 1, b)) = b
      /\ \A i \in 1 .. b : SubSeq(s, 1, b)[i] = s[1 + i - 1]
  BY ONLY <1>3, SubSeqIs, b \in Nat, s \in Seq(X)
<1>5. \A i \in 1 .. b : 1 + i - 1 = i
  OBVIOUS
<1>6. Front(s) = SubSeq(s, 1, b)
  BY <1>2 DEF Front
<1>7. s[Len(s)] \in X
  BY <1>1, ElementOfSeq
<1> QED BY <1>1, <1>2, <1>4, <1>5, <1>6, <1>7 DEF Last

\* The first runs of a sequence with those it leads on to.
Overlaps(known, incoming, prior, kept) ==
    /\ kept \in Nat /\ Len(known) = kept + Len(prior)
    /\ SubSeq(known, kept + 1, Len(known)) = prior /\ Len(prior) <= Len(incoming)
    /\ \A i \in 1 .. Len(prior) : prior[i] = incoming[i]

Joined(X, all, known, incoming, kept) ==
    /\ all \in Seq(X) /\ Len(all) = kept + Len(incoming)
    /\ \A i \in 1 .. Len(known) : all[i] = known[i]
    /\ \A i \in Len(known) + 1 .. kept + Len(incoming) : all[i] = incoming[i - kept]

LEMMA Overlap ==
    ASSUME NEW X, NEW known \in Seq(X), NEW incoming \in Seq(X), NEW prior \in Seq(X),
           NEW kept, Overlaps(known, incoming, prior, kept),
           NEW all, all = SubSeq(known, 1, kept) \o incoming
    PROVE  Joined(X, all, known, incoming, kept)
<1> USE DEF Overlaps
<1>1. Len(known) \in Nat /\ Len(incoming) \in Nat /\ Len(prior) \in Nat /\ kept \in Nat
  OBVIOUS
<1>2. PICK base : base = SubSeq(known, 1, kept)
  OBVIOUS
<1>3. base \in Seq(X) /\ Len(base) = kept /\ \A i \in 1 .. kept : base[i] = known[i]
  <2>1. kept <= Len(known) /\ 1 \in Nat \ {0} /\ (IF 1 <= kept THEN kept - 1 + 1 ELSE 0) = kept
    BY <1>1
  <2>2. base \in Seq(X) /\ Len(base) = kept /\ \A i \in 1 .. kept : base[i] = known[1 + i - 1]
    BY ONLY <1>1, <1>2, <2>1, SubSeqIs, known \in Seq(X)
  <2>3. \A i \in 1 .. kept : 1 + i - 1 = i
    OBVIOUS
  <2> QED BY <2>2, <2>3
<1>4. PICK first, last : first = kept + 1 /\ last = Len(known)
  OBVIOUS
<1>5. \A i \in 1 .. Len(prior) : prior[i] = known[kept + i]
  <2>1. first \in Nat \ {0} /\ last \in Nat /\ last <= Len(known) /\ prior = SubSeq(known, first, last)
    BY <1>1, <1>4
  <2>2. \A i \in 1 .. Len(prior) : prior[i] = known[first + i - 1]
    BY ONLY <2>1, SubSeqIs, known \in Seq(X)
  <2>3. \A i \in 1 .. Len(prior) : first + i - 1 = kept + i
    BY <1>4
  <2> QED BY <2>2, <2>3
<1>6. all = base \o incoming
  BY <1>2
<1>7. /\ all \in Seq(X) /\ Len(all) = kept + Len(incoming)
      /\ \A i \in 1 .. kept + Len(incoming) :
            all[i] = IF i <= kept THEN base[i] ELSE incoming[i - kept]
  BY ONLY <1>3, <1>6, ConcatProperties, incoming \in Seq(X)
<1>8. ASSUME NEW i \in 1 .. Len(known)
      PROVE  all[i] = known[i]
  <2>1. CASE i <= kept
    BY <1>1, <1>3, <1>7, <2>1
  <2>2. CASE i > kept
    <3>1. PICK j : j = i - kept
      OBVIOUS
    <3>2. j \in 1 .. Len(prior) /\ kept + j = i /\ i \in 1 .. kept + Len(incoming) /\ ~(i <= kept)
      BY <1>1, <2>2, <3>1
    <3>3. all[i] = incoming[j]
      BY <1>7, <3>1, <3>2
    <3>4. prior[j] = incoming[j] /\ prior[j] = known[kept + j]
      BY <1>5, <3>2
    <3> QED BY <3>2, <3>3, <3>4
  <2> QED BY <1>1, <2>1, <2>2
<1>9. ASSUME NEW i \in Len(known) + 1 .. kept + Len(incoming)
      PROVE  all[i] = incoming[i - kept]
  <2>1. i \in 1 .. kept + Len(incoming) /\ ~(i <= kept)
    BY <1>1
  <2> QED BY <1>7, <2>1
<1> QED BY ONLY <1>7, <1>8, <1>9 DEF Joined

\* A sequence of runs that leads on from what is known changes none of it: it
\* adds its last run, or nothing.
LEMMA LeadsOnIs ==
    ASSUME NEW X, NEW known \in Seq(X), NEW incoming \in Seq(X), incoming # <<>>,
           NEW prior, prior = IF Last(incoming) \notin ToSet(known) THEN Front(incoming)
                              ELSE incoming,
           NEW kept, kept = Len(known) - Len(prior), kept >= 0,
           SubSeq(known, kept + 1, Len(known)) = prior
    PROVE  SubSeq(known, 1, kept) \o incoming =
               IF Last(incoming) \in ToSet(known) THEN known
               ELSE Append(known, Last(incoming))
<1>1. PICK x : x = Last(incoming)
  OBVIOUS
<1>2. PICK all : all = SubSeq(known, 1, kept) \o incoming
  OBVIOUS
<1>3. Front(incoming) \in Seq(X) /\ Len(Front(incoming)) = Len(incoming) - 1
      /\ (\A i \in 1 .. Len(Front(incoming)) : Front(incoming)[i] = incoming[i])
      /\ x \in X /\ Len(incoming) \in Nat \ {0} /\ incoming[Len(incoming)] = x
  BY ONLY <1>1, FrontIs, incoming \in Seq(X), incoming # <<>>
<1>4. prior = IF x \notin ToSet(known) THEN Front(incoming) ELSE incoming
  BY <1>1
<1>5. /\ prior \in Seq(X) /\ Len(prior) \in Nat /\ Len(prior) <= Len(incoming)
      /\ \A i \in 1 .. Len(prior) : prior[i] = incoming[i]
  BY ONLY <1>3, <1>4, incoming \in Seq(X)
<1>6. Len(known) \in Nat
  BY ONLY known \in Seq(X)
<1>7. kept \in Nat /\ Len(known) = kept + Len(prior)
  BY ONLY <1>5, <1>6, kept = Len(known) - Len(prior), kept >= 0
<1>8. /\ all \in Seq(X) /\ Len(all) = kept + Len(incoming)
      /\ \A i \in 1 .. Len(known) : all[i] = known[i]
      /\ \A i \in Len(known) + 1 .. kept + Len(incoming) : all[i] = incoming[i - kept]
  <2>1. Overlaps(known, incoming, prior, kept)
    BY <1>5, <1>7 DEF Overlaps
  <2>2. Joined(X, all, known, incoming, kept)
    BY ONLY <1>2, <1>5, <2>1, Overlap, known \in Seq(X), incoming \in Seq(X)
  <2> QED BY ONLY <2>2 DEF Joined
<1>9. CASE x \in ToSet(known)
  <2>1. Len(all) = Len(known)
    <3>1. Len(prior) = Len(incoming) /\ Len(all) = kept + Len(incoming)
      BY ONLY <1>4, <1>8, <1>9
    <3> QED BY ONLY <1>7, <3>1
  <2>2. all = known
    BY ONLY <1>8, <2>1, SeqEqual, known \in Seq(X)
  <2> QED BY <1>1, <1>2, <1>9, <2>2
<1>10. CASE x \notin ToSet(known)
  <2>1. PICK more : more = Append(known, x)
    OBVIOUS
  <2>2. /\ more \in Seq(X) /\ Len(more) = Len(known) + 1
        /\ \A i \in 1 .. Len(known) : more[i] = known[i]
        /\ more[Len(known) + 1] = x
    BY ONLY <1>3, <2>1, AppendIs, known \in Seq(X)
  <2>3. Len(all) = Len(known) + 1 /\ kept + Len(incoming) = Len(known) + 1
        /\ Len(known) + 1 - kept = Len(incoming)
    <3>1. Len(prior) = Len(incoming) - 1
      BY ONLY <1>3, <1>4, <1>10
    <3>2. Len(all) = kept + Len(incoming)
      BY ONLY <1>8
    <3> QED BY ONLY <1>3, <1>6, <1>7, <3>1, <3>2
  <2>4. all[Len(known) + 1] = x
    <3>1. PICK e : e = Len(known) + 1
      OBVIOUS
    <3>2. e \in Len(known) + 1 .. kept + Len(incoming) /\ e - kept = Len(incoming)
      BY ONLY <1>3, <1>6, <1>7, <2>3, <3>1
    <3>3. all[e] = incoming[e - kept]
      BY ONLY <1>8, <3>2
    <3> QED BY ONLY <1>3, <3>1, <3>2, <3>3
  <2>5. \A i \in 1 .. Len(all) : all[i] = more[i]
    <3>1. \A i \in 1 .. Len(all) : i \in 1 .. Len(known) \/ i = Len(known) + 1
      BY ONLY <1>6, <2>3
    <3> QED BY ONLY <1>8, <2>2, <2>4, <3>1
  <2>6. all = more
    BY ONLY <1>8, <2>2, <2>3, <2>5, SeqEqual
  <2> QED BY <1>1, <1>2, <1>10, <2>1, <2>6
<1> QED BY <1>9, <1>10

-----------------------------------------------------------------------------
(* Commits *)

LogOK(log, m) ==
    /\ log \in Seq(Commits)
    /\ \A i \in 1 .. Len(log) : log[i].parent \in 0 .. i - 1 /\ GoodIn(log[i].holds, m)

BranchOK(b, m) == LogOK(b.log, m) /\ b.head \in 1 .. Len(b.log)

\* A branch once something has been committed on it: what was in the log is
\* there still, and its head holds what was committed.
Extended(b, base, c) ==
    /\ b.log[b.head].holds = c /\ Len(base.log) <= Len(b.log)
    /\ \A i \in 1 .. Len(base.log) : b.log[i] = base.log[i]
    /\ \/ b = base
       \/ /\ b.head = Len(base.log) + 1 /\ Len(b.log) = Len(base.log) + 1
          /\ b.log[b.head].parent = base.head

LEMMA BranchIs ==
    ASSUME NEW at
    PROVE  Branch(at).log = commits /\ Branch(at).head = at
BY DEF Branch

LEMMA LogMore ==
    ASSUME NEW m, NEW n, m \in SUBSET n, NEW log, LogOK(log, m)
    PROVE  LogOK(log, n)
BY GoodAmongMore DEF LogOK

LEMMA ExtendIs ==
    ASSUME NEW m, NEW base, BranchOK(base, m), NEW c, GoodIn(c, m)
    PROVE  BranchOK(Extend(base, c), m) /\ Extended(Extend(base, c), base, c)
<1>1. PICK log, at : log = base.log /\ at = base.head
  OBVIOUS
<1>2. PICK b : b = Extend(base, c)
  OBVIOUS
<1>3. LogOK(log, m) /\ at \in 1 .. Len(log) /\ log \in Seq(Commits) /\ Len(log) \in Nat
  BY <1>1 DEF BranchOK, LogOK
<1>4. CASE c = log[at].holds
  <2>1. b = base
    BY <1>1, <1>2, <1>4 DEF Extend
  <2>2. BranchOK(base, m) /\ Extended(base, base, c)
    BY <1>1, <1>3, <1>4 DEF Extended
  <2> QED BY <1>2, <2>1, <2>2
<1>5. CASE c # log[at].holds
  <2>1. PICK new : new = [holds |-> c, parent |-> at]
    OBVIOUS
  <2>2. new \in Commits /\ new.holds = c /\ new.parent = at
    BY <1>3, <2>1 DEF Commits, GoodIn
  <2>3. PICK more : more = Append(log, new)
    OBVIOUS
  <2>4. /\ more \in Seq(Commits) /\ Len(more) = Len(log) + 1
        /\ \A i \in 1 .. Len(log) : more[i] = log[i]
        /\ more[Len(log) + 1] = new
    BY <1>3, <2>2, <2>3
  <2>5. b = [log |-> more, head |-> Len(log) + 1]
    BY <1>1, <1>2, <1>5, <2>1, <2>3 DEF Extend
  <2>6. b.log = more /\ b.head = Len(log) + 1
    BY <2>5
  <2>7. LogOK(more, m)
    <3>1. \A i \in 1 .. Len(more) : i \in 1 .. Len(log) \/ i = Len(log) + 1
      BY <1>3, <2>4
    <3>2. \A i \in 1 .. Len(log) : more[i].parent \in 0 .. i - 1 /\ GoodIn(more[i].holds, m)
      BY <1>3, <2>4 DEF LogOK
    <3>3. new.parent \in 0 .. Len(log) + 1 - 1 /\ GoodIn(new.holds, m)
      BY <1>3, <2>2
    <3> QED BY <2>4, <3>1, <3>2, <3>3 DEF LogOK
  <2>8. BranchOK(b, m)
    BY <1>3, <2>4, <2>6, <2>7 DEF BranchOK
  <2>9. Extended(b, base, c)
    BY <1>1, <1>3, <2>2, <2>4, <2>6 DEF Extended
  <2> QED BY <1>2, <2>8, <2>9
<1> QED BY <1>4, <1>5

-----------------------------------------------------------------------------
(* The invariant *)

\* Commits and branches hold good contents, and a session's branch, and what
\* is staged on it, its own.
StoreOK ==
    /\ LogOK(commits, minted)
    /\ head \in [Sessions -> 0 .. Len(commits)]
    /\ staged \in [Sessions -> Contents]
    /\ \A s \in Sessions :
          /\ GoodIn(staged[s], minted)
          /\ Live(s) => Owned(staged[s], s) /\ Owned(HeadOf(s), s)

Phases == {"idle", "running", "cut", "stored", "keeping", "ending"}
Loops == [at : Phases, run : Runs \cup {NoRun}, prior : Seq(Runs), turn : BOOLEAN,
          whole : BOOLEAN, said : SUBSET Runs, anchor : Runs \cup {NoRun}, rest : Seq(Runs)]

\* A loop that is not idle runs on a live branch, with a run given out.
LoopOK(l, m) ==
    /\ l \in Loops /\ ToSet(l.prior) \subseteq m
    /\ l.run \in m \cup {NoRun} /\ (l.at # "idle" => l.run \in m)
    /\ l.at = "keeping" => l.prior # <<>> /\ Last(l.prior) = l.run

LoopsOK ==
    /\ loop \in [Sessions -> Loops]
    /\ \A s \in Sessions : LoopOK(loop[s], minted) /\ (~At(s, "idle") => Live(s))
    /\ unstored \in SUBSET minted /\ minted \in SUBSET Runs

\* A run is where a loop put it: last, if it is there.
EndsWith(c, r) == r \in RunsIn(c) => Last(ReadIndex(c.kv).runs) = r

PastHolds(s) == {commits[i].holds : i \in Past[head[s]]}
PastFiles(s) == UNION {c.files : c \in PastHolds(s)}
InHand(s) == IF At(s, "running") THEN {loop[s].run} ELSE {}

\* While a loop runs nothing is added to its branch, or was before, behind its
\* run; and the files staged are committed already, of a run in the
\* conversation, of a run that was lost, or of the run still running.
History(s) ==
    /\ ~At(s, "idle") => \A c \in PastHolds(s) \cup {staged[s]} : EndsWith(c, loop[s].run)
    /\ Live(s) => \A f \in staged[s].files :
                      f \in PastFiles(s) \cup RunsOf(s) \cup unstored \cup InHand(s)

ConvInv == StoreOK /\ LoopsOK /\ \A s \in Sessions : History(s)

LEMMA StoreUse ==
    ASSUME StoreOK, NEW s \in Sessions
    PROVE  /\ GoodIn(staged[s], minted) /\ staged[s] \in Contents /\ KvGood(staged[s].kv)
           /\ RunsOf(s) \in SUBSET minted
           /\ head[s] \in 0 .. Len(commits) /\ Len(commits) \in Nat
           /\ Live(s) => /\ head[s] \in 1 .. Len(commits) /\ GoodIn(HeadOf(s), minted)
                         /\ Owned(staged[s], s) /\ Owned(HeadOf(s), s)
                         /\ BranchOK(Branch(head[s]), minted)
<1>1. GoodIn(staged[s], minted) /\ staged[s] \in Contents /\ KvGood(staged[s].kv)
  BY DEF StoreOK, GoodIn
<1>2. RunsOf(s) \in SUBSET minted
  BY <1>1 DEF GoodIn, RunsIn, RunsOf, IndexOf
<1>3. head[s] \in 0 .. Len(commits) /\ Len(commits) \in Nat /\ LogOK(commits, minted)
  BY DEF StoreOK, LogOK
<1>4. ASSUME Live(s)
      PROVE  /\ head[s] \in 1 .. Len(commits) /\ GoodIn(HeadOf(s), minted)
             /\ Owned(staged[s], s) /\ Owned(HeadOf(s), s)
             /\ BranchOK(Branch(head[s]), minted)
  <2>1. head[s] \in 1 .. Len(commits)
    BY <1>3, <1>4 DEF Live
  <2>2. GoodIn(HeadOf(s), minted)
    BY <1>3, <2>1 DEF LogOK, HeadOf
  <2>3. Owned(staged[s], s) /\ Owned(HeadOf(s), s)
    BY <1>4 DEF StoreOK
  <2> QED BY <1>3, <2>1, <2>2, <2>3, BranchIs DEF BranchOK
<1> QED BY <1>1, <1>2, <1>3, <1>4

\* What is left staged, or landed, is good and the session's own.
LEMMA Left ==
    ASSUME StoreOK, minted \in SUBSET minted', NEW s \in Sessions, NEW c,
           GoodIn(c, minted'), Live(s) => Owned(c, s), Leave(s, c)
    PROVE  StoreOK' /\ \A t \in Sessions : Live(t)' = Live(t)
<1> USE DEF Leave
<1>1. LogOK(commits', minted')
  BY LogMore DEF StoreOK
<1>2. head' = head /\ commits' = commits
  OBVIOUS
<1>3. staged' \in [Sessions -> Contents]
  BY DEF StoreOK, GoodIn
<1>4. \A t \in Sessions : staged'[t] = IF t = s THEN c ELSE staged[t]
  BY DEF StoreOK
<1>5. \A t \in Sessions : GoodIn(staged'[t], minted')
  BY <1>4, GoodAmongMore DEF StoreOK
<1>6. \A t \in Sessions : Live(t)' = Live(t) /\ HeadOf(t)' = HeadOf(t)
  BY <1>2 DEF Live, HeadOf
<1>7. \A t \in Sessions : Live(t)' => Owned(staged'[t], t) /\ Owned(HeadOf(t)', t)
  BY <1>4, <1>6 DEF StoreOK
<1> QED BY <1>1, <1>2, <1>3, <1>5, <1>6, <1>7 DEF StoreOK

LEMMA Landed ==
    ASSUME StoreOK, minted \in SUBSET minted', NEW s \in Sessions, Live(s), NEW c,
           GoodIn(c, minted'), Owned(c, s), Land(s, c)
    PROVE  StoreOK' /\ \A t \in Sessions : Live(t)' = Live(t)
<1>1. PICK base : base = Branch(head[s])
  OBVIOUS
<1>2. base.log = commits /\ base.head = head[s]
  BY <1>1, BranchIs
<1>3. BranchOK(base, minted')
  BY <1>1, StoreUse, LogMore DEF BranchOK
<1>4. PICK b : b = Extend(base, c)
  OBVIOUS
<1>5. BranchOK(b, minted') /\ Extended(b, base, c)
  BY <1>3, <1>4, ExtendIs
<1>6. /\ staged' = [staged EXCEPT ![s] = c]
      /\ commits' = b.log /\ head' = [head EXCEPT ![s] = b.head]
  BY <1>1, <1>4 DEF Land, Commit
<1>7. /\ LogOK(commits', minted') /\ b.head \in 1 .. Len(commits')
      /\ Len(commits) <= Len(commits') /\ commits'[b.head].holds = c
      /\ \A i \in 1 .. Len(commits) : commits'[i] = commits[i]
      /\ Len(commits) \in Nat /\ Len(commits') \in Nat
  BY <1>2, <1>5, <1>6, StoreUse DEF BranchOK, Extended, LogOK
<1>8. \A t \in Sessions : /\ head'[t] = IF t = s THEN b.head ELSE head[t]
                          /\ staged'[t] = IF t = s THEN c ELSE staged[t]
                          /\ head[t] \in 0 .. Len(commits)
  BY <1>6 DEF StoreOK
<1>9. head' \in [Sessions -> 0 .. Len(commits')]
  <2>1. \A t \in Sessions : head'[t] \in 0 .. Len(commits')
    BY <1>7, <1>8
  <2> QED BY <1>6, <2>1 DEF StoreOK
<1>10. staged' \in [Sessions -> Contents]
  BY <1>6 DEF StoreOK, GoodIn
<1>11. \A t \in Sessions : GoodIn(staged'[t], minted')
  BY <1>8, GoodAmongMore DEF StoreOK
<1>12. \A t \in Sessions : Live(t)' = Live(t)
  BY <1>7, <1>8 DEF Live
<1>13. ASSUME NEW t \in Sessions, Live(t)'
       PROVE  Owned(staged'[t], t) /\ Owned(HeadOf(t)', t)
  <2>1. CASE t = s
    <3>1. HeadOf(t)' = c /\ staged'[t] = c
      BY <1>7, <1>8, <2>1 DEF HeadOf
    <3> QED BY <2>1, <3>1
  <2>2. CASE t # s
    <3>1. Live(t) /\ head[t] \in 1 .. Len(commits)
      BY <1>12, <1>13, StoreUse
    <3>2. HeadOf(t)' = HeadOf(t) /\ staged'[t] = staged[t]
      BY <1>7, <1>8, <2>2, <3>1 DEF HeadOf
    <3> QED BY <3>1, <3>2, StoreUse
  <2> QED BY <2>1, <2>2
<1> QED BY <1>7, <1>9, <1>10, <1>11, <1>12, <1>13 DEF StoreOK

-----------------------------------------------------------------------------
(* What a write and an upsert leave *)

Written(s, m, index, w, c) ==
    /\ GoodIn(c, m) /\ c.files = staged[s].files /\ c.folds = staged[s].folds
    /\ w.raised => c = staged[s]
    /\ ~w.raised => ReadIndex(c.kv) = index
    /\ Live(s) => Owned(c, s)
    /\ w.raised \in BOOLEAN

LEMMA WriteIs ==
    ASSUME StoreOK, NEW s \in Sessions, NEW m, minted \in SUBSET m,
           NEW index, NEW bodies, NEW dropped,
           Lists(staged[s].kv, index, bodies, dropped), index.owner \in {NoOwner, s},
           ToSet(index.runs) \in SUBSET m,
           NEW w \in Writes(staged[s].kv, index, bodies, dropped),
           NEW c, c = [staged[s] EXCEPT !.kv = w.kv]
    PROVE  Written(s, m, index, w, c)
<1>1. GoodIn(staged[s], m) /\ KvGood(staged[s].kv) /\ staged[s] \in Contents
  BY StoreUse, GoodAmongMore
<1>2. /\ w.raised => w.kv = staged[s].kv
      /\ ~w.raised => KvGood(w.kv) /\ ReadIndex(w.kv) = index
      /\ w.raised \in BOOLEAN
  BY <1>1, WritesAre
<1>3. KvGood(w.kv) /\ ToSet(ReadIndex(w.kv).runs) \in SUBSET m
  BY <1>1, <1>2 DEF GoodIn, RunsIn
<1>4. GoodIn(c, m) /\ c.kv = w.kv /\ c.files = staged[s].files /\ c.folds = staged[s].folds
  BY <1>1, <1>3, WithKv
<1>5. w.raised => c = staged[s]
  BY <1>1, <1>2 DEF Contents
<1>6. Live(s) => Owned(c, s)
  BY <1>2, <1>4, <1>5, StoreUse DEF Owned
<1> QED BY <1>2, <1>4, <1>5, <1>6 DEF Written

Puts(s, c) == Leave(s, c) \/ Land(s, c)

\* Contents that add at most this run to those staged.
Added(s, c, r) ==
    /\ GoodIn(c, minted) /\ Owned(c, s) /\ c.files = staged[s].files
    /\ ReadIndex(c.kv).runs \in {Known(s), Append(Known(s), r)}

LEMMA KnownIs ==
    ASSUME StoreOK, NEW s \in Sessions
    PROVE  /\ Known(s) \in Seq(Runs) /\ IsInjective(Known(s)) /\ ToSet(Known(s)) = RunsOf(s)
           /\ \A r \in Runs : ReadRun(staged[s].kv, r) # Absent <=> r \in RunsOf(s)
BY StoreUse, ReadIs DEF Known, IndexOf, RunsOf

LEMMA StillStaged ==
    ASSUME StoreOK, NEW s \in Sessions, Live(s), UNCHANGED <<commits, head, staged>>, NEW r
    PROVE  Leave(s, staged[s]) /\ Added(s, staged[s], r)
<1>1. staged' = [staged EXCEPT ![s] = staged[s]]
  BY DEF StoreOK
<1> QED BY <1>1, StoreUse DEF Leave, Added, Known, IndexOf

WithOne(s, r) == IF r \in RunsOf(s) THEN Known(s) ELSE Append(Known(s), r)

LEMMA WritesOne ==
    ASSUME StoreOK, NEW s \in Sessions, NEW m \in SUBSET Runs, minted \in SUBSET m,
           NEW r \in m,
           NEW status \in Statuses,
           NEW bodies, bodies = Only(r, status) \/ (bodies = NoBodies /\ r \in RunsOf(s)),
           NEW index, index = [owner |-> s, runs |-> WithOne(s, r)],
           NEW w \in Writes(staged[s].kv, index, bodies, {}),
           NEW c, c = [staged[s] EXCEPT !.kv = w.kv]
    PROVE  /\ Written(s, m, index, w, c) /\ index.runs = WithOne(s, r)
           /\ ToSet(index.runs) = RunsOf(s) \cup {r}
<1> DEFINE runs == WithOne(s, r)
<1> USE DEF WithOne
<1>1. /\ Known(s) \in Seq(Runs) /\ IsInjective(Known(s)) /\ ToSet(Known(s)) = RunsOf(s)
      /\ RunsOf(s) \in SUBSET m /\ r \in Runs
  BY KnownIs, StoreUse
<1>2. runs \in Seq(Runs) /\ IsInjective(runs) /\ ToSet(runs) = RunsOf(s) \cup {r}
  <2>1. CASE r \in RunsOf(s)
    BY <1>1, <2>1
  <2>2. CASE r \notin RunsOf(s)
    <3>1. runs = Append(Known(s), r)
      BY <2>2
    <3>2. r \notin ToSet(Known(s))
      BY <1>1, <2>2
    <3> QED BY <1>1, <3>1, <3>2, AppendIs
  <2> QED BY <2>1, <2>2
<1> HIDE DEF WithOne
<1>3. index \in IndexType /\ index.owner = s /\ index.runs = runs
  BY <1>2 DEF IndexType
<1>4. /\ DOMAIN bodies \in SUBSET Runs /\ \A x \in DOMAIN bodies : bodies[x] \in Statuses
      /\ RunsOf(s) \cup DOMAIN bodies = RunsOf(s) \cup {r}
  BY <1>1 DEF Only, NoBodies
<1>5. RunsOf(s) = ToSet(ReadIndex(staged[s].kv).runs)
  BY DEF RunsOf, IndexOf
<1>6. Lists(staged[s].kv, index, bodies, {})
  BY <1>2, <1>3, <1>4, <1>5 DEF Lists
<1>7. Written(s, m, index, w, c)
  BY <1>1, <1>2, <1>3, <1>6, WriteIs
<1> QED BY <1>2, <1>3, <1>7

Upserted(s, r, phase, c) ==
    /\ Puts(s, c) /\ Added(s, c, r) /\ Goto(s, phase)
    /\ unstored \in SUBSET unstored' /\ unstored' \in SUBSET minted
    /\ r \in RunsIn(c) \cup unstored'

\* An upsert adds its last run, or nothing: a run that is not stored is lost.
LEMMA UpsertIs ==
    ASSUME ConvInv, NEW s \in Sessions, Live(s), minted' = minted,
           NEW incoming \in Seq(minted), incoming # <<>>, NEW status \in Statuses,
           NEW next, NEW lost, Upsert(s, incoming, status, next, lost)
    PROVE  \E phase \in {next, lost} : \E c : Upserted(s, Last(incoming), phase, c)
<1> DEFINE r == Last(incoming)
           changed == IF ReadRun(staged[s].kv, r) = status THEN NoBodies ELSE Only(r, status)
           index == [owner |-> s, runs |-> UpsertedRuns(s, incoming)]
<1>1. StoreOK /\ LoopsOK /\ minted \in SUBSET Runs /\ unstored \in SUBSET minted
  BY DEF ConvInv, LoopsOK
<1>2. r \in minted /\ r \in Runs
  BY <1>1, FrontIs
<1>3. /\ Known(s) \in Seq(Runs) /\ ToSet(Known(s)) = RunsOf(s)
      /\ \A q \in Runs : ReadRun(staged[s].kv, q) # Absent <=> q \in RunsOf(s)
  BY <1>1, KnownIs
<1> HIDE DEF r, changed, index
<1>4. CASE ~LeadsOn(s, incoming) /\ Goto(s, lost) /\ unstored' = unstored \cup {r}
           /\ UNCHANGED <<commits, head, staged>>
  <2>1. Leave(s, staged[s]) /\ Added(s, staged[s], r)
    BY <1>1, <1>4, StillStaged
  <2>2. Upserted(s, r, lost, staged[s])
    BY <1>1, <1>2, <1>4, <2>1 DEF Puts, Upserted
  <2> QED BY <2>2 DEF r
<1>5. CASE /\ LeadsOn(s, incoming)
           /\ \E w \in Writes(staged[s].kv, index, changed, {}) :
                 LET holds == [staged[s] EXCEPT !.kv = w.kv]
                 IN  IF w.raised
                     THEN /\ Leave(s, holds) /\ Goto(s, lost)
                          /\ unstored' = unstored \cup ({r} \ RunsOf(s))
                     ELSE /\ IF changed = NoBodies \/ loop[s].turn THEN Leave(s, holds)
                             ELSE Land(s, holds)
                          /\ Goto(s, next) /\ UNCHANGED unstored
  <2>1. PICK w, c :
           /\ w \in Writes(staged[s].kv, index, changed, {})
           /\ c = [staged[s] EXCEPT !.kv = w.kv]
           /\ IF w.raised
              THEN /\ Leave(s, c) /\ Goto(s, lost)
                   /\ unstored' = unstored \cup ({r} \ RunsOf(s))
              ELSE /\ IF changed = NoBodies \/ loop[s].turn THEN Leave(s, c)
                      ELSE Land(s, c)
                   /\ Goto(s, next) /\ UNCHANGED unstored
    BY <1>5
  <2>2. UpsertedRuns(s, incoming) = WithOne(s, r)
    <3>1. PICK prior, kept : prior = PriorOf(s, incoming) /\ kept = Kept(s, incoming)
      OBVIOUS
    <3>2. prior = IF r \notin ToSet(Known(s)) THEN Front(incoming) ELSE incoming
      BY <3>1 DEF PriorOf, r
    <3>3. kept = Len(Known(s)) - Len(prior) /\ kept >= 0
          /\ SubSeq(Known(s), kept + 1, Len(Known(s))) = prior
      BY <1>5, <3>1 DEF LeadsOn, Kept
    <3>4. incoming \in Seq(Runs)
      BY <1>1
    <3>5. UpsertedRuns(s, incoming) = SubSeq(Known(s), 1, kept) \o incoming
      BY <3>1 DEF UpsertedRuns
    <3>6. prior = IF Last(incoming) \notin ToSet(Known(s)) THEN Front(incoming) ELSE incoming
      BY <3>2 DEF r
    <3>7. SubSeq(Known(s), 1, kept) \o incoming =
             IF Last(incoming) \in ToSet(Known(s)) THEN Known(s)
             ELSE Append(Known(s), Last(incoming))
      BY <1>3, <3>3, <3>4, <3>6, LeadsOnIs
    <3> QED BY <1>3, <3>5, <3>7 DEF r, WithOne
  <2>3. changed = Only(r, status) \/ (changed = NoBodies /\ r \in RunsOf(s))
    BY <1>2, <1>3, AbsentAssumption DEF changed, AbsentAssumption
  <2>4. index = [owner |-> s, runs |-> WithOne(s, r)]
    BY <2>2 DEF index
  <2>5. c = [staged[s] EXCEPT !.kv = w.kv]
    BY <2>1
  <2>6. /\ Written(s, minted, index, w, c) /\ index.runs = WithOne(s, r)
        /\ ToSet(index.runs) = RunsOf(s) \cup {r}
    BY <1>1, <1>2, <2>1, <2>3, <2>4, <2>5, WritesOne
  <2>7. /\ GoodIn(c, minted) /\ c.files = staged[s].files
        /\ w.raised => c = staged[s]
        /\ ~w.raised => ReadIndex(c.kv) = index
        /\ Owned(c, s) /\ w.raised \in BOOLEAN
    BY <2>6 DEF Written
  <2>8. CASE w.raised
    <3>1. c = staged[s] /\ Leave(s, c) /\ Goto(s, lost)
          /\ unstored' = unstored \cup ({r} \ RunsOf(s))
      BY <2>1, <2>7, <2>8
    <3>2. Added(s, c, r) /\ RunsIn(c) = RunsOf(s)
      BY <2>7, <3>1 DEF Added, Known, IndexOf, RunsIn, RunsOf
    <3>3. Upserted(s, r, lost, c)
      BY <1>1, <1>2, <3>1, <3>2 DEF Puts, Upserted
    <3> QED BY <3>3 DEF r
  <2>9. CASE ~w.raised
    <3>1. Puts(s, c) /\ Goto(s, next) /\ unstored' = unstored
      BY <2>1, <2>9 DEF Puts
    <3>2. ReadIndex(c.kv) = index
      BY <2>7, <2>9
    <3>3. ReadIndex(c.kv).runs = WithOne(s, r) /\ RunsIn(c) = RunsOf(s) \cup {r}
      BY <2>6, <3>2 DEF RunsIn
    <3>4. Added(s, c, r)
      BY <2>7, <3>3 DEF Added, WithOne
    <3>5. Upserted(s, r, next, c)
      BY <1>1, <1>2, <3>1, <3>3, <3>4 DEF Upserted
    <3> QED BY <3>5 DEF r
  <2> QED BY <2>7, <2>8, <2>9
<1> QED BY <1>4, <1>5 DEF Upsert, r, changed, index

-----------------------------------------------------------------------------
(* Induction over places and commits *)

\* Every set of naturals that has an element has a least one.
LEMMA LeastNumber ==
    ASSUME NEW T, T \subseteq Nat, T # {}
    PROVE  \E m \in T : \A n \in T : m <= n
<1> DEFINE R == {ss \in Nat \X Nat : ss[1] < ss[2]}
<1>1. IsWellFoundedOn(R, Nat)
  BY NatLessThanWellFounded DEF OpToRel
<1>2. PICK m \in T : \A n \in T : ~(<<n, m>> \in R)
  <2> HIDE DEF R
  <2> QED BY <1>1, WFMin
<1>3. \A n \in T : m <= n
  <2> SUFFICES ASSUME NEW n \in T, n < m PROVE FALSE
    OBVIOUS
  <2>1. <<n, m>> \in Nat \X Nat /\ <<n, m>>[1] < <<n, m>>[2]
    OBVIOUS
  <2> QED BY <1>2, <2>1
<1> QED BY <1>3

\* A set that holds each number up to l when it holds those before it.
LEMMA UpTo ==
    ASSUME NEW l \in Nat, NEW S, \A i \in 0 .. l : (\A j \in 0 .. i - 1 : j \in S) => i \in S
    PROVE  \A i \in 0 .. l : i \in S
<1> SUFFICES ASSUME NEW k \in 0 .. l, k \notin S PROVE FALSE
  OBVIOUS
<1> DEFINE T == (0 .. l) \ S
<1>1. T \subseteq Nat /\ T # {}
  OBVIOUS
<1> HIDE DEF T
<1>2. PICK m \in T : \A n \in T : m <= n
  BY <1>1, LeastNumber
<1>3. m \in 0 .. l /\ m \notin S
  BY DEF T
<1>4. ASSUME NEW j \in 0 .. m - 1
      PROVE  j \in S
  <2>1. j \in 0 .. l /\ ~(m <= j)
    BY <1>3
  <2> QED BY <1>2, <2>1 DEF T
<1> QED BY <1>3, <1>4

\* The recursion of Without, for a function f up to place m.
NextLeft(f, runs, r, i) == IF i = 0 THEN <<>>
                           ELSE IF runs[i] = r THEN f[i - 1]
                           ELSE Append(f[i - 1], runs[i])

IsLeft(f, runs, r, m) == f = [i \in 0 .. m |-> NextLeft(f, runs, r, i)]

LEMMA LeftExists ==
    ASSUME NEW X, NEW runs \in Seq(X), NEW r
    PROVE  \E f : IsLeft(f, runs, r, Len(runs))
<1>1. Len(runs) \in Nat
  OBVIOUS
<1> DEFINE S == {m \in 0 .. Len(runs) : \E f : IsLeft(f, runs, r, m)}
<1>2. 0 \in S
  <2> DEFINE g == [i \in 0 .. 0 |-> <<>>]
  <2>1. g = [i \in 0 .. 0 |-> NextLeft(g, runs, r, i)]
    BY DEF NextLeft
  <2>2. IsLeft(g, runs, r, 0)
    <3> HIDE DEF g
    <3> QED BY <2>1 DEF IsLeft
  <2> QED BY <1>1, <2>2
<1>3. ASSUME NEW m \in 1 .. Len(runs), m - 1 \in S
      PROVE  m \in S
  <2>1. PICK f : IsLeft(f, runs, r, m - 1)
    BY <1>3
  <2> DEFINE g == [i \in 0 .. m |-> IF i = m THEN NextLeft(f, runs, r, m) ELSE f[i]]
  <2>2. /\ m \in 0 .. Len(runs) /\ 0 .. m - 1 = (0 .. m) \ {m} /\ m \in 0 .. m
        /\ \A i \in 0 .. m : i # 0 => i - 1 \in (0 .. m) \ {m}
    BY <1>1
  <2>3. \A i \in 0 .. m : i # 0 => g[i - 1] = f[i - 1]
    BY <2>2
  <2>4. \A i \in 0 .. m : NextLeft(g, runs, r, i) = NextLeft(f, runs, r, i)
    <3> HIDE DEF g
    <3> QED BY <2>3 DEF NextLeft
  <2>5. \A i \in 0 .. m : g[i] = NextLeft(f, runs, r, i)
    BY <2>1, <2>2 DEF IsLeft
  <2>6. g = [i \in 0 .. m |-> NextLeft(g, runs, r, i)]
    BY <2>4, <2>5
  <2> HIDE DEF g
  <2> QED BY <2>2, <2>6 DEF IsLeft
<1> HIDE DEF S
<1>4. \A i \in 0 .. Len(runs) : (\A j \in 0 .. i - 1 : j \in S) => i \in S
  <2> SUFFICES ASSUME NEW i \in 0 .. Len(runs), \A j \in 0 .. i - 1 : j \in S
               PROVE  i \in S
    OBVIOUS
  <2>1. CASE i = 0
    BY <1>2, <2>1
  <2>2. CASE i # 0
    <3>1. i \in 1 .. Len(runs) /\ i - 1 \in 0 .. i - 1
      BY <1>1, <2>2
    <3> QED BY <1>3, <3>1
  <2> QED BY <2>1, <2>2
<1>5. \A i \in 0 .. Len(runs) : i \in S
  BY <1>1, <1>4, UpTo
<1>6. Len(runs) \in S
  BY <1>1, <1>5
<1> QED BY <1>6 DEF S

\* Without is the last place of that recursion.
LEMMA WithoutBy ==
    ASSUME NEW X, NEW runs \in Seq(X), NEW r
    PROVE  \E f : /\ Without(runs, r) = f[Len(runs)]
                 /\ \A i \in 0 .. Len(runs) : f[i] = NextLeft(f, runs, r, i)
<1> DEFINE f == CHOOSE left : left = [i \in 0 .. Len(runs) |->
                   IF i = 0 THEN <<>> ELSE IF runs[i] = r THEN left[i - 1]
                   ELSE Append(left[i - 1], runs[i])]
<1>1. Without(runs, r) = f[Len(runs)]
  BY DEF Without
<1>2. \E g : g = [i \in 0 .. Len(runs) |->
                 IF i = 0 THEN <<>> ELSE IF runs[i] = r THEN g[i - 1]
                 ELSE Append(g[i - 1], runs[i])]
  <2> HIDE DEF f
  <2>1. PICK g : IsLeft(g, runs, r, Len(runs))
    BY LeftExists
  <2> QED BY <2>1 DEF IsLeft, NextLeft
<1>3. f = [i \in 0 .. Len(runs) |->
                 IF i = 0 THEN <<>> ELSE IF runs[i] = r THEN f[i - 1]
                 ELSE Append(f[i - 1], runs[i])]
  BY <1>2
<1> HIDE DEF f
<1>4. \A i \in 0 .. Len(runs) : f[i] = NextLeft(f, runs, r, i)
  BY <1>3 DEF NextLeft
<1> QED BY <1>1, <1>4

\* Runs taken from others, in their order.
InOrder(e, runs) ==
    \A a, b \in 1 .. Len(e), k, l \in 1 .. Len(runs) :
        e[a] = runs[k] /\ e[b] = runs[l] => (a <= b <=> k <= l)

LEMMA AppendInOrder ==
    ASSUME NEW X, NEW runs \in Seq(X), IsInjective(runs), NEW i \in 1 .. Len(runs),
           NEW e \in Seq(X), \A x \in ToSet(e) : \E j \in 1 .. i - 1 : x = runs[j],
           InOrder(e, runs), NEW d, d = Append(e, runs[i])
    PROVE  InOrder(d, runs)
<1>1. Len(runs) \in Nat /\ runs[i] \in X /\ Len(e) \in Nat
  OBVIOUS
<1>2. Len(d) = Len(e) + 1 /\ (\A a \in 1 .. Len(e) : d[a] = e[a]) /\ d[Len(e) + 1] = runs[i]
  BY <1>1, AppendIs
<1>3. \A j, k \in 1 .. Len(runs) : runs[j] = runs[k] => j = k
  BY DEF IsInjective
<1>4. ASSUME NEW a \in 1 .. Len(e), NEW k \in 1 .. Len(runs), e[a] = runs[k]
      PROVE  k <= i - 1
  <2>1. e[a] \in ToSet(e)
    BY <1>1, ToSetIs
  <2>2. PICK j \in 1 .. i - 1 : e[a] = runs[j]
    BY <2>1
  <2>3. j \in 1 .. Len(runs)
    BY <1>1
  <2>4. runs[j] = runs[k]
    BY <1>4, <2>2
  <2>5. j = k
    BY ONLY <1>3, <2>3, <2>4, k \in 1 .. Len(runs)
  <2> QED BY <1>1, <2>5
<1>5. ASSUME NEW a \in 1 .. Len(d), NEW b \in 1 .. Len(d),
             NEW k \in 1 .. Len(runs), NEW l \in 1 .. Len(runs), d[a] = runs[k], d[b] = runs[l]
      PROVE  a <= b <=> k <= l
  <2>1. CASE a \in 1 .. Len(e) /\ b \in 1 .. Len(e)
    BY <1>2, <1>5, <2>1 DEF InOrder
  <2>2. CASE a \in 1 .. Len(e) /\ b = Len(e) + 1
    <3>1. l = i /\ k <= i - 1
      BY <1>2, <1>3, <1>4, <1>5, <2>2
    <3> QED BY <1>1, <2>2, <3>1
  <2>3. CASE a = Len(e) + 1 /\ b \in 1 .. Len(e)
    <3>1. k = i /\ l <= i - 1
      BY <1>2, <1>3, <1>4, <1>5, <2>3
    <3> QED BY <1>1, <2>3, <3>1
  <2>4. CASE a = Len(e) + 1 /\ b = Len(e) + 1
    <3>1. k = i /\ l = i
      BY <1>2, <1>3, <1>5, <2>4
    <3> QED BY <1>1, <2>4, <3>1
  <2>5. \A x \in 1 .. Len(d) : x \in 1 .. Len(e) \/ x = Len(e) + 1
    BY <1>1, <1>2
  <2> QED BY <2>1, <2>2, <2>3, <2>4, <2>5
<1> QED BY ONLY <1>5 DEF InOrder

\* Without takes one run out and leaves the others in their order.
LEMMA WithoutIs ==
    ASSUME NEW X, NEW runs \in Seq(X), IsInjective(runs), NEW r
    PROVE  /\ Without(runs, r) \in Seq(X) /\ IsInjective(Without(runs, r))
           /\ ToSet(Without(runs, r)) = ToSet(runs) \ {r}
           /\ runs # <<>> /\ Last(runs) # r => Last(Without(runs, r)) = Last(runs)
           /\ InOrder(Without(runs, r), runs)
<1>1. Len(runs) \in Nat /\ DOMAIN runs = 1 .. Len(runs)
  OBVIOUS
<1>2. PICK f : /\ Without(runs, r) = f[Len(runs)]
               /\ \A i \in 0 .. Len(runs) : f[i] = NextLeft(f, runs, r, i)
  BY WithoutBy
<1>3. \A i \in 0 .. Len(runs) : f[i] = NextLeft(f, runs, r, i)
  BY <1>2
<1> DEFINE Prefix(i) == {runs[j] : j \in 1 .. i}
           KeptUpTo(i) == /\ f[i] \in Seq(X) /\ IsInjective(f[i])
                          /\ ToSet(f[i]) = Prefix(i) \ {r} /\ InOrder(f[i], runs)
           S == {i \in 0 .. Len(runs) : KeptUpTo(i)}
<1>4. KeptUpTo(0)
  <2>1. f[0] = <<>> /\ 0 \in 0 .. Len(runs)
    BY <1>1, <1>3 DEF NextLeft
  <2>2. Prefix(0) = {}
    OBVIOUS
  <2>3. f[0] \in Seq(X) /\ ToSet(f[0]) = {} /\ IsInjective(f[0])
    BY <2>1, NoneIn, EmptySeq
  <2>4. Len(f[0]) = 0
    BY <2>1
  <2>5. InOrder(f[0], runs)
    BY <2>4 DEF InOrder
  <2> HIDE DEF Prefix
  <2> QED BY <2>2, <2>3, <2>5
<1>5. ASSUME NEW i \in 1 .. Len(runs), KeptUpTo(i - 1)
      PROVE  KeptUpTo(i)
  <2>1. i \in 0 .. Len(runs) /\ i # 0 /\ 1 .. i = 1 .. i - 1 \cup {i} /\ runs[i] \in X
    BY <1>1
  <2>2. Prefix(i) = Prefix(i - 1) \cup {runs[i]}
    BY <2>1
  <2>3. runs[i] \notin Prefix(i - 1)
    BY <1>1 DEF IsInjective
  <2>4. PICK e : e = f[i - 1]
    OBVIOUS
  <2>5. /\ e \in Seq(X) /\ ToSet(e) = Prefix(i - 1) \ {r} /\ IsInjective(e)
        /\ InOrder(e, runs)
    BY <1>5, <2>4
  <2>5a. \A x \in ToSet(e) : \E j \in 1 .. i - 1 : x = runs[j]
    BY <2>5
  <2>6. f[i] = IF runs[i] = r THEN e ELSE Append(e, runs[i])
    BY <1>3, <2>1, <2>4 DEF NextLeft
  <2> HIDE DEF Prefix
  <2>7. CASE runs[i] = r
    <3>1. f[i] = e
      BY <2>6, <2>7
    <3> QED BY <2>2, <2>3, <2>5, <2>7, <3>1
  <2>8. CASE runs[i] # r
    <3>1. f[i] = Append(e, runs[i]) /\ runs[i] \notin ToSet(e)
      BY <2>3, <2>5, <2>6, <2>8
    <3>2. /\ f[i] \in Seq(X) /\ IsInjective(f[i])
          /\ ToSet(f[i]) = ToSet(e) \cup {runs[i]}
      BY <2>1, <2>5, <3>1, AppendIs
    <3>3. InOrder(f[i], runs)
      BY <2>5, <2>5a, <3>1, AppendInOrder
    <3> QED BY <2>2, <2>5, <2>8, <3>2, <3>3
  <2> QED BY <2>7, <2>8
<1> HIDE DEF KeptUpTo
<1>6. \A i \in 0 .. Len(runs) : (\A j \in 0 .. i - 1 : j \in S) => i \in S
  <2> SUFFICES ASSUME NEW i \in 0 .. Len(runs), \A j \in 0 .. i - 1 : j \in S
               PROVE  i \in S
    OBVIOUS
  <2>1. CASE i = 0
    BY <1>4, <2>1
  <2>2. CASE i # 0
    <3>1. i \in 1 .. Len(runs) /\ i - 1 \in 0 .. i - 1
      BY <1>1, <2>2
    <3> QED BY <1>5, <3>1
  <2> QED BY <2>1, <2>2
<1> HIDE DEF S
<1>7. \A i \in 0 .. Len(runs) : i \in S
  BY <1>1, <1>6, UpTo
<1>8. \A i \in 0 .. Len(runs) : KeptUpTo(i)
  BY <1>7 DEF S
<1>9. KeptUpTo(Len(runs)) /\ Prefix(Len(runs)) = ToSet(runs)
  BY <1>1, <1>8 DEF ToSet
<1>10. ASSUME runs # <<>>, Last(runs) # r
       PROVE  Last(f[Len(runs)]) = Last(runs)
  <2>1. PICK n : n = Len(runs) /\ n \in Nat \ {0}
    BY <1>1, <1>10, EmptySeq
  <2>2. n \in 0 .. Len(runs) /\ n # 0 /\ n - 1 \in 0 .. Len(runs) /\ runs[n] = Last(runs)
        /\ runs[n] \in X
    BY <2>1, ElementOfSeq DEF Last
  <2>3. f[n] = Append(f[n - 1], runs[n])
    BY <1>3, <1>10, <2>2 DEF NextLeft
  <2>4. f[n - 1] \in Seq(X)
    BY <1>8, <2>2 DEF KeptUpTo
  <2> QED BY <2>1, <2>2, <2>3, <2>4, AppendIs
<1> QED BY <1>2, <1>9, <1>10 DEF KeptUpTo

-----------------------------------------------------------------------------
(* The history of a commit *)

PastIs ==
    /\ Past[0] = {}
    /\ \A c \in 1 .. Len(commits) :
          /\ Past[c] = {c} \cup Past[commits[c].parent]
          /\ Past[c] \in SUBSET (1 .. Len(commits))

\* Parents are older, so a commit's history is what every set holds that has
\* the commit and the parents of what it has.
LEMMA PastExists ==
    ASSUME NEW m, LogOK(commits, m)
    PROVE  PastIs
<1> DEFINE Ids == 1 .. Len(commits)
           Closed(S) == \A j \in S : commits[j].parent # 0 => commits[j].parent \in S
           Reach(c) == IF c = 0 THEN {}
                       ELSE {i \in Ids : \A S \in SUBSET Ids : Closed(S) /\ c \in S => i \in S}
           Next1(f, c) == IF c = 0 THEN {} ELSE {c} \cup f[commits[c].parent]
<1>1. Len(commits) \in Nat /\ \A c \in Ids : commits[c].parent \in 0 .. c - 1
  BY DEF LogOK
<1>2. ASSUME NEW c \in Ids
      PROVE  Reach(c) = {c} \cup Reach(commits[c].parent)
  <2>1. PICK p : p = commits[c].parent
    OBVIOUS
  <2>2. p \in 0 .. c - 1 /\ c # 0 /\ (p # 0 => p \in Ids)
    BY <1>1, <2>1
  <2>3. Reach(p) \in SUBSET Ids
    OBVIOUS
  <2>4. p # 0 => p \in Reach(p)
    BY <2>2
  <2>5. ASSUME NEW j \in Reach(p), commits[j].parent # 0
        PROVE  commits[j].parent \in Reach(p)
    <3>1. j \in Ids /\ p # 0
      BY <2>5
    <3>2. commits[j].parent \in Ids
      BY <1>1, <2>5, <3>1
    <3>3. ASSUME NEW S \in SUBSET Ids, Closed(S), p \in S
          PROVE  commits[j].parent \in S
      <4>1. j \in S
        BY <2>5, <3>1, <3>3
      <4> QED BY <2>5, <3>3, <4>1
    <3> QED BY <3>1, <3>2, <3>3
  <2>6. ASSUME NEW x \in Reach(c)
        PROVE  x \in {c} \cup Reach(p)
    <3>1. PICK S : S = {c} \cup Reach(p)
      OBVIOUS
    <3>2. S \in SUBSET Ids /\ c \in S
      BY <2>3, <3>1
    <3>3. ASSUME NEW j \in S, commits[j].parent # 0
          PROVE  commits[j].parent \in S
      BY <2>1, <2>4, <2>5, <3>1, <3>3
    <3>4. Closed(S)
      BY <3>3
    <3> HIDE DEF Closed
    <3> QED BY <2>2, <3>1, <3>2, <3>4
  <2>7. c \in Reach(c)
    BY <2>2
  <2>8. ASSUME NEW x \in Reach(p)
        PROVE  x \in Reach(c)
    <3>1. p # 0 /\ x \in Ids
      BY <2>8
    <3>2. ASSUME NEW S \in SUBSET Ids, Closed(S), c \in S
          PROVE  x \in S
      <4>1. p \in S
        BY <2>1, <3>1, <3>2
      <4> HIDE DEF Closed
      <4> QED BY <2>8, <3>1, <3>2, <4>1
    <3> HIDE DEF Closed
    <3> QED BY <2>2, <3>1, <3>2
  <2> HIDE DEF Reach
  <2> QED BY <2>1, <2>6, <2>7, <2>8
<1>3. Reach(0) = {}
  OBVIOUS
<1> HIDE DEF Reach
<1> DEFINE g == [c \in 0 .. Len(commits) |-> Reach(c)]
<1>4. \A c \in 0 .. Len(commits) : g[c] = Next1(g, c)
  <2> SUFFICES ASSUME NEW c \in 0 .. Len(commits)
               PROVE  g[c] = Next1(g, c)
    OBVIOUS
  <2>1. CASE c = 0
    BY <1>1, <1>3, <2>1
  <2>2. CASE c # 0
    <3>1. c \in Ids /\ commits[c].parent \in 0 .. Len(commits)
      BY <1>1, <2>2
    <3>2. g[commits[c].parent] = Reach(commits[c].parent) /\ g[c] = Reach(c)
      BY <3>1
    <3> QED BY <1>2, <2>2, <3>1, <3>2
  <2> QED BY <2>1, <2>2
<1>5. \E f : f = [c \in 0 .. Len(commits) |-> IF c = 0 THEN {} ELSE {c} \cup f[commits[c].parent]]
  <2>1. g = [c \in 0 .. Len(commits) |-> Next1(g, c)]
    BY <1>4
  <2> HIDE DEF g
  <2> QED BY <2>1
<1>6. Past = [c \in 0 .. Len(commits) |-> IF c = 0 THEN {} ELSE {c} \cup Past[commits[c].parent]]
  BY <1>5 DEF Past
<1>7. Past[0] = {} /\ \A c \in Ids : Past[c] = {c} \cup Past[commits[c].parent]
  BY <1>1, <1>6
<1> DEFINE S == {c \in 0 .. Len(commits) : Past[c] \in SUBSET Ids}
<1>8. \A c \in 0 .. Len(commits) : (\A j \in 0 .. c - 1 : j \in S) => c \in S
  <2> SUFFICES ASSUME NEW c \in 0 .. Len(commits), \A j \in 0 .. c - 1 : j \in S
               PROVE  c \in S
    OBVIOUS
  <2>1. CASE c = 0
    BY <1>7, <2>1
  <2>2. CASE c # 0
    <3>1. c \in Ids /\ commits[c].parent \in 0 .. c - 1
      BY <1>1, <2>2
    <3> QED BY <1>7, <3>1
  <2> QED BY <2>1, <2>2
<1> HIDE DEF S
<1>9. \A c \in 0 .. Len(commits) : c \in S
  BY <1>1, <1>8, UpTo
<1>10. \A c \in Ids : Past[c] \in SUBSET Ids
  BY <1>1, <1>9 DEF S
<1> QED BY <1>7, <1>10 DEF PastIs

LEMMA PastNext == StoreOK' => PastIs'
<1>1. StoreOK => PastIs
  BY PastExists DEF StoreOK
<1> QED BY <1>1, PTL

\* What is in the log keeps its history when the log grows.
LEMMA PastKept ==
    ASSUME StoreOK, StoreOK', Len(commits) <= Len(commits'),
           \A i \in 1 .. Len(commits) : commits'[i] = commits[i]
    PROVE  /\ \A c \in 0 .. Len(commits) : Past'[c] = Past[c]
           /\ PastIs /\ PastIs'
<1>1. PastIs
  BY PastExists DEF StoreOK
<1>2. PastIs'
  BY PastNext
<1>3. Len(commits) \in Nat /\ Len(commits') \in Nat
      /\ \A c \in 1 .. Len(commits) : commits[c].parent \in 0 .. c - 1
  BY DEF StoreOK, LogOK
<1> DEFINE S == {c \in 0 .. Len(commits) : Past'[c] = Past[c]}
<1>4. \A c \in 0 .. Len(commits) : (\A j \in 0 .. c - 1 : j \in S) => c \in S
  <2> SUFFICES ASSUME NEW c \in 0 .. Len(commits), \A j \in 0 .. c - 1 : j \in S
               PROVE  c \in S
    OBVIOUS
  <2>1. CASE c = 0
    BY <1>1, <1>2, <2>1 DEF PastIs
  <2>2. CASE c # 0
    <3>1. c \in 1 .. Len(commits) /\ c \in 1 .. Len(commits') /\ commits[c].parent \in 0 .. c - 1
          /\ commits'[c] = commits[c]
      BY <1>3, <2>2
    <3>2. Past[c] = {c} \cup Past[commits[c].parent]
      BY <1>1, <3>1 DEF PastIs
    <3>3. Past'[c] = {c} \cup Past'[commits'[c].parent]
      BY <1>2, <3>1 DEF PastIs
    <3> QED BY <3>1, <3>2, <3>3
  <2> QED BY <2>1, <2>2
<1> HIDE DEF S
<1>5. \A c \in 0 .. Len(commits) : c \in S
  BY <1>3, <1>4, UpTo
<1>6. \A c \in 0 .. Len(commits) : Past'[c] = Past[c]
  BY <1>5 DEF S
<1> QED BY <1>1, <1>2, <1>6

LEMMA PastUse ==
    ASSUME StoreOK, NEW s \in Sessions
    PROVE  /\ \A c \in PastHolds(s) : GoodIn(c, minted)
           /\ Live(s) => HeadOf(s) \in PastHolds(s)
           /\ Past[head[s]] \in SUBSET (1 .. Len(commits))
<1>1. PastIs /\ LogOK(commits, minted)
  BY PastExists DEF StoreOK
<1>2. head[s] \in 0 .. Len(commits) /\ (head[s] = 0 \/ head[s] \in 1 .. Len(commits))
  BY StoreUse
<1>3. Past[head[s]] \in SUBSET (1 .. Len(commits))
  BY <1>1, <1>2 DEF PastIs
<1>4. \A c \in PastHolds(s) : GoodIn(c, minted)
  BY <1>1, <1>3 DEF PastHolds, LogOK
<1>5. Live(s) => HeadOf(s) \in PastHolds(s)
  BY <1>1, <1>2 DEF PastIs, Live, PastHolds, HeadOf
<1> QED BY <1>3, <1>4, <1>5

\* What a branch's history holds, as the log grows.
LEMMA PastGrows ==
    ASSUME StoreOK, StoreOK', Len(commits) <= Len(commits'),
           \A i \in 1 .. Len(commits) : commits'[i] = commits[i],
           NEW s \in Sessions
    PROVE  /\ head'[s] = head[s] => PastHolds(s)' = PastHolds(s)
           /\ head'[s] # 0 /\ commits'[head'[s]].parent = head[s]
                => PastHolds(s)' = PastHolds(s) \cup {commits'[head'[s]].holds}
<1>1. /\ \A c \in 0 .. Len(commits) : Past'[c] = Past[c]
      /\ PastIs /\ PastIs'
  BY PastKept
<1>2. head[s] \in 0 .. Len(commits) /\ head'[s] \in 0 .. Len(commits')
  BY DEF StoreOK
<1>3. Past'[head[s]] = Past[head[s]] /\ Past[head[s]] \in SUBSET (1 .. Len(commits))
  BY <1>1, <1>2, PastUse
<1>4. {commits'[i].holds : i \in Past'[head[s]]} = PastHolds(s)
  BY <1>3 DEF PastHolds
<1>5. ASSUME head'[s] # 0, commits'[head'[s]].parent = head[s]
      PROVE  Past'[head'[s]] = {head'[s]} \cup Past'[head[s]]
  <2>1. head'[s] \in 1 .. Len(commits')
    BY <1>2, <1>5
  <2> QED BY <1>1, <1>5, <2>1 DEF PastIs
<1> QED BY <1>4, <1>5 DEF PastHolds

\* A step that leaves or lands contents on one branch, as all branches see it.
LEMMA PutIs ==
    ASSUME StoreOK, StoreOK', NEW s \in Sessions, Live(s), NEW c, GoodIn(c, minted'),
           minted \in SUBSET minted', Puts(s, c)
    PROVE  /\ \A t \in Sessions : t # s => /\ PastHolds(t)' = PastHolds(t)
                                           /\ staged'[t] = staged[t] /\ head'[t] = head[t]
           /\ staged'[s] = c
           /\ PastHolds(s)' \in {PastHolds(s), PastHolds(s) \cup {c}}
           /\ head'[s] # head[s] => commits'[head'[s]].holds = c
<1>1. CASE Leave(s, c)
  <2>1. head' = head /\ commits' = commits /\ staged' = [staged EXCEPT ![s] = c]
    BY <1>1 DEF Leave
  <2>2. Len(commits) <= Len(commits') /\ \A i \in 1 .. Len(commits) : commits'[i] = commits[i]
    BY <2>1, StoreUse
  <2>3. \A t \in Sessions : PastHolds(t)' = PastHolds(t)
    BY <2>1, <2>2, PastGrows
  <2>4. \A t \in Sessions : staged'[t] = IF t = s THEN c ELSE staged[t]
    BY <2>1 DEF StoreOK
  <2> QED BY <2>1, <2>3, <2>4
<1>2. CASE Land(s, c)
  <2>1. PICK base, b : base = Branch(head[s]) /\ b = Extend(base, c)
    OBVIOUS
  <2>2. base.log = commits /\ base.head = head[s]
    BY <2>1, BranchIs
  <2>3. BranchOK(base, minted')
    BY <2>1, StoreUse, LogMore DEF BranchOK
  <2>4. BranchOK(b, minted') /\ Extended(b, base, c)
    BY <2>1, <2>3, ExtendIs
  <2>5. /\ staged' = [staged EXCEPT ![s] = c]
        /\ commits' = b.log /\ head' = [head EXCEPT ![s] = b.head]
    BY <1>2, <2>1 DEF Land, Commit
  <2>6. \A t \in Sessions : /\ head'[t] = IF t = s THEN b.head ELSE head[t]
                            /\ staged'[t] = IF t = s THEN c ELSE staged[t]
    BY <2>5 DEF StoreOK
  <2>7. /\ Len(commits) <= Len(commits')
        /\ \A i \in 1 .. Len(commits) : commits'[i] = commits[i]
        /\ commits'[head'[s]].holds = c
        /\ head'[s] # 0
        /\ head'[s] = head[s] \/ commits'[head'[s]].parent = head[s]
    BY <2>2, <2>4, <2>5, <2>6 DEF Extended, BranchOK
  <2>8. \A t \in Sessions : t # s => PastHolds(t)' = PastHolds(t)
    BY <2>6, <2>7, PastGrows
  <2>9. PastHolds(s)' \in {PastHolds(s), PastHolds(s) \cup {c}}
    BY <2>7, PastGrows
  <2> QED BY <2>6, <2>7, <2>8, <2>9
<1> QED BY <1>1, <1>2 DEF Puts

LEMMA PutOK ==
    ASSUME StoreOK, minted \in SUBSET minted', NEW s \in Sessions, Live(s), NEW c,
           GoodIn(c, minted'), Owned(c, s), Puts(s, c)
    PROVE  StoreOK' /\ \A t \in Sessions : Live(t)' = Live(t)
BY Left, Landed DEF Puts

-----------------------------------------------------------------------------
(* The steps of a loop *)

\* A step of the loop of s that puts c on its branch.
LoopStep(s, c) ==
    /\ Puts(s, c) /\ GoodIn(c, minted) /\ Owned(c, s)
    /\ ReadIndex(c.kv).runs \in {Known(s), Append(Known(s), loop[s].run)}
    /\ \A f \in c.files : f \in staged[s].files \cup InHand(s)
    /\ minted' = minted /\ unstored \in SUBSET unstored' /\ unstored' \in SUBSET minted
    /\ loop' = [loop EXCEPT ![s] = loop'[s]] /\ LoopOK(loop'[s], minted)
    /\ loop'[s].at # "idle" => loop'[s].run = loop[s].run
    /\ loop'[s].at = "running" => At(s, "running")
    /\ At(s, "running") /\ (loop'[s].at # "running" \/ head'[s] # head[s])
          => loop[s].run \in RunsIn(c) \cup unstored'

\* The contents that add a run keep those there were, and the run comes last.
LEMMA AddedRuns ==
    ASSUME StoreOK, NEW s \in Sessions, NEW c, NEW r \in Runs,
           ReadIndex(c.kv).runs \in {Known(s), Append(Known(s), r)}
    PROVE  /\ RunsOf(s) \in SUBSET RunsIn(c)
           /\ EndsWith(staged[s], r) => EndsWith(c, r)
<1>1. Known(s) \in Seq(Runs) /\ ToSet(Known(s)) = RunsOf(s) /\ RunsOf(s) = RunsIn(staged[s])
      /\ Known(s) = ReadIndex(staged[s].kv).runs
  BY KnownIs DEF RunsIn, RunsOf, IndexOf, Known
<1>2. PICK runs : runs = ReadIndex(c.kv).runs /\ RunsIn(c) = ToSet(runs)
  BY DEF RunsIn
<1>3. CASE runs = Known(s)
  BY <1>1, <1>2, <1>3 DEF EndsWith
<1>4. CASE runs = Append(Known(s), r)
  <2>1. Last(runs) = r /\ ToSet(runs) = RunsOf(s) \cup {r}
    BY <1>1, <1>4, AppendIs
  <2> QED BY <1>2, <2>1 DEF EndsWith
<1> QED BY <1>2, <1>3, <1>4

LEMMA LoopStepKeeps ==
    ASSUME ConvInv, NEW s \in Sessions, ~At(s, "idle"), NEW c, LoopStep(s, c)
    PROVE  ConvInv'
<1> USE DEF LoopStep
<1>1. StoreOK /\ LoopsOK /\ Live(s) /\ loop[s].run \in Runs
      /\ minted \in SUBSET minted' /\ GoodIn(c, minted')
  BY DEF ConvInv, LoopsOK, LoopOK, At
<1>2. StoreOK' /\ \A t \in Sessions : Live(t)' = Live(t)
  BY <1>1, PutOK
<1>3. \A t \in Sessions : loop'[t] = IF t = s THEN loop'[s] ELSE loop[t]
  BY <1>1 DEF LoopsOK
<1>4. LoopsOK'
  <2>1. loop' \in [Sessions -> Loops]
    BY <1>1 DEF LoopsOK, LoopOK
  <2>2. \A t \in Sessions : LoopOK(loop'[t], minted')
    BY <1>1, <1>3 DEF LoopsOK
  <2>3. \A t \in Sessions : ~At(t, "idle")' => Live(t)'
    BY <1>1, <1>2, <1>3 DEF LoopsOK, At
  <2> QED BY <1>1, <2>1, <2>2, <2>3 DEF LoopsOK
<1>5. /\ \A t \in Sessions : t # s => /\ PastHolds(t)' = PastHolds(t)
                                      /\ staged'[t] = staged[t] /\ head'[t] = head[t]
      /\ staged'[s] = c
      /\ PastHolds(s)' \in {PastHolds(s), PastHolds(s) \cup {c}}
  BY <1>1, <1>2, PutIs
<1>6. /\ RunsOf(s) \in SUBSET RunsIn(c) /\ RunsOf(s)' = RunsIn(c)
      /\ EndsWith(staged[s], loop[s].run) => EndsWith(c, loop[s].run)
  BY <1>1, <1>5, AddedRuns DEF RunsOf, IndexOf, RunsIn
<1>7. ASSUME NEW t \in Sessions
      PROVE  History(t)'
  <2>1. CASE t # s
    <3>1. /\ PastHolds(t)' = PastHolds(t) /\ staged'[t] = staged[t] /\ loop'[t] = loop[t]
          /\ Live(t)' = Live(t)
      BY <1>2, <1>3, <1>5, <2>1
    <3>2. /\ PastFiles(t)' = PastFiles(t) /\ RunsOf(t)' = RunsOf(t) /\ InHand(t)' = InHand(t)
          /\ At(t, "idle")' = At(t, "idle")
      BY <3>1 DEF PastFiles, RunsOf, IndexOf, InHand, At
    <3>3. History(t)
      BY DEF ConvInv
    <3> QED BY <3>1, <3>2, <3>3 DEF History
  <2>2. CASE t = s
    <3>1. History(s)
      BY DEF ConvInv
    <3>2. ASSUME ~At(s, "idle")', NEW d \in PastHolds(s)' \cup {c}
          PROVE  EndsWith(d, loop'[s].run)
      <4>1. loop'[s].run = loop[s].run
        BY <3>2 DEF At
      <4>2. \A e \in PastHolds(s) \cup {staged[s]} : EndsWith(e, loop[s].run)
        BY <3>1 DEF History
      <4>3. d \in PastHolds(s) \/ d = c
        BY <1>5, <3>2
      <4> QED BY <1>6, <4>1, <4>2, <4>3
    <3>3. ASSUME NEW f \in c.files
          PROVE  f \in PastFiles(s)' \cup RunsIn(c) \cup unstored' \cup InHand(s)'
      <4>1. \A x : x \in PastFiles(s) => x \in PastFiles(s)'
        BY <1>5 DEF PastFiles
      <4>2. ASSUME f \in InHand(s)
            PROVE  f \in RunsIn(c) \cup unstored' \cup InHand(s)'
        <5>1. At(s, "running") /\ f = loop[s].run
          BY <4>2 DEF InHand
        <5>2. CASE loop'[s].at = "running"
          BY <5>1, <5>2 DEF InHand, At
        <5>3. CASE loop'[s].at # "running"
          BY <5>1, <5>3
        <5> QED BY <5>2, <5>3
      <4>3. f \in staged[s].files => f \in PastFiles(s) \cup RunsOf(s) \cup unstored \cup InHand(s)
        BY <1>1, <3>1 DEF History
      <4> QED BY <1>1, <1>6, <4>1, <4>2, <4>3
    <3> QED BY <1>5, <1>6, <2>2, <3>2, <3>3 DEF History
  <2> QED BY <2>1, <2>2
<1> QED BY <1>2, <1>4, <1>7 DEF ConvInv

LEMMA IdleOK ==
    ASSUME NEW m
    PROVE  LoopOK(Idle, m) /\ Idle.at = "idle"
<1>1. PICK none : none = <<>> /\ none \in Seq(Runs) /\ ToSet(none) = {}
  BY NoneIn
<1>2. Idle = [at |-> "idle", run |-> NoRun, prior |-> none, turn |-> FALSE, whole |-> TRUE,
              said |-> {}, anchor |-> NoRun, rest |-> none]
  BY <1>1 DEF Idle
<1>3. Idle \in Loops
  BY <1>1, <1>2 DEF Loops, Phases
<1>4. Idle.at = "idle" /\ Idle.run = NoRun /\ Idle.prior = none
  BY <1>2
<1> QED BY <1>1, <1>3, <1>4 DEF LoopOK

LEMMA GotoIs ==
    ASSUME LoopsOK, NEW s \in Sessions, ~At(s, "idle"),
           NEW phase \in {"idle", "running", "cut", "stored", "ending"}, Goto(s, phase)
    PROVE  /\ loop' = [loop EXCEPT ![s] = loop'[s]] /\ LoopOK(loop'[s], minted)
           /\ loop'[s].at = phase /\ (phase # "idle" => loop'[s].run = loop[s].run)
<1>1. PICK l : l = loop[s]
  OBVIOUS
<1>2. loop \in [Sessions -> Loops] /\ LoopOK(l, minted) /\ l.at # "idle"
  BY <1>1 DEF LoopsOK, At
<1>3. PICK n : n = IF phase = "idle" THEN Idle ELSE [l EXCEPT !.at = phase]
  OBVIOUS
<1>4. loop' = [loop EXCEPT ![s] = n] /\ loop'[s] = n
  BY <1>1, <1>2, <1>3 DEF Goto
<1>5. CASE phase = "idle"
  BY <1>3, <1>4, <1>5, IdleOK
<1>6. CASE phase # "idle"
  <2>1. n = [l EXCEPT !.at = phase] /\ phase \in Phases
    BY <1>3, <1>6 DEF Phases
  <2>2. l \in Loops
    BY <1>2 DEF LoopOK
  <2>3. n.at = phase /\ n.run = l.run /\ n.prior = l.prior /\ n \in Loops
    BY <2>1, <2>2 DEF Loops
  <2>4. LoopOK(n, minted)
    BY <1>2, <2>3 DEF LoopOK
  <2> QED BY <1>1, <1>4, <2>3, <2>4
<1> QED BY <1>5, <1>6

LEMMA LoopUse ==
    ASSUME ConvInv, NEW s \in Sessions, ~At(s, "idle")
    PROVE  /\ StoreOK /\ LoopsOK /\ Live(s) /\ LoopOK(loop[s], minted) /\ loop[s] \in Loops
           /\ loop[s].run \in minted /\ loop[s].run \in Runs /\ minted \in SUBSET Runs
           /\ unstored \in SUBSET minted
           /\ Over(s) \in {"ending", "idle"}
BY DEF ConvInv, LoopsOK, LoopOK, At, Over

\* A step that leaves the contents of the branch as they are.
LEMMA QuietStep ==
    ASSUME ConvInv, NEW s \in Sessions, ~At(s, "idle"), Puts(s, staged[s]), minted' = minted,
           unstored \in SUBSET unstored', unstored' \in SUBSET minted,
           loop' = [loop EXCEPT ![s] = loop'[s]], LoopOK(loop'[s], minted),
           loop'[s].at # "idle" => loop'[s].run = loop[s].run,
           loop'[s].at = "running" => At(s, "running") /\ UNCHANGED head,
           At(s, "running") /\ loop'[s].at # "running" => loop[s].run \in unstored'
    PROVE  LoopStep(s, staged[s])
<1>1. GoodIn(staged[s], minted) /\ Owned(staged[s], s)
  BY LoopUse, StoreUse
<1>2. ReadIndex(staged[s].kv).runs = Known(s)
  BY DEF Known, IndexOf
<1> QED BY <1>1, <1>2 DEF LoopStep

LEMMA UpsertStep ==
    ASSUME ConvInv, NEW s \in Sessions, ~At(s, "idle"), minted' = minted,
           NEW incoming \in Seq(minted), incoming # <<>>, Last(incoming) = loop[s].run,
           NEW status \in Statuses, NEW next \in {"running", "cut", "stored"},
           next = "running" => At(s, "running"),
           Upsert(s, incoming, status, next, Over(s))
    PROVE  \E c : LoopStep(s, c)
<1>1. StoreOK /\ LoopsOK /\ Live(s) /\ Over(s) \in {"ending", "idle"}
  BY LoopUse
<1>2. PICK phase, c : phase \in {next, Over(s)} /\ Upserted(s, Last(incoming), phase, c)
  BY <1>1, UpsertIs
<1> USE DEF Upserted
<1>3. phase \in {"idle", "running", "cut", "stored", "ending"}
  BY <1>1, <1>2
<1>4. /\ loop' = [loop EXCEPT ![s] = loop'[s]] /\ LoopOK(loop'[s], minted)
      /\ loop'[s].at = phase /\ (phase # "idle" => loop'[s].run = loop[s].run)
  BY <1>1, <1>2, <1>3, GotoIs
<1>5. loop'[s].at = "running" => At(s, "running")
  BY <1>1, <1>2, <1>4
<1>6. /\ GoodIn(c, minted) /\ Owned(c, s) /\ c.files = staged[s].files
      /\ ReadIndex(c.kv).runs \in {Known(s), Append(Known(s), loop[s].run)}
  BY <1>2 DEF Added
<1>7. LoopStep(s, c)
  BY <1>2, <1>4, <1>5, <1>6 DEF LoopStep
<1> QED BY <1>7

LEMMA SeqOfSet ==
    ASSUME NEW X, NEW m, NEW s \in Seq(X), ToSet(s) \in SUBSET m
    PROVE  s \in Seq(m)
<1>1. s \in [1 .. Len(s) -> X] /\ Len(s) \in Nat
  BY LenProperties
<1>2. \A i \in 1 .. Len(s) : s[i] \in m
  BY ToSetIs
<1>3. s \in [1 .. Len(s) -> m]
  BY <1>1, <1>2
<1> QED BY <1>1, <1>3, SeqDef

\* The runs a loop writes back: those it read and its own.
LEMMA Incoming ==
    ASSUME ConvInv, NEW s \in Sessions, ~At(s, "idle"), NEW incoming,
           incoming = Append(loop[s].prior, loop[s].run)
    PROVE  incoming \in Seq(minted) /\ incoming # <<>> /\ Last(incoming) = loop[s].run
<1>1. loop[s].prior \in Seq(Runs) /\ ToSet(loop[s].prior) \in SUBSET minted /\ loop[s].run \in minted
  BY LoopUse DEF LoopOK, Loops
<1>2. loop[s].prior \in Seq(minted)
  BY <1>1, SeqOfSet
<1> QED BY <1>1, <1>2, AppendIs

LEMMA CheckpointStep ==
    ASSUME ConvInv, NEW s \in Sessions, Checkpoint(s)
    PROVE  ~At(s, "idle") /\ \E c : LoopStep(s, c)
<1>1. ~At(s, "idle") /\ At(s, "running") /\ minted' = minted
  BY DEF Checkpoint, At
<1>2. PICK incoming : incoming = Append(loop[s].prior, loop[s].run)
  OBVIOUS
<1>3. Upsert(s, incoming, "running", "running", Over(s))
  BY <1>2 DEF Checkpoint
<1>4. incoming \in Seq(minted) /\ incoming # <<>> /\ Last(incoming) = loop[s].run
  BY <1>1, <1>2, Incoming
<1>5. "running" \in Statuses
  BY DEF Statuses
<1> QED BY <1>1, <1>3, <1>4, <1>5, UpsertStep

LEMMA FinishStep ==
    ASSUME ConvInv, NEW s \in Sessions, NEW status \in {"completed", "cancelled"},
           Finish(s, status)
    PROVE  ~At(s, "idle") /\ \E c : LoopStep(s, c)
<1>1. ~At(s, "idle") /\ At(s, "running") /\ minted' = minted
  BY DEF Finish, At
<1>2. PICK incoming, next : /\ incoming = Append(loop[s].prior, loop[s].run)
                            /\ next = IF status = "cancelled" THEN "cut" ELSE "stored"
  OBVIOUS
<1>3. Upsert(s, incoming, status, next, Over(s))
  BY <1>2 DEF Finish
<1>4. incoming \in Seq(minted) /\ incoming # <<>> /\ Last(incoming) = loop[s].run
  BY <1>1, <1>2, Incoming
<1>5. status \in Statuses /\ next \in {"running", "cut", "stored"} /\ next # "running"
  BY <1>2 DEF Statuses
<1> QED BY <1>1, <1>3, <1>4, <1>5, UpsertStep

LEMMA KeepWriteStep ==
    ASSUME ConvInv, NEW s \in Sessions, KeepWrite(s)
    PROVE  ~At(s, "idle") /\ \E c : LoopStep(s, c)
<1>1. ~At(s, "idle") /\ loop[s].at = "keeping" /\ minted' = minted
  BY DEF KeepWrite, At
<1>2. PICK incoming : incoming = loop[s].prior
  OBVIOUS
<1>3. Upsert(s, incoming, "completed", "stored", Over(s))
  BY <1>2 DEF KeepWrite
<1>4. /\ incoming \in Seq(Runs) /\ ToSet(incoming) \in SUBSET minted
      /\ incoming # <<>> /\ Last(incoming) = loop[s].run
  BY <1>1, <1>2, LoopUse DEF LoopOK, Loops
<1>5. incoming \in Seq(minted)
  BY <1>4, SeqOfSet
<1>6. "completed" \in Statuses
  BY DEF Statuses
<1> QED BY <1>1, <1>3, <1>4, <1>5, <1>6, UpsertStep

LEMMA AbandonStep ==
    ASSUME ConvInv, NEW s \in Sessions, Abandon(s)
    PROVE  ~At(s, "idle") /\ \E c : LoopStep(s, c)
<1>1. ~At(s, "idle") /\ minted' = minted /\ Goto(s, Over(s))
      /\ unstored' = unstored \cup {loop[s].run} /\ UNCHANGED <<commits, head, staged>>
  BY DEF Abandon, At
<1>2. PICK phase \in {"ending", "idle"} : phase = Over(s)
  BY <1>1, LoopUse
<1>3. /\ loop' = [loop EXCEPT ![s] = loop'[s]] /\ LoopOK(loop'[s], minted)
      /\ loop'[s].at = phase /\ (phase # "idle" => loop'[s].run = loop[s].run)
  BY <1>1, <1>2, LoopUse, GotoIs
<1>4. Puts(s, staged[s])
  BY <1>1, LoopUse, StillStaged DEF Puts
<1>5. LoopStep(s, staged[s])
  BY <1>1, <1>2, <1>3, <1>4, LoopUse, QuietStep
<1> QED BY <1>1, <1>5

LEMMA EndTurnStep ==
    ASSUME ConvInv, NEW s \in Sessions, EndTurn(s)
    PROVE  ~At(s, "idle") /\ \E c : LoopStep(s, c)
<1>1. ~At(s, "idle") /\ ~At(s, "running") /\ minted' = minted /\ unstored' = unstored
      /\ Goto(s, "idle") /\ Puts(s, staged[s])
  BY DEF EndTurn, At, Puts
<1>2. loop' = [loop EXCEPT ![s] = loop'[s]] /\ LoopOK(loop'[s], minted) /\ loop'[s].at = "idle"
  BY <1>1, LoopUse, GotoIs
<1>3. LoopStep(s, staged[s])
  BY <1>1, <1>2, LoopUse, QuietStep
<1> QED BY <1>1, <1>3

LEMMA ToolCallStep ==
    ASSUME ConvInv, NEW s \in Sessions, ToolCall(s)
    PROVE  ~At(s, "idle") /\ \E c : LoopStep(s, c)
<1>1. ~At(s, "idle") /\ At(s, "running") /\ minted' = minted /\ unstored' = unstored
      /\ loop' = loop
  BY DEF ToolCall, At
<1>2. PICK files : files = staged[s].files \cup {loop[s].run}
  OBVIOUS
<1>3. PICK c : c = [staged[s] EXCEPT !.files = files]
  OBVIOUS
<1>4. Leave(s, c) /\ UNCHANGED head
  BY <1>2, <1>3 DEF ToolCall, Leave
<1>5. GoodIn(staged[s], minted) /\ Owned(staged[s], s) /\ loop[s].run \in minted
      /\ loop[s].run \in Runs /\ LoopOK(loop[s], minted) /\ unstored \in SUBSET minted
      /\ loop \in [Sessions -> Loops]
  BY <1>1, LoopUse, StoreUse DEF LoopsOK
<1>6. files \in SUBSET Runs /\ files \in SUBSET minted
  BY <1>2, <1>5 DEF GoodIn, Contents
<1>7. staged[s] \in [kv : KvType, folds : Seq(Folds), files : SUBSET Runs]
  BY <1>5 DEF GoodIn, Contents
<1>8. c.kv = staged[s].kv /\ c.files = files /\ c \in Contents
  BY <1>3, <1>6, <1>7 DEF Contents
<1>9. GoodIn(c, minted) /\ Owned(c, s) /\ ReadIndex(c.kv).runs = Known(s)
  BY <1>5, <1>6, <1>8 DEF GoodIn, Owned, RunsIn, Known, IndexOf
<1>10. \A f \in c.files : f \in staged[s].files \cup InHand(s)
  BY <1>1, <1>2, <1>8 DEF InHand
<1>11. loop' = [loop EXCEPT ![s] = loop'[s]]
  BY <1>1, <1>5
<1>12. LoopStep(s, c)
  BY <1>1, <1>4, <1>5, <1>9, <1>10, <1>11 DEF LoopStep, Puts, At
<1> QED BY <1>1, <1>12

\* Where a run is among others, or nowhere.
After(runs, t) == SelectInSeq(runs, LAMBDA r : r = t)

LEMMA AfterIs ==
    ASSUME NEW X, NEW runs \in Seq(X), NEW t
    PROVE  After(runs, t) \in Nat
<1> DEFINE I == {i \in 1 .. Len(runs) : runs[i] = t}
<1>1. After(runs, t) = IF I # {} THEN Min(I) ELSE 0
  BY DEF After, SelectInSeq
<1>2. I \subseteq Nat
  OBVIOUS
<1> HIDE DEF I
<1>3. ASSUME I # {}
      PROVE  Min(I) \in Nat
  <2>1. \E m \in I : \A n \in I : m <= n
    BY <1>2, <1>3, LeastNumber
  <2>2. Min(I) \in I
    BY <2>1 DEF Min
  <2> QED BY <1>2, <2>2
<1> QED BY <1>1, <1>3

LEMMA AskStep ==
    ASSUME ConvInv, NEW s \in Sessions, NEW due \in BOOLEAN, Ask(s, due)
    PROVE  ~At(s, "idle") /\ \E c : LoopStep(s, c)
<1> DEFINE l == loop[s]
           present == ToSet(l.rest) \cup ({l.anchor} \ {NoRun})
           fold == {f \in InForce(staged[s].folds, present) : f.through # l.anchor}
           Apply(f) == [l EXCEPT !.said = f.covers, !.anchor = f.through,
                                 !.rest = SubSeq(@, After(l.rest, f.through) + 1, Len(@))]
           seen == IF fold = {} THEN l ELSE Apply(CHOOSE f \in fold : TRUE)
           made == FoldOf(seen.said, seen.rest)
           kept(n) == /\ n \in Loops /\ n.at = l.at /\ n.run = l.run /\ n.prior = l.prior
<1>1. /\ At(s, "running")
      /\ IF due /\ seen.rest # <<>>
         THEN /\ Leave(s, [staged[s] EXCEPT !.folds = Append(@, made)])
              /\ loop' = [loop EXCEPT ![s] = [seen EXCEPT !.said = made.covers,
                                                !.anchor = made.through, !.rest = <<>>]]
         ELSE /\ loop' = [loop EXCEPT ![s] = seen]
              /\ UNCHANGED <<staged, commits, head>>
      /\ UNCHANGED <<minted, unstored>>
  BY DEF Ask, After
<1> HIDE DEF seen, made
<1>2. ~At(s, "idle")
  BY <1>1 DEF At
<1>3. /\ GoodIn(staged[s], minted) /\ Owned(staged[s], s) /\ LoopOK(l, minted) /\ l \in Loops
      /\ unstored \in SUBSET minted /\ loop \in [Sessions -> Loops]
  BY <1>2, LoopUse, StoreUse DEF LoopsOK
<1> HIDE DEF l
<1>4. staged[s] \in [kv : KvType, folds : Seq(Folds), files : SUBSET Runs]
  BY <1>3 DEF GoodIn, Contents
<1>5. kept(seen)
  <2>1. CASE fold = {}
    BY <1>3, <2>1 DEF seen
  <2>2. CASE fold # {}
    <3>1. PICK f : f = CHOOSE g \in fold : TRUE
      OBVIOUS
    <3>2. f \in fold
      BY <2>2, <3>1
    <3>3. \A i \in DOMAIN staged[s].folds : staged[s].folds[i] \in Folds
      BY <1>4
    <3>4. f \in Folds
      BY <3>2, <3>3 DEF InForce
    <3>5. f.through \in Runs /\ f.covers \in SUBSET Runs
      BY <3>4 DEF Folds
    <3>6. l.rest \in Seq(Runs) /\ Len(l.rest) \in Nat
      BY <1>3 DEF Loops
    <3>7. PICK a \in Nat : a = After(l.rest, f.through)
      BY <3>6, AfterIs
    <3>8. PICK rest : rest = SubSeq(l.rest, a + 1, Len(l.rest))
      OBVIOUS
    <3>9. rest \in Seq(Runs)
      <4>1. PICK first \in Nat \ {0} : first = a + 1
        OBVIOUS
      <4>2. PICK last \in Nat : last = Len(l.rest)
        BY <3>6
      <4> QED BY <3>6, <3>8, <4>1, <4>2, SubSeqIs
    <3>10. seen = [l EXCEPT !.said = f.covers, !.anchor = f.through, !.rest = rest]
      BY <2>2, <3>1, <3>7, <3>8 DEF seen
    <3> QED BY <1>3, <3>5, <3>9, <3>10 DEF Loops
  <2> QED BY <2>1, <2>2
<1>6. ASSUME NEW n, kept(n), NEW c, c.kv = staged[s].kv, c.files = staged[s].files,
             c \in Contents, Leave(s, c), loop' = [loop EXCEPT ![s] = n]
      PROVE  LoopStep(s, c)
  <2>1. GoodIn(c, minted) /\ Owned(c, s) /\ ReadIndex(c.kv).runs = Known(s)
    BY <1>3, <1>6 DEF GoodIn, Owned, RunsIn, Known, IndexOf
  <2>2. loop'[s] = n /\ loop' = [loop EXCEPT ![s] = loop'[s]]
    BY <1>3, <1>6
  <2>3. LoopOK(n, minted)
    BY <1>3, <1>6 DEF LoopOK
  <2>4. n.at = "running" /\ n.run = loop[s].run
    BY <1>1, <1>6 DEF At, l
  <2>5. head' = head
    BY <1>6 DEF Leave
  <2> QED BY <1>1, <1>3, <1>6, <2>1, <2>2, <2>3, <2>4, <2>5 DEF LoopStep, Puts
<1>7. CASE due /\ seen.rest # <<>>
  <2>1. seen.rest \in Seq(Runs) /\ seen.said \in SUBSET Runs /\ seen \in Loops
    BY <1>5 DEF Loops
  <2>2. made.through \in Runs /\ made.covers \in SUBSET Runs /\ made \in Folds
    <3>1. Last(seen.rest) \in Runs /\ ToSet(seen.rest) \in SUBSET Runs
      BY <1>7, <2>1, FrontIs, ToSetIs
    <3>2. made = [through |-> Last(seen.rest), covers |-> seen.said \cup ToSet(seen.rest)]
      BY DEF made, FoldOf
    <3> QED BY <2>1, <3>1, <3>2 DEF Folds
  <2>3. PICK n, none : /\ none = <<>> /\ none \in Seq(Runs)
                       /\ n = [seen EXCEPT !.said = made.covers, !.anchor = made.through,
                                           !.rest = none]
    BY NoneIn
  <2>4. kept(n)
    BY <1>5, <2>1, <2>2, <2>3 DEF Loops
  <2>5. PICK folds : folds = Append(staged[s].folds, made) /\ folds \in Seq(Folds)
    BY <1>4, <2>2, AppendIs
  <2>6. PICK c : c = [staged[s] EXCEPT !.folds = folds]
    OBVIOUS
  <2>7. c.kv = staged[s].kv /\ c.files = staged[s].files /\ c \in Contents
    BY <1>4, <2>5, <2>6 DEF Contents
  <2>8. Leave(s, c) /\ loop' = [loop EXCEPT ![s] = n]
    BY <1>1, <1>7, <2>3, <2>5, <2>6
  <2> QED BY <1>2, <1>6, <2>4, <2>7, <2>8
<1>8. CASE ~(due /\ seen.rest # <<>>)
  <2>1. loop' = [loop EXCEPT ![s] = seen] /\ UNCHANGED <<staged, commits, head>>
    BY <1>1, <1>8
  <2>2. Leave(s, staged[s])
    BY <1>2, <2>1, LoopUse, StillStaged
  <2>3. staged[s] \in Contents
    BY <1>3 DEF GoodIn
  <2> QED BY <1>2, <1>5, <1>6, <2>1, <2>2, <2>3
<1> QED BY <1>7, <1>8

\* A row of the run this loop wrote, as agno 3 writes it or a harness without
\* a database.
LEMMA RowIs ==
    ASSUME ConvInv, NEW s \in Sessions, ~At(s, "idle"), NEW status \in Statuses,
           NEW bodies,
           \/ bodies = Only(loop[s].run, status)
           \/ bodies = NoBodies /\ ReadRun(staged[s].kv, loop[s].run) = status,
           NEW index, index = [owner |-> s, runs |-> WithOne(s, loop[s].run)],
           NEW w \in Writes(staged[s].kv, index, bodies, {}),
           NEW c, c = [staged[s] EXCEPT !.kv = w.kv]
    PROVE  /\ Added(s, c, loop[s].run) /\ w.raised \in BOOLEAN
           /\ w.raised => c = staged[s]
           /\ ~w.raised => loop[s].run \in RunsIn(c)
<1>1. PICK r : r = loop[s].run
  OBVIOUS
<1>2. /\ StoreOK /\ Live(s) /\ r \in minted /\ r \in Runs /\ minted \in SUBSET Runs
  BY <1>1, LoopUse
<1>3. bodies = Only(r, status) \/ (bodies = NoBodies /\ r \in RunsOf(s))
  BY <1>1, <1>2, KnownIs, AbsentAssumption DEF AbsentAssumption
<1>4. /\ Written(s, minted, index, w, c) /\ index.runs = WithOne(s, r)
      /\ ToSet(index.runs) = RunsOf(s) \cup {r}
  <2>1. index = [owner |-> s, runs |-> WithOne(s, r)]
    BY <1>1
  <2>2. minted \in SUBSET minted
    OBVIOUS
  <2> QED BY ONLY <1>2, <1>3, <2>1, <2>2, WritesOne, s \in Sessions, status \in Statuses,
          w \in Writes(staged[s].kv, index, bodies, {}), c = [staged[s] EXCEPT !.kv = w.kv]
<1>5. /\ GoodIn(c, minted) /\ c.files = staged[s].files /\ Owned(c, s)
      /\ w.raised => c = staged[s]
      /\ ~w.raised => ReadIndex(c.kv) = index
      /\ w.raised \in BOOLEAN
  BY <1>2, <1>4 DEF Written
<1>6. CASE w.raised
  BY <1>1, <1>5, <1>6 DEF Added, Known, IndexOf
<1>7. CASE ~w.raised
  BY <1>1, <1>4, <1>5, <1>7 DEF Added, WithOne, RunsIn
<1> QED BY <1>5, <1>6, <1>7

LEMMA UpsertRunStep ==
    ASSUME ConvInv, NEW s \in Sessions, NEW written \in BOOLEAN, UpsertRun(s, written)
    PROVE  ~At(s, "idle") /\ \E c : LoopStep(s, c)
<1>1. /\ ~At(s, "idle") /\ ~At(s, "running") /\ minted' = minted /\ unstored' = unstored
      /\ Goto(s, Over(s))
  BY DEF UpsertRun, At
<1>2. PICK phase \in {"ending", "idle"} : phase = Over(s)
  BY <1>1, LoopUse
<1>3. /\ loop' = [loop EXCEPT ![s] = loop'[s]] /\ LoopOK(loop'[s], minted)
      /\ loop'[s].at = phase /\ (phase # "idle" => loop'[s].run = loop[s].run)
  BY <1>1, <1>2, LoopUse, GotoIs
<1>4. CASE UNCHANGED <<commits, head, staged>>
  <2>1. Puts(s, staged[s])
    BY <1>1, <1>4, LoopUse, StillStaged DEF Puts
  <2>2. LoopStep(s, staged[s])
    BY <1>1, <1>2, <1>3, <2>1, LoopUse, QuietStep
  <2> QED BY <1>1, <2>2
<1>5. CASE ~UNCHANGED <<commits, head, staged>>
  <2> DEFINE r == loop[s].run
             index == IndexOf(s)
             listed == IF r \in ToSet(index.runs) THEN index.runs ELSE Append(index.runs, r)
             changed == IF ReadRun(staged[s].kv, r) = "completed" THEN NoBodies
                        ELSE Only(r, "completed")
  <2>1. PICK w \in Writes(staged[s].kv, [index EXCEPT !.runs = listed], changed, {}) :
           Leave(s, [staged[s] EXCEPT !.kv = w.kv]) /\ index.owner = s
    BY <1>5 DEF UpsertRun, StoreRow
  <2>2. listed = WithOne(s, r)
    BY DEF WithOne, Known, RunsOf
  <2>3. [index EXCEPT !.runs = listed] = [owner |-> s, runs |-> listed]
    <3>1. index = NoIndex \/ index \in IndexType
      BY <1>1, LoopUse, StoreUse, ReadIs DEF IndexOf
    <3> HIDE DEF index
    <3>2. PICK q : index = [owner |-> s, runs |-> q]
      BY <2>1, <3>1 DEF NoIndex, IndexType
    <3> HIDE DEF listed
    <3>3. PICK more : more = listed
      OBVIOUS
    <3>4. [index EXCEPT !.runs = more] = [owner |-> s, runs |-> more]
      BY <3>2
    <3> QED BY <3>3, <3>4
  <2>4. PICK new : new = [owner |-> s, runs |-> WithOne(s, r)] /\ new = [index EXCEPT !.runs = listed]
    BY <2>2, <2>3
  <2>5. PICK c : c = [staged[s] EXCEPT !.kv = w.kv]
    OBVIOUS
  <2>6. "completed" \in Statuses
    BY DEF Statuses
  <2>7. \/ changed = Only(loop[s].run, "completed")
        \/ changed = NoBodies /\ ReadRun(staged[s].kv, loop[s].run) = "completed"
    OBVIOUS
  <2>8. w \in Writes(staged[s].kv, new, changed, {})
    BY <2>4
  <2> HIDE DEF changed, listed, index
  <2>9. Added(s, c, r)
    BY <1>1, <2>4, <2>5, <2>6, <2>7, <2>8, RowIs
  <2>10. Puts(s, c)
    BY <2>1, <2>5 DEF Puts
  <2>11. LoopStep(s, c)
    BY <1>1, <1>2, <1>3, <2>9, <2>10, LoopUse DEF LoopStep, Added
  <2> QED BY <1>1, <2>11
<1> QED BY <1>4, <1>5

LEMMA KeepReadStep ==
    ASSUME ConvInv, NEW s \in Sessions, KeepRead(s)
    PROVE  ~At(s, "idle") /\ \E c : LoopStep(s, c)
<1> DEFINE index == IndexOf(s)
<1>1. /\ ~At(s, "idle") /\ ~At(s, "running") /\ minted' = minted /\ unstored' = unstored
      /\ UNCHANGED <<commits, head, staged>>
      /\ \/ /\ loop[s].run \in ToSet(index.runs)
            /\ loop' = [loop EXCEPT ![s].at = "keeping", ![s].prior = index.runs]
         \/ Goto(s, Over(s))
  BY DEF KeepRead, At
<1>2. Puts(s, staged[s])
  BY <1>1, LoopUse, StillStaged DEF Puts
<1>3. CASE Goto(s, Over(s))
  <2>1. PICK phase \in {"ending", "idle"} : phase = Over(s)
    BY <1>1, LoopUse
  <2>2. /\ loop' = [loop EXCEPT ![s] = loop'[s]] /\ LoopOK(loop'[s], minted)
        /\ loop'[s].at = phase /\ (phase # "idle" => loop'[s].run = loop[s].run)
    BY <1>1, <1>3, <2>1, LoopUse, GotoIs
  <2>3. LoopStep(s, staged[s])
    BY <1>1, <1>2, <2>1, <2>2, LoopUse, QuietStep
  <2> QED BY <1>1, <2>3
<1>4. CASE /\ loop[s].run \in ToSet(index.runs)
           /\ loop' = [loop EXCEPT ![s].at = "keeping", ![s].prior = index.runs]
  <2>1. PICK l, runs : l = loop[s] /\ runs = index.runs
    OBVIOUS
  <2>2. /\ loop \in [Sessions -> Loops] /\ LoopOK(l, minted) /\ l \in Loops /\ l.at # "idle"
    BY <1>1, <2>1, LoopUse DEF LoopsOK, At
  <2>3. runs \in Seq(Runs) /\ ToSet(runs) \in SUBSET minted
    BY <1>1, <2>1, LoopUse, StoreUse, KnownIs DEF Known, RunsOf
  <2>4. PICK n : n = [l EXCEPT !.at = "keeping", !.prior = runs]
    OBVIOUS
  <2>5. n \in Loops /\ n.at = "keeping" /\ n.prior = runs /\ n.run = l.run
    BY <2>2, <2>3, <2>4 DEF Loops, Phases
  <2>6. loop' = [loop EXCEPT ![s] = n] /\ loop'[s] = n
    BY <1>4, <2>1, <2>2, <2>4
  <2>7. runs # <<>> /\ Last(runs) = l.run
    <3>1. EndsWith(staged[s], l.run)
      BY <1>1, <2>1 DEF ConvInv, History
    <3> QED BY <1>4, <2>1, <3>1, NoneIn DEF EndsWith, RunsIn, IndexOf
  <2>8. LoopOK(n, minted)
    BY <2>2, <2>3, <2>5, <2>7 DEF LoopOK
  <2>9. LoopStep(s, staged[s])
    BY <1>1, <1>2, <2>1, <2>5, <2>6, <2>8, LoopUse, QuietStep
  <2> QED BY <1>1, <2>9
<1> QED BY <1>1, <1>3, <1>4

LEMMA EndWithBodyStep ==
    ASSUME ConvInv, NEW s \in Sessions, EndWithBody(s)
    PROVE  ~At(s, "idle") /\ \E c : LoopStep(s, c)
<1> DEFINE r == loop[s].run
           listed == IF r \in ToSet(IndexOf(s).runs) THEN IndexOf(s).runs
                     ELSE Append(IndexOf(s).runs, r)
<1>1. PICK w, c :
         /\ w \in Writes(staged[s].kv, [owner |-> s, runs |-> listed], Only(r, "completed"), {})
         /\ ~At(s, "idle") /\ At(s, "running") /\ minted' = minted /\ Goto(s, "idle")
         /\ c = [staged[s] EXCEPT !.kv = w.kv]
         /\ IF w.raised THEN Leave(s, c) /\ unstored' = unstored \cup ({r} \ RunsOf(s))
            ELSE Land(s, c) /\ UNCHANGED unstored
  BY DEF EndWithBody, At
<1>2. listed = WithOne(s, r)
  BY DEF WithOne, Known, RunsOf
<1>3. PICK new, bodies : /\ new = [owner |-> s, runs |-> WithOne(s, r)]
                         /\ bodies = Only(loop[s].run, "completed")
  OBVIOUS
<1>4. w \in Writes(staged[s].kv, new, bodies, {}) /\ "completed" \in Statuses
  BY <1>1, <1>2, <1>3 DEF Statuses
<1>5. /\ Added(s, c, loop[s].run) /\ w.raised \in BOOLEAN
      /\ w.raised => c = staged[s]
      /\ ~w.raised => loop[s].run \in RunsIn(c)
  BY <1>1, <1>3, <1>4, RowIs
<1>6. /\ loop' = [loop EXCEPT ![s] = loop'[s]] /\ LoopOK(loop'[s], minted)
      /\ loop'[s].at = "idle"
  BY <1>1, LoopUse, GotoIs
<1>7. Puts(s, c) /\ unstored \in SUBSET unstored' /\ unstored' \in SUBSET minted
      /\ r \in RunsIn(c) \cup unstored'
  <2>1. CASE w.raised
    <3>1. Leave(s, c) /\ unstored' = unstored \cup ({r} \ RunsOf(s)) /\ c = staged[s]
      BY <1>1, <1>5, <2>1
    <3> QED BY <1>1, <3>1, LoopUse DEF Puts, RunsIn, RunsOf, IndexOf
  <2>2. CASE ~w.raised
    BY <1>1, <1>5, <2>2, LoopUse DEF Puts
  <2> QED BY <1>5, <2>1, <2>2
<1>8. LoopStep(s, c)
  BY <1>1, <1>5, <1>6, <1>7 DEF LoopStep, Added
<1> QED BY <1>1, <1>8

-----------------------------------------------------------------------------
(* What others do to a branch *)

\* A step beside the loops that puts c on the branch of s: a run that leaves
\* the conversation is unstored, and nothing comes behind the run of a loop.
OtherStep(s, c) ==
    /\ Puts(s, c) /\ GoodIn(c, minted') /\ Owned(c, s) /\ Live(s)
    /\ minted \in SUBSET minted' /\ minted' \in SUBSET Runs
    /\ unstored \in SUBSET unstored' /\ unstored' \in SUBSET minted'
    /\ loop' = loop
    /\ RunsOf(s) \in SUBSET (RunsIn(c) \cup unstored')
    /\ ~At(s, "idle") => EndsWith(c, loop[s].run)
    /\ \A f \in c.files : f \in staged[s].files \cup PastFiles(s)
    /\ head'[s] # head[s] =>
          \A f \in c.files : f \in PastFiles(s) \cup RunsIn(c) \cup unstored'

\* Contents with the folds of others, over their index or one run away.
Carries(c, old) ==
    /\ c.folds = old.folds
    /\ \/ ReadIndex(c.kv).runs = ReadIndex(old.kv).runs
       \/ ReadIndex(c.kv).runs = <<>>
       \/ \E r \in Runs : ReadIndex(c.kv).runs = Without(ReadIndex(old.kv).runs, r)
       \/ \E r \in Runs \ minted : ReadIndex(c.kv).runs = Append(ReadIndex(old.kv).runs, r)

\* What such a step puts there comes of the branch's own contents.
FromOwn(s, c) == \E old \in PastHolds(s) \cup {staged[s]} : Carries(c, old)

LEMMA LoopsMore ==
    ASSUME NEW m, NEW n, m \in SUBSET n, NEW l, LoopOK(l, m)
    PROVE  LoopOK(l, n)
BY DEF LoopOK

LEMMA OtherStepKeeps ==
    ASSUME ConvInv, NEW s \in Sessions, NEW c, OtherStep(s, c)
    PROVE  ConvInv'
<1> USE DEF OtherStep
<1>1. StoreOK /\ LoopsOK
  BY DEF ConvInv
<1>2. StoreOK' /\ \A t \in Sessions : Live(t)' = Live(t)
  BY <1>1, PutOK
<1>3. LoopsOK'
  BY <1>1, <1>2, LoopsMore DEF LoopsOK, At
<1>4. /\ \A t \in Sessions : t # s => /\ PastHolds(t)' = PastHolds(t)
                                      /\ staged'[t] = staged[t] /\ head'[t] = head[t]
      /\ staged'[s] = c
      /\ PastHolds(s)' \in {PastHolds(s), PastHolds(s) \cup {c}}
  BY <1>1, <1>2, PutIs
<1>5. ASSUME NEW t \in Sessions
      PROVE  History(t)'
  <2>1. History(t) /\ InHand(t)' = InHand(t) /\ At(t, "idle")' = At(t, "idle") /\ loop'[t] = loop[t]
    BY DEF ConvInv, InHand, At
  <2>2. CASE t # s
    <3>1. /\ PastHolds(t)' = PastHolds(t) /\ staged'[t] = staged[t] /\ Live(t)' = Live(t)
      BY <1>2, <1>4, <2>2
    <3>2. PastFiles(t)' = PastFiles(t) /\ RunsOf(t)' = RunsOf(t)
      BY <3>1 DEF PastFiles, RunsOf, IndexOf
    <3> QED BY <2>1, <3>1, <3>2 DEF History
  <2>3. CASE t = s
    <3>1. RunsOf(s)' = RunsIn(c)
      BY <1>4 DEF RunsOf, IndexOf, RunsIn
    <3>2. ASSUME ~At(s, "idle"), NEW d \in PastHolds(s)' \cup {c}
          PROVE  EndsWith(d, loop[s].run)
      <4>1. \A e \in PastHolds(s) : EndsWith(e, loop[s].run)
        BY <2>1, <2>3, <3>2 DEF History
      <4>2. d \in PastHolds(s) \/ d = c
        BY <1>4, <3>2
      <4> QED BY <3>2, <4>1, <4>2
    <3>3. ASSUME NEW f \in c.files
          PROVE  f \in PastFiles(s)' \cup RunsIn(c) \cup unstored' \cup InHand(s)
      <4>1. \A x : x \in PastFiles(s) => x \in PastFiles(s)'
        BY <1>4 DEF PastFiles
      <4>2. f \in staged[s].files => f \in PastFiles(s) \cup RunsOf(s) \cup unstored \cup InHand(s)
        BY <2>1, <2>3 DEF History
      <4> QED BY <4>1, <4>2
    <3> QED BY <1>4, <2>1, <2>3, <3>1, <3>2, <3>3 DEF History
  <2> QED BY <2>2, <2>3
<1> QED BY <1>2, <1>3, <1>5 DEF ConvInv

\* What a delete may leave or land: contents with the files there were.
LEMMA ManagementStep ==
    ASSUME ConvInv, NEW s \in Sessions, Live(s), NEW c, GoodIn(c, minted), Owned(c, s),
           minted' = minted, unstored \in SUBSET unstored', unstored' \in SUBSET minted,
           loop' = loop, c.files = staged[s].files,
           RunsOf(s) \in SUBSET (RunsIn(c) \cup unstored'),
           ~At(s, "idle") => EndsWith(c, loop[s].run),
           Management(s, c) \/ Leave(s, c)
    PROVE  OtherStep(s, c)
<1>1. StoreOK /\ LoopsOK /\ minted \in SUBSET Runs
  BY DEF ConvInv, LoopsOK
<1>2. Puts(s, c)
  BY DEF Management, Puts
<1>3. ASSUME head'[s] # head[s], NEW f \in c.files
      PROVE  f \in PastFiles(s)
  <2>1. ~Leave(s, c)
    BY <1>3 DEF Leave
  <2>2. staged[s] = HeadOf(s)
    BY <2>1 DEF Management, Uncommitted
  <2>3. HeadOf(s) \in PastHolds(s)
    BY <1>1, PastUse
  <2> QED BY <1>3, <2>2, <2>3 DEF PastFiles
<1> QED BY <1>1, <1>2, <1>3 DEF OtherStep

LEMMA StagedUse ==
    ASSUME ConvInv, NEW s \in Sessions
    PROVE  /\ StoreOK /\ LoopsOK /\ minted \in SUBSET Runs /\ unstored \in SUBSET minted
           /\ RunsOf(s) \in SUBSET minted /\ RunsOf(s) = RunsIn(staged[s])
           /\ ~At(s, "idle") => \A c \in PastHolds(s) \cup {staged[s]} : EndsWith(c, loop[s].run)
           /\ Live(s) => Owned(staged[s], s) /\ HeadOf(s) \in PastHolds(s)
BY StoreUse, PastUse DEF ConvInv, LoopsOK, History, RunsOf, IndexOf, RunsIn

LEMMA DeleteRunStep ==
    ASSUME ConvInv, NEW s \in Sessions, NEW r \in Runs, DeleteRun(s, r)
    PROVE  \E c : OtherStep(s, c) /\ FromOwn(s, c)
<1> DEFINE index == IndexOf(s)
           left == [index EXCEPT !.runs = Without(@, r)]
<1>1. PICK w, c :
         /\ w \in Writes(staged[s].kv, left, NoBodies, {r})
         /\ Live(s) /\ r \in ToSet(index.runs) /\ loop' = loop /\ minted' = minted
         /\ c = [staged[s] EXCEPT !.kv = w.kv]
         /\ IF w.raised THEN Leave(s, c) /\ UNCHANGED unstored
            ELSE Management(s, c) /\ unstored' = unstored \cup {r}
  BY DEF DeleteRun
<1>2. StoreOK /\ RunsOf(s) \in SUBSET minted /\ r \in RunsOf(s) /\ Owned(staged[s], s)
      /\ unstored \in SUBSET minted
  BY <1>1, StagedUse DEF RunsOf
<1>3. index \in IndexType
  <2>1. index = NoIndex \/ index \in IndexType
    BY <1>2, StoreUse, ReadIs DEF IndexOf
  <2>2. index # NoIndex
    BY <1>1, NoneIn DEF NoIndex
  <2> QED BY <2>1, <2>2
<1>4. PICK runs : runs = Without(index.runs, r)
  OBVIOUS
<1>5. /\ index.runs \in Seq(Runs) /\ IsInjective(index.runs) /\ ToSet(index.runs) = RunsOf(s)
      /\ index.runs = Known(s)
  BY <1>2, KnownIs DEF Known
<1>6. /\ runs \in Seq(Runs) /\ IsInjective(runs) /\ ToSet(runs) = RunsOf(s) \ {r}
      /\ index.runs # <<>> /\ Last(index.runs) # r => Last(runs) = Last(index.runs)
  BY <1>4, <1>5, WithoutIs
<1>7. left \in IndexType /\ left.owner = index.owner /\ left.runs = runs
  BY <1>3, <1>4, <1>6 DEF IndexType
<1>8. left.owner \in {NoOwner, s}
  BY <1>2, <1>7 DEF Owned, IndexOf
<1>9. Lists(staged[s].kv, left, NoBodies, {r})
  <2>1. DOMAIN NoBodies = {} /\ ToSet(ReadIndex(staged[s].kv).runs) = RunsOf(s)
    BY DEF NoBodies, RunsOf, IndexOf
  <2> HIDE DEF left
  <2> QED BY <1>6, <1>7, <2>1 DEF Lists
<1> HIDE DEF left, index
<1>10. ToSet(left.runs) \in SUBSET minted /\ minted \in SUBSET minted
  BY <1>2, <1>6, <1>7
<1>11. Written(s, minted, left, w, c)
  BY <1>1, <1>2, <1>8, <1>9, <1>10, WriteIs
<1>12. /\ GoodIn(c, minted) /\ c.files = staged[s].files /\ c.folds = staged[s].folds
       /\ Owned(c, s)
       /\ w.raised => c = staged[s]
       /\ ~w.raised => ReadIndex(c.kv) = left
  BY <1>1, <1>11 DEF Written
<1>13. CASE w.raised
  <2>1. c = staged[s] /\ Leave(s, c) /\ unstored' = unstored
    BY <1>1, <1>12, <1>13
  <2>2. OtherStep(s, c)
    BY <1>1, <1>2, <1>12, <2>1, StagedUse, ManagementStep
  <2>3. FromOwn(s, c)
    BY <2>1 DEF FromOwn, Carries
  <2> QED BY <2>2, <2>3
<1>14. CASE ~w.raised
  <2>1. Management(s, c) /\ unstored' = unstored \cup {r} /\ ReadIndex(c.kv) = left
    BY <1>1, <1>12, <1>14
  <2>2. RunsIn(c) = RunsOf(s) \ {r} /\ ReadIndex(c.kv).runs = runs
    BY <1>6, <1>7, <2>1 DEF RunsIn
  <2>3. ASSUME ~At(s, "idle")
        PROVE  EndsWith(c, loop[s].run)
    <3>1. EndsWith(staged[s], loop[s].run)
      BY <2>3, StagedUse
    <3>2. SUFFICES ASSUME loop[s].run \in RunsIn(c)
                   PROVE  Last(runs) = loop[s].run
      BY <2>2 DEF EndsWith
    <3>3. loop[s].run \in RunsOf(s) /\ loop[s].run # r
      BY <2>2, <3>2
    <3>4. Last(index.runs) = loop[s].run
      BY <3>1, <3>3, StagedUse DEF EndsWith, IndexOf, index
    <3>5. index.runs # <<>>
      BY <1>5, <3>3, NoneIn
    <3> QED BY <1>6, <3>3, <3>4, <3>5
  <2>4. unstored' \in SUBSET minted /\ RunsOf(s) \in SUBSET (RunsIn(c) \cup unstored')
    BY <1>2, <2>1, <2>2
  <2>5. OtherStep(s, c)
    BY <1>1, <1>12, <2>1, <2>3, <2>4, ManagementStep
  <2>6. ReadIndex(c.kv).runs = Without(ReadIndex(staged[s].kv).runs, r)
    BY <1>4, <1>5, <2>2 DEF Known, IndexOf
  <2>7. FromOwn(s, c)
    BY <1>12, <2>6 DEF FromOwn, Carries
  <2> QED BY <2>5, <2>7
<1> QED BY <1>13, <1>14

LEMMA DeleteSessionStep ==
    ASSUME ConvInv, NEW s \in Sessions, DeleteSession(s)
    PROVE  \E c : OtherStep(s, c) /\ FromOwn(s, c)
<1>1. PICK c : c = Cleared(staged[s])
  OBVIOUS
<1>2. /\ Live(s) /\ Management(s, c) /\ unstored' = unstored \cup RunsOf(s) /\ loop' = loop
      /\ minted' = minted
  BY <1>1 DEF DeleteSession
<1>3. GoodIn(staged[s], minted)
  BY StoreUse DEF ConvInv
<1>4. /\ GoodIn(c, minted) /\ Owned(c, s) /\ ReadIndex(c.kv).runs = <<>> /\ c.files = staged[s].files
      /\ c.folds = staged[s].folds
  BY <1>1, <1>3, ClearedIs
<1>5. EndsWith(c, loop[s].run)
  BY <1>4, NoneIn DEF EndsWith, RunsIn
<1>6. OtherStep(s, c)
  BY <1>2, <1>4, <1>5, StagedUse, ManagementStep
<1>7. FromOwn(s, c)
  BY <1>4 DEF FromOwn, Carries
<1> QED BY <1>6, <1>7

LEMMA CheckoutStep ==
    ASSUME ConvInv, NEW s \in Sessions, NEW at \in 1 .. Len(commits), Checkout(s, at)
    PROVE  \E c : OtherStep(s, c) /\ FromOwn(s, c)
<1>1. PICK c, old : old = commits[at].holds /\ c = Rebound(old, s)
  OBVIOUS
<1>2. /\ Live(s) /\ at \in Past[head[s]] /\ Land(s, c) /\ loop' = loop /\ minted' = minted
      /\ unstored' = unstored \cup (RunsOf(s) \ RunsIn(c))
  BY <1>1 DEF Checkout, RunsIn
<1>3. old \in PastHolds(s) /\ GoodIn(old, minted)
  BY <1>1, <1>2, StagedUse, PastUse DEF PastHolds
<1>4. /\ GoodIn(c, minted) /\ Owned(c, s) /\ c.files = old.files /\ c.folds = old.folds
      /\ ReadIndex(c.kv).runs = ReadIndex(old.kv).runs
  BY <1>1, <1>3, ReboundIs
<1>5. ~At(s, "idle") => EndsWith(c, loop[s].run)
  <2>1. ~At(s, "idle") => EndsWith(old, loop[s].run)
    BY <1>3, StagedUse
  <2> QED BY <1>4, <2>1 DEF EndsWith, RunsIn
<1>6. \A f \in c.files : f \in PastFiles(s)
  BY <1>3, <1>4 DEF PastFiles
<1>7. OtherStep(s, c)
  BY <1>2, <1>4, <1>5, <1>6, StagedUse DEF OtherStep, Puts
<1>8. FromOwn(s, c)
  BY <1>3, <1>4 DEF FromOwn, Carries
<1> QED BY <1>7, <1>8

LEMMA DiscardStep ==
    ASSUME ConvInv, NEW s \in Sessions, Discard(s)
    PROVE  \E c : OtherStep(s, c) /\ FromOwn(s, c)
<1>1. PICK c : c = HeadOf(s)
  OBVIOUS
<1>2. /\ Live(s) /\ Leave(s, c) /\ loop' = loop /\ minted' = minted
      /\ unstored' = unstored \cup (RunsOf(s) \ RunsIn(c))
  BY <1>1 DEF Discard, RunsIn
<1>3. c \in PastHolds(s) /\ GoodIn(c, minted) /\ Owned(c, s)
  BY <1>1, <1>2, StagedUse, PastUse, StoreUse
<1>4. \A f \in c.files : f \in PastFiles(s)
  BY <1>3 DEF PastFiles
<1>5. OtherStep(s, c)
  BY <1>2, <1>3, <1>4, StagedUse DEF OtherStep, Puts
<1>6. FromOwn(s, c)
  BY <1>3 DEF FromOwn, Carries
<1> QED BY <1>5, <1>6

LEMMA SeedStep ==
    ASSUME ConvInv, NEW k \in Sessions, NEW r \in Runs, Seed(k, r)
    PROVE  \E c : OtherStep(k, c) /\ FromOwn(k, c)
<1>1. PICK w, c :
         /\ w \in Writes(staged[k].kv, [owner |-> k, runs |-> <<r>>], Only(r, "completed"), {})
         /\ Live(k) /\ Known(k) = <<>> /\ At(k, "idle") /\ r \notin minted
         /\ minted' = minted \cup {r} /\ loop' = loop /\ unstored' = unstored
         /\ c = [staged[k] EXCEPT !.kv = w.kv] /\ Puts(k, c)
  BY DEF Seed, Known, Puts
<1>2. /\ StoreOK /\ RunsOf(k) \in SUBSET minted /\ minted \in SUBSET Runs
      /\ unstored \in SUBSET minted
  BY StagedUse
<1>3. PICK new, bodies : /\ new = [owner |-> k, runs |-> WithOne(k, r)]
                         /\ bodies = Only(r, "completed")
  OBVIOUS
<1>4. WithOne(k, r) = <<r>>
  <2>1. r \notin RunsOf(k)
    BY <1>1, <1>2
  <2> QED BY <1>1, <2>1 DEF WithOne
<1>5. w \in Writes(staged[k].kv, new, bodies, {}) /\ "completed" \in Statuses
  BY <1>1, <1>3, <1>4 DEF Statuses
<1>6. PICK m \in SUBSET Runs : m = minted \cup {r}
  BY <1>2
<1>7. minted \in SUBSET m /\ r \in m
  BY <1>6
<1>8. Written(k, m, new, w, c)
  BY ONLY <1>1, <1>2, <1>3, <1>5, <1>7, WritesOne, k \in Sessions, m \in SUBSET Runs
<1>9. /\ GoodIn(c, minted') /\ c.files = staged[k].files /\ Owned(c, k)
      /\ c.folds = staged[k].folds /\ (c = staged[k] \/ ReadIndex(c.kv) = new)
  BY <1>1, <1>6, <1>8 DEF Written
<1>10. RunsOf(k) = {}
  BY <1>1, <1>2, KnownIs, NoneIn
<1>11. \A f \in c.files : f \in PastFiles(k) \cup unstored
  <2>1. \A f \in staged[k].files : f \in PastFiles(k) \cup RunsOf(k) \cup unstored \cup InHand(k)
    BY <1>1 DEF ConvInv, History
  <2>2. InHand(k) = {}
    BY <1>1 DEF InHand, At
  <2> QED BY <1>9, <1>10, <2>1, <2>2
<1>12. OtherStep(k, c)
  BY <1>1, <1>2, <1>9, <1>10, <1>11 DEF OtherStep
<1>13. FromOwn(k, c)
  <2>1. CASE c = staged[k]
    BY <2>1 DEF FromOwn, Carries
  <2>2. CASE ReadIndex(c.kv) = new
    <3>1. ReadIndex(c.kv).runs = Append(ReadIndex(staged[k].kv).runs, r)
      BY <1>1, <1>3, <1>4, <2>2 DEF Known, IndexOf
    <3> QED BY <1>1, <1>9, <3>1 DEF FromOwn, Carries
  <2> QED BY <1>9, <2>1, <2>2
<1> QED BY <1>12, <1>13

-----------------------------------------------------------------------------
(* A run begins *)

\* The contents a run begins with: those staged, under an index of the
\* session's own if there was none.
Begun(s, c) ==
    /\ Puts(s, c) /\ GoodIn(c, minted) /\ Owned(c, s) /\ c.files = staged[s].files
    /\ ReadIndex(c.kv).runs = Known(s)

LEMMA BeginPuts ==
    ASSUME ConvInv, NEW s \in Sessions, NEW r \in Runs, NEW n \in ReadLimits,
           NEW turn \in BOOLEAN, BeginRun(s, r, n, turn)
    PROVE  \E c : Begun(s, c)
<1>1. PICK w, c :
         /\ w \in IF Holds(staged[s].kv) THEN {[kv |-> staged[s].kv, raised |-> FALSE]}
                  ELSE Writes(staged[s].kv, [owner |-> s, runs |-> <<>>], NoBodies, {})
         /\ Live(s) /\ ~w.raised /\ c = [staged[s] EXCEPT !.kv = w.kv] /\ Puts(s, c)
  BY DEF BeginRun, Puts
<1>2. /\ StoreOK /\ GoodIn(staged[s], minted) /\ Owned(staged[s], s)
      /\ staged[s] \in Contents
  BY <1>1, StagedUse, StoreUse
<1>3. CASE Holds(staged[s].kv)
  <2>1. w.kv = staged[s].kv
    BY <1>1, <1>3
  <2>2. c = staged[s]
    BY <1>1, <1>2, <2>1 DEF Contents
  <2> QED BY <1>1, <1>2, <2>2 DEF Begun, Known, IndexOf
<1>4. CASE ~Holds(staged[s].kv)
  <2>1. PICK new : new = [owner |-> s, runs |-> <<>>]
    OBVIOUS
  <2>2. new \in IndexType /\ new.owner \in {NoOwner, s} /\ new.runs = <<>>
    BY <2>1, NoneIn DEF IndexType
  <2>3. ReadIndex(staged[s].kv) = NoIndex /\ Known(s) = <<>> /\ DOMAIN NoBodies = {}
    BY <1>4 DEF Holds, Known, IndexOf, NoIndex, NoBodies
  <2>4. Lists(staged[s].kv, new, NoBodies, {})
    BY <2>2, <2>3, NoneIn DEF Lists, NoIndex
  <2>5. w \in Writes(staged[s].kv, new, NoBodies, {})
    BY <1>1, <1>4, <2>1
  <2>6. minted \in SUBSET minted /\ ToSet(new.runs) \in SUBSET minted
    BY <2>2, NoneIn
  <2>7. Written(s, minted, new, w, c)
    BY ONLY <1>1, <1>2, <2>2, <2>4, <2>5, <2>6, WriteIs, s \in Sessions
  <2> QED BY <1>1, <2>2, <2>3, <2>7 DEF Begun, Written
<1> QED BY <1>3, <1>4

LEMMA BeginIs ==
    ASSUME ConvInv, NEW s \in Sessions, NEW r \in Runs, NEW n \in ReadLimits,
           NEW turn \in BOOLEAN, BeginRun(s, r, n, turn)
    PROVE  /\ ConvInv' /\ head' = head /\ IndexOf(s)'.runs = IndexOf(s).runs
           /\ \A t \in Sessions : t # s => loop'[t] = loop[t]
<1>1. PICK c : Begun(s, c)
  BY BeginPuts
<1>2a. PICK first : first = IF Len(Known(s)) > n THEN Len(Known(s)) - n + 1 ELSE 1
  OBVIOUS
<1>2b. PICK prior : prior = SubSeq(Known(s), first, Len(Known(s)))
  OBVIOUS
<1>2c. PICK whole \in BOOLEAN : whole = (prior = Known(s))
  OBVIOUS
<1>2d. PICK new : new = [at |-> "running", run |-> r, prior |-> prior, turn |-> turn,
                         whole |-> whole, said |-> {}, anchor |-> NoRun, rest |-> prior]
  OBVIOUS
<1>2e. loop' = [loop EXCEPT ![s] = [at |-> "running", run |-> r, prior |-> prior,
                                    turn |-> turn, whole |-> prior = Known(s), said |-> {},
                                    anchor |-> NoRun, rest |-> prior]]
  BY <1>2a, <1>2b DEF BeginRun, Known
<1>2. loop' = [loop EXCEPT ![s] = new] /\ whole \in BOOLEAN
  BY <1>2c, <1>2d, <1>2e
<1>3. /\ Live(s) /\ At(s, "idle") /\ r \notin minted /\ minted' = minted \cup {r}
      /\ unstored' = unstored /\ head' = head
  BY DEF BeginRun, Leave
<1>4. /\ StoreOK /\ LoopsOK /\ minted \in SUBSET Runs /\ unstored \in SUBSET minted
      /\ RunsOf(s) \in SUBSET minted /\ minted \in SUBSET minted' /\ minted' \in SUBSET Runs
  BY <1>3, StagedUse
<1>5. /\ Puts(s, c) /\ GoodIn(c, minted') /\ Owned(c, s) /\ c.files = staged[s].files
      /\ ReadIndex(c.kv).runs = Known(s)
  BY <1>1, <1>4, GoodAmongMore DEF Begun
<1>6. StoreOK' /\ \A t \in Sessions : Live(t)' = Live(t)
  BY <1>3, <1>4, <1>5, PutOK
<1>7. /\ \A t \in Sessions : t # s => /\ PastHolds(t)' = PastHolds(t)
                                      /\ staged'[t] = staged[t] /\ head'[t] = head[t]
      /\ staged'[s] = c
      /\ PastHolds(s)' \in {PastHolds(s), PastHolds(s) \cup {c}}
  BY <1>3, <1>4, <1>5, <1>6, PutIs
<1>8. RunsIn(c) = RunsOf(s) /\ IndexOf(s)'.runs = IndexOf(s).runs /\ RunsOf(s)' = RunsOf(s)
  BY <1>5, <1>7 DEF RunsIn, RunsOf, IndexOf, Known
<1>9. prior \in Seq(Runs) /\ ToSet(prior) \in SUBSET minted
  <2>1. Known(s) \in Seq(Runs) /\ Len(Known(s)) \in Nat /\ ToSet(Known(s)) = RunsOf(s)
    BY <1>4, KnownIs
  <2>2. Known(s) \in Seq(minted)
    BY <1>4, <2>1, SeqOfSet
  <2>3. n \in Nat \ {0}
    BY LimitAssumption DEF LimitAssumption
  <2>4. first \in Nat \ {0}
    BY <1>2a, <2>1, <2>3
  <2>5. PICK last \in Nat : last = Len(Known(s))
    BY <2>1
  <2>6. prior \in Seq(minted)
    BY <1>2b, <2>2, <2>4, <2>5, SubSeqIs
  <2> QED BY <1>4, <2>6, ToSetIs, SeqMonotonic
<1>10. LoopOK(new, minted') /\ new.at = "running" /\ new.run = r
  <2>1. new \in Loops /\ new.at = "running" /\ new.run = r /\ new.prior = prior
    BY <1>2, <1>2d, <1>9 DEF Loops, Phases
  <2> QED BY <1>3, <1>4, <1>9, <2>1 DEF LoopOK
<1>11. \A t \in Sessions : loop'[t] = IF t = s THEN new ELSE loop[t]
  BY <1>2, <1>4 DEF LoopsOK
<1>12. LoopsOK'
  <2>1. loop' \in [Sessions -> Loops]
    BY <1>2, <1>4, <1>10 DEF LoopsOK, LoopOK
  <2>2. \A t \in Sessions : LoopOK(loop'[t], minted')
    BY <1>4, <1>10, <1>11, LoopsMore DEF LoopsOK
  <2>3. \A t \in Sessions : ~At(t, "idle")' => Live(t)'
    BY <1>3, <1>4, <1>6, <1>11 DEF LoopsOK, At
  <2>4. unstored' \in SUBSET minted'
    BY <1>3, <1>4
  <2> QED BY <1>4, <2>1, <2>2, <2>3, <2>4 DEF LoopsOK
<1>13. ASSUME NEW t \in Sessions
       PROVE  History(t)'
  <2>1. History(t)
    BY DEF ConvInv
  <2>2. CASE t # s
    <3>1. /\ PastHolds(t)' = PastHolds(t) /\ staged'[t] = staged[t] /\ Live(t)' = Live(t)
          /\ loop'[t] = loop[t]
      BY <1>6, <1>7, <1>11, <2>2
    <3>2. /\ PastFiles(t)' = PastFiles(t) /\ RunsOf(t)' = RunsOf(t) /\ InHand(t)' = InHand(t)
          /\ At(t, "idle")' = At(t, "idle")
      BY <3>1 DEF PastFiles, RunsOf, IndexOf, InHand, At
    <3> QED BY <1>3, <2>1, <3>1, <3>2 DEF History
  <2>3. CASE t = s
    <3>1. loop'[s].run = r
      BY <1>10, <1>11
    <3>2. ASSUME NEW d \in PastHolds(s)' \cup {c}
          PROVE  EndsWith(d, r)
      <4>1. d \in PastHolds(s) \/ d = c
        BY <1>7, <3>2
      <4>2. RunsIn(d) \in SUBSET minted
        BY <1>4, <1>8, <4>1, PastUse DEF GoodIn
      <4> QED BY <1>3, <4>2 DEF EndsWith
    <3>3. ASSUME NEW f \in c.files
          PROVE  f \in PastFiles(s)' \cup RunsOf(s) \cup unstored
      <4>1. \A x : x \in PastFiles(s) => x \in PastFiles(s)'
        BY <1>7 DEF PastFiles
      <4>2. f \in PastFiles(s) \cup RunsOf(s) \cup unstored \cup InHand(s)
        BY <1>3, <1>5, <2>1, <2>3 DEF History
      <4>3. InHand(s) = {}
        BY <1>3 DEF InHand, At
      <4> QED BY <4>1, <4>2, <4>3
    <3> QED BY <1>3, <1>7, <1>8, <2>3, <3>1, <3>2, <3>3 DEF History
  <2> QED BY <2>2, <2>3
<1> QED BY <1>3, <1>6, <1>8, <1>11, <1>12, <1>13 DEF ConvInv

-----------------------------------------------------------------------------
(* The host ends *)

LEMMA CrashKeeps ==
    ASSUME ConvInv, Crash
    PROVE  ConvInv' /\ UNCHANGED head
<1>1. /\ staged' = [s \in Sessions |-> IF Live(s) THEN HeadOf(s) ELSE staged[s]]
      /\ loop' = [s \in Sessions |-> Idle]
      /\ unstored' \in SUBSET (unstored \cup minted) /\ unstored \in SUBSET unstored'
      /\ commits' = commits /\ head' = head /\ minted' = minted
  BY DEF Crash
<1>2. StoreOK /\ LoopsOK
  BY DEF ConvInv
<1>3. ASSUME NEW s \in Sessions
      PROVE  /\ staged'[s] = IF Live(s) THEN HeadOf(s) ELSE staged[s]
             /\ GoodIn(staged'[s], minted) /\ staged'[s] \in Contents
             /\ Live(s)' = Live(s) /\ HeadOf(s)' = HeadOf(s)
             /\ Live(s) => Owned(staged'[s], s) /\ Owned(HeadOf(s), s)
             /\ loop'[s] = Idle
  <2>1. staged'[s] = IF Live(s) THEN HeadOf(s) ELSE staged[s]
    BY <1>1
  <2>2. GoodIn(staged'[s], minted)
    BY <1>2, <2>1, StoreUse
  <2> QED BY <1>1, <1>2, <2>1, <2>2, StoreUse DEF Live, HeadOf, GoodIn
<1>4. staged' \in [Sessions -> Contents]
  <2>1. staged' = [s \in Sessions |-> staged'[s]]
    BY <1>1
  <2> QED BY <1>3, <2>1
<1>5. StoreOK'
  BY <1>1, <1>2, <1>3, <1>4 DEF StoreOK
<1>6. LoopsOK'
  <2>1. Idle \in Loops /\ LoopOK(Idle, minted) /\ Idle.at = "idle"
    BY IdleOK DEF LoopOK
  <2>2. loop' \in [Sessions -> Loops]
    BY <1>1, <2>1
  <2> QED BY <1>1, <1>2, <1>3, <2>1, <2>2 DEF LoopsOK, At
<1>7. ASSUME NEW s \in Sessions
      PROVE  History(s)'
  <2>1. Len(commits) <= Len(commits') /\ \A i \in 1 .. Len(commits) : commits'[i] = commits[i]
    BY <1>1, <1>2, StoreUse
  <2>2. PastHolds(s)' = PastHolds(s)
    BY <1>1, <1>2, <1>5, <2>1, PastGrows
  <2>3. At(s, "idle")'
    BY <1>3, IdleOK DEF At
  <2>4. ASSUME Live(s)', NEW f \in staged'[s].files
        PROVE  f \in PastFiles(s)'
    <3>1. staged'[s] \in PastHolds(s)
      BY <1>2, <1>3, <2>4, PastUse
    <3> QED BY <2>2, <2>4, <3>1 DEF PastFiles
  <2> QED BY <2>3, <2>4 DEF History
<1> QED BY <1>1, <1>5, <1>6, <1>7 DEF ConvInv

-----------------------------------------------------------------------------
(* A commit of what is staged, by hand *)

\* Such a commit takes the conversation staged or the one there was, and files
\* of those staged; nothing else changes.
HandStep(s, c) ==
    /\ Live(s) /\ Commit(s, c) /\ GoodIn(c, minted)
    /\ UNCHANGED <<staged, loop, minted, unstored>>
    /\ \E old \in {HeadOf(s), staged[s]} : c.kv = old.kv /\ c.folds = old.folds
    /\ \A f \in c.files : f \in staged[s].files \cup PastFiles(s)

LEMMA HandIs ==
    ASSUME ConvInv, NEW s \in Sessions, ByHand(s)
    PROVE  \E c : HandStep(s, c)
<1>1. StoreOK
  BY DEF ConvInv
<1>2. CASE CommitAll(s)
  <2>1. HandStep(s, staged[s])
    BY <1>1, <1>2, StoreUse DEF CommitAll, HandStep
  <2> QED BY <2>1
<1>3. ASSUME NEW taken, CommitFiles(s, taken)
      PROVE  \E c : HandStep(s, c)
  <2>1. PICK old, c : old = HeadOf(s) /\ c = [old EXCEPT !.files = @ \cup taken]
    OBVIOUS
  <2>2. /\ Live(s) /\ taken \subseteq staged[s].files \ old.files /\ Commit(s, c)
        /\ UNCHANGED <<staged, loop, minted, unstored>>
    BY <1>3, <2>1 DEF CommitFiles
  <2>3. GoodIn(old, minted) /\ GoodIn(staged[s], minted) /\ old \in PastHolds(s)
    BY <1>1, <2>1, <2>2, StoreUse, PastUse
  <2>4. old \in [kv : KvType, folds : Seq(Folds), files : SUBSET Runs] /\ taken \in SUBSET Runs
        /\ taken \in SUBSET minted
    BY <2>2, <2>3 DEF GoodIn, Contents
  <2>5. c.kv = old.kv /\ c.folds = old.folds /\ c.files = old.files \cup taken
    BY <2>1, <2>4
  <2>6. c \in Contents
    BY <2>1, <2>4 DEF Contents
  <2>7. GoodIn(c, minted)
    BY <2>3, <2>4, <2>5, <2>6 DEF GoodIn, RunsIn
  <2>8. \A f \in c.files : f \in staged[s].files \cup PastFiles(s)
    BY <2>2, <2>3, <2>5 DEF PastFiles
  <2> QED BY <2>1, <2>2, <2>5, <2>7, <2>8 DEF HandStep
<1> QED BY <1>2, <1>3 DEF ByHand

\* What it does to the log, as all branches see it.
LEMMA HandPuts ==
    ASSUME StoreOK, NEW s \in Sessions, NEW c, HandStep(s, c)
    PROVE  /\ StoreOK' /\ \A t \in Sessions : Live(t)' = Live(t)
           /\ \A t \in Sessions : t # s => PastHolds(t)' = PastHolds(t) /\ head'[t] = head[t]
           /\ PastHolds(s)' \in {PastHolds(s), PastHolds(s) \cup {c}}
           /\ commits'[head'[s]].holds = c
           /\ \A i \in 1 .. Len(commits') :
                 (i \in 1 .. Len(commits) /\ commits'[i] = commits[i]) \/ commits'[i].holds = c
<1>1. /\ Live(s) /\ Commit(s, c) /\ GoodIn(c, minted) /\ staged' = staged /\ minted' = minted
      /\ Owned(c, s)
  <2>1. Owned(HeadOf(s), s) /\ Owned(staged[s], s)
    BY StoreUse DEF HandStep
  <2> QED BY <2>1 DEF HandStep, Owned
<1>2. PICK base, b : base = Branch(head[s]) /\ b = Extend(base, c)
  OBVIOUS
<1>3. base.log = commits /\ base.head = head[s] /\ BranchOK(base, minted)
  BY <1>1, <1>2, BranchIs, StoreUse
<1>4. BranchOK(b, minted) /\ Extended(b, base, c)
  BY <1>1, <1>2, <1>3, ExtendIs
<1>5. commits' = b.log /\ head' = [head EXCEPT ![s] = b.head]
  BY <1>1, <1>2 DEF Commit
<1>6. /\ LogOK(commits', minted) /\ b.head \in 1 .. Len(commits')
      /\ Len(commits) <= Len(commits') /\ commits'[b.head].holds = c
      /\ \A i \in 1 .. Len(commits) : commits'[i] = commits[i]
      /\ Len(commits) \in Nat /\ Len(commits') \in Nat
      /\ b.head = head[s] \/ commits'[b.head].parent = head[s]
  BY <1>3, <1>4, <1>5, StoreUse DEF BranchOK, Extended, LogOK
<1>7. \A t \in Sessions : /\ head'[t] = IF t = s THEN b.head ELSE head[t]
                          /\ head[t] \in 0 .. Len(commits)
  BY <1>5 DEF StoreOK
<1>8. \A t \in Sessions : Live(t)' = Live(t)
  BY <1>1, <1>6, <1>7 DEF Live
<1>9. ASSUME NEW t \in Sessions, Live(t)'
      PROVE  Owned(HeadOf(t)', t)
  <2>1. CASE t = s
    BY <1>1, <1>6, <1>7, <2>1 DEF HeadOf
  <2>2. CASE t # s
    <3>1. Live(t) /\ head[t] \in 1 .. Len(commits)
      BY <1>8, <1>9, StoreUse
    <3>2. HeadOf(t)' = HeadOf(t)
      BY <1>6, <1>7, <2>2, <3>1 DEF HeadOf
    <3> QED BY <3>1, <3>2, StoreUse
  <2> QED BY <2>1, <2>2
<1>10. StoreOK'
  <2>1. \A t \in Sessions : head'[t] \in 0 .. Len(commits')
    BY <1>6, <1>7
  <2>2. head' \in [Sessions -> 0 .. Len(commits')]
    BY <1>5, <2>1 DEF StoreOK
  <2> QED BY <1>1, <1>6, <1>8, <1>9, <2>2 DEF StoreOK
<1>11. \A t \in Sessions : t # s => PastHolds(t)' = PastHolds(t)
  BY <1>6, <1>7, <1>10, PastGrows
<1>12. PastHolds(s)' \in {PastHolds(s), PastHolds(s) \cup {c}}
  <2>1. head'[s] # 0 /\ commits'[head'[s]].holds = c
        /\ (head'[s] = head[s] \/ commits'[head'[s]].parent = head[s])
    BY <1>6, <1>7
  <2> QED BY <1>6, <1>10, <2>1, PastGrows
<1>13. \A i \in 1 .. Len(commits') :
          (i \in 1 .. Len(commits) /\ commits'[i] = commits[i]) \/ commits'[i].holds = c
  BY <1>3, <1>4, <1>5, <1>6 DEF Extended
<1> QED BY <1>6, <1>7, <1>8, <1>10, <1>11, <1>12, <1>13

LEMMA HandStepKeeps ==
    ASSUME ConvInv, NEW s \in Sessions, NEW c, HandStep(s, c)
    PROVE  ConvInv'
<1>1. /\ StoreOK /\ LoopsOK /\ Live(s)
      /\ staged' = staged /\ loop' = loop /\ minted' = minted /\ unstored' = unstored
  BY DEF ConvInv, HandStep
<1>2. /\ StoreOK' /\ \A t \in Sessions : Live(t)' = Live(t)
      /\ \A t \in Sessions : t # s => PastHolds(t)' = PastHolds(t)
      /\ PastHolds(s)' \in {PastHolds(s), PastHolds(s) \cup {c}}
  BY <1>1, HandPuts
<1>3. LoopsOK'
  BY <1>1, <1>2 DEF LoopsOK, At
<1>4. ASSUME NEW t \in Sessions
      PROVE  History(t)'
  <2>1. /\ History(t) /\ InHand(t)' = InHand(t) /\ At(t, "idle")' = At(t, "idle")
        /\ RunsOf(t)' = RunsOf(t)
    BY <1>1 DEF ConvInv, InHand, At, RunsOf, IndexOf
  <2>2. \A x : x \in PastFiles(t) => x \in PastFiles(t)'
    <3>1. \A d \in PastHolds(t) : d \in PastHolds(t)'
      BY <1>2
    <3> QED BY <3>1 DEF PastFiles
  <2>3. ASSUME ~At(t, "idle"), NEW d \in PastHolds(t)'
        PROVE  EndsWith(d, loop[t].run)
    <3>1. \A e \in PastHolds(t) \cup {staged[t]} : EndsWith(e, loop[t].run)
      BY <2>1, <2>3 DEF History
    <3>2. CASE d \in PastHolds(t)
      BY <3>1, <3>2
    <3>3. CASE d \notin PastHolds(t)
      <4>1. t = s /\ d = c
        BY <1>2, <2>3, <3>3
      <4>2. PICK old \in {HeadOf(s), staged[s]} : c.kv = old.kv
        BY DEF HandStep
      <4>3. EndsWith(old, loop[t].run)
        BY <1>1, <3>1, <4>1, <4>2, PastUse
      <4> QED BY <4>1, <4>2, <4>3 DEF EndsWith, RunsIn
    <3> QED BY <3>2, <3>3
  <2>4. ~At(t, "idle") => EndsWith(staged[t], loop[t].run)
    BY <2>1 DEF History
  <2>5. Live(t) => \A f \in staged[t].files :
            f \in PastFiles(t)' \cup RunsOf(t) \cup unstored \cup InHand(t)
    BY <2>1, <2>2 DEF History
  <2> QED BY <1>1, <1>2, <2>1, <2>3, <2>4, <2>5 DEF History
<1> QED BY <1>2, <1>3, <1>4 DEF ConvInv

-----------------------------------------------------------------------------
(* A fork *)

Grows(old, new) == Len(old) <= Len(new) /\ \A i \in 1 .. Len(old) : new[i] = old[i]

\* What a fork begins with is its own session's.
LEMMA SeededIs ==
    ASSUME NEW m, NEW base, BranchOK(base, m), NEW k \in Sessions,
           NEW inherit \in Inheritances, NEW b, b = Seeded(base, k, inherit)
    PROVE  BranchOK(b, m) /\ Owned(b.log[b.head].holds, k) /\ Grows(base.log, b.log)
<1>1. PICK c : c = base.log[base.head].holds
  OBVIOUS
<1>2. GoodIn(c, m)
  BY <1>1 DEF BranchOK, LogOK
<1>3. PICK rebound : rebound = Rebound(c, k)
  OBVIOUS
<1>4. GoodIn(rebound, m) /\ Owned(rebound, k)
  BY <1>2, <1>3, ReboundIs
<1>5. CASE inherit = "full"
  <2>1. b = Extend(base, rebound)
    BY <1>1, <1>3, <1>5 DEF Seeded
  <2> QED BY <1>4, <2>1, ExtendIs DEF Extended, Grows
<1>6. CASE inherit = "fresh"
  <2>1. b = Extend(base, Wiped(c))
    BY <1>1, <1>6 DEF Seeded
  <2>2. PICK wiped : wiped = Wiped(c)
    OBVIOUS
  <2>3. GoodIn(wiped, m) /\ Owned(wiped, k)
    BY <1>2, <2>2, WipedIs
  <2> QED BY <2>1, <2>2, <2>3, ExtendIs DEF Extended, Grows
<1>7. CASE inherit = "fresh-session"
  <2>1. PICK mid, emptied : mid = Extend(base, rebound) /\ emptied = Emptied(rebound)
    OBVIOUS
  <2>2. b = Extend(mid, emptied)
    BY <1>1, <1>3, <1>7, <2>1 DEF Seeded
  <2>3. GoodIn(emptied, m) /\ Owned(emptied, k)
    BY <1>4, <2>1, EmptiedIs
  <2>4. BranchOK(mid, m) /\ Extended(mid, base, rebound)
    BY <1>4, <2>1, ExtendIs
  <2>5. BranchOK(b, m) /\ Extended(b, mid, emptied)
    BY <2>2, <2>3, <2>4, ExtendIs
  <2>6. Len(base.log) \in Nat /\ Len(mid.log) \in Nat /\ Len(b.log) \in Nat
    BY <2>4, <2>5 DEF BranchOK, LogOK
  <2>7. Grows(base.log, b.log)
    <3>1. Len(base.log) <= Len(mid.log) /\ Len(mid.log) <= Len(b.log)
      BY <2>4, <2>5 DEF Extended
    <3>2. ASSUME NEW i \in 1 .. Len(base.log)
          PROVE  b.log[i] = base.log[i]
      <4>1. i \in 1 .. Len(mid.log)
        BY <2>6, <3>1
      <4> QED BY <2>4, <2>5, <4>1 DEF Extended
    <3>3. Len(base.log) <= Len(b.log)
      BY <2>6, <3>1
    <3> QED BY <3>2, <3>3 DEF Grows
  <2> QED BY <2>3, <2>5, <2>7 DEF Extended
<1> QED BY <1>5, <1>6, <1>7 DEF Inheritances

LEMMA GrowsOn ==
    ASSUME NEW X, NEW a \in Seq(X), NEW b \in Seq(X), NEW c \in Seq(X), Grows(a, b), Grows(b, c)
    PROVE  Grows(a, c)
<1>1. Len(a) \in Nat /\ Len(b) \in Nat /\ Len(c) \in Nat
  OBVIOUS
<1>2. Len(a) <= Len(b) /\ Len(b) <= Len(c)
  BY DEF Grows
<1>3. ASSUME NEW i \in 1 .. Len(a)
      PROVE  c[i] = a[i]
  <2>1. i \in 1 .. Len(b)
    BY <1>1, <1>2
  <2> QED BY <2>1 DEF Grows
<1> QED BY <1>1, <1>2, <1>3 DEF Grows

HeadsThere == \A s \in Sessions : Live(s) => HeadOf(s) \in PastHolds(s)

LEMMA HeadNext == StoreOK' => HeadsThere'
<1>1. StoreOK => HeadsThere
  BY PastUse DEF HeadsThere
<1> QED BY <1>1, PTL

\* What the fork's two branches are, when it was made.
Forked(p, k) ==
    /\ loop' = loop /\ minted' = minted /\ unstored' = unstored
    /\ Live(p) /\ ~Live(k) /\ head'[k] \in 1 .. Len(commits')
    /\ LogOK(commits', minted) /\ Grows(commits, commits')
    /\ \A t \in Sessions : t \notin {p, k} => head'[t] = head[t]
    /\ head' \in [Sessions -> 0 .. Len(commits')]
    /\ staged' = [staged EXCEPT ![k] = commits'[head'[k]].holds]
    /\ Owned(commits'[head'[k]].holds, k)
    /\ \/ head'[p] = head[p]
       \/ /\ head'[p] \in 1 .. Len(commits') /\ commits'[head'[p]].holds = staged[p]
          /\ commits'[head'[p]].parent = head[p]

LEMMA ForkIs ==
    ASSUME ConvInv, NEW p \in Sessions, NEW k \in Sessions, NEW at \in 0 .. Len(commits),
           NEW inherit \in Inheritances, Fork(p, k, at, inherit)
    PROVE  Forked(p, k)
<1>1. PICK own, base, child :
         /\ own = Extend(Branch(head[p]), staged[p])
         /\ base = IF at = 0 THEN own ELSE Branch(at)
         /\ child = Seeded(base, k, inherit)
  OBVIOUS
<1>2. /\ Live(p) /\ ~Live(k) /\ at \in {0} \cup Past[head[p]]
      /\ loop' = loop /\ minted' = minted /\ unstored' = unstored
      /\ commits' = child.log
      /\ head' = [head EXCEPT ![k] = child.head, ![p] = IF at = 0 THEN own.head ELSE @]
      /\ staged' = [staged EXCEPT ![k] = child.log[child.head].holds]
  BY <1>1 DEF Fork
<1>3. StoreOK /\ p # k
  BY <1>2 DEF ConvInv
<1>4. /\ BranchOK(Branch(head[p]), minted) /\ GoodIn(staged[p], minted)
      /\ LogOK(commits, minted) /\ Past[head[p]] \in SUBSET (1 .. Len(commits))
      /\ head \in [Sessions -> 0 .. Len(commits)] /\ Len(commits) \in Nat
      /\ staged \in [Sessions -> Contents]
  BY <1>2, <1>3, StoreUse, PastUse DEF StoreOK
<1>5. BranchOK(own, minted) /\ Extended(own, Branch(head[p]), staged[p])
  BY <1>1, <1>4, ExtendIs
<1>6. /\ Grows(commits, own.log)
      /\ \/ own.head = head[p] /\ own.log = commits
         \/ own.head \in 1 .. Len(own.log) /\ own.log[own.head].parent = head[p]
      /\ own.log[own.head].holds = staged[p]
  BY <1>5, BranchIs DEF Extended, BranchOK, Grows
<1>7. BranchOK(base, minted) /\ Grows(commits, base.log)
  <2>1. CASE at = 0
    BY <1>1, <1>5, <1>6, <2>1
  <2>2. CASE at # 0
    <3>1. base.log = commits /\ base.head = at
      BY <1>1, <2>2, BranchIs
    <3> QED BY <1>4, <2>2, <3>1 DEF BranchOK, Grows
  <2> QED BY <2>1, <2>2
<1>8. BranchOK(child, minted) /\ Owned(child.log[child.head].holds, k) /\ Grows(base.log, child.log)
  BY <1>1, <1>7, SeededIs
<1>9. commits \in Seq(Commits) /\ base.log \in Seq(Commits) /\ child.log \in Seq(Commits)
  BY <1>4, <1>7, <1>8 DEF BranchOK, LogOK
<1>10. Grows(commits, commits')
  BY <1>2, <1>7, <1>8, <1>9, GrowsOn
<1>11. PICK last \in 0 .. Len(commits') : last = IF at = 0 THEN own.head ELSE head[p]
  <2>1. CASE at = 0
    <3>1. own.head \in 1 .. Len(base.log) /\ Len(base.log) <= Len(child.log)
      BY <1>1, <1>7, <1>8, <2>1 DEF BranchOK, Grows
    <3> QED BY <1>2, <1>9, <2>1, <3>1
  <2>2. CASE at # 0
    BY <1>2, <1>4, <1>9, <1>10, <2>2 DEF Grows
  <2> QED BY <2>1, <2>2
<1>12. /\ head' = [head EXCEPT ![k] = child.head, ![p] = last]
       /\ child.head \in 1 .. Len(commits')
  BY <1>2, <1>8, <1>11 DEF BranchOK
<1>13. /\ head' \in [Sessions -> 0 .. Len(commits')] /\ head'[k] = child.head /\ head'[p] = last
       /\ \A t \in Sessions : t \notin {p, k} => head'[t] = head[t]
  <2>1. \A t \in Sessions : head[t] \in 0 .. Len(commits')
    BY <1>4, <1>10, <1>2, <1>9 DEF Grows
  <2> QED BY <1>3, <1>4, <1>11, <1>12, <2>1
<1>14. \/ head'[p] = head[p]
       \/ /\ head'[p] \in 1 .. Len(commits') /\ commits'[head'[p]].holds = staged[p]
          /\ commits'[head'[p]].parent = head[p]
  <2>1. CASE at # 0
    BY <1>11, <1>13, <2>1
  <2>2. CASE own.head = head[p]
    BY <1>11, <1>13, <2>2
  <2>3. CASE at = 0 /\ own.head # head[p]
    <3>1. base = own /\ own.head \in 1 .. Len(own.log) /\ own.log[own.head].parent = head[p]
      BY <1>1, <1>6, <2>3
    <3>2. child.log[own.head] = own.log[own.head] /\ Len(own.log) <= Len(child.log)
      BY <1>8, <3>1 DEF Grows
    <3>3. own.head \in 1 .. Len(child.log)
      BY <1>9, <3>1, <3>2
    <3> QED BY <1>2, <1>6, <1>11, <1>13, <2>3, <3>1, <3>2, <3>3
  <2> QED BY <2>1, <2>2, <2>3
<1> QED BY <1>2, <1>4, <1>8, <1>10, <1>12, <1>13, <1>14 DEF Forked, BranchOK

LEMMA ForkKeeps ==
    ASSUME ConvInv, NEW p \in Sessions, NEW k \in Sessions, NEW at \in 0 .. Len(commits),
           NEW inherit \in Inheritances, Fork(p, k, at, inherit)
    PROVE  ConvInv' /\ Forked(p, k)
<1>1. Forked(p, k)
  BY ForkIs
<1>2. /\ loop' = loop /\ minted' = minted /\ unstored' = unstored
      /\ Live(p) /\ ~Live(k) /\ head'[k] \in 1 .. Len(commits')
      /\ LogOK(commits', minted) /\ Len(commits) <= Len(commits')
      /\ \A i \in 1 .. Len(commits) : commits'[i] = commits[i]
      /\ \A t \in Sessions : t \notin {p, k} => head'[t] = head[t]
      /\ head' \in [Sessions -> 0 .. Len(commits')]
      /\ Owned(commits'[head'[k]].holds, k)
  BY <1>1 DEF Forked, Grows
<1>3. PICK c : c = commits'[head'[k]].holds
  OBVIOUS
<1>4. staged' = [staged EXCEPT ![k] = c] /\ Owned(c, k)
  BY <1>1, <1>3 DEF Forked
<1>5. /\ StoreOK /\ LoopsOK /\ p # k /\ GoodIn(c, minted) /\ c \in Contents
      /\ Len(commits) \in Nat /\ Len(commits') \in Nat
  BY <1>2, <1>3 DEF ConvInv, LogOK, GoodIn, StoreOK
<1>6. \A t \in Sessions : staged'[t] = IF t = k THEN c ELSE staged[t]
  BY <1>4, <1>5 DEF StoreOK
<1>7. ASSUME NEW t \in Sessions
      PROVE  /\ Live(t)' <=> Live(t) \/ t = k
             /\ GoodIn(staged'[t], minted)
             /\ Live(t)' => Owned(staged'[t], t) /\ Owned(HeadOf(t)', t)
  <2>1. GoodIn(staged'[t], minted)
    BY <1>5, <1>6, StoreUse
  <2>2. CASE t = k
    <3>1. head'[k] # 0
      BY <1>2, <1>5
    <3> QED BY <1>2, <1>3, <1>4, <1>6, <2>1, <2>2, <3>1 DEF Live, HeadOf
  <2>3. CASE t # k /\ head'[t] = head[t]
    <3>1. Live(t)' = Live(t)
      BY <2>3 DEF Live
    <3>2. Live(t) => HeadOf(t)' = HeadOf(t)
      BY <1>2, <1>5, <2>3, StoreUse DEF HeadOf
    <3> QED BY <1>5, <1>6, <2>1, <2>3, <3>1, <3>2, StoreUse
  <2>4. CASE t # k /\ head'[t] # head[t]
    <3>1. t = p
      BY <1>2, <2>4
    <3>2. /\ head'[p] \in 1 .. Len(commits') /\ commits'[head'[p]].holds = staged[p]
      BY <1>1, <2>4, <3>1 DEF Forked
    <3>3. Live(p)' /\ HeadOf(p)' = staged[p]
      BY <1>5, <3>2 DEF Live, HeadOf
    <3> QED BY <1>2, <1>5, <1>6, <2>1, <2>4, <3>1, <3>3, StoreUse
  <2> QED BY <2>2, <2>3, <2>4
<1>8. StoreOK'
  <2>1. staged' \in [Sessions -> Contents]
    BY <1>4, <1>5 DEF StoreOK
  <2> QED BY <1>2, <1>7, <2>1 DEF StoreOK
<1>9. LoopsOK'
  BY <1>2, <1>5, <1>7 DEF LoopsOK, At
<1>10. ASSUME NEW t \in Sessions
       PROVE  History(t)'
  <2>1. At(t, "idle")' = At(t, "idle") /\ loop'[t] = loop[t]
    BY <1>2 DEF At
  <2>2. CASE t = k
    <3>1. At(k, "idle")
      BY <1>2, <1>5 DEF LoopsOK
    <3>2. staged'[k] \in PastHolds(k)'
      <4>1. HeadOf(k)' \in PastHolds(k)'
        BY <1>7, <1>8, HeadNext DEF HeadsThere
      <4> QED BY <1>3, <1>6, <4>1 DEF HeadOf
    <3>3. \A f \in staged'[k].files : f \in PastFiles(k)'
      BY <3>2 DEF PastFiles
    <3> QED BY <2>1, <2>2, <3>1, <3>3 DEF History
  <2>3. CASE t # k
    <3>1. PastHolds(t)' \in {PastHolds(t), PastHolds(t) \cup {staged[t]}}
      <4>1. CASE head'[t] = head[t]
        BY <1>2, <1>5, <1>8, <4>1, PastGrows
      <4>2. CASE head'[t] # head[t]
        <5>1. t = p
          BY <1>2, <2>3, <4>2
        <5>2. /\ head'[p] \in 1 .. Len(commits') /\ commits'[head'[p]].holds = staged[p]
              /\ commits'[head'[p]].parent = head[p]
          BY <1>1, <4>2, <5>1 DEF Forked
        <5>3. head'[p] # 0
          BY <1>5, <5>2
        <5> QED BY <1>2, <1>5, <1>8, <5>1, <5>2, <5>3, PastGrows
      <4> QED BY <4>1, <4>2
    <3>2. staged'[t] = staged[t] /\ (Live(t)' <=> Live(t))
      BY <1>6, <1>7, <2>3
    <3>3. RunsOf(t)' = RunsOf(t) /\ InHand(t)' = InHand(t) /\ unstored' = unstored
      BY <1>2, <3>2 DEF RunsOf, IndexOf, InHand, At
    <3>4. \A x : x \in PastFiles(t) => x \in PastFiles(t)'
      BY <3>1 DEF PastFiles
    <3>5. History(t)
      BY DEF ConvInv
    <3>6. ~At(t, "idle") => \A d \in PastHolds(t)' \cup {staged'[t]} : EndsWith(d, loop[t].run)
      BY <3>1, <3>2, <3>5 DEF History
    <3>7. Live(t) => \A f \in staged'[t].files :
             f \in PastFiles(t)' \cup RunsOf(t)' \cup unstored' \cup InHand(t)'
      BY <3>2, <3>3, <3>4, <3>5 DEF History
    <3> QED BY <2>1, <3>2, <3>6, <3>7 DEF History
  <2> QED BY <2>2, <2>3
<1> QED BY <1>1, <1>8, <1>9, <1>10 DEF ConvInv

-----------------------------------------------------------------------------
(* The session there is at first *)

\* The runs there were, in either plane.
LEMMA FirstKv ==
    ASSUME NEW legacy \in BOOLEAN, NEW index, index = [owner |-> First, runs |-> Earlier],
           NEW kv, kv = [k \in Keys |->
               IF k = (IF legacy THEN LegacyIndex ELSE Index) THEN index
               ELSE IF k \in {IF legacy THEN LegacyBody(r) ELSE Body(r) : r \in ToSet(Earlier)}
                    THEN "completed" ELSE Absent]
    PROVE  KvGood(kv) /\ ReadIndex(kv) = index
<1>1. /\ index \in IndexType /\ index # Absent /\ index.runs = Earlier
      /\ ToSet(Earlier) \in SUBSET Runs /\ IsInjective(Earlier)
      /\ "completed" \in Statuses /\ "completed" # Absent
  BY FirstAssumption, EarlierAssumption, AbsentAssumption, IndexFields, ToSetIs
     DEF FirstAssumption, EarlierAssumption, AbsentAssumption, IndexType, Statuses
<1>2. kv \in KvType
  BY <1>1 DEF KvType, Values
<1>3. CASE legacy
  <2>1. kv = [k \in Keys |-> IF k = LegacyIndex THEN index
                             ELSE IF k \in {LegacyBody(r) : r \in ToSet(Earlier)}
                                  THEN "completed" ELSE Absent]
    BY <1>3
  <2>2. kv[Index] = Absent /\ kv[LegacyIndex] = index
    BY <1>1, <2>1, KeyFacts
  <2>3. ASSUME NEW r \in Runs
        PROVE  /\ kv[Body(r)] = Absent
               /\ kv[LegacyBody(r)] = IF r \in ToSet(Earlier) THEN "completed" ELSE Absent
    BY <1>1, <2>1, KeyFacts
  <2> QED BY <1>1, <1>2, <2>2, <2>3 DEF KvGood, ReadIndex
<1>4. CASE ~legacy
  <2>1. kv = [k \in Keys |-> IF k = Index THEN index
                             ELSE IF k \in {Body(r) : r \in ToSet(Earlier)}
                                  THEN "completed" ELSE Absent]
    BY <1>4
  <2>2. kv[Index] = index /\ kv[LegacyIndex] = Absent
    BY <1>1, <2>1, KeyFacts
  <2>3. ASSUME NEW r \in Runs
        PROVE  /\ kv[LegacyBody(r)] = Absent
               /\ kv[Body(r)] = IF r \in ToSet(Earlier) THEN "completed" ELSE Absent
    BY <1>1, <2>1, KeyFacts
  <2> QED BY <1>1, <1>2, <2>2, <2>3 DEF KvGood, ReadIndex
<1> QED BY <1>3, <1>4

\* What its branch holds: those runs, and the last fold of them.
FirstHolds(c) ==
    /\ GoodIn(c, ToSet(Earlier)) /\ Owned(c, First)
    /\ commits = <<[holds |-> c, parent |-> 0]>>
    /\ staged = [s \in Sessions |-> IF s = First THEN c ELSE Empty]
    /\ minted = ToSet(Earlier) /\ ReadIndex(c.kv).runs = Earlier
    /\ c.folds = IF Folded = 0 THEN <<>> ELSE
           <<[through |-> Earlier[Folded], covers |-> ToSet(SubSeq(Earlier, 1, Folded))]>>

LEMMA FirstIs ==
    ASSUME Init
    PROVE  \E c : FirstHolds(c)
<1>1. PICK legacy \in BOOLEAN :
        LET index == [owner |-> First, runs |-> Earlier]
            named(k) == k = IF legacy THEN LegacyIndex ELSE Index
            stored(k) == k \in {IF legacy THEN LegacyBody(r) ELSE Body(r) : r \in ToSet(Earlier)}
            kv == [k \in Keys |-> IF named(k) THEN index
                                  ELSE IF stored(k) THEN "completed" ELSE Absent]
            fold == [through |-> Earlier[Folded], covers |-> ToSet(SubSeq(Earlier, 1, Folded))]
            c == [kv |-> kv, folds |-> IF Folded = 0 THEN <<>> ELSE <<fold>>,
                  files |-> ToSet(Earlier)]
        IN  /\ commits = <<[holds |-> c, parent |-> 0]>>
            /\ staged = [s \in Sessions |-> IF s = First THEN c ELSE Empty]
            /\ minted = ToSet(Earlier)
  BY DEF Init
<1>2. PICK index : index = [owner |-> First, runs |-> Earlier]
  OBVIOUS
<1>3. PICK kv : kv = [k \in Keys |->
               IF k = (IF legacy THEN LegacyIndex ELSE Index) THEN index
               ELSE IF k \in {IF legacy THEN LegacyBody(r) ELSE Body(r) : r \in ToSet(Earlier)}
                    THEN "completed" ELSE Absent]
  OBVIOUS
<1>4. PICK folds : folds = IF Folded = 0 THEN <<>>
           ELSE <<[through |-> Earlier[Folded], covers |-> ToSet(SubSeq(Earlier, 1, Folded))]>>
  OBVIOUS
<1>5. PICK c : c = [kv |-> kv, folds |-> folds, files |-> ToSet(Earlier)]
  OBVIOUS
<1>6. /\ commits = <<[holds |-> c, parent |-> 0]>>
      /\ staged = [s \in Sessions |-> IF s = First THEN c ELSE Empty]
      /\ minted = ToSet(Earlier)
  BY ONLY <1>1, <1>2, <1>3, <1>4, <1>5
<1>7. KvGood(kv) /\ ReadIndex(kv) = index
  BY <1>2, <1>3, FirstKv
<1>8. Earlier \in Seq(Runs) /\ Folded \in 0 .. Len(Earlier) /\ ToSet(Earlier) \in SUBSET Runs
  BY EarlierAssumption, ToSetIs DEF EarlierAssumption
<1>9. folds \in Seq(Folds)
  <2>1. CASE Folded = 0
    BY <1>4, <2>1
  <2>2. CASE Folded # 0
    <3>1. Earlier[Folded] \in Runs
      BY <1>8, <2>2
    <3>2. PICK covered : covered = SubSeq(Earlier, 1, Folded)
      OBVIOUS
    <3>3. Folded \in Nat /\ Folded <= Len(Earlier)
      BY <1>8
    <3>4. covered \in Seq(Runs)
      BY <1>8, <3>2, <3>3, SubSeqIs
    <3>5. ToSet(covered) \in SUBSET Runs
      BY <3>4, ToSetIs
    <3>6. [through |-> Earlier[Folded], covers |-> ToSet(covered)] \in Folds
      BY <3>1, <3>5 DEF Folds
    <3> QED BY <1>4, <2>2, <3>2, <3>6
  <2> QED BY <2>1, <2>2
<1>10. c \in Contents /\ c.kv = kv /\ c.files = ToSet(Earlier)
  BY <1>5, <1>7, <1>8, <1>9 DEF Contents, KvGood
<1>11. GoodIn(c, ToSet(Earlier)) /\ Owned(c, First)
  BY <1>2, <1>7, <1>10 DEF GoodIn, Owned, RunsIn
<1>12. ReadIndex(c.kv).runs = Earlier /\ c.folds = folds
  BY <1>2, <1>5, <1>7, <1>10
<1> QED BY <1>4, <1>6, <1>11, <1>12 DEF FirstHolds

LEMMA InitOK == Init => ConvInv
<1> SUFFICES ASSUME Init
             PROVE  ConvInv
  OBVIOUS
<1>1. PICK c : FirstHolds(c)
  BY FirstIs
<1>2. /\ GoodIn(c, minted) /\ Owned(c, First) /\ minted \in SUBSET Runs
      /\ commits = <<[holds |-> c, parent |-> 0]>>
      /\ staged = [s \in Sessions |-> IF s = First THEN c ELSE Empty]
      /\ head = [s \in Sessions |-> IF s = First THEN 1 ELSE 0]
      /\ loop = [s \in Sessions |-> Idle] /\ unstored = {}
  BY <1>1, EarlierAssumption, ToSetIs DEF FirstHolds, Init, EarlierAssumption
<1>3. /\ commits \in Seq(Commits) /\ Len(commits) = 1
      /\ commits[1].holds = c /\ commits[1].parent = 0
  BY <1>2 DEF Commits, GoodIn
<1>4. LogOK(commits, minted)
  BY <1>2, <1>3 DEF LogOK
<1>5. GoodIn(Empty, minted) /\ Empty \in Contents
  <2>1. Empty.kv \in KvType /\ KvGood(Empty.kv) /\ ReadIndex(Empty.kv).runs = <<>>
    BY EmptyKv DEF KvGood
  <2>2. PICK kv : kv = Empty.kv
    OBVIOUS
  <2>3. Empty = [kv |-> kv, folds |-> <<>>, files |-> {}]
    BY <2>2 DEF Empty
  <2>4. Empty \in Contents /\ Empty.files = {}
    BY <2>1, <2>2, <2>3 DEF Contents
  <2> QED BY <2>1, <2>4, NoneIn DEF GoodIn, RunsIn
<1>6. ASSUME NEW s \in Sessions
      PROVE  /\ staged[s] = (IF s = First THEN c ELSE Empty) /\ (Live(s) <=> s = First)
             /\ GoodIn(staged[s], minted) /\ staged[s] \in Contents
             /\ Live(s) => HeadOf(s) = c /\ staged[s] = c
  BY <1>2, <1>3, <1>5 DEF Live, HeadOf, GoodIn
<1>7. StoreOK
  <2>1. staged \in [Sessions -> Contents]
    BY <1>2, <1>5 DEF GoodIn
  <2>2. head \in [Sessions -> 0 .. Len(commits)]
    BY <1>2, <1>3
  <2> QED BY <1>2, <1>4, <1>6, <2>1, <2>2 DEF StoreOK
<1>8. LoopsOK
  <2>1. Idle \in Loops /\ LoopOK(Idle, minted) /\ Idle.at = "idle"
    BY IdleOK DEF LoopOK
  <2> QED BY <1>2, <2>1 DEF LoopsOK, At
<1>9. ASSUME NEW s \in Sessions
      PROVE  History(s)
  <2>1. At(s, "idle")
    BY <1>2, IdleOK DEF At
  <2>2. Live(s) => staged[s] \in PastHolds(s)
    BY <1>6, <1>7, PastUse
  <2> QED BY <2>1, <2>2 DEF History, PastFiles
<1> QED BY <1>7, <1>8, <1>9 DEF ConvInv

-----------------------------------------------------------------------------
(* Every step keeps the invariant *)

\* The kinds of steps there are.
Steps ==
    \/ \E s \in Sessions : ~At(s, "idle") /\ \E c : LoopStep(s, c)
    \/ \E s \in Sessions : \E c : OtherStep(s, c)
    \/ \E s \in Sessions : ByHand(s) /\ \E c : HandStep(s, c)
    \/ \E s \in Sessions, r \in Runs, n \in ReadLimits, turn \in BOOLEAN : BeginRun(s, r, n, turn)
    \/ \E p, k \in Sessions : \E at \in 0 .. Len(commits), i \in Inheritances : Fork(p, k, at, i)
    \/ Crash

LEMMA NextSteps ==
    ASSUME ConvInv, Next
    PROVE  Steps
<1>1. CASE Crash
  BY <1>1 DEF Steps
<1>2. ASSUME NEW s \in Sessions, NEW r \in Runs, NEW n \in ReadLimits, NEW turn \in BOOLEAN,
             BeginRun(s, r, n, turn)
      PROVE  Steps
  BY <1>2 DEF Steps
<1>3. ASSUME NEW s \in Sessions,
             ToolCall(s) \/ Ask(s, TRUE) \/ Ask(s, FALSE) \/ Checkpoint(s)
             \/ Finish(s, "completed") \/ Finish(s, "cancelled") \/ Abandon(s)
             \/ UpsertRun(s, TRUE) \/ UpsertRun(s, FALSE)
             \/ KeepRead(s) \/ KeepWrite(s) \/ EndTurn(s) \/ EndWithBody(s)
      PROVE  Steps
  <2>1. ~At(s, "idle") /\ \E c : LoopStep(s, c)
    BY <1>3, ToolCallStep, AskStep, CheckpointStep, FinishStep, AbandonStep, UpsertRunStep,
       KeepReadStep, KeepWriteStep, EndTurnStep, EndWithBodyStep
  <2> QED BY <2>1 DEF Steps
<1>4. ASSUME NEW s \in Sessions,
             \/ \E r \in Runs : DeleteRun(s, r) \/ Seed(s, r)
             \/ DeleteSession(s) \/ Discard(s)
             \/ \E c \in 1 .. Len(commits) : Checkout(s, c)
      PROVE  Steps
  <2>1. \E c : OtherStep(s, c)
    BY <1>4, DeleteRunStep, SeedStep, DeleteSessionStep, DiscardStep, CheckoutStep
  <2> QED BY <2>1 DEF Steps
<1>5. ASSUME NEW s \in Sessions, NEW k \in Sessions, NEW at \in 0 .. Len(commits),
             NEW i \in Inheritances, Fork(s, k, at, i)
      PROVE  Steps
  BY <1>5 DEF Steps
<1>6. ASSUME NEW s \in Sessions, ByHand(s)
      PROVE  Steps
  BY <1>6, HandIs DEF Steps
<1> QED BY <1>1, <1>2, <1>3, <1>4, <1>5, <1>6 DEF Next, ByItsLoop, FromOutside, Starts

LEMMA Unchanged == vars' = vars => (ConvInv => ConvInv')
<1> SUFFICES ASSUME vars' = vars, ConvInv
             PROVE  ConvInv'
  OBVIOUS
<1>1. /\ commits' = commits /\ head' = head /\ staged' = staged /\ loop' = loop
      /\ minted' = minted /\ unstored' = unstored
  BY DEF vars
<1>2. StoreOK /\ LoopsOK
  BY DEF ConvInv
<1>3. \A s \in Sessions : /\ (Live(s)' <=> Live(s)) /\ HeadOf(s)' = HeadOf(s)
                          /\ \A phase : At(s, phase)' <=> At(s, phase)
  BY <1>1 DEF Live, HeadOf, At
<1>4. StoreOK'
  BY <1>1, <1>2, <1>3 DEF StoreOK
<1>5. LoopsOK'
  BY <1>1, <1>2, <1>3 DEF LoopsOK
<1>6. ASSUME NEW s \in Sessions
      PROVE  History(s)'
  <2>1. PastHolds(s)' = PastHolds(s)
    BY <1>1, <1>2, <1>4, PastGrows, StoreUse
  <2>2. PastFiles(s)' = PastFiles(s) /\ RunsOf(s)' = RunsOf(s) /\ InHand(s)' = InHand(s)
    BY <1>1, <1>3, <2>1 DEF PastFiles, RunsOf, IndexOf, InHand
  <2>3. History(s)
    BY DEF ConvInv
  <2> QED BY <1>1, <1>3, <2>1, <2>2, <2>3 DEF History
<1> QED BY <1>4, <1>5, <1>6 DEF ConvInv

LEMMA StepKeeps ==
    ASSUME ConvInv, [Next]_vars
    PROVE  ConvInv'
<1>1. CASE Next
  <2>1. Steps
    BY <1>1, NextSteps
  <2> QED BY <2>1, LoopStepKeeps, OtherStepKeeps, HandStepKeeps, BeginIs, ForkKeeps, CrashKeeps DEF Steps
<1>2. CASE vars' = vars
  BY <1>2, Unchanged
<1> QED BY <1>1, <1>2

\* The invariant holds of every step of every conversation: what each branch
\* holds and is about to land is well formed and its session's own, and the
\* files staged are accounted for.
THEOREM ConvInvHolds == Spec => []ConvInv
<1>1. ConvInv /\ [Next]_vars => ConvInv'
  BY StepKeeps
<1> QED BY InitOK, <1>1, PTL DEF Spec

-----------------------------------------------------------------------------
(* What follows of the states *)

\* A branch's index, committed or staged, is its own session's: through forks
\* at any commit, checkouts of commits from before a fork, and writes that
\* move a legacy plane (Rebound, Emptied, Upsert).
THEOREM OneSessionPerBranchHolds == Spec => []OneSessionPerBranch
<1>1. ConvInv => OneSessionPerBranch
  BY StoreUse DEF ConvInv, OneSessionPerBranch, Owned, IndexOf
<1> QED BY <1>1, ConvInvHolds, PTL

LEMMA GoodContents ==
    ASSUME minted \in SUBSET Runs, NEW c, GoodIn(c, minted)
    PROVE  ContentsOK(c)
<1>1. c \in Contents /\ KvGood(c.kv) /\ c.files \subseteq minted
  BY DEF GoodIn
<1>2. c.folds \in Seq(Folds)
  BY <1>1 DEF Contents
<1>3. KvOK(c.kv)
  BY <1>1 DEF KvGood, KvType, KvOK
<1> QED BY <1>1, <1>2, <1>3 DEF ContentsOK

LEMMA TypesOK == ConvInv => TypeOK
<1> SUFFICES ASSUME ConvInv
             PROVE  TypeOK
  OBVIOUS
<1>1. /\ StoreOK /\ LoopsOK /\ minted \in SUBSET Runs /\ unstored \in SUBSET minted
      /\ commits \in Seq(Commits)
      /\ \A i \in 1 .. Len(commits) : commits[i].parent \in 0 .. i - 1 /\ GoodIn(commits[i].holds, minted)
  BY DEF ConvInv, StoreOK, LogOK, LoopsOK
<1>2. \A i \in DOMAIN commits : ContentsOK(commits[i].holds) /\ commits[i].parent \in 0 .. i - 1
  BY <1>1, GoodContents
<1>3. \A s \in Sessions : ContentsOK(staged[s])
  BY <1>1, StoreUse, GoodContents
<1>4. \A s \in Sessions : loop[s].run \in minted \cup {NoRun}
  BY <1>1 DEF LoopsOK, LoopOK
<1> QED BY <1>1, <1>2, <1>3, <1>4 DEF TypeOK, StoreOK

\* The runs whose bodies are stored are those the index names, in one plane,
\* each once, after any write that failed partway (Plan, PutBack).
THEOREM IndexNamesWhatIsStoredHolds == Spec => []IndexNamesWhatIsStored
<1>1. ConvInv => IndexNamesWhatIsStored
  <2> SUFFICES ASSUME ConvInv, NEW s \in Sessions, NEW kv, kv = staged[s].kv,
                      NEW index, index = ReadIndex(kv)
               PROVE  /\ IsInjective(index.runs)
                      /\ Stores(kv, Body, IF kv[Index] = Absent THEN NoIndex ELSE index)
                      /\ Stores(kv, LegacyBody, IF OnLegacy(kv) THEN index ELSE NoIndex)
                      /\ kv[Index] = Absent \/ kv[LegacyIndex] = Absent
    BY TypesOK DEF IndexNamesWhatIsStored
  <2>1. KvGood(kv)
    BY StoreUse DEF ConvInv
  <2>2. IsInjective(index.runs) /\ NoIndex.runs = <<>>
    BY <2>1, ReadIs, EmptyKv
  <2>3. kv[Index] = Absent \/ kv[LegacyIndex] = Absent
    BY <2>1 DEF KvGood
  <2>4. {r \in Runs : kv[Body(r)] # Absent}
          = ToSet((IF kv[Index] = Absent THEN NoIndex ELSE index).runs)
    <3>1. CASE kv[Index] = Absent
      BY <2>1, <2>2, <3>1, NoneIn DEF KvGood
    <3>2. CASE kv[Index] # Absent
      <4>1. index = kv[Index] /\ index \in IndexType
        BY <2>1, <3>2 DEF ReadIndex, KvGood
      <4>2. ToSet(index.runs) \in SUBSET Runs
        BY <4>1, IndexFields, ToSetIs
      <4> QED BY <2>1, <3>2, <4>1, <4>2 DEF KvGood
    <3> QED BY <3>1, <3>2
  <2>5. {r \in Runs : kv[LegacyBody(r)] # Absent}
          = ToSet((IF OnLegacy(kv) THEN index ELSE NoIndex).runs)
    <3>1. CASE ~OnLegacy(kv)
      <4>1. kv[LegacyIndex] = Absent
        BY <2>3, <3>1 DEF OnLegacy
      <4> QED BY <2>1, <2>2, <3>1, <4>1, NoneIn DEF KvGood
    <3>2. CASE OnLegacy(kv)
      <4>1. index = kv[LegacyIndex] /\ index \in IndexType /\ kv[LegacyIndex] # Absent
        BY <2>1, <3>2 DEF ReadIndex, KvGood, OnLegacy
      <4>2. ToSet(index.runs) \in SUBSET Runs
        BY <4>1, IndexFields, ToSetIs
      <4> QED BY <2>1, <3>2, <4>1, <4>2 DEF KvGood
    <3> QED BY <3>1, <3>2
  <2> QED BY <2>2, <2>3, <2>4, <2>5 DEF Stores
<1> QED BY <1>1, ConvInvHolds, PTL

-----------------------------------------------------------------------------
(* What follows of the steps *)

\* What a step does to each branch: a loop leaves the conversation as it was
\* or adds its run to the end.
Adds(s) ==
    \/ loop'[s] = loop[s]
    \/ IndexOf(s)'.runs \in {IndexOf(s).runs, Append(IndexOf(s).runs, loop[s].run)}

LEMMA LoopStepAdds ==
    ASSUME ConvInv, NEW s \in Sessions, ~At(s, "idle"), NEW c, LoopStep(s, c), NEW t \in Sessions
    PROVE  Adds(t)
<1>1. /\ Puts(s, c) /\ GoodIn(c, minted) /\ Owned(c, s) /\ minted' = minted
      /\ ReadIndex(c.kv).runs \in {Known(s), Append(Known(s), loop[s].run)}
      /\ loop' = [loop EXCEPT ![s] = loop'[s]]
  BY DEF LoopStep
<1>2. StoreOK /\ Live(s) /\ loop \in [Sessions -> Loops]
  BY LoopUse DEF LoopsOK
<1>3. StoreOK' /\ staged'[s] = c
  BY <1>1, <1>2, PutOK, PutIs
<1>4. CASE t = s
  BY <1>1, <1>3, <1>4 DEF Adds, IndexOf, Known
<1>5. CASE t # s
  <2>1. PICK new : new = loop'[s]
    OBVIOUS
  <2>2. loop' = [loop EXCEPT ![s] = new]
    BY <1>1, <2>1
  <2> QED BY <1>2, <1>5, <2>2 DEF Adds
<1> QED BY <1>4, <1>5

\* A run comes to the end of what its branch holds, and a loop changes no
\* other, whatever is deleted, rewound or landed behind its back (Upsert).
THEOREM LoopAddsItsRunHolds == Spec => LoopAddsItsRun
<1>1. ASSUME ConvInv, [Next]_vars
      PROVE  [Crash \/ \A s \in Sessions :
                 \/ loop'[s] = loop[s]
                 \/ IndexOf(s)'.runs \in {IndexOf(s).runs, Append(IndexOf(s).runs, loop[s].run)}]_vars
  <2>1. ASSUME Next, NEW t \in Sessions, ~Crash
        PROVE  Adds(t)
    <3>1. Steps
      BY <1>1, <2>1, NextSteps
    <3>2. ASSUME NEW s \in Sessions, ~At(s, "idle"), NEW c, LoopStep(s, c)
          PROVE  Adds(t)
      BY <1>1, <3>2, LoopStepAdds
    <3>3. ASSUME NEW s \in Sessions, NEW c, OtherStep(s, c) \/ HandStep(s, c)
          PROVE  Adds(t)
      BY <3>3 DEF OtherStep, HandStep, Adds
    <3>4. ASSUME NEW s \in Sessions, NEW r \in Runs, NEW n \in ReadLimits, NEW turn \in BOOLEAN,
                 BeginRun(s, r, n, turn)
          PROVE  Adds(t)
      BY <1>1, <3>4, BeginIs DEF Adds
    <3>5. ASSUME NEW p \in Sessions, NEW k \in Sessions, NEW at \in 0 .. Len(commits),
                 NEW i \in Inheritances, Fork(p, k, at, i)
          PROVE  Adds(t)
      BY <3>5 DEF Fork, Adds
    <3> QED BY <2>1, <3>1, <3>2, <3>3, <3>4, <3>5 DEF Steps
  <2> QED BY <1>1, <2>1 DEF Adds
<1>2. ConvInv /\ [Next]_vars =>
        [Crash \/ \A s \in Sessions :
            \/ loop'[s] = loop[s]
            \/ IndexOf(s)'.runs \in {IndexOf(s).runs, Append(IndexOf(s).runs, loop[s].run)}]_vars
  BY <1>1
<1> QED BY <1>2, ConvInvHolds, PTL DEF Spec, LoopAddsItsRun

\* What a branch's new head has that its history had not is of a run in the
\* conversation, or of one that was lost.
Accounted(s) ==
    \A f \in commits'[head'[s]].holds.files :
        f \in PastFiles(s) \cup ToSet(ReadIndex(commits'[head'[s]].holds.kv).runs) \cup unstored'

LEMMA LoopStepLands ==
    ASSUME ConvInv, NEW s \in Sessions, ~At(s, "idle"), NEW c, LoopStep(s, c),
           NEW t \in Sessions, head'[t] # head[t]
    PROVE  Accounted(t)
<1>1. /\ Puts(s, c) /\ GoodIn(c, minted) /\ Owned(c, s) /\ minted' = minted
      /\ ReadIndex(c.kv).runs \in {Known(s), Append(Known(s), loop[s].run)}
      /\ \A f \in c.files : f \in staged[s].files \cup InHand(s)
      /\ unstored \in SUBSET unstored'
      /\ At(s, "running") /\ (loop'[s].at # "running" \/ head'[s] # head[s])
           => loop[s].run \in RunsIn(c) \cup unstored'
  BY DEF LoopStep
<1>2. StoreOK /\ Live(s) /\ loop[s].run \in Runs
  BY LoopUse
<1>3. StoreOK'
  BY <1>1, <1>2, PutOK
<1>4. t = s /\ commits'[head'[s]].holds = c
  BY <1>1, <1>2, <1>3, PutIs
<1>5. RunsOf(s) \in SUBSET RunsIn(c)
  BY <1>1, <1>2, AddedRuns
<1>6. \A f \in staged[s].files : f \in PastFiles(s) \cup RunsOf(s) \cup unstored \cup InHand(s)
  BY <1>2 DEF ConvInv, History
<1>7. \A f \in InHand(s) : f \in RunsIn(c) \cup unstored'
  BY <1>1, <1>4 DEF InHand
<1> QED BY <1>1, <1>4, <1>5, <1>6, <1>7 DEF Accounted, RunsIn

LEMMA OtherStepLands ==
    ASSUME ConvInv, NEW s \in Sessions, NEW c, OtherStep(s, c),
           NEW t \in Sessions, head'[t] # head[t]
    PROVE  Accounted(t)
<1>1. /\ Puts(s, c) /\ GoodIn(c, minted') /\ Owned(c, s) /\ Live(s)
      /\ minted \in SUBSET minted' /\ StoreOK
      /\ head'[s] # head[s] => \A f \in c.files : f \in PastFiles(s) \cup RunsIn(c) \cup unstored'
  BY DEF OtherStep, ConvInv
<1>2. StoreOK'
  BY <1>1, PutOK
<1>3. t = s /\ commits'[head'[s]].holds = c
  BY <1>1, <1>2, PutIs
<1> QED BY <1>1, <1>3 DEF Accounted, RunsIn

\* What is ahead of its record on a branch's new head.
LEMMA AheadIs ==
    ASSUME NEW s \in Sessions
    PROVE  /\ \A r : r \in AheadOfRecord(s) =>
                /\ r \in commits'[head'[s]].holds.files /\ r \notin PastFiles(s)
                /\ r \notin unstored'
           /\ Accounted(s) => AheadOfRecord(s) = {}
<1>1. PastFiles(s) = UNION {commits[c].holds.files : c \in Past[head[s]]}
  BY DEF PastFiles, PastHolds
<1>2. PICK new : new = commits'[head'[s]].holds
  OBVIOUS
<1>3. AheadOfRecord(s) = new.files \ (PastFiles(s) \cup ToSet(ReadIndex(new.kv).runs) \cup unstored')
  BY <1>1, <1>2 DEF AheadOfRecord
<1>4. Accounted(s) =>
        \A f \in new.files : f \in PastFiles(s) \cup ToSet(ReadIndex(new.kv).runs) \cup unstored'
  BY <1>2 DEF Accounted
<1> QED BY <1>2, <1>3, <1>4

\* Whose files these are, when they are of what is staged.
Underway(s, r) == r \in RunsOf(s) \/ (At(s, "running") /\ r = loop[s].run)

LEMMA StagedAhead ==
    ASSUME ConvInv, NEW s \in Sessions, Live(s), unstored' = unstored,
           NEW r \in AheadOfRecord(s),
           \A f \in commits'[head'[s]].holds.files : f \in staged[s].files \cup PastFiles(s)
    PROVE  Underway(s, r)
<1>1. r \in staged[s].files /\ r \notin PastFiles(s) /\ r \notin unstored
  BY AheadIs
<1>2. r \in PastFiles(s) \cup RunsOf(s) \cup unstored \cup InHand(s)
  BY <1>1 DEF ConvInv, History
<1> QED BY <1>1, <1>2 DEF InHand, Underway

\* The files of a run are committed with its record, whichever of a loop, a
\* delete or a checkout makes the commit (Land).  By hand or for a fork they may
\* be committed ahead of it, and are of the run under way or of one staged
\* (CommitAll, CommitFiles, Fork).
THEOREM LandsWithItsRunHolds == Spec => LandsWithItsRun
<1> DEFINE Sound(s, r) == /\ ByHand(s) \/ \E k \in Sessions : ~Live(k) /\ head'[k] # 0
                          /\ Underway(s, r)
<1>1. ASSUME ConvInv, Next, NEW t \in Sessions, Live(t), head'[t] # head[t],
             NEW r \in AheadOfRecord(t)
      PROVE  Sound(t, r)
  <2>1. Steps
    BY <1>1, NextSteps
  <2>2. ASSUME Accounted(t)
        PROVE  FALSE
    BY <1>1, <2>2, AheadIs
  <2>3. ASSUME NEW s \in Sessions, ~At(s, "idle"), NEW c, LoopStep(s, c)
        PROVE  Sound(t, r)
    BY <1>1, <2>2, <2>3, LoopStepLands
  <2>4. ASSUME NEW s \in Sessions, NEW c, OtherStep(s, c)
        PROVE  Sound(t, r)
    BY <1>1, <2>2, <2>4, OtherStepLands
  <2>5. ASSUME NEW s \in Sessions, ByHand(s), NEW c, HandStep(s, c)
        PROVE  Sound(t, r)
    <3>1. t = s /\ commits'[head'[s]].holds = c
      BY <1>1, <2>5, HandPuts DEF ConvInv
    <3>2. unstored' = unstored /\ \A f \in c.files : f \in staged[s].files \cup PastFiles(s)
      BY <2>5 DEF HandStep
    <3>3. Underway(t, r)
      BY <1>1, <3>1, <3>2, StagedAhead
    <3> QED BY <2>5, <3>1, <3>3
  <2>6. ASSUME NEW s \in Sessions, NEW q \in Runs, NEW n \in ReadLimits, NEW turn \in BOOLEAN,
               BeginRun(s, q, n, turn)
        PROVE  Sound(t, r)
    <3>1. head' = head
      BY <1>1, <2>6, BeginIs
    <3> QED BY <1>1, <3>1
  <2>7. ASSUME NEW p \in Sessions, NEW k \in Sessions, NEW at \in 0 .. Len(commits),
               NEW i \in Inheritances, Fork(p, k, at, i)
        PROVE  Sound(t, r)
    <3>1. Forked(p, k)
      BY <1>1, <2>7, ForkKeeps
    <3>2. /\ ~Live(k) /\ head'[k] # 0 /\ unstored' = unstored
          /\ t = p /\ commits'[head'[t]].holds = staged[t]
      <4>1. ~Live(k) /\ head'[k] \in 1 .. Len(commits') /\ commits' \in Seq(Commits)
            /\ unstored' = unstored
        BY <3>1 DEF Forked, LogOK
      <4>2. t = p
        BY <1>1, <3>1 DEF Forked
      <4>3. commits'[head'[p]].holds = staged[p]
        BY <1>1, <3>1, <4>2 DEF Forked
      <4> QED BY <4>1, <4>2, <4>3
    <3>3. Underway(t, r)
      BY <1>1, <3>2, StagedAhead
    <3> QED BY <3>2, <3>3
  <2>8. CASE Crash
    BY <1>1, <2>8, CrashKeeps
  <2> QED BY <2>1, <2>3, <2>4, <2>5, <2>6, <2>7, <2>8 DEF Steps
<1>2. ConvInv /\ [Next]_vars =>
        [\A s \in Sessions : Live(s) /\ head'[s] # head[s] =>
            \A r \in AheadOfRecord(s) :
                /\ ByHand(s) \/ \E k \in Sessions : ~Live(k) /\ head'[k] # 0
                /\ r \in RunsOf(s) \/ (At(s, "running") /\ r = loop[s].run)]_vars
  BY <1>1 DEF Underway
<1> QED BY <1>2, ConvInvHolds, PTL DEF Spec, LandsWithItsRun

-----------------------------------------------------------------------------
(* What the model is told of earlier runs *)

\* A fold covers, of these runs, those up to the one it is made through.
Fits(f, runs) ==
    \A i \in 1 .. Len(runs) : runs[i] = f.through =>
        \A j \in 1 .. Len(runs) : runs[j] \in f.covers <=> j <= i

\* Every fold of these contents is of runs given out, and fits the index.
FoldsFit(c, m) ==
    \A f \in ToSet(c.folds) :
        /\ f.covers \in SUBSET m /\ f.through \in f.covers
        /\ Fits(f, ReadIndex(c.kv).runs)

\* What is said covers the first of the runs the loop read, and the rest are
\* in full.
Told(l) == \E a \in 0 .. Len(l.prior) :
    /\ Len(l.rest) = Len(l.prior) - a
    /\ \A i \in 1 .. Len(l.rest) : l.rest[i] = l.prior[a + i]
    /\ \A j \in 1 .. Len(l.prior) : l.prior[j] \in l.said <=> j <= a

\* While a loop runs its branch holds what it read, with its run or without,
\* and no fold covers that run.
LoopTells(l, c, m) ==
    /\ l.at = "running" =>
          /\ Told(l) /\ l.run \notin l.said /\ l.run \notin ToSet(l.prior)
          /\ IsInjective(l.prior) /\ l.said \in SUBSET m
          /\ l.whole => ReadIndex(c.kv).runs \in {l.prior, Append(l.prior, l.run)}
    /\ l.at # "idle" => \A f \in ToSet(c.folds) : l.run \notin f.covers

TellInv ==
    /\ \A i \in 1 .. Len(commits) : FoldsFit(commits[i].holds, minted)
    /\ \A s \in Sessions : FoldsFit(staged[s], minted) /\ LoopTells(loop[s], staged[s], minted)

LEMMA FitsAppend ==
    ASSUME NEW X, NEW runs \in Seq(X), NEW r \in X, NEW f, Fits(f, runs),
           f.through \in f.covers, r \notin f.covers
    PROVE  Fits(f, Append(runs, r))
<1>1. PICK d : d = Append(runs, r)
  OBVIOUS
<1>2. /\ Len(d) = Len(runs) + 1 /\ (\A i \in 1 .. Len(runs) : d[i] = runs[i])
      /\ d[Len(runs) + 1] = r /\ Len(runs) \in Nat
  BY <1>1, AppendIs
<1>3. ASSUME NEW i \in 1 .. Len(d), d[i] = f.through, NEW j \in 1 .. Len(d)
      PROVE  d[j] \in f.covers <=> j <= i
  <2>1. i \in 1 .. Len(runs) /\ runs[i] = f.through
    BY <1>2, <1>3
  <2>2. CASE j \in 1 .. Len(runs)
    BY <1>2, <2>1, <2>2 DEF Fits
  <2>3. CASE j = Len(runs) + 1
    BY <1>2, <2>1, <2>3
  <2> QED BY <1>2, <2>2, <2>3
<1> QED BY <1>1, <1>3 DEF Fits

LEMMA FitsWithout ==
    ASSUME NEW X, NEW runs \in Seq(X), IsInjective(runs), NEW r, NEW f, Fits(f, runs)
    PROVE  Fits(f, Without(runs, r))
<1>1. PICK d : d = Without(runs, r)
  OBVIOUS
<1>2. d \in Seq(X) /\ ToSet(d) = ToSet(runs) \ {r} /\ InOrder(d, runs)
  BY <1>1, WithoutIs
<1>3. \A i \in 1 .. Len(d) : \E k \in 1 .. Len(runs) : d[i] = runs[k]
  <2> SUFFICES ASSUME NEW i \in 1 .. Len(d)
               PROVE  \E k \in 1 .. Len(runs) : d[i] = runs[k]
    OBVIOUS
  <2>1. d[i] \in ToSet(runs)
    BY <1>2, ToSetIs
  <2> QED BY <2>1, ToSetIs
<1>4. ASSUME NEW i \in 1 .. Len(d), d[i] = f.through, NEW j \in 1 .. Len(d)
      PROVE  d[j] \in f.covers <=> j <= i
  <2>1. PICK k \in 1 .. Len(runs), l \in 1 .. Len(runs) : d[i] = runs[k] /\ d[j] = runs[l]
    BY <1>3
  <2>2. j <= i <=> l <= k
    BY <1>2, <2>1 DEF InOrder
  <2> QED BY <1>4, <2>1, <2>2 DEF Fits
<1> QED BY <1>1, <1>4 DEF Fits

LEMMA FitsNone ==
    ASSUME NEW f
    PROVE  Fits(f, <<>>)
BY DEF Fits

LEMMA FoldsFitMore ==
    ASSUME NEW m, NEW n, m \in SUBSET n, NEW c, FoldsFit(c, m)
    PROVE  FoldsFit(c, n)
BY DEF FoldsFit

\* Folds fit the same index, an index with one more run, or with one fewer.
LEMMA FoldsFitOn ==
    ASSUME NEW m, NEW c, FoldsFit(c, m), GoodIn(c, m),
           NEW d, d.folds = c.folds, NEW r,
           \/ ReadIndex(d.kv).runs = ReadIndex(c.kv).runs
           \/ /\ ReadIndex(d.kv).runs = Append(ReadIndex(c.kv).runs, r) /\ r \in Runs
              /\ \A f \in ToSet(c.folds) : r \notin f.covers
           \/ ReadIndex(d.kv).runs = Without(ReadIndex(c.kv).runs, r)
           \/ ReadIndex(d.kv).runs = <<>>
    PROVE  FoldsFit(d, m)
<1>1. PICK runs : runs = ReadIndex(c.kv).runs
  OBVIOUS
<1>2. runs \in Seq(Runs) /\ IsInjective(runs)
  BY <1>1, ReadIs DEF GoodIn
<1>3. ASSUME NEW f \in ToSet(c.folds)
      PROVE  Fits(f, ReadIndex(d.kv).runs)
  <2>1. Fits(f, runs) /\ f.through \in f.covers
    BY <1>1 DEF FoldsFit
  <2>2. CASE ReadIndex(d.kv).runs = runs
    BY <2>1, <2>2
  <2>3. CASE ReadIndex(d.kv).runs = Append(runs, r) /\ r \in Runs /\ r \notin f.covers
    BY <1>2, <2>1, <2>3, FitsAppend
  <2>4. CASE ReadIndex(d.kv).runs = Without(runs, r)
    BY <1>2, <2>1, <2>4, FitsWithout
  <2>5. CASE ReadIndex(d.kv).runs = <<>>
    BY <2>5, FitsNone
  <2> QED BY <1>1, <2>2, <2>3, <2>4, <2>5
<1> QED BY <1>3 DEF FoldsFit

\* A step that puts these contents on one branch keeps every fold fitting.
LEMMA PutTells ==
    ASSUME ConvInv, TellInv, NEW s \in Sessions, Live(s), NEW c, GoodIn(c, minted'),
           Owned(c, s), minted \in SUBSET minted', Puts(s, c), FoldsFit(c, minted'),
           \A t \in Sessions : t # s => loop'[t] = loop[t], LoopTells(loop'[s], c, minted')
    PROVE  TellInv'
<1>1. StoreOK /\ BranchOK(Branch(head[s]), minted')
  <2>1. BranchOK(Branch(head[s]), minted)
    BY StoreUse DEF ConvInv
  <2> QED BY <2>1, LogMore DEF ConvInv, BranchOK
<1>2. StoreOK' /\ staged'[s] = c /\ \A t \in Sessions : t # s => staged'[t] = staged[t]
  BY <1>1, PutOK, PutIs
<1>3. ASSUME NEW i \in 1 .. Len(commits')
      PROVE  FoldsFit(commits'[i].holds, minted')
  <2>1. \/ i \in 1 .. Len(commits) /\ commits'[i] = commits[i]
        \/ commits'[i].holds = c
    <3>1. CASE Leave(s, c)
      BY <3>1 DEF Leave
    <3>2. CASE Land(s, c)
      <4>1. PICK landed : landed = Extend(Branch(head[s]), c)
        OBVIOUS
      <4>2. commits' = landed.log
        BY <3>2, <4>1 DEF Land, Commit
      <4>3. BranchOK(landed, minted') /\ Extended(landed, Branch(head[s]), c)
        BY <1>1, <4>1, ExtendIs
      <4>4. Branch(head[s]).log = commits /\ Len(commits) \in Nat
        BY <1>1, BranchIs, StoreUse
      <4> QED BY <4>2, <4>3, <4>4 DEF Extended
    <3> QED BY <3>1, <3>2 DEF Puts
  <2>2. \A j \in 1 .. Len(commits) : FoldsFit(commits[j].holds, minted')
    BY FoldsFitMore DEF TellInv
  <2> QED BY <2>1, <2>2
<1>4. ASSUME NEW t \in Sessions
      PROVE  FoldsFit(staged'[t], minted') /\ LoopTells(loop'[t], staged'[t], minted')
  <2>1. CASE t = s
    BY <1>2, <2>1
  <2>2. CASE t # s
    <3>1. staged'[t] = staged[t] /\ loop'[t] = loop[t]
      BY <1>2, <2>2
    <3>2. FoldsFit(staged[t], minted') /\ LoopTells(loop[t], staged[t], minted)
      BY FoldsFitMore DEF TellInv
    <3>3. LoopTells(loop[t], staged[t], minted')
      BY <3>2 DEF LoopTells
    <3> QED BY <3>1, <3>2, <3>3
  <2> QED BY <2>1, <2>2
<1> QED BY <1>3, <1>4 DEF TellInv

\* A step of a loop that makes no request adds no fold, and the loop is told
\* nothing more.
Untold(s) ==
    /\ staged'[s].folds = staged[s].folds
    /\ loop'[s].at = "running" => loop'[s] = loop[s]

LEMMA UntoldTells ==
    ASSUME ConvInv, TellInv, NEW s \in Sessions, ~At(s, "idle"), NEW c, LoopStep(s, c), Untold(s)
    PROVE  TellInv'
<1>1. /\ Puts(s, c) /\ GoodIn(c, minted) /\ Owned(c, s) /\ minted' = minted
      /\ ReadIndex(c.kv).runs \in {Known(s), Append(Known(s), loop[s].run)}
      /\ loop' = [loop EXCEPT ![s] = loop'[s]]
      /\ loop'[s].at # "idle" => loop'[s].run = loop[s].run
  BY DEF LoopStep
<1>2. StoreOK /\ Live(s) /\ loop \in [Sessions -> Loops] /\ loop[s].run \in Runs
  BY LoopUse DEF LoopsOK
<1>3. StoreOK' /\ staged'[s] = c
  BY <1>1, <1>2, PutOK, PutIs
<1>4. c.folds = staged[s].folds
  BY <1>3 DEF Untold
<1>5. /\ FoldsFit(staged[s], minted) /\ LoopTells(loop[s], staged[s], minted)
      /\ GoodIn(staged[s], minted) /\ Known(s) = ReadIndex(staged[s].kv).runs
  BY <1>2, StoreUse DEF TellInv, Known, IndexOf
<1>6. \A f \in ToSet(staged[s].folds) : loop[s].run \notin f.covers
  BY <1>5 DEF LoopTells, At
<1>7. FoldsFit(c, minted)
  BY <1>1, <1>2, <1>4, <1>5, <1>6, FoldsFitOn
<1>8. LoopTells(loop'[s], c, minted)
  <2>1. loop'[s].at # "idle" => \A f \in ToSet(c.folds) : loop'[s].run \notin f.covers
    BY <1>1, <1>4, <1>6
  <2>2. ASSUME loop'[s].at = "running"
        PROVE  /\ Told(loop'[s]) /\ loop'[s].run \notin loop'[s].said
               /\ loop'[s].run \notin ToSet(loop'[s].prior) /\ IsInjective(loop'[s].prior)
               /\ loop'[s].said \in SUBSET minted
               /\ loop'[s].whole => ReadIndex(c.kv).runs
                                      \in {loop'[s].prior, Append(loop'[s].prior, loop'[s].run)}
    <3>1. PICK l : l = loop[s]
      OBVIOUS
    <3>2. loop'[s] = l /\ l.at = "running" /\ l \in Loops
      BY <1>2, <2>2, <3>1 DEF Untold
    <3>3. /\ Told(l) /\ l.run \notin l.said /\ l.run \notin ToSet(l.prior)
          /\ IsInjective(l.prior) /\ l.said \in SUBSET minted
          /\ l.whole => Known(s) \in {l.prior, Append(l.prior, l.run)}
      BY <1>5, <3>1, <3>2 DEF LoopTells
    <3>4. ASSUME l.whole
          PROVE  ReadIndex(c.kv).runs \in {l.prior, Append(l.prior, l.run)}
      <4>1. PICK runs : runs = ReadIndex(c.kv).runs
        OBVIOUS
      <4>2. CASE Known(s) = l.prior \/ runs = Known(s)
        BY <1>1, <3>1, <3>3, <3>4, <4>1, <4>2
      <4>3. CASE Known(s) # l.prior /\ runs # Known(s)
        <5>1. Known(s) = Append(l.prior, l.run) /\ runs = Append(Known(s), l.run)
          BY <1>1, <3>1, <3>3, <3>4, <4>1, <4>3
        <5>2. IsInjective(runs) /\ l.prior \in Seq(Runs) /\ Known(s) \in Seq(Runs) /\ l.run \in Runs
          BY <1>1, <1>2, <3>1, <3>2, <4>1, ReadIs, KnownIs DEF GoodIn, Loops
        <5>3. PICK n \in Nat : n = Len(l.prior)
          BY <5>2
        <5>4. PICK known : known = Known(s) /\ known \in Seq(Runs)
          BY <5>2
        <5>5. Len(known) = n + 1 /\ known[n + 1] = l.run
          BY <5>1, <5>2, <5>3, <5>4, AppendIs
        <5>6. Len(runs) = n + 2 /\ runs[n + 1] = known[n + 1] /\ runs[n + 2] = l.run
          BY <5>1, <5>2, <5>4, <5>5, AppendIs
        <5>7. runs \in Seq(Runs)
          BY <5>1, <5>2, AppendIs
        <5>8. DOMAIN runs = 1 .. n + 2
          BY <5>6, <5>7
        <5> QED BY <5>2, <5>5, <5>6, <5>8 DEF IsInjective
      <4> QED BY <4>2, <4>3
    <3> QED BY <3>2, <3>3, <3>4
  <2> QED BY <2>1, <2>2 DEF LoopTells
<1>9. \A t \in Sessions : t # s => loop'[t] = loop[t]
  <2>1. PICK new : new = loop'[s]
    OBVIOUS
  <2>2. loop' = [loop EXCEPT ![s] = new]
    BY <1>1, <2>1
  <2> QED BY <1>2, <2>2
<1>10. minted \in SUBSET minted' /\ FoldsFit(c, minted') /\ GoodIn(c, minted')
  BY <1>1, <1>7
<1> QED BY <1>1, <1>2, <1>8, <1>9, <1>10, PutTells

-----------------------------------------------------------------------------
(* The steps of a loop that make no request *)

LEMMA PutFolds ==
    ASSUME StoreOK, NEW s \in Sessions, NEW c, Puts(s, c), c.folds = staged[s].folds
    PROVE  staged'[s].folds = staged[s].folds
<1>1. staged \in [Sessions -> Contents]
  BY DEF StoreOK
<1>2. staged' = [staged EXCEPT ![s] = c]
  BY DEF Puts, Leave, Land, Commit
<1> QED BY <1>1, <1>2

LEMMA WriteFolds ==
    ASSUME StoreOK, NEW s \in Sessions, NEW kv
    PROVE  [staged[s] EXCEPT !.kv = kv].folds = staged[s].folds
<1>1. staged[s] \in [kv : KvType, folds : Seq(Folds), files : SUBSET Runs]
  BY StoreUse DEF Contents
<1> QED BY <1>1

LEMMA GotoUntold ==
    ASSUME LoopsOK, NEW s \in Sessions, NEW phase, Goto(s, phase),
           phase = "running" => At(s, "running")
    PROVE  loop'[s].at = "running" => loop'[s] = loop[s]
<1>1. PICK l : l = loop[s]
  OBVIOUS
<1>2. loop \in [Sessions -> Loops] /\ l \in Loops
  BY <1>1 DEF LoopsOK
<1>3. loop'[s] = IF phase = "idle" THEN Idle ELSE [l EXCEPT !.at = phase]
  BY <1>1, <1>2 DEF Goto
<1>4. CASE phase = "idle"
  BY <1>3, <1>4, IdleOK
<1>5. CASE phase # "idle"
  <2>1. loop'[s] = [l EXCEPT !.at = phase] /\ loop'[s].at = phase
    BY <1>2, <1>3, <1>5 DEF Loops
  <2>2. ASSUME phase = "running"
        PROVE  [l EXCEPT !.at = phase] = l
    <3>1. l.at = "running"
      BY <1>1, <2>2 DEF At
    <3> QED BY <1>2, <2>2, <3>1 DEF Loops
  <2> QED BY <1>1, <2>1, <2>2
<1> QED BY <1>4, <1>5

LEMMA UpsertUntold ==
    ASSUME ConvInv, NEW s \in Sessions, ~At(s, "idle"), NEW incoming, NEW status,
           NEW next \in {"running", "cut", "stored"}, next = "running" => At(s, "running"),
           Upsert(s, incoming, status, next, Over(s))
    PROVE  Untold(s)
<1>1. StoreOK /\ LoopsOK /\ Over(s) \in {"ending", "idle"}
  BY LoopUse
<1>2. \E phase \in {next, Over(s)} : Goto(s, phase)
  BY DEF Upsert
<1>3. loop'[s].at = "running" => loop'[s] = loop[s]
  BY <1>1, <1>2, GotoUntold
<1>4. staged' = staged \/ \E kv : Puts(s, [staged[s] EXCEPT !.kv = kv])
  BY DEF Upsert, Puts
<1>5. staged'[s].folds = staged[s].folds
  BY <1>1, <1>4, PutFolds, WriteFolds
<1> QED BY <1>3, <1>5 DEF Untold

\* Every step of a loop but its beginning and its requests.
LEMMA LoopUntold ==
    ASSUME ConvInv, NEW s \in Sessions,
           ToolCall(s) \/ Checkpoint(s)
           \/ Finish(s, "completed") \/ Finish(s, "cancelled") \/ Abandon(s)
           \/ UpsertRun(s, TRUE) \/ UpsertRun(s, FALSE)
           \/ KeepRead(s) \/ KeepWrite(s) \/ EndTurn(s) \/ EndWithBody(s)
    PROVE  Untold(s)
<1>1. ~At(s, "idle")
  BY DEF At, ToolCall, Checkpoint, Finish, Abandon, UpsertRun, KeepRead, KeepWrite, EndTurn,
         EndWithBody
<1>2. StoreOK /\ LoopsOK /\ Over(s) \in {"ending", "idle"} /\ loop \in [Sessions -> Loops]
      /\ loop[s] \in Loops
  BY <1>1, LoopUse DEF LoopsOK
<1>3. CASE Checkpoint(s) \/ Finish(s, "completed") \/ Finish(s, "cancelled") \/ KeepWrite(s)
  BY <1>1, <1>3, UpsertUntold DEF Checkpoint, Finish, KeepWrite
<1>4. CASE ToolCall(s)
  <2>1. staged[s] \in [kv : KvType, folds : Seq(Folds), files : SUBSET Runs]
    BY <1>2, StoreUse DEF Contents
  <2>2. PICK c : c = [staged[s] EXCEPT !.files = @ \cup {loop[s].run}]
    OBVIOUS
  <2>3. c.folds = staged[s].folds /\ Puts(s, c) /\ loop' = loop
    BY <1>4, <2>1, <2>2 DEF ToolCall, Puts
  <2> QED BY <1>2, <2>3, PutFolds DEF Untold
<1>5. CASE Abandon(s)
  BY <1>2, <1>5, GotoUntold DEF Abandon, Untold
<1>6. CASE UpsertRun(s, TRUE) \/ UpsertRun(s, FALSE)
  <2>1. staged' = staged \/ \E kv : Puts(s, [staged[s] EXCEPT !.kv = kv])
    BY <1>6 DEF UpsertRun, StoreRow, Puts
  <2>2. staged'[s].folds = staged[s].folds
    BY <1>2, <2>1, PutFolds, WriteFolds
  <2> QED BY <1>2, <1>6, <2>2, GotoUntold DEF UpsertRun, Untold
<1>7. CASE KeepRead(s)
  <2>1. staged' = staged
    BY <1>7 DEF KeepRead
  <2>2. CASE Goto(s, Over(s))
    BY <1>2, <2>1, <2>2, GotoUntold DEF Untold
  <2>3. CASE ~Goto(s, Over(s))
    <3>1. PICK runs : loop' = [loop EXCEPT ![s].at = "keeping", ![s].prior = runs]
      BY <1>7, <2>3 DEF KeepRead
    <3>2. loop'[s].at = "keeping"
      BY <1>2, <3>1 DEF Loops
    <3> QED BY <2>1, <3>2 DEF Untold
  <2> QED BY <2>2, <2>3
<1>8. CASE EndTurn(s)
  <2>1. Puts(s, staged[s]) /\ Goto(s, "idle")
    BY <1>8 DEF EndTurn, Puts
  <2> QED BY <1>2, <2>1, PutFolds, GotoUntold DEF Untold
<1>9. CASE EndWithBody(s)
  <2>1. \E kv : Puts(s, [staged[s] EXCEPT !.kv = kv])
    BY <1>9 DEF EndWithBody, Puts
  <2>2. staged'[s].folds = staged[s].folds
    BY <1>2, <2>1, PutFolds, WriteFolds
  <2> QED BY <1>2, <1>9, <2>2, GotoUntold DEF EndWithBody, Untold
<1> QED BY <1>3, <1>4, <1>5, <1>6, <1>7, <1>8, <1>9

\* The steps of a loop that make no request keep what it is told.
LEMMA LoopTellsStep ==
    ASSUME ConvInv, TellInv, NEW s \in Sessions,
           ToolCall(s) \/ Checkpoint(s)
           \/ Finish(s, "completed") \/ Finish(s, "cancelled") \/ Abandon(s)
           \/ UpsertRun(s, TRUE) \/ UpsertRun(s, FALSE)
           \/ KeepRead(s) \/ KeepWrite(s) \/ EndTurn(s) \/ EndWithBody(s)
    PROVE  TellInv'
<1>1. ~At(s, "idle") /\ \E c : LoopStep(s, c)
  BY ToolCallStep, CheckpointStep, FinishStep, AbandonStep, UpsertRunStep,
     KeepReadStep, KeepWriteStep, EndTurnStep, EndWithBodyStep
<1>2. Untold(s)
  BY LoopUntold
<1> QED BY <1>1, <1>2, UntoldTells

-----------------------------------------------------------------------------
(* A request *)

\* A run among others is where After finds it.
LEMMA AfterAt ==
    ASSUME NEW X, NEW runs \in Seq(X), NEW t \in ToSet(runs)
    PROVE  After(runs, t) \in 1 .. Len(runs) /\ runs[After(runs, t)] = t
<1> DEFINE I == {i \in 1 .. Len(runs) : runs[i] = t}
<1>1. After(runs, t) = IF I # {} THEN Min(I) ELSE 0
  BY DEF After, SelectInSeq
<1>2. I \subseteq Nat /\ I # {}
  BY ToSetIs
<1>3. \A i \in I : i \in 1 .. Len(runs) /\ runs[i] = t
  OBVIOUS
<1> HIDE DEF I
<1>4. \E m \in I : \A n \in I : m <= n
  BY <1>2, LeastNumber
<1>5. Min(I) \in I
  BY <1>4 DEF Min
<1> QED BY <1>1, <1>2, <1>3, <1>5

\* Applying a fold through one of the runs still in full: it stands for the
\* runs up to that one, and those behind it stay.
LEMMA FoldTold ==
    ASSUME NEW l \in Loops, Told(l), IsInjective(l.prior), NEW f \in Folds,
           f.through \in ToSet(l.rest), Fits(f, l.prior), NEW n,
           n = [l EXCEPT !.said = f.covers, !.anchor = f.through,
                         !.rest = SubSeq(@, After(l.rest, f.through) + 1, Len(@))]
    PROVE  n \in Loops /\ Told(n)
<1>1. /\ l.prior \in Seq(Runs) /\ l.rest \in Seq(Runs) /\ Len(l.prior) \in Nat
      /\ Len(l.rest) \in Nat /\ f.through \in Runs /\ f.covers \in SUBSET Runs
  BY DEF Loops, Folds
<1>2. PICK a \in 0 .. Len(l.prior) :
         /\ Len(l.rest) = Len(l.prior) - a
         /\ \A i \in 1 .. Len(l.rest) : l.rest[i] = l.prior[a + i]
  BY DEF Told
<1>3. PICK i \in 1 .. Len(l.rest) : i = After(l.rest, f.through) /\ l.rest[i] = f.through
  BY <1>1, AfterAt
<1>4. PICK first \in Nat \ {0} : first = i + 1
  BY <1>1
<1>5. PICK last \in Nat : last = Len(l.rest)
  BY <1>1
<1>6. PICK rest : rest = SubSeq(l.rest, first, last)
  OBVIOUS
<1>7. /\ rest \in Seq(Runs) /\ Len(rest) = IF first <= last THEN last - first + 1 ELSE 0
      /\ \A j \in 1 .. Len(rest) : rest[j] = l.rest[first + j - 1]
  BY <1>1, <1>4, <1>5, <1>6, SubSeqIs
<1>8. n = [l EXCEPT !.said = f.covers, !.anchor = f.through, !.rest = rest]
  BY <1>3, <1>4, <1>5, <1>6
<1>9. n \in Loops /\ n.said = f.covers /\ n.rest = rest /\ n.prior = l.prior
  BY <1>1, <1>7, <1>8 DEF Loops
<1>10. PICK b \in 0 .. Len(l.prior) : b = a + i
  BY <1>1, <1>2
<1>11. Len(rest) = Len(l.prior) - b
  BY <1>1, <1>2, <1>4, <1>5, <1>7, <1>10
<1>12. ASSUME NEW j \in 1 .. Len(rest)
       PROVE  rest[j] = l.prior[b + j]
  <2>1a. Len(l.rest) = Len(l.prior) - a /\ Len(l.rest) \in Nat /\ Len(l.prior) \in Nat
    BY <1>1, <1>2
  <2>1b. i + j \in 1 .. Len(l.rest) /\ first + j - 1 = i + j
    BY ONLY <1>4, <1>10, <1>11, <2>1a, a \in 0 .. Len(l.prior), i \in 1 .. Len(l.rest),
            j \in 1 .. Len(rest)
  <2>1. PICK k \in 1 .. Len(l.rest) : k = i + j /\ k = first + j - 1
    BY <2>1b
  <2>2. a + k = b + j
    BY <1>1, <1>2, <1>10, <2>1
  <2>3. rest[j] = l.rest[k] /\ l.rest[k] = l.prior[a + k]
    BY <1>2, <1>7, <2>1
  <2> QED BY <2>2, <2>3
<1>13. b \in 1 .. Len(l.prior) /\ l.prior[b] = f.through
  BY <1>1, <1>2, <1>3, <1>10
<1>14. \A j \in 1 .. Len(l.prior) : l.prior[j] \in f.covers <=> j <= b
  BY <1>13 DEF Fits
<1>15. Told(n)
  BY <1>9, <1>11, <1>12, <1>14 DEF Told
<1> QED BY <1>9, <1>15

\* A fold made now, of a loop that has runs in full: it stands for every
\* earlier run, and none is in full behind it.
LEMMA MadeTold ==
    ASSUME NEW l \in Loops, Told(l), IsInjective(l.prior), l.rest # <<>>, NEW made,
           made = FoldOf(l.said, l.rest), NEW n,
           n = [l EXCEPT !.said = made.covers, !.anchor = made.through, !.rest = <<>>]
    PROVE  /\ made \in Folds /\ made.through \in made.covers
           /\ made.covers \in SUBSET (l.said \cup ToSet(l.prior))
           /\ Fits(made, l.prior) /\ n \in Loops /\ Told(n)
<1>1. /\ l.prior \in Seq(Runs) /\ l.rest \in Seq(Runs) /\ Len(l.prior) \in Nat
      /\ l.said \in SUBSET Runs /\ Len(l.rest) \in Nat \ {0}
      /\ Last(l.rest) \in Runs /\ l.rest[Len(l.rest)] = Last(l.rest)
  BY FrontIs DEF Loops
<1>2. PICK a \in 0 .. Len(l.prior) :
         /\ Len(l.rest) = Len(l.prior) - a
         /\ \A i \in 1 .. Len(l.rest) : l.rest[i] = l.prior[a + i]
         /\ \A j \in 1 .. Len(l.prior) : l.prior[j] \in l.said <=> j <= a
  BY DEF Told
<1>3. \A x : x \in ToSet(l.rest) <=> \E i \in 1 .. Len(l.rest) : l.rest[i] = x
  BY <1>1, ToSetIs
<1>4. /\ made = [through |-> Last(l.rest), covers |-> l.said \cup ToSet(l.rest)]
      /\ ToSet(l.rest) \in SUBSET Runs /\ Last(l.rest) \in ToSet(l.rest)
  BY <1>1, ToSetIs DEF FoldOf
<1>5. /\ made \in Folds /\ made.through = Last(l.rest)
      /\ made.covers = l.said \cup ToSet(l.rest) /\ made.through \in made.covers
  BY <1>1, <1>4 DEF Folds
<1>6. l.prior[Len(l.prior)] = Last(l.rest) /\ Len(l.prior) \in 1 .. Len(l.prior)
  <2>1. PICK m \in 1 .. Len(l.rest) : m = Len(l.rest)
    BY <1>1
  <2>2. a + m = Len(l.prior)
    BY <1>1, <1>2, <2>1
  <2>3. l.rest[m] = l.prior[a + m]
    BY <1>2
  <2>4. l.prior[Len(l.prior)] = Last(l.rest)
    BY <1>1, <2>1, <2>2, <2>3
  <2>5. Len(l.prior) \in Nat /\ a \in Nat /\ m \in Nat \ {0}
    BY <1>1
  <2>6. Len(l.prior) \in 1 .. Len(l.prior)
    BY ONLY <2>2, <2>5
  <2> QED BY <2>4, <2>6
<1>7. ASSUME NEW j \in 1 .. Len(l.prior)
      PROVE  l.prior[j] \in made.covers
  <2>1. CASE j <= a
    BY <1>2, <1>5, <2>1
  <2>2. CASE j > a
    <3>1. PICK i \in 1 .. Len(l.rest) : i = j - a
      BY <1>1, <1>2, <2>2
    <3>2. a + i = j
      BY <1>1, <1>2, <3>1
    <3>3. l.rest[i] = l.prior[j]
      BY <1>2, <3>2
    <3> QED BY <1>3, <1>5, <3>3
  <2> QED BY <1>1, <1>2, <2>1, <2>2
<1>8. \A x : x \in ToSet(l.prior) <=> \E i \in 1 .. Len(l.prior) : l.prior[i] = x
  BY <1>1, ToSetIs
<1>9. ToSet(l.rest) \in SUBSET ToSet(l.prior)
  <2>1. ASSUME NEW i \in 1 .. Len(l.rest)
        PROVE  l.rest[i] \in ToSet(l.prior)
    <3>1. PICK j \in 1 .. Len(l.prior) : j = a + i
      BY <1>1, <1>2
    <3> QED BY <1>2, <1>8, <3>1
  <2> QED BY <1>3, <2>1
<1>10. Fits(made, l.prior)
  <2>1. ASSUME NEW i \in 1 .. Len(l.prior), l.prior[i] = made.through
        PROVE  i = Len(l.prior)
    <3>1. DOMAIN l.prior = 1 .. Len(l.prior)
      BY <1>1
    <3> QED BY <1>5, <1>6, <2>1, <3>1 DEF IsInjective
  <2>2. ASSUME NEW i \in 1 .. Len(l.prior), l.prior[i] = made.through,
               NEW j \in 1 .. Len(l.prior)
        PROVE  l.prior[j] \in made.covers <=> j <= i
    BY <1>1, <1>7, <2>1, <2>2
  <2> QED BY <2>2 DEF Fits
<1>11a. PICK none : none = <<>>
  OBVIOUS
<1>11. none = <<>> /\ none \in Seq(Runs) /\ Len(none) = 0
  BY <1>11a
<1>12. n = [l EXCEPT !.said = made.covers, !.anchor = made.through, !.rest = none]
  BY <1>11
<1>13. made.covers \in SUBSET Runs /\ made.through \in Runs
  BY <1>5 DEF Folds
<1>14. n \in Loops /\ n.said = made.covers /\ n.rest = none /\ n.prior = l.prior
  BY <1>11, <1>12, <1>13 DEF Loops
<1>15. Told(n)
  <2>1. PICK b \in 0 .. Len(l.prior) : b = Len(l.prior)
    BY <1>1
  <2>2. Len(none) = Len(l.prior) - b
    BY <1>1, <1>11, <2>1
  <2>3. \A i \in 1 .. Len(none) : none[i] = l.prior[b + i]
    BY <1>11
  <2>4. \A j \in 1 .. Len(l.prior) : l.prior[j] \in made.covers <=> j <= b
    BY <1>7, <2>1
  <2> QED BY <1>14, <2>2, <2>3, <2>4 DEF Told
<1> QED BY <1>5, <1>9, <1>10, <1>14, <1>15

LEMMA FitsBefore ==
    ASSUME NEW X, NEW runs \in Seq(X), NEW r \in X, NEW f, Fits(f, Append(runs, r))
    PROVE  Fits(f, runs)
<1>1. PICK d : d = Append(runs, r)
  OBVIOUS
<1>2. Len(d) = Len(runs) + 1 /\ (\A i \in 1 .. Len(runs) : d[i] = runs[i]) /\ Len(runs) \in Nat
  BY <1>1, AppendIs
<1>3. \A i \in 1 .. Len(runs) : i \in 1 .. Len(d)
  BY <1>2
<1> QED BY <1>1, <1>2, <1>3 DEF Fits

\* What a loop tells while it runs, as a request leaves it.
Tells(s, n) ==
    /\ n \in Loops /\ Told(n) /\ n.at = "running" /\ n.run = loop[s].run
    /\ n.prior = loop[s].prior /\ n.whole = loop[s].whole
    /\ n.said \in SUBSET minted /\ n.run \notin n.said

LEMMA AskTells ==
    ASSUME ConvInv, TellInv, NEW s \in Sessions, NEW due \in BOOLEAN, Ask(s, due)
    PROVE  TellInv'
<1> DEFINE l == loop[s]
           present == ToSet(l.rest) \cup ({l.anchor} \ {NoRun})
           fold == {f \in InForce(staged[s].folds, present) : f.through # l.anchor}
           Apply(f) == [l EXCEPT !.said = f.covers, !.anchor = f.through,
                                 !.rest = SubSeq(@, After(l.rest, f.through) + 1, Len(@))]
           seen == IF fold = {} THEN l ELSE Apply(CHOOSE f \in fold : TRUE)
           made == FoldOf(seen.said, seen.rest)
<1>1. /\ At(s, "running") /\ l.whole
      /\ IF due /\ seen.rest # <<>>
         THEN /\ Leave(s, [staged[s] EXCEPT !.folds = Append(@, made)])
              /\ loop' = [loop EXCEPT ![s] = [seen EXCEPT !.said = made.covers,
                                                !.anchor = made.through, !.rest = <<>>]]
         ELSE /\ loop' = [loop EXCEPT ![s] = seen]
              /\ UNCHANGED <<staged, commits, head>>
      /\ UNCHANGED <<minted, unstored>>
  BY DEF Ask, After
<1> HIDE DEF seen, made
<1>2. ~At(s, "idle")
  BY <1>1 DEF At
<1>3. /\ GoodIn(staged[s], minted) /\ Owned(staged[s], s) /\ LoopOK(l, minted) /\ l \in Loops
      /\ Live(s) /\ loop \in [Sessions -> Loops] /\ StoreOK /\ l.run \in Runs
      /\ FoldsFit(staged[s], minted) /\ LoopTells(l, staged[s], minted)
      /\ Known(s) = ReadIndex(staged[s].kv).runs
  BY <1>2, LoopUse, StoreUse DEF LoopsOK, TellInv, Known, IndexOf
<1>4. /\ l.at = "running" /\ l.run = loop[s].run /\ l.prior = loop[s].prior
      /\ l.whole = loop[s].whole
  BY <1>1 DEF At
<1> HIDE DEF l
<1>5. /\ Told(l) /\ l.run \notin l.said /\ l.run \notin ToSet(l.prior) /\ IsInjective(l.prior)
      /\ l.said \in SUBSET minted /\ Known(s) \in {l.prior, Append(l.prior, l.run)}
      /\ \A f \in ToSet(staged[s].folds) : l.run \notin f.covers
      /\ l.prior \in Seq(Runs) /\ ToSet(l.prior) \in SUBSET minted
  BY <1>1, <1>3, <1>4 DEF LoopTells, Loops, LoopOK
<1>6. staged[s] \in [kv : KvType, folds : Seq(Folds), files : SUBSET Runs]
  BY <1>3 DEF GoodIn, Contents
<1>7. Tells(s, seen)
  <2>1. CASE fold = {}
    BY <1>3, <1>4, <1>5, <2>1 DEF seen, Tells
  <2>2. CASE fold # {}
    <3>1. PICK f : f = CHOOSE g \in fold : TRUE
      OBVIOUS
    <3>2. f \in fold
      BY <2>2, <3>1
    <3>3. \A i \in DOMAIN staged[s].folds : /\ staged[s].folds[i] \in Folds
                                            /\ staged[s].folds[i] \in ToSet(staged[s].folds)
      BY <1>6, ToSetIs
    <3>4. f \in Folds /\ f \in ToSet(staged[s].folds) /\ f.through \in present
      BY <3>2, <3>3 DEF InForce
    <3>5. f.through \in ToSet(l.rest)
      BY <3>2, <3>4
    <3>6. f.covers \in SUBSET minted /\ Fits(f, Known(s)) /\ l.run \notin f.covers
      BY <1>3, <1>5, <3>4 DEF FoldsFit
    <3>7. Fits(f, l.prior)
      BY <1>3, <1>5, <3>6, FitsBefore
    <3>8. seen = Apply(f)
      BY <2>2, <3>1 DEF seen
    <3>9. seen \in Loops /\ Told(seen)
      BY <1>3, <1>5, <3>4, <3>5, <3>7, <3>8, FoldTold
    <3>10. PICK rest : seen = [l EXCEPT !.said = f.covers, !.anchor = f.through, !.rest = rest]
      BY <3>8
    <3>11. /\ seen.said = f.covers /\ seen.at = l.at /\ seen.run = l.run /\ seen.prior = l.prior
           /\ seen.whole = l.whole
      BY <1>3, <3>10 DEF Loops
    <3> QED BY <1>4, <3>6, <3>9, <3>11 DEF Tells
  <2> QED BY <2>1, <2>2
<1>8. ASSUME NEW n, Tells(s, n), NEW c, c.kv = staged[s].kv, GoodIn(c, minted),
             FoldsFit(c, minted), \A f \in ToSet(c.folds) : l.run \notin f.covers,
             Leave(s, c), loop' = [loop EXCEPT ![s] = n]
      PROVE  TellInv'
  <2>1. loop'[s] = n /\ \A t \in Sessions : t # s => loop'[t] = loop[t]
    BY <1>3, <1>8
  <2>2. Owned(c, s) /\ ReadIndex(c.kv).runs = Known(s) /\ Puts(s, c) /\ minted' = minted
    BY <1>1, <1>3, <1>8 DEF Owned, Puts
  <2>3. LoopTells(n, c, minted)
    BY <1>4, <1>5, <1>8, <2>2 DEF LoopTells, Tells
  <2> QED BY <1>3, <1>8, <2>1, <2>2, <2>3, PutTells
<1>9. CASE due /\ seen.rest # <<>>
  <2>1. /\ seen \in Loops /\ Told(seen) /\ seen.prior = l.prior /\ seen.said \in SUBSET minted
        /\ seen.run = l.run /\ l.run \notin seen.said /\ seen.at = "running"
        /\ seen.whole = l.whole
    BY <1>4, <1>7 DEF Tells
  <2>2. PICK n : n = [seen EXCEPT !.said = made.covers, !.anchor = made.through, !.rest = <<>>]
    OBVIOUS
  <2>3. /\ made \in Folds /\ made.through \in made.covers
        /\ made.covers \in SUBSET (seen.said \cup ToSet(l.prior))
        /\ Fits(made, l.prior) /\ n \in Loops /\ Told(n)
    BY <1>5, <1>9, <2>1, <2>2, MadeTold DEF made
  <2>4. n.said = made.covers /\ n.at = seen.at /\ n.run = seen.run /\ n.prior = seen.prior
        /\ n.whole = seen.whole
    BY <2>1, <2>2 DEF Loops
  <2>5. made.covers \in SUBSET minted /\ l.run \notin made.covers
    BY <1>5, <2>1, <2>3
  <2>6. Tells(s, n)
    BY <1>4, <2>1, <2>3, <2>4, <2>5 DEF Tells
  <2>7. Fits(made, Known(s))
    <3>1. PICK known : known = Append(l.prior, l.run)
      OBVIOUS
    <3>2. Fits(made, known)
      BY <1>3, <1>5, <2>3, <2>5, <3>1, FitsAppend
    <3> QED BY <1>5, <2>3, <3>1, <3>2
  <2>8a. PICK old, folds : old = staged[s].folds /\ folds = Append(old, made)
    OBVIOUS
  <2>8b. old \in Seq(Folds)
    BY <1>6, <2>8a
  <2>8. /\ folds = Append(staged[s].folds, made) /\ folds \in Seq(Folds)
        /\ ToSet(folds) = ToSet(staged[s].folds) \cup {made}
    BY <2>3, <2>8a, <2>8b, AppendIs
  <2>9. PICK c : c = [staged[s] EXCEPT !.folds = folds]
    OBVIOUS
  <2>10. /\ c.kv = staged[s].kv /\ c.files = staged[s].files /\ c \in Contents
         /\ c.folds = folds
    BY <1>6, <2>8, <2>9 DEF Contents
  <2>11. GoodIn(c, minted)
    BY <1>3, <2>10 DEF GoodIn, RunsIn
  <2>12. FoldsFit(c, minted)
    BY <1>3, <2>3, <2>5, <2>7, <2>8, <2>10 DEF FoldsFit
  <2>13. \A f \in ToSet(c.folds) : l.run \notin f.covers
    BY <1>5, <2>5, <2>8, <2>10
  <2>14. Leave(s, c) /\ loop' = [loop EXCEPT ![s] = n]
    BY <1>1, <1>9, <2>2, <2>8, <2>9
  <2> QED BY <1>8, <2>6, <2>10, <2>11, <2>12, <2>13, <2>14
<1>10. CASE ~(due /\ seen.rest # <<>>)
  <2>1. loop' = [loop EXCEPT ![s] = seen] /\ UNCHANGED <<staged, commits, head>>
    BY <1>1, <1>10
  <2>2. Leave(s, staged[s])
    BY <1>2, <2>1, LoopUse, StillStaged
  <2> QED BY <1>3, <1>5, <1>7, <1>8, <2>1, <2>2
<1> QED BY <1>9, <1>10

-----------------------------------------------------------------------------
(* A run begins *)

LEMMA BeginTells ==
    ASSUME ConvInv, TellInv, NEW s \in Sessions, NEW r \in Runs, NEW n \in ReadLimits,
           NEW turn \in BOOLEAN, BeginRun(s, r, n, turn)
    PROVE  TellInv'
<1>1. PICK c : Begun(s, c)
  BY BeginPuts
<1>2. /\ Live(s) /\ r \notin minted /\ minted' = minted \cup {r}
      /\ \E kv : Puts(s, [staged[s] EXCEPT !.kv = kv])
  BY DEF BeginRun, Puts
<1>3. /\ StoreOK /\ LoopsOK /\ minted \in SUBSET Runs /\ loop \in [Sessions -> Loops]
      /\ minted \in SUBSET minted'
  BY <1>2, StagedUse DEF LoopsOK
<1>4. /\ Puts(s, c) /\ GoodIn(c, minted) /\ GoodIn(c, minted') /\ Owned(c, s)
      /\ ReadIndex(c.kv).runs = Known(s)
  BY <1>1, <1>3, GoodAmongMore DEF Begun
<1>5. staged'[s] = c
  BY <1>2, <1>3, <1>4, PutOK, PutIs
<1>6. staged'[s].folds = staged[s].folds
  BY <1>2, <1>3, PutFolds, WriteFolds
<1>7. c.folds = staged[s].folds
  BY <1>5, <1>6
<1>8. /\ GoodIn(staged[s], minted) /\ FoldsFit(staged[s], minted)
      /\ ReadIndex(staged[s].kv).runs = Known(s)
      /\ Known(s) \in Seq(Runs) /\ IsInjective(Known(s)) /\ ToSet(Known(s)) \in SUBSET minted
  BY <1>3, StoreUse, KnownIs DEF TellInv, Known, IndexOf
<1>9. FoldsFit(c, minted)
  BY <1>4, <1>7, <1>8, FoldsFitOn
<1>10a. PICK first : first = IF Len(Known(s)) > n THEN Len(Known(s)) - n + 1 ELSE 1
  OBVIOUS
<1>10b. PICK prior : prior = SubSeq(Known(s), first, Len(Known(s)))
  OBVIOUS
<1>10c. PICK whole \in BOOLEAN : whole = (prior = Known(s))
  OBVIOUS
<1>10d. PICK new : new = [at |-> "running", run |-> r, prior |-> prior, turn |-> turn,
                          whole |-> whole, said |-> {}, anchor |-> NoRun, rest |-> prior]
  OBVIOUS
<1>10e. loop' = [loop EXCEPT ![s] = [at |-> "running", run |-> r, prior |-> prior,
                                     turn |-> turn, whole |-> prior = Known(s), said |-> {},
                                     anchor |-> NoRun, rest |-> prior]]
  BY <1>10a, <1>10b DEF BeginRun, Known
<1>10. loop' = [loop EXCEPT ![s] = new]
  BY <1>10c, <1>10d, <1>10e
<1>11. loop'[s] = new /\ \A t \in Sessions : t # s => loop'[t] = loop[t]
  BY <1>3, <1>10
<1>12a. PICK known \in Seq(Runs) : known = Known(s)
  BY <1>8
<1>12b. PICK last \in Nat : last = Len(known)
  OBVIOUS
<1>12. known = Known(s) /\ last = Len(known) /\ known \in Seq(Runs)
  BY <1>12a, <1>12b
<1>13. first \in Nat \ {0} /\ known \in Seq(Runs) /\ DOMAIN known = 1 .. last
  <2>1. n \in Nat \ {0}
    BY LimitAssumption DEF LimitAssumption
  <2> QED BY <1>8, <1>10a, <1>12, <2>1
<1>14. /\ prior \in Seq(Runs) /\ Len(prior) \in Nat
       /\ Len(prior) = IF first <= last THEN last - first + 1 ELSE 0
       /\ \A i \in 1 .. Len(prior) : prior[i] = known[first + i - 1]
  BY <1>10b, <1>12, <1>13, SubSeqIs
<1>15. \A i \in 1 .. Len(prior) : first + i - 1 \in 1 .. last
  BY <1>12, <1>13, <1>14
<1>16. IsInjective(prior) /\ ToSet(prior) \in SUBSET ToSet(known)
  <2>1. ASSUME NEW i \in 1 .. Len(prior), NEW j \in 1 .. Len(prior), prior[i] = prior[j]
        PROVE  i = j
    <3>1. first + i - 1 = first + j - 1
      BY <1>8, <1>12, <1>13, <1>14, <1>15, <2>1 DEF IsInjective
    <3> QED BY <1>13, <3>1
  <2>2. ASSUME NEW i \in 1 .. Len(prior)
        PROVE  prior[i] \in ToSet(known)
    <3>1. PICK j \in 1 .. last : j = first + i - 1
      BY <1>15
    <3>2. prior[i] = known[j]
      BY <1>14, <3>1
    <3> QED BY <1>12, <3>1, <3>2, ToSetIs
  <2>3. DOMAIN prior = 1 .. Len(prior)
    BY <1>14
  <2> QED BY <1>14, <2>1, <2>2, <2>3, ToSetIs DEF IsInjective
<1>17. r \notin ToSet(prior)
  BY <1>2, <1>8, <1>12, <1>16
<1>18. /\ new.at = "running" /\ new.run = r /\ new.prior = prior /\ new.said = {}
       /\ new.rest = prior /\ new.whole = whole
  BY <1>10d
<1>19. Told(new)
  <2>1. PICK a \in 0 .. Len(prior) : a = 0
    BY <1>14
  <2>2. /\ Len(prior) = Len(prior) - a
        /\ \A i \in 1 .. Len(prior) : prior[i] = prior[a + i]
        /\ \A j \in 1 .. Len(prior) : prior[j] \in {} <=> j <= a
    BY <1>14, <2>1
  <2> QED BY <1>18, <2>1, <2>2 DEF Told
<1>20. \A f \in ToSet(c.folds) : r \notin f.covers
  BY <1>2, <1>9 DEF FoldsFit
<1>21. whole => ReadIndex(c.kv).runs \in {prior, Append(prior, r)}
  BY <1>4, <1>10c
<1>22. LoopTells(new, c, minted')
  BY <1>16, <1>17, <1>18, <1>19, <1>20, <1>21 DEF LoopTells
<1> QED BY <1>2, <1>3, <1>4, <1>9, <1>11, <1>22, FoldsFitMore, PutTells

-----------------------------------------------------------------------------
(* What others do to an idle branch *)

LEMMA OutsideTells ==
    ASSUME ConvInv, TellInv, NEW s \in Sessions, At(s, "idle"), NEW c, OtherStep(s, c),
           FromOwn(s, c)
    PROVE  TellInv'
<1>1. /\ Puts(s, c) /\ GoodIn(c, minted') /\ Owned(c, s) /\ Live(s)
      /\ minted \in SUBSET minted' /\ loop' = loop
  BY DEF OtherStep
<1>2. StoreOK
  BY DEF ConvInv
<1>3. PICK old \in PastHolds(s) \cup {staged[s]} : Carries(c, old)
  BY DEF FromOwn
<1>4. GoodIn(old, minted) /\ FoldsFit(old, minted)
  <2>1. CASE old = staged[s]
    BY <1>2, <2>1, StoreUse DEF TellInv
  <2>2. CASE old \in PastHolds(s)
    <3>1. \E i \in 1 .. Len(commits) : old = commits[i].holds
      BY <1>2, <2>2, PastUse DEF PastHolds
    <3> QED BY <1>2, <2>2, <3>1, PastUse DEF TellInv
  <2> QED BY <1>3, <2>1, <2>2
<1>5. c.folds = old.folds
  BY <1>3 DEF Carries
<1>6. FoldsFit(c, minted)
  <2>1. CASE ReadIndex(c.kv).runs \in {ReadIndex(old.kv).runs, <<>>}
    BY <1>4, <1>5, <2>1, FoldsFitOn
  <2>2. ASSUME NEW r \in Runs, ReadIndex(c.kv).runs = Without(ReadIndex(old.kv).runs, r)
        PROVE  FoldsFit(c, minted)
    BY <1>4, <1>5, <2>2, FoldsFitOn
  <2>3. ASSUME NEW r \in Runs \ minted, ReadIndex(c.kv).runs = Append(ReadIndex(old.kv).runs, r)
        PROVE  FoldsFit(c, minted)
    <3>1. \A f \in ToSet(old.folds) : r \notin f.covers
      BY <1>4, <2>3 DEF FoldsFit
    <3> QED BY <1>4, <1>5, <2>3, <3>1, FoldsFitOn
  <2> QED BY <1>3, <2>1, <2>2, <2>3 DEF Carries
<1>7. LoopTells(loop'[s], c, minted')
  BY <1>1 DEF LoopTells, At
<1> QED BY <1>1, <1>6, <1>7, FoldsFitMore, PutTells

-----------------------------------------------------------------------------
(* A fork, and the host's end *)

LogFits(log) == \A i \in 1 .. Len(log) : FoldsFit(log[i].holds, minted)

LEMMA ExtendFits ==
    ASSUME NEW base, BranchOK(base, minted), LogFits(base.log),
           NEW c, GoodIn(c, minted), FoldsFit(c, minted), NEW b, b = Extend(base, c)
    PROVE  LogFits(b.log) /\ BranchOK(b, minted)
<1>1. BranchOK(b, minted) /\ Extended(b, base, c)
  BY ExtendIs
<1>2. Len(base.log) \in Nat
  BY DEF BranchOK, LogOK
<1>3. ASSUME NEW i \in 1 .. Len(b.log)
      PROVE  (i \in 1 .. Len(base.log) /\ b.log[i] = base.log[i]) \/ b.log[i].holds = c
  BY <1>1, <1>2 DEF Extended
<1> QED BY <1>1, <1>3 DEF LogFits

LEMMA SeededFits ==
    ASSUME NEW base, BranchOK(base, minted), LogFits(base.log), NEW k \in Sessions,
           NEW inherit \in Inheritances, NEW b, b = Seeded(base, k, inherit)
    PROVE  LogFits(b.log)
<1>1. PICK c, rebound : c = base.log[base.head].holds /\ rebound = Rebound(c, k)
  OBVIOUS
<1>2. GoodIn(c, minted) /\ FoldsFit(c, minted)
  BY <1>1 DEF BranchOK, LogOK, LogFits
<1>3. /\ GoodIn(rebound, minted) /\ Owned(rebound, k) /\ rebound.folds = c.folds
      /\ ReadIndex(rebound.kv).runs = ReadIndex(c.kv).runs
  BY <1>1, <1>2, ReboundIs
<1>4. FoldsFit(rebound, minted)
  BY <1>2, <1>3, FoldsFitOn
<1>5. ASSUME NEW d, d.folds = <<>>
      PROVE  FoldsFit(d, minted)
  BY <1>5, NoneIn DEF FoldsFit
<1>6. CASE inherit = "full"
  <2>1. b = Extend(base, rebound)
    BY <1>1, <1>6 DEF Seeded
  <2> QED BY <1>3, <1>4, <2>1, ExtendFits
<1>7. CASE inherit = "fresh"
  <2>1. PICK wiped : wiped = Wiped(c)
    OBVIOUS
  <2>2. b = Extend(base, wiped)
    BY <1>1, <1>7, <2>1 DEF Seeded
  <2>3. GoodIn(wiped, minted) /\ FoldsFit(wiped, minted)
    BY <1>2, <1>5, <2>1, WipedIs
  <2> QED BY <2>2, <2>3, ExtendFits
<1>8. CASE inherit = "fresh-session"
  <2>1. PICK mid, emptied : mid = Extend(base, rebound) /\ emptied = Emptied(rebound)
    OBVIOUS
  <2>2. b = Extend(mid, emptied)
    BY <1>1, <1>8, <2>1 DEF Seeded
  <2>3. GoodIn(emptied, minted) /\ FoldsFit(emptied, minted)
    BY <1>3, <1>5, <2>1, EmptiedIs
  <2>4. LogFits(mid.log) /\ BranchOK(mid, minted)
    BY <1>3, <1>4, <2>1, ExtendFits
  <2> QED BY <2>2, <2>3, <2>4, ExtendFits
<1> QED BY <1>6, <1>7, <1>8 DEF Inheritances

LEMMA ForkTells ==
    ASSUME ConvInv, TellInv, NEW p \in Sessions, NEW k \in Sessions,
           NEW at \in 0 .. Len(commits), NEW inherit \in Inheritances, Fork(p, k, at, inherit)
    PROVE  TellInv'
<1>1. PICK own, base, child :
         /\ own = Extend(Branch(head[p]), staged[p])
         /\ base = IF at = 0 THEN own ELSE Branch(at)
         /\ child = Seeded(base, k, inherit)
  OBVIOUS
<1>2. /\ Live(p) /\ ~Live(k) /\ at \in {0} \cup Past[head[p]] /\ commits' = child.log
  BY <1>1 DEF Fork
<1>3. Forked(p, k)
  BY ForkIs
<1>4. /\ StoreOK /\ LoopsOK /\ BranchOK(Branch(head[p]), minted) /\ GoodIn(staged[p], minted)
      /\ LogOK(commits, minted) /\ FoldsFit(staged[p], minted) /\ LogFits(commits)
      /\ staged \in [Sessions -> Contents]
  BY <1>2, StoreUse DEF ConvInv, StoreOK, TellInv, LogFits
<1>5. LogFits(own.log) /\ BranchOK(own, minted)
  BY <1>1, <1>4, BranchIs, ExtendFits
<1>6. LogFits(base.log) /\ BranchOK(base, minted)
  <2>1. CASE at = 0
    BY <1>1, <1>5, <2>1
  <2>2. CASE at # 0
    <3>1. base.log = commits /\ base.head = at
      BY <1>1, <2>2, BranchIs
    <3> QED BY <1>4, <2>2, <3>1 DEF BranchOK
  <2> QED BY <2>1, <2>2
<1>7. LogFits(commits')
  BY <1>1, <1>2, <1>6, SeededFits
<1>8. /\ minted' = minted /\ loop' = loop /\ head'[k] \in 1 .. Len(commits')
      /\ \A t \in Sessions : staged'[t] = IF t = k THEN commits'[head'[k]].holds ELSE staged[t]
  BY <1>3, <1>4 DEF Forked
<1>9. At(k, "idle")
  BY <1>2, <1>4 DEF LoopsOK
<1>10. ASSUME NEW t \in Sessions
       PROVE  FoldsFit(staged'[t], minted') /\ LoopTells(loop'[t], staged'[t], minted')
  <2>1. CASE t = k
    BY <1>7, <1>8, <1>9, <2>1 DEF LogFits, LoopTells, At
  <2>2. CASE t # k
    BY <1>8, <2>2 DEF TellInv
  <2> QED BY <2>1, <2>2
<1> QED BY <1>7, <1>8, <1>10 DEF LogFits, TellInv

LEMMA CrashTells ==
    ASSUME ConvInv, TellInv, Crash
    PROVE  TellInv'
<1>1. /\ staged' = [s \in Sessions |-> IF Live(s) THEN HeadOf(s) ELSE staged[s]]
      /\ loop' = [s \in Sessions |-> Idle] /\ commits' = commits /\ minted' = minted
  BY DEF Crash
<1>2. ASSUME NEW s \in Sessions
      PROVE  FoldsFit(staged'[s], minted') /\ LoopTells(loop'[s], staged'[s], minted')
  <2>1. staged'[s] = staged[s] \/ (Live(s) /\ staged'[s] = HeadOf(s))
    BY <1>1
  <2>2. Live(s) => FoldsFit(HeadOf(s), minted)
    BY StoreUse DEF ConvInv, TellInv, HeadOf
  <2>3. loop'[s].at = "idle"
    BY <1>1, IdleOK
  <2> QED BY <1>1, <2>1, <2>2, <2>3 DEF TellInv, LoopTells
<1> QED BY <1>1, <1>2 DEF TellInv

LEMMA InitTells ==
    ASSUME Init
    PROVE  TellInv
<1>1. PICK c : FirstHolds(c)
  BY FirstIs
<1>2. /\ commits = <<[holds |-> c, parent |-> 0]>> /\ minted = ToSet(Earlier)
      /\ staged = [s \in Sessions |-> IF s = First THEN c ELSE Empty]
      /\ loop = [s \in Sessions |-> Idle]
      /\ ReadIndex(c.kv).runs = Earlier
      /\ c.folds = IF Folded = 0 THEN <<>> ELSE
             <<[through |-> Earlier[Folded], covers |-> ToSet(SubSeq(Earlier, 1, Folded))]>>
  BY <1>1 DEF FirstHolds, Init
<1>3. FoldsFit(c, minted)
  <2>1. CASE Folded = 0
    BY <1>2, <2>1, NoneIn DEF FoldsFit
  <2>2. CASE Folded # 0
    <3>1. /\ Earlier \in Seq(Runs) /\ Folded \in 1 .. Len(Earlier) /\ Len(Earlier) \in Nat
          /\ DOMAIN Earlier = 1 .. Len(Earlier)
          /\ \A i, j \in 1 .. Len(Earlier) : Earlier[i] = Earlier[j] => i = j
      BY <2>2, EarlierAssumption DEF EarlierAssumption, IsInjective
    <3>2a. PICK k \in Nat : k = Folded
      BY <3>1
    <3>2. PICK sub : sub = SubSeq(Earlier, 1, k) /\ k = Folded
      BY <3>2a
    <3>3. /\ sub \in Seq(Runs) /\ Len(sub) = k /\ \A i \in 1 .. k : sub[i] = Earlier[i]
      BY <3>1, <3>2, SubSeqIs
    <3>4. \A x : x \in ToSet(sub) <=> \E i \in 1 .. k : Earlier[i] = x
      BY <3>3, ToSetIs
    <3>5. PICK f : f = [through |-> Earlier[k], covers |-> ToSet(sub)]
      OBVIOUS
    <3>6. c.folds = <<f>> /\ f.through = Earlier[k] /\ f.covers = ToSet(sub)
      BY <1>2, <2>2, <3>2, <3>5
    <3>7. ToSet(c.folds) = {f}
      BY <3>6 DEF ToSet
    <3>8. ToSet(sub) \in SUBSET ToSet(Earlier) /\ Earlier[k] \in ToSet(sub)
      BY <3>1, <3>2, <3>4, ToSetIs
    <3>9. \A i \in 1 .. Len(Earlier) : Earlier[i] \in ToSet(sub) <=> i <= k
      BY <3>1, <3>2, <3>4
    <3>10. Fits(f, Earlier)
      BY <3>1, <3>2, <3>6, <3>9 DEF Fits
    <3> QED BY <1>2, <3>6, <3>7, <3>8, <3>10 DEF FoldsFit
  <2> QED BY <2>1, <2>2
<1>4. FoldsFit(Empty, minted)
  <2>1. Empty.folds = <<>>
    BY DEF Empty
  <2> QED BY <2>1, NoneIn DEF FoldsFit
<1>5. /\ Len(commits) = 1 /\ commits[1].holds = c
  BY <1>2
<1>6. ASSUME NEW s \in Sessions
      PROVE  FoldsFit(staged[s], minted) /\ LoopTells(loop[s], staged[s], minted)
  BY <1>2, <1>3, <1>4, IdleOK DEF LoopTells
<1> QED BY <1>3, <1>5, <1>6 DEF TellInv

LEMMA StillTells ==
    ASSUME TellInv, vars' = vars
    PROVE  TellInv'
BY DEF TellInv, vars

-----------------------------------------------------------------------------
(* What a quiet conversation tells *)

LEMMA HandTells ==
    ASSUME ConvInv, TellInv, NEW s \in Sessions, NEW c, HandStep(s, c)
    PROVE  TellInv'
<1>1. staged' = staged /\ loop' = loop /\ minted' = minted /\ StoreOK /\ Live(s)
  BY DEF HandStep, ConvInv
<1>2. PICK old \in {HeadOf(s), staged[s]} : c.kv = old.kv /\ c.folds = old.folds
  BY DEF HandStep
<1>3. GoodIn(old, minted) /\ FoldsFit(old, minted)
  BY <1>1, <1>2, StoreUse DEF TellInv, HeadOf
<1>4. FoldsFit(c, minted)
  BY <1>2, <1>3, FoldsFitOn
<1>5. \A i \in 1 .. Len(commits') :
         (i \in 1 .. Len(commits) /\ commits'[i] = commits[i]) \/ commits'[i].holds = c
  BY <1>1, HandPuts
<1>6. \A i \in 1 .. Len(commits') : FoldsFit(commits'[i].holds, minted')
  BY <1>1, <1>4, <1>5 DEF TellInv
<1> QED BY <1>1, <1>6 DEF TellInv

LEMMA QuietTells ==
    ASSUME ConvInv, TellInv, [QuietNext]_vars
    PROVE  TellInv'
<1>1. ASSUME NEW s \in Sessions, ByItsLoop(s)
      PROVE  TellInv'
  BY <1>1, BeginTells, LoopTellsStep, AskTells DEF ByItsLoop
<1>2. ASSUME NEW s \in Sessions, At(s, "idle"), FromOutside(s)
      PROVE  TellInv'
  <2>1. \E c : OtherStep(s, c) /\ FromOwn(s, c)
    BY <1>2, DeleteRunStep, DeleteSessionStep, DiscardStep, CheckoutStep DEF FromOutside
  <2> QED BY <1>2, <2>1, OutsideTells
<1>3. ASSUME NEW s \in Sessions, NEW r \in Runs, Seed(s, r)
      PROVE  TellInv'
  <2>1. At(s, "idle") /\ \E c : OtherStep(s, c) /\ FromOwn(s, c)
    BY <1>3, SeedStep DEF Seed
  <2> QED BY <2>1, OutsideTells
<1>4. ASSUME NEW s \in Sessions, Starts(s)
      PROVE  TellInv'
  BY <1>3, <1>4, ForkTells DEF Starts
<1>5. ASSUME NEW s \in Sessions, ByHand(s)
      PROVE  TellInv'
  BY <1>5, HandIs, HandTells
<1> QED BY <1>1, <1>2, <1>4, <1>5, CrashTells, StillTells DEF QuietNext

\* What the model is sent stands for every earlier run once, through folds on
\* folds, deletes, checkouts and forks between the loops, and a host that ends
\* (Ask, FoldOf).
THEOREM EarlierRunsAreToldHolds == QuietSpec => []EarlierRunsAreTold
<1>1. Init => ConvInv /\ TellInv
  BY InitOK, InitTells
<1>2. (ConvInv /\ TellInv) /\ [QuietNext]_vars => (ConvInv /\ TellInv)'
  <2> SUFFICES ASSUME ConvInv, TellInv, [QuietNext]_vars
               PROVE  ConvInv' /\ TellInv'
    OBVIOUS
  <2>1. [Next]_vars
    BY DEF QuietNext, Next
  <2> QED BY <2>1, StepKeeps, QuietTells
<1>3. ConvInv /\ TellInv => EarlierRunsAreTold
  <2> SUFFICES ASSUME ConvInv, TellInv, NEW s \in Sessions, At(s, "running")
               PROVE  /\ ToSet(loop[s].prior) \subseteq loop[s].said \cup ToSet(loop[s].rest)
                      /\ loop[s].said \cap ToSet(loop[s].rest) = {}
    BY DEF EarlierRunsAreTold
  <2>1. PICK l : l = loop[s]
    OBVIOUS
  <2>2. l \in Loops /\ Told(l)
    BY <2>1 DEF TellInv, LoopTells, At, ConvInv, LoopsOK
  <2>3. /\ l.prior \in Seq(Runs) /\ l.rest \in Seq(Runs) /\ Len(l.prior) \in Nat
        /\ Len(l.rest) \in Nat
    BY <2>2 DEF Loops
  <2>4. PICK a \in 0 .. Len(l.prior) :
           /\ Len(l.rest) = Len(l.prior) - a
           /\ \A i \in 1 .. Len(l.rest) : l.rest[i] = l.prior[a + i]
           /\ \A j \in 1 .. Len(l.prior) : l.prior[j] \in l.said <=> j <= a
    BY <2>2 DEF Told
  <2>5. /\ \A x : x \in ToSet(l.prior) <=> \E i \in 1 .. Len(l.prior) : l.prior[i] = x
        /\ \A x : x \in ToSet(l.rest) <=> \E i \in 1 .. Len(l.rest) : l.rest[i] = x
    BY <2>3, ToSetIs
  <2>6. ASSUME NEW j \in 1 .. Len(l.prior), j > a
        PROVE  l.prior[j] \in ToSet(l.rest)
    <3>1. PICK i \in 1 .. Len(l.rest) : i = j - a
      BY <2>3, <2>4, <2>6
    <3>2. a + i = j
      BY <2>3, <2>4, <3>1
    <3> QED BY <2>4, <2>5, <3>2
  <2>7. \A j \in 1 .. Len(l.prior) : l.prior[j] \in l.said \cup ToSet(l.rest)
    BY <2>3, <2>4, <2>6
  <2>8. ASSUME NEW i \in 1 .. Len(l.rest)
        PROVE  l.rest[i] \notin l.said
    <3>1. PICK j \in 1 .. Len(l.prior) : j = a + i
      BY <2>3, <2>4
    <3>2. j > a
      BY <2>3, <2>4, <3>1
    <3> QED BY <2>3, <2>4, <3>1, <3>2
  <2> QED BY <2>1, <2>5, <2>7, <2>8
<1> QED BY <1>1, <1>2, <1>3, PTL DEF QuietSpec
=============================================================================
