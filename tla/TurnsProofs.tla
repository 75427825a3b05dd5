---------------------------- MODULE TurnsProofs ----------------------------
(***************************************************************************)
(* What the inbox and the turn guarantee for any number of delivering      *)
(* threads, sources, notes and turns, in every order of their steps: no    *)
(* note is lost, and of the notes whose delivery was left alone none is    *)
(* doubled, none that the model has read is told it again, and none is     *)
(* forgotten that the model has not read.                                  *)
(***************************************************************************)
EXTENDS Turns, WellFoundedInduction, TLAPS

-----------------------------------------------------------------------------
(* The inductive invariant *)

\* A sequence holds no note twice, those of K aside.
Once(s, K) == \A i, j \in DOMAIN s : s[i] = s[j] => i = j \/ s[i] \in K

\* A delivery's record goes with its step, and holds no note twice but the
\* disturbed ones K.  What the source it asks has minted is new.
Sound(d, K) ==
    /\ Once(d.notes, K) /\ Once(d.mine, K) /\ Once(d.stray, K)
    /\ ToSet(d.notes) \cap ToSet(d.mine) \subseteq K
    /\ ToSet(d.notes) \cap ToSet(d.stray) \subseteq K
    /\ ToSet(d.mine) \cap ToSet(d.stray) \subseteq K
    /\ ToSet(d.mine) \cap d.before = {}
    /\ d.pc = "idle" => d = Resting
    /\ d.pc # "minting" => d.mine = <<>> /\ d.before = {}
    /\ d.pc = "minting" => d.source <= Sources
    /\ d.pc \in {"attaching", "announcing"} => d.stray = <<>>

\* Every note minted is in a place, an undisturbed one in one place.
Placed ==
    /\ ToSet(pending) \cup ToSet(delivered) \cup settled \cup withdrawn = 1..minted
    /\ Once(pending, disturbed) /\ Once(delivered, disturbed)
    /\ ToSet(pending) \cap ToSet(delivered) \subseteq disturbed
    /\ (ToSet(pending) \cup ToSet(delivered)) \cap (settled \cup withdrawn) \subseteq disturbed
    /\ settled \cap withdrawn \subseteq disturbed

\* An undisturbed note is delivered when it is read or in the hands of one
\* delivery, and only then.
Shared ==
    /\ ToSet(delivered) \subseteq read \cup (UNION {Carried(c) : c \in Calls}) \cup disturbed
    /\ read \subseteq ToSet(delivered) \cup disturbed
    /\ \A c \in Calls : Carried(c) \subseteq ToSet(delivered) \cup disturbed
    /\ \A c \in Calls : read \cap Carried(c) \subseteq disturbed
    /\ \A c, d \in Calls : c # d => Carried(c) \cap Carried(d) \subseteq disturbed

\* A delivery has notes that were minted, and those of one that no model
\* reads are disturbed.
Handled ==
    \A c \in Calls :
       /\ Carried(c) \cup call[c].before \subseteq 1..minted
       /\ call[c].unread => Carried(c) \subseteq disturbed

\* Outside an open turn no delivery reaches a model, and what is settled was
\* read in an attempt that its turn's end kept.
Turning ==
    /\ phase # "open" => \A c \in Calls : UnderWay(c) => call[c].unread
    /\ phase = "none" => read = {}
    /\ phase = "settling" => read \subseteq kept
    /\ settled \subseteq kept \cup disturbed

TurnInv ==
    /\ TypeOK /\ Placed /\ Shared /\ Handled /\ Turning
    /\ \A c \in Calls : Sound(call[c], disturbed)

-----------------------------------------------------------------------------
(* Sequences of notes *)

LEMMA EmptyTyped == ASSUME NEW X PROVE <<>> \in Seq(X)
OBVIOUS

LEMMA EmptySet == ToSet(<<>>) = {}
BY DEF ToSet

LEMMA EmptyOnce == ASSUME NEW K PROVE Once(<<>>, K)
BY DEF Once

\* The empty sequence.
LEMMA EmptyHolds ==
  ASSUME NEW X, NEW e, e = <<>>
  PROVE  e \in Seq(X) /\ ToSet(e) = {} /\ \A K : Once(e, K)
BY EmptyTyped, EmptySet, EmptyOnce

\* What is held once stays so when more is let off.
LEMMA OnceStill ==
  ASSUME NEW s, NEW K, NEW L, K \subseteq L, Once(s, K)
  PROVE  Once(s, L)
BY DEF Once

\* What a sequence holds is what it has at its places.
LEMMA AtPlaces ==
  ASSUME NEW X, NEW a \in Seq(X)
  PROVE  \A x : x \in ToSet(a) <=> \E i \in 1..Len(a) : a[i] = x
<1>1. DOMAIN a = 1..Len(a)
  OBVIOUS
<1> QED BY <1>1 DEF ToSet

\* One sequence after another.
LEMMA Joined ==
  ASSUME NEW X, NEW a \in Seq(X), NEW b \in Seq(X), NEW K
  PROVE  /\ a \o b \in Seq(X)
         /\ ToSet(a \o b) = ToSet(a) \cup ToSet(b)
         /\ Once(a, K) /\ Once(b, K) /\ ToSet(a) \cap ToSet(b) \subseteq K => Once(a \o b, K)
<1>1. /\ a \o b \in Seq(X) /\ Len(a) \in Nat /\ Len(b) \in Nat
      /\ Len(a \o b) = Len(a) + Len(b)
      /\ DOMAIN a = 1..Len(a) /\ DOMAIN b = 1..Len(b) /\ DOMAIN (a \o b) = 1..Len(a) + Len(b)
  OBVIOUS
<1>2. \A i \in 1..Len(a) : i \in 1..Len(a) + Len(b) /\ (a \o b)[i] = a[i]
  BY <1>1
<1>3. \A i \in 1..Len(b) : Len(a) + i \in 1..Len(a) + Len(b) /\ (a \o b)[Len(a) + i] = b[i]
  BY <1>1
<1>4. \A i \in 1..Len(a) + Len(b) :
        i \in 1..Len(a) \/ \E j \in 1..Len(b) : i = Len(a) + j
  <2> TAKE i \in 1..Len(a) + Len(b)
  <2>1. i \in 1..Len(a) \/ (i - Len(a) \in 1..Len(b) /\ i = Len(a) + (i - Len(a)))
    BY <1>1
  <2> QED BY <2>1
<1>5. ToSet(a \o b) = ToSet(a) \cup ToSet(b)
  <2>1. ASSUME NEW x \in ToSet(a \o b) PROVE x \in ToSet(a) \cup ToSet(b)
    <3>1. PICK i \in 1..Len(a) + Len(b) : (a \o b)[i] = x
      BY <1>1, AtPlaces
    <3>2. \/ \E j \in 1..Len(a) : a[j] = x
          \/ \E j \in 1..Len(b) : b[j] = x
      BY <1>2, <1>3, <1>4, <3>1
    <3> QED BY <3>2, AtPlaces
  <2>2. \A i \in 1..Len(a) + Len(b) : (a \o b)[i] \in ToSet(a \o b)
    BY <1>1 DEF ToSet
  <2>3. ASSUME NEW x \in ToSet(a) PROVE x \in ToSet(a \o b)
    <3>1. PICK i \in 1..Len(a) : a[i] = x
      BY AtPlaces
    <3> QED BY <1>2, <2>2, <3>1
  <2>4. ASSUME NEW x \in ToSet(b) PROVE x \in ToSet(a \o b)
    <3>1. PICK i \in 1..Len(b) : b[i] = x
      BY AtPlaces
    <3> QED BY <1>3, <2>2, <3>1
  <2> QED BY <2>1, <2>3, <2>4
<1>6. ASSUME Once(a, K), Once(b, K), ToSet(a) \cap ToSet(b) \subseteq K
      PROVE  Once(a \o b, K)
  <2> SUFFICES ASSUME NEW i \in 1..Len(a) + Len(b), NEW j \in 1..Len(a) + Len(b),
                      (a \o b)[i] = (a \o b)[j], (a \o b)[i] \notin K
               PROVE  i = j
    BY <1>1 DEF Once
  <2>1. \A x \in 1..Len(a), y \in 1..Len(b) : a[x] = b[y] => a[x] \in K
    BY <1>1, <1>6 DEF ToSet
  <2>2. CASE i \in 1..Len(a) /\ j \in 1..Len(a)
    BY <1>1, <1>2, <1>6, <2>2 DEF Once
  <2>3. CASE i \notin 1..Len(a) /\ j \notin 1..Len(a)
    <3>1. PICK x \in 1..Len(b), y \in 1..Len(b) : i = Len(a) + x /\ j = Len(a) + y
      BY <1>4, <2>3
    <3>2. b[x] = b[y] /\ b[x] \notin K
      BY <1>3, <3>1
    <3>3. x = y
      BY <1>1, <1>6, <3>2 DEF Once
    <3> QED BY <3>1, <3>3
  <2>4. CASE i \in 1..Len(a) /\ j \notin 1..Len(a)
    <3>1. PICK y \in 1..Len(b) : j = Len(a) + y
      BY <1>4, <2>4
    <3>2. a[i] = b[y] /\ a[i] \notin K
      BY <1>2, <1>3, <2>4, <3>1
    <3> QED BY <2>1, <2>4, <3>2
  <2>5. CASE i \notin 1..Len(a) /\ j \in 1..Len(a)
    <3>1. PICK y \in 1..Len(b) : i = Len(a) + y
      BY <1>4, <2>5
    <3>2. a[j] = b[y] /\ a[j] \notin K
      BY <1>2, <1>3, <2>5, <3>1
    <3> QED BY <2>1, <2>5, <3>2
  <2> QED BY <2>2, <2>3, <2>4, <2>5
<1> QED BY <1>1, <1>5, <1>6

LEMMA Appended ==
  ASSUME NEW X, NEW a \in Seq(X), NEW x \in X, NEW K
  PROVE  /\ Append(a, x) \in Seq(X)
         /\ ToSet(Append(a, x)) = ToSet(a) \cup {x}
         /\ Once(a, K) /\ (x \in ToSet(a) => x \in K) => Once(Append(a, x), K)
<1>1. /\ Append(a, x) \in Seq(X) /\ Len(a) \in Nat /\ Len(Append(a, x)) = Len(a) + 1
      /\ DOMAIN a = 1..Len(a) /\ DOMAIN Append(a, x) = 1..Len(a) + 1
      /\ \A i \in 1..Len(a) : Append(a, x)[i] = a[i]
      /\ Append(a, x)[Len(a) + 1] = x
  OBVIOUS
<1>2. 1..Len(a) + 1 = 1..Len(a) \cup {Len(a) + 1} /\ Len(a) + 1 \notin 1..Len(a)
  BY <1>1
<1>3. ToSet(Append(a, x)) = ToSet(a) \cup {x}
  BY <1>1, <1>2 DEF ToSet
<1>4. Once(a, K) /\ (x \in ToSet(a) => x \in K) => Once(Append(a, x), K)
  BY <1>1, <1>2 DEF Once, ToSet
<1> QED BY <1>1, <1>3, <1>4

\* A sequence with one place taken out.
LEMMA Removed ==
  ASSUME NEW X, NEW a \in Seq(X), NEW i \in DOMAIN a, NEW K, Once(a, K)
  PROVE  /\ RemoveAt(a, i) \in Seq(X)
         /\ ToSet(RemoveAt(a, i)) \subseteq ToSet(a)
         /\ ToSet(a) \subseteq ToSet(RemoveAt(a, i)) \cup {a[i]}
         /\ a[i] \notin K => a[i] \notin ToSet(RemoveAt(a, i))
         /\ Once(RemoveAt(a, i), K)
<1>1. Len(a) \in Nat /\ DOMAIN a = 1..Len(a) /\ i \in 1..Len(a) /\ i \in Nat
  OBVIOUS
<1> DEFINE l == SubSeq(a, 1, i - 1)
           r == SubSeq(a, i + 1, Len(a))
<1>2. /\ l \in Seq(X) /\ DOMAIN l = 1..i - 1 /\ \A j \in 1..i - 1 : l[j] = a[j]
  BY <1>1
<1>3. /\ r \in Seq(X) /\ DOMAIN r = 1..Len(a) - i
      /\ \A j \in 1..Len(a) - i : r[j] = a[i + j]
  BY <1>1
<1> HIDE DEF l, r
<1>4. ToSet(l) = {a[j] : j \in 1..i - 1}
  BY <1>2 DEF ToSet
<1>5. ToSet(r) = {a[j] : j \in i + 1..Len(a)}
  <2>1. \A j \in 1..Len(a) - i : i + j \in i + 1..Len(a)
    BY <1>1
  <2>2. \A j \in i + 1..Len(a) : j - i \in 1..Len(a) - i /\ i + (j - i) = j
    BY <1>1
  <2>3. \A x : x \in ToSet(r) <=> \E j \in 1..Len(a) - i : r[j] = x
    BY <1>3 DEF ToSet
  <2>4. \A x : x \in ToSet(r) <=> \E j \in i + 1..Len(a) : a[j] = x
    <3> SUFFICES ASSUME NEW x
                 PROVE  (\E j \in 1..Len(a) - i : r[j] = x) <=> \E j \in i + 1..Len(a) : a[j] = x
      BY <2>3
    <3>1. ASSUME NEW j \in 1..Len(a) - i, r[j] = x PROVE \E k \in i + 1..Len(a) : a[k] = x
      BY <1>3, <2>1, <3>1
    <3>2. ASSUME NEW j \in i + 1..Len(a), a[j] = x PROVE \E k \in 1..Len(a) - i : r[k] = x
      BY <1>3, <2>2, <3>2
    <3> QED BY <3>1, <3>2
  <2> QED BY <2>4
<1>6. /\ 1..Len(a) = 1..i - 1 \cup {i} \cup i + 1..Len(a)
      /\ i \notin 1..i - 1 /\ i \notin i + 1..Len(a)
      /\ (1..i - 1) \cap (i + 1..Len(a)) = {}
  BY <1>1
<1>7. \A j, k \in 1..Len(a) : a[j] = a[k] => j = k \/ a[j] \in K
  BY <1>1 DEF Once
<1>8. Once(l, K)
  BY <1>2, <1>6, <1>7 DEF Once
<1>9. Once(r, K)
  <2> SUFFICES ASSUME NEW j \in 1..Len(a) - i, NEW k \in 1..Len(a) - i, r[j] = r[k], r[j] \notin K
               PROVE  j = k
    BY <1>3 DEF Once
  <2>1. i + j \in 1..Len(a) /\ i + k \in 1..Len(a)
    BY <1>1
  <2>2. i + j = i + k
    BY <1>3, <1>7, <2>1
  <2> QED BY <1>1, <2>2
<1>10. /\ ToSet(l) \cap ToSet(r) \subseteq K
       /\ ToSet(l) \cup ToSet(r) \subseteq ToSet(a)
       /\ ToSet(a) \subseteq ToSet(l) \cup ToSet(r) \cup {a[i]}
       /\ a[i] \notin K => a[i] \notin ToSet(l) \cup ToSet(r)
  <2>1. ToSet(a) = {a[j] : j \in 1..Len(a)}
    BY <1>1 DEF ToSet
  <2>2. \A j \in 1..Len(a) : j # i /\ a[i] \notin K => a[j] # a[i]
    BY <1>1, <1>7
  <2>3. \A j \in 1..i - 1, k \in i + 1..Len(a) : a[j] = a[k] => a[j] \in K
    BY <1>6, <1>7
  <2>4. ToSet(l) \cap ToSet(r) \subseteq K
    BY <1>4, <1>5, <2>3
  <2>5. /\ ToSet(l) \cup ToSet(r) \subseteq ToSet(a)
        /\ ToSet(a) \subseteq ToSet(l) \cup ToSet(r) \cup {a[i]}
    BY <1>4, <1>5, <1>6, <2>1
  <2>6. a[i] \notin K => a[i] \notin ToSet(l) \cup ToSet(r)
    BY <1>4, <1>5, <1>6, <2>2
  <2> QED BY <2>4, <2>5, <2>6
<1>11. RemoveAt(a, i) = l \o r
  BY DEF RemoveAt, l, r
<1> QED BY <1>2, <1>3, <1>8, <1>9, <1>10, <1>11, Joined

-----------------------------------------------------------------------------
(* Without, by induction over the length *)

\* Every set of naturals that has an element has a least one.
LEMMA LeastNumber ==
  ASSUME NEW T, T \subseteq Nat, T # {}
  PROVE  \E m \in T : \A n \in T : m <= n
<1> DEFINE R == {ss \in Nat \X Nat : ss[1] < ss[2]}
<1>1. IsWellFoundedOn(R, Nat)
  BY NatLessThanWellFounded DEF OpToRel
<1>2. PICK m \in T : \A n \in T : ~(<<n, m>> \in R)
  <2> HIDE DEF R
  <2> QED BY <1>1, WFMin
<1>3. \A n \in T : m <= n
  <2> SUFFICES ASSUME NEW n \in T, n < m PROVE FALSE
    OBVIOUS
  <2>1. <<n, m>> \in Nat \X Nat /\ <<n, m>>[1] < <<n, m>>[2]
    OBVIOUS
  <2> QED BY <1>2, <2>1
<1> QED BY <1>3

\* A set that holds 0, and each number up to l whose predecessor it holds.
LEMMA UpTo ==
  ASSUME NEW l \in Nat, NEW S, 0 \in S, \A i \in 1..l : i - 1 \in S => i \in S
  PROVE  0..l \subseteq S
<1> SUFFICES ASSUME ~(0..l \subseteq S) PROVE FALSE
  OBVIOUS
<1> DEFINE T == (0..l) \ S
<1>1. T \subseteq Nat /\ T # {}
  OBVIOUS
<1> HIDE DEF T
<1>2. PICK m \in T : \A n \in T : m <= n
  BY <1>1, LeastNumber
<1>3. m \in 0..l /\ m \notin S
  BY DEF T
<1>4. m \in 1..l /\ m - 1 \in 0..l /\ ~(m <= m - 1)
  BY <1>3
<1>5. m - 1 \in S
  BY <1>2, <1>4 DEF T
<1> QED BY <1>3, <1>4, <1>5

\* The recursion of Without, for a function f up to place m.
NextKept(f, s, N, i) == IF i = 0 THEN <<>>
                        ELSE IF s[i] \in N THEN f[i - 1]
                        ELSE Append(f[i - 1], s[i])

IsKept(f, s, N, m) == f = [i \in 0..m |-> NextKept(f, s, N, i)]

LEMMA KeptExists ==
  ASSUME NEW X, NEW s \in Seq(X), NEW N
  PROVE  \E f : IsKept(f, s, N, Len(s))
<1>1. Len(s) \in Nat
  OBVIOUS
<1> DEFINE S == {m \in 0..Len(s) : \E f : IsKept(f, s, N, m)}
<1>2. 0 \in S
  <2> DEFINE g == [i \in 0..0 |-> <<>>]
  <2>1. g = [i \in 0..0 |-> NextKept(g, s, N, i)]
    BY DEF NextKept
  <2>2. IsKept(g, s, N, 0)
    <3> HIDE DEF g
    <3> QED BY <2>1 DEF IsKept
  <2> QED BY <1>1, <2>2
<1>3. ASSUME NEW m \in 1..Len(s), m - 1 \in S
      PROVE  m \in S
  <2>1. PICK f : IsKept(f, s, N, m - 1)
    BY <1>3
  <2> DEFINE g == [i \in 0..m |-> IF i = m THEN NextKept(f, s, N, m) ELSE f[i]]
  <2>2. /\ m \in 0..Len(s) /\ 0..m - 1 = (0..m) \ {m} /\ m \in 0..m
        /\ \A i \in 0..m : i # 0 => i - 1 \in (0..m) \ {m}
    BY <1>1
  <2>3. \A i \in 0..m : i # 0 => g[i - 1] = f[i - 1]
    BY <2>2
  <2>4. \A i \in 0..m : NextKept(g, s, N, i) = NextKept(f, s, N, i)
    <3> HIDE DEF g
    <3> QED BY <2>3 DEF NextKept
  <2>5. \A i \in 0..m : g[i] = NextKept(f, s, N, i)
    BY <2>1, <2>2 DEF IsKept
  <2>6. g = [i \in 0..m |-> NextKept(g, s, N, i)]
    BY <2>4, <2>5
  <2> HIDE DEF g
  <2> QED BY <2>2, <2>6 DEF IsKept
<1> HIDE DEF S
<1>4. 0..Len(s) \subseteq S
  BY <1>1, <1>2, <1>3, UpTo
<1>5. Len(s) \in 0..Len(s)
  BY <1>1
<1> QED BY <1>4, <1>5 DEF S

\* Without takes these notes out and leaves the others.
LEMMA Withheld ==
  ASSUME NEW X, NEW s \in Seq(X), NEW N, NEW K
  PROVE  /\ Without(s, N) \in Seq(X)
         /\ ToSet(Without(s, N)) = ToSet(s) \ N
         /\ Once(s, K) => Once(Without(s, N), K)
<1>1. Len(s) \in Nat /\ DOMAIN s = 1..Len(s)
  OBVIOUS
<1> DEFINE f == CHOOSE rest : rest = [i \in 0..Len(s) |->
                   IF i = 0 THEN <<>> ELSE IF s[i] \in N THEN rest[i - 1]
                   ELSE Append(rest[i - 1], s[i])]
<1>2. Without(s, N) = f[Len(s)]
  BY DEF Without
<1>3. \A i \in 0..Len(s) : f[i] = NextKept(f, s, N, i)
  <2>1. \E g : g = [i \in 0..Len(s) |->
                   IF i = 0 THEN <<>> ELSE IF s[i] \in N THEN g[i - 1]
                   ELSE Append(g[i - 1], s[i])]
    <3> HIDE DEF f
    <3>1. PICK g : IsKept(g, s, N, Len(s))
      BY KeptExists
    <3> QED BY <3>1 DEF IsKept, NextKept
  <2>2. f = [i \in 0..Len(s) |->
                   IF i = 0 THEN <<>> ELSE IF s[i] \in N THEN f[i - 1]
                   ELSE Append(f[i - 1], s[i])]
    BY <2>1
  <2> HIDE DEF f
  <2> QED BY <2>2 DEF NextKept
<1> HIDE DEF f
<1> DEFINE Prefix(i) == {s[j] : j \in 1..i}
           S == {i \in 0..Len(s) :
                   /\ f[i] \in Seq(X) /\ ToSet(f[i]) = Prefix(i) \ N
                   /\ Once(s, K) => Once(f[i], K)}
<1>4. 0 \in S
  <2>1. f[0] = <<>> /\ 0 \in 0..Len(s)
    BY <1>1, <1>3 DEF NextKept
  <2> HIDE DEF S
  <2>2. Prefix(0) = {}
    OBVIOUS
  <2>3. f[0] \in Seq(X) /\ ToSet(f[0]) = {} /\ Once(f[0], K)
    BY <2>1, EmptyTyped, EmptySet, EmptyOnce
  <2> USE DEF S
  <2> QED BY <2>1, <2>2, <2>3
<1>5. ASSUME NEW i \in 1..Len(s), i - 1 \in S
      PROVE  i \in S
  <2>1. i \in 0..Len(s) /\ i # 0 /\ 1..i = 1..i - 1 \cup {i} /\ s[i] \in X
    BY <1>1
  <2>2. f[i] = IF s[i] \in N THEN f[i - 1] ELSE Append(f[i - 1], s[i])
    BY <1>3, <2>1 DEF NextKept
  <2>3. Prefix(i) = Prefix(i - 1) \cup {s[i]}
    BY <2>1
  <2>4. Once(s, K) => (s[i] \in Prefix(i - 1) => s[i] \in K)
    BY <1>1 DEF Once
  <2> DEFINE e == f[i - 1]
  <2>5. e \in Seq(X) /\ ToSet(e) = Prefix(i - 1) \ N /\ (Once(s, K) => Once(e, K))
    BY <1>5
  <2>6. f[i] = IF s[i] \in N THEN e ELSE Append(e, s[i])
    BY <2>2
  <2> HIDE DEF e, Prefix
  <2>7. f[i] \in Seq(X)
    BY <2>1, <2>5, <2>6, Appended
  <2>8. ToSet(f[i]) = Prefix(i) \ N
    BY <2>1, <2>3, <2>5, <2>6, Appended
  <2>9. Once(s, K) => Once(f[i], K)
    BY <2>1, <2>4, <2>5, <2>6, Appended
  <2> QED BY <2>1, <2>7, <2>8, <2>9
<1>6. S \subseteq {i \in 0..Len(s) : TRUE}
  OBVIOUS
<1>7. Len(s) \in S
  <2> HIDE DEF S
  <2>1. 0..Len(s) \subseteq S
    BY <1>1, <1>4, <1>5, UpTo
  <2> QED BY <1>1, <2>1
<1>8. Prefix(Len(s)) = ToSet(s)
  BY <1>1 DEF ToSet
<1> QED BY <1>2, <1>7, <1>8

-----------------------------------------------------------------------------
(* One delivery's step *)

CallType == [pc : {"idle", "asking", "minting", "attaching", "announcing"},
             notes : Seq(Notes), source : 0..Sources + 1,
             before : SUBSET Notes, mine : Seq(Notes),
             stray : Seq(Notes), unread : BOOLEAN]

LEMMA AtRest ==
  /\ Resting \in CallType /\ (\A K : Sound(Resting, K)) /\ CarriedBy(Resting) = {}
  /\ Resting.pc = "idle" /\ Resting.before = {} /\ ~Resting.unread
<1> DEFINE e == <<>>
<1>1. e \in Seq(Notes) /\ ToSet(e) = {} /\ \A K : Once(e, K)
  BY EmptyHolds
<1>2. e = <<>>
  OBVIOUS
<1> HIDE DEF e
<1>3. Resting = [pc |-> "idle", notes |-> e, source |-> 0, before |-> {},
                 mine |-> e, stray |-> e, unread |-> FALSE]
  BY <1>2 DEF Resting
<1>4. Resting \in CallType
  BY <1>1, <1>3, TurnsAssumption DEF CallType
<1>5. \A K : Sound(Resting, K)
  BY <1>1, <1>2, <1>3 DEF Sound
<1>6. CarriedBy(Resting) = {}
  BY <1>1, <1>3 DEF CarriedBy
<1> QED BY <1>3, <1>4, <1>5, <1>6

LEMMA Typed ==
  ASSUME TurnInv
  PROVE  /\ pending \in Seq(Notes) /\ delivered \in Seq(Notes) /\ minted \in 0..MaxNotes
         /\ minted \in Nat /\ MaxNotes \in Nat /\ begun \in 0..MaxDeliveries
         /\ read \subseteq Notes /\ disturbed \subseteq Notes
         /\ call \in [Calls -> CallType]
BY TurnsAssumption DEF TurnInv, TypeOK, CallType

\* A delivery's record as the invariant has it.
LEMMA Record ==
  ASSUME TurnInv, NEW c \in Calls
  PROVE  /\ call[c] \in CallType /\ Sound(call[c], disturbed)
         /\ Carried(c) \cup call[c].before \subseteq 1..minted
         /\ call[c].unread => Carried(c) \subseteq disturbed
         /\ UnderWay(c) => phase = "open" \/ call[c].unread
BY Typed DEF TurnInv, Handled, Turning

LEMMA SoundStill ==
  ASSUME NEW d, NEW K, NEW L, K \subseteq L, Sound(d, K)
  PROVE  Sound(d, L)
BY OnceStill DEF Sound

Others(c) == UNION {Carried(e) : e \in Calls \ {c}}

LEMMA Parts ==
  ASSUME TurnInv, NEW c \in Calls
  PROVE  /\ ToSet(delivered) \subseteq read \cup Carried(c) \cup Others(c) \cup disturbed
         /\ read \cup Carried(c) \cup Others(c) \subseteq ToSet(delivered) \cup disturbed
         /\ read \cap Carried(c) \subseteq disturbed
         /\ (read \cup Carried(c)) \cap Others(c) \subseteq disturbed
         /\ Others(c) \subseteq 1..minted
<1>1. PICK all : all = UNION {Carried(e) : e \in Calls}
  OBVIOUS
<1>2. ToSet(delivered) \subseteq read \cup all \cup disturbed /\ all = Carried(c) \cup Others(c)
  <2>1. Calls = {c} \cup (Calls \ {c})
    OBVIOUS
  <2>2. UNION {Carried(e) : e \in Calls} = Carried(c) \cup Others(c)
    BY <2>1 DEF Others
  <2>3. ToSet(delivered) \subseteq read \cup all \cup disturbed
    BY <1>1 DEF TurnInv, Shared
  <2> QED BY <1>1, <2>2, <2>3
<1>3. /\ read \subseteq ToSet(delivered) \cup disturbed
      /\ \A e \in Calls : Carried(e) \subseteq ToSet(delivered) \cup disturbed
      /\ \A e \in Calls : read \cap Carried(e) \subseteq disturbed
      /\ \A e \in Calls \ {c} : Carried(c) \cap Carried(e) \subseteq disturbed
      /\ \A e \in Calls : Carried(e) \subseteq 1..minted
  BY DEF TurnInv, Shared, Handled
<1>4. /\ Others(c) \subseteq ToSet(delivered) \cup disturbed
      /\ Others(c) \subseteq 1..minted
      /\ read \cap Others(c) \subseteq disturbed /\ Carried(c) \cap Others(c) \subseteq disturbed
  BY <1>3 DEF Others
<1>5. ToSet(delivered) \subseteq read \cup Carried(c) \cup Others(c) \cup disturbed
  BY <1>2
<1>6. read \cup Carried(c) \cup Others(c) \subseteq ToSet(delivered) \cup disturbed
  BY <1>3, <1>4
<1>7. (read \cup Carried(c)) \cap Others(c) \subseteq disturbed
  BY <1>4
<1> QED BY <1>3, <1>4, <1>5, <1>6, <1>7

\* The delivery c moves to d; the notes it carries leave the queue or go back
\* to it, are minted, or are read.
OneCall(c, d) ==
    /\ d \in CallType /\ Sound(d, disturbed')
    /\ call' = [call EXCEPT ![c] = d]
    /\ UNCHANGED <<turn, phase, kept, settled, withdrawn>>
    /\ disturbed \subseteq disturbed' /\ disturbed' \subseteq Notes
    /\ pending' \in Seq(Notes) /\ delivered' \in Seq(Notes)
    /\ minted' \in minted..MaxNotes /\ begun' \in 0..MaxDeliveries /\ read' \subseteq Notes
    /\ ToSet(delivered') \subseteq read' \cup CarriedBy(d) \cup Others(c) \cup disturbed'
    /\ read' \cup CarriedBy(d) \cup Others(c) \subseteq ToSet(delivered') \cup disturbed'
    /\ CarriedBy(d) \cup d.before \subseteq 1..minted'
    /\ read' \cap CarriedBy(d) \subseteq disturbed'
    /\ (read' \cup CarriedBy(d)) \cap Others(c) \subseteq disturbed'
    /\ d.unread => CarriedBy(d) \subseteq disturbed'
    /\ d.pc # "idle" /\ phase # "open" => d.unread
    /\ phase # "open" => read' = read

LEMMA CallStep ==
  ASSUME TurnInv, NEW c \in Calls, NEW d, OneCall(c, d), Placed'
  PROVE  TurnInv'
<1>1. call \in [Calls -> CallType] /\ minted \in Nat /\ MaxNotes \in Nat
  BY Typed
<1>2. call' \in [Calls -> CallType] /\ call'[c] = d /\ \A e \in Calls \ {c} : call'[e] = call[e]
  BY <1>1 DEF OneCall
<1>3. TypeOK'
  <2>1. minted' \in 0..MaxNotes
    BY <1>1 DEF OneCall
  <2> QED BY <1>2, <2>1 DEF OneCall, TurnInv, TypeOK, CallType
<1>4. Carried(c)' = CarriedBy(d) /\ \A e \in Calls \ {c} : Carried(e)' = Carried(e)
  BY <1>2 DEF Carried, CarriedBy
<1>5. \A e \in Calls : Sound(call[e], disturbed)'
  <2>1. \A e \in Calls \ {c} : Sound(call[e], disturbed')
    BY SoundStill DEF OneCall, TurnInv
  <2> QED BY <1>2, <2>1 DEF OneCall, Sound, Once
<1>6. Turning'
  <2>1. phase # "open" => \A e \in Calls : UnderWay(e)' => call'[e].unread
    BY <1>2 DEF OneCall, TurnInv, Turning, UnderWay
  <2> QED BY <2>1 DEF OneCall, TurnInv, Turning
<1>7. Handled'
  <2>1. 1..minted \subseteq 1..minted'
    BY <1>1 DEF OneCall
  <2>2. \A e \in Calls \ {c} : /\ Carried(e) \cup call[e].before \subseteq 1..minted
                               /\ call[e].unread => Carried(e) \subseteq disturbed
    BY DEF TurnInv, Handled
  <2>3. \A e \in Calls \ {c} : /\ Carried(e)' \cup call'[e].before \subseteq 1..minted'
                               /\ call'[e].unread => Carried(e)' \subseteq disturbed'
    BY <1>2, <1>4, <2>1, <2>2 DEF OneCall
  <2>4. /\ Carried(c)' \cup call'[c].before \subseteq 1..minted'
        /\ call'[c].unread => Carried(c)' \subseteq disturbed'
    BY <1>2, <1>4 DEF OneCall
  <2> QED BY <2>3, <2>4 DEF Handled
<1>8. Shared'
  <2>1. Calls = {c} \cup (Calls \ {c})
    OBVIOUS
  <2>2. UNION {Carried(e)' : e \in Calls} = CarriedBy(d) \cup Others(c)
    BY <1>4, <2>1 DEF Others
  <2>3. ToSet(delivered') \subseteq read' \cup (UNION {Carried(e)' : e \in Calls}) \cup disturbed'
    <3>1. PICK all : all = UNION {Carried(e)' : e \in Calls}
      OBVIOUS
    <3>2. ToSet(delivered') \subseteq read' \cup all \cup disturbed'
      BY <2>2, <3>1 DEF OneCall
    <3> QED BY <3>1, <3>2
  <2>4. \A e \in Calls \ {c} : Carried(e)' \subseteq Others(c)
    BY <1>4 DEF Others
  <2>5. \A e \in Calls : /\ read' \cap Carried(e)' \subseteq disturbed'
                         /\ Carried(e)' \subseteq ToSet(delivered') \cup disturbed'
    BY <1>4, <2>4 DEF OneCall
  <2>6. \A e, g \in Calls \ {c} : e # g => Carried(e)' \cap Carried(g)' \subseteq disturbed'
    BY <1>4 DEF TurnInv, Shared, OneCall
  <2>7. \A e \in Calls \ {c} : CarriedBy(d) \cap Carried(e)' \subseteq disturbed'
    BY <2>4 DEF OneCall
  <2>8. \A e, g \in Calls : e # g => Carried(e)' \cap Carried(g)' \subseteq disturbed'
    BY <1>4, <2>6, <2>7
  <2>9. read' \subseteq ToSet(delivered') \cup disturbed'
    BY DEF OneCall
  <2> QED BY <2>3, <2>5, <2>8, <2>9 DEF Shared
<1> QED BY <1>3, <1>5, <1>6, <1>7, <1>8 DEF TurnInv

\* Placed, when each part of it has been seen to.
LEMMA PlacedStill ==
  ASSUME TurnInv, UNCHANGED <<pending, delivered, minted, settled, withdrawn>>,
         disturbed \subseteq disturbed'
  PROVE  Placed'
<1>1. Placed
  BY DEF TurnInv
<1>2. Once(pending', disturbed') /\ Once(delivered', disturbed')
  BY <1>1, OnceStill DEF Placed
<1> QED BY <1>1, <1>2 DEF Placed

\* Notes that go back to the queue are pending and no longer delivered.
LEMMA Restores ==
  ASSUME TurnInv, NEW notes \in Seq(Notes), Once(notes, disturbed),
         ToSet(notes) \subseteq ToSet(delivered) \cup disturbed,
         ToSet(notes) \subseteq 1..minted, Restore(notes),
         UNCHANGED <<minted, settled, withdrawn, disturbed>>
  PROVE  /\ pending' \in Seq(Notes) /\ delivered' \in Seq(Notes)
         /\ ToSet(delivered') = ToSet(delivered) \ ToSet(notes)
         /\ Placed'
<1>1. pending \in Seq(Notes) /\ delivered \in Seq(Notes)
  BY Typed
<1>2. delivered' = Without(delivered, ToSet(notes)) /\ pending' = notes \o pending
  BY DEF Restore
<1>3. Placed
  BY DEF TurnInv
<1>4. /\ delivered' \in Seq(Notes) /\ ToSet(delivered') = ToSet(delivered) \ ToSet(notes)
      /\ Once(delivered', disturbed)
  BY <1>1, <1>2, <1>3, Withheld DEF Placed
<1>5. pending' \in Seq(Notes) /\ ToSet(pending') = ToSet(notes) \cup ToSet(pending)
  BY <1>1, <1>2, Joined
<1>6. Once(pending', disturbed)
  <2>1. Once(pending, disturbed) /\ ToSet(notes) \cap ToSet(pending) \subseteq disturbed
    BY <1>3 DEF Placed
  <2> QED BY <1>1, <1>2, <2>1, Joined
<1>7. Placed'
  <2>1. ToSet(pending') \cup ToSet(delivered') \cup settled' \cup withdrawn' = 1..minted'
    BY <1>3, <1>4, <1>5 DEF Placed
  <2>2. ToSet(pending') \cap ToSet(delivered') \subseteq disturbed'
    BY <1>3, <1>4, <1>5 DEF Placed
  <2>3. (ToSet(pending') \cup ToSet(delivered')) \cap (settled' \cup withdrawn') \subseteq disturbed'
    BY <1>3, <1>4, <1>5 DEF Placed
  <2>4. Once(pending', disturbed') /\ Once(delivered', disturbed')
    BY <1>4, <1>6
  <2>5. settled' \cap withdrawn' \subseteq disturbed'
    BY <1>3 DEF Placed
  <2> QED BY <2>1, <2>2, <2>3, <2>4, <2>5 DEF Placed
<1> QED BY <1>4, <1>5, <1>7

\* A step that leaves the inbox and the readings alone, and in which the
\* delivery keeps what it carries, or takes what is disturbed by it.
LEMMA KeepsNotes ==
  ASSUME TurnInv, NEW c \in Calls, UnderWay(c), NEW d \in CallType, Sound(d, disturbed'),
         Carried(c) \subseteq CarriedBy(d) \cup disturbed',
         CarriedBy(d) \subseteq Carried(c) \cup disturbed',
         CarriedBy(d) \cup d.before \subseteq 1..minted, d.unread = call[c].unread,
         disturbed \subseteq disturbed', disturbed' \subseteq Notes,
         call' = [call EXCEPT ![c] = d], UNCHANGED <<inbox, turn, phase, begun, past>>
  PROVE  TurnInv'
<1>1. /\ UNCHANGED <<pending, delivered, minted, turn, phase, begun, read, kept, settled, withdrawn>>
      /\ pending \in Seq(Notes) /\ delivered \in Seq(Notes) /\ minted \in minted..MaxNotes
      /\ begun \in 0..MaxDeliveries /\ read \subseteq Notes
  BY Typed DEF inbox, past
<1>2. /\ ToSet(delivered) \subseteq read \cup CarriedBy(d) \cup Others(c) \cup disturbed'
      /\ read \cup CarriedBy(d) \cup Others(c) \subseteq ToSet(delivered) \cup disturbed'
      /\ read \cap CarriedBy(d) \subseteq disturbed'
      /\ (read \cup CarriedBy(d)) \cap Others(c) \subseteq disturbed'
  BY Parts
<1>3. /\ d.unread => CarriedBy(d) \subseteq disturbed'
      /\ phase # "open" => d.unread
  BY Record
<1>4. OneCall(c, d)
  BY <1>1, <1>2, <1>3 DEF OneCall
<1> QED BY <1>1, <1>4, CallStep, PlacedStill

LEMMA DeliverBeginKeeps ==
  ASSUME TurnInv, NEW c \in Calls, DeliverBegin(c)
  PROVE  TurnInv'
<1>1. pending \in Seq(Notes) /\ delivered \in Seq(Notes) /\ Placed
  BY Typed DEF TurnInv
<1>2. PICK late \in BOOLEAN :
        /\ phase = "open" \/ late
        /\ call' = [call EXCEPT ![c] = [Resting EXCEPT !.pc = "asking", !.notes = pending,
                                                       !.source = 1, !.unread = late]]
        /\ disturbed' = IF late THEN disturbed \cup ToSet(pending) ELSE disturbed
  BY DEF DeliverBegin
<1>3. PICK d : d = [Resting EXCEPT !.pc = "asking", !.notes = pending, !.source = 1,
                                   !.unread = late]
  OBVIOUS
<1>4. PICK e : e = <<>>
  OBVIOUS
<1>5. e \in Seq(Notes) /\ ToSet(e) = {} /\ \A K : Once(e, K)
  BY <1>4, EmptyHolds
<1>6. d = [pc |-> "asking", notes |-> pending, source |-> 1, before |-> {},
           mine |-> e, stray |-> e, unread |-> late]
  BY <1>3, <1>4 DEF Resting
<1>7. d \in CallType
  BY <1>1, <1>5, <1>6, TurnsAssumption DEF CallType
<1>8. /\ disturbed \subseteq disturbed' /\ disturbed' \subseteq Notes
      /\ late => ToSet(pending) \subseteq disturbed'
  <2>1. ToSet(pending) \subseteq Notes
    BY <1>1 DEF ToSet
  <2> QED BY <1>2, <2>1, Typed
<1>9. Once(pending, disturbed') /\ Once(delivered, disturbed')
  BY <1>1, <1>8, OnceStill DEF Placed
<1>10. Sound(d, disturbed') /\ CarriedBy(d) = ToSet(pending) /\ d.before = {}
  BY <1>4, <1>5, <1>6, <1>9 DEF Sound, CarriedBy
<1>11. Carried(c) = {}
  <2>1. call[c] = Resting
    BY DEF DeliverBegin, UnderWay, TurnInv, Sound
  <2> QED BY <2>1, AtRest DEF Carried
<1>12. /\ delivered' \in Seq(Notes) /\ ToSet(delivered') = ToSet(delivered) \cup ToSet(pending)
       /\ Once(delivered', disturbed')
  <2>1. ToSet(delivered) \cap ToSet(pending) \subseteq disturbed'
    BY <1>1, <1>8 DEF Placed
  <2> QED BY <1>1, <1>9, <2>1, Joined DEF DeliverBegin
<1>13. pending' \in Seq(Notes) /\ ToSet(pending') = {} /\ Once(pending', disturbed')
  BY <1>4, <1>5 DEF DeliverBegin
<1>14. /\ UNCHANGED <<minted, turn, phase, read, kept, settled, withdrawn>>
       /\ begun' \in 0..MaxDeliveries /\ minted' \in minted..MaxNotes /\ read \subseteq Notes
  BY Typed, TurnsAssumption DEF DeliverBegin, past
<1>15. Placed'
  BY <1>1, <1>8, <1>12, <1>13, <1>14 DEF Placed
<1>16. OneCall(c, d)
  <2>1. /\ ToSet(delivered) \subseteq read \cup Others(c) \cup disturbed
        /\ read \cup Others(c) \subseteq ToSet(delivered) \cup disturbed
        /\ read \cap Others(c) \subseteq disturbed
    BY <1>11, Parts
  <2>2. ToSet(delivered') \subseteq read \cup ToSet(pending) \cup Others(c) \cup disturbed'
    BY <1>8, <1>12, <2>1
  <2>3. read \cup ToSet(pending) \cup Others(c) \subseteq ToSet(delivered') \cup disturbed'
    BY <1>8, <1>12, <2>1
  <2>4. ToSet(pending) \cap (read \cup Others(c)) \subseteq disturbed'
    BY <1>1, <1>8, <2>1 DEF Placed
  <2>5. (read \cup ToSet(pending)) \cap Others(c) \subseteq disturbed'
    BY <1>8, <2>1, <2>4
  <2>6. ToSet(pending) \subseteq 1..minted'
    BY <1>1, <1>14 DEF Placed
  <2>7. call' = [call EXCEPT ![c] = d] /\ d.unread = late
    BY <1>2, <1>3, <1>6
  <2> QED BY <1>2, <1>7, <1>8, <1>10, <1>12, <1>13, <1>14, <2>2, <2>3, <2>4, <2>5, <2>6, <2>7
             DEF OneCall
<1> QED BY <1>15, <1>16, CallStep

LEMMA SourceBeginKeeps ==
  ASSUME TurnInv, NEW c \in Calls, SourceBegin(c)
  PROVE  TurnInv'
<1>1. PICK k : k = call[c]
  OBVIOUS
<1>2. /\ k \in CallType /\ Sound(k, disturbed) /\ k.pc = "asking" /\ k.source <= Sources
      /\ CarriedBy(k) \subseteq 1..minted /\ delivered \in Seq(Notes)
  BY <1>1, Typed, Record DEF SourceBegin, Carried
<1>3. PICK e : e = <<>>
  OBVIOUS
<1>4. PICK d : d = [k EXCEPT !.pc = "minting", !.before = ToSet(delivered)]
  OBVIOUS
<1>5. k.mine = e /\ ToSet(e) = {}
  BY <1>2, <1>3, EmptyHolds DEF Sound
<1>6. ToSet(delivered) \subseteq Notes /\ ToSet(delivered) \subseteq 1..minted
  BY <1>2 DEF ToSet, TurnInv, Placed
<1>7. d \in CallType /\ d.pc = "minting" /\ d.notes = k.notes /\ d.mine = k.mine
      /\ d.stray = k.stray /\ d.unread = k.unread /\ d.source = k.source
      /\ d.before = ToSet(delivered)
  BY <1>2, <1>4, <1>6 DEF CallType
<1>8. Sound(d, disturbed) /\ CarriedBy(d) = CarriedBy(k)
  BY <1>2, <1>5, <1>7 DEF Sound, CarriedBy
<1>9. /\ call' = [call EXCEPT ![c] = d] /\ UNCHANGED <<inbox, turn, phase, begun, past, disturbed>>
      /\ UnderWay(c)
  BY <1>1, <1>2, <1>4, Typed DEF SourceBegin, UnderWay, history
<1>10. /\ Carried(c) \subseteq CarriedBy(d) /\ CarriedBy(d) \subseteq Carried(c) \cup disturbed'
       /\ CarriedBy(d) \cup d.before \subseteq 1..minted /\ d.unread = call[c].unread
       /\ Sound(d, disturbed') /\ disturbed' \subseteq Notes /\ disturbed \subseteq disturbed'
  BY <1>1, <1>2, <1>6, <1>7, <1>8, <1>9, Typed DEF Carried
<1> QED BY <1>7, <1>9, <1>10, KeepsNotes

LEMMA SourceReturnKeeps ==
  ASSUME TurnInv, NEW c \in Calls, SourceReturn(c)
  PROVE  TurnInv'
<1>1. PICK k : k = call[c]
  OBVIOUS
<1>2. /\ k \in CallType /\ Sound(k, disturbed) /\ k.pc = "minting"
      /\ CarriedBy(k) \subseteq 1..minted
  BY <1>1, Record DEF SourceReturn, Carried
<1>3. PICK e : e = <<>>
  OBVIOUS
<1>4. e \in Seq(Notes) /\ ToSet(e) = {} /\ \A K : Once(e, K)
  BY <1>3, EmptyHolds
<1>5. PICK n : n = k.notes \o k.mine
  OBVIOUS
<1>6. /\ n \in Seq(Notes) /\ ToSet(n) = ToSet(k.notes) \cup ToSet(k.mine)
      /\ Once(n, disturbed)
  <2>1. /\ k.notes \in Seq(Notes) /\ k.mine \in Seq(Notes) /\ Once(k.notes, disturbed)
        /\ Once(k.mine, disturbed) /\ ToSet(k.notes) \cap ToSet(k.mine) \subseteq disturbed
    BY <1>2 DEF CallType, Sound
  <2> QED BY <1>5, <2>1, Joined
<1>7. PICK d : d = [k EXCEPT !.pc = "asking", !.source = k.source + 1,
                             !.notes = n, !.mine = e, !.before = {}]
  OBVIOUS
<1>8. /\ d \in CallType /\ d.pc = "asking" /\ d.notes = n /\ d.mine = e
      /\ d.stray = k.stray /\ d.unread = k.unread /\ d.before = {}
  <2>1. k.source + 1 \in 0..Sources + 1
    BY <1>2, TurnsAssumption DEF CallType, Sound
  <2>2. PICK i : i = k.source + 1
    OBVIOUS
  <2>3. d = [k EXCEPT !.pc = "asking", !.source = i, !.notes = n, !.mine = e, !.before = {}]
    BY <1>7, <2>2
  <2> QED BY <1>2, <1>4, <1>6, <2>1, <2>2, <2>3 DEF CallType
<1>9. Sound(d, disturbed) /\ CarriedBy(d) = CarriedBy(k)
  BY <1>2, <1>3, <1>4, <1>6, <1>8 DEF Sound, CarriedBy
<1>10. /\ call' = [call EXCEPT ![c] = d] /\ UNCHANGED <<inbox, turn, phase, begun, past, disturbed>>
       /\ UnderWay(c)
  BY <1>1, <1>2, <1>3, <1>5, <1>7, Typed DEF SourceReturn, UnderWay, history
<1>11. /\ Carried(c) \subseteq CarriedBy(d) /\ CarriedBy(d) \subseteq Carried(c) \cup disturbed'
       /\ CarriedBy(d) \cup d.before \subseteq 1..minted /\ d.unread = call[c].unread
       /\ Sound(d, disturbed') /\ disturbed' \subseteq Notes /\ disturbed \subseteq disturbed'
  BY <1>1, <1>2, <1>8, <1>9, <1>10, Typed DEF Carried
<1> QED BY <1>8, <1>10, <1>11, KeepsNotes

\* What is delivered since the source began has all it minted, and what else
\* it has is disturbed.
LEMMA SourceRaiseKeeps ==
  ASSUME TurnInv, NEW c \in Calls, SourceRaise(c)
  PROVE  TurnInv'
<1>1. PICK k : k = call[c]
  OBVIOUS
<1>2. /\ k \in CallType /\ Sound(k, disturbed) /\ k.pc = "minting"
      /\ CarriedBy(k) \subseteq 1..minted /\ delivered \in Seq(Notes) /\ Placed
      /\ CarriedBy(k) \subseteq ToSet(delivered) \cup disturbed
  BY <1>1, Record, Typed, Parts DEF SourceRaise, Carried, TurnInv
<1>3. PICK e : e = <<>>
  OBVIOUS
<1>4. e \in Seq(Notes) /\ ToSet(e) = {} /\ \A K : Once(e, K)
  BY <1>3, EmptyHolds
<1>5. PICK since : since = Without(delivered, k.before)
  OBVIOUS
<1>6. disturbed' = disturbed \cup (ToSet(since) \ ToSet(k.mine))
  BY <1>1, <1>5 DEF SourceRaise
<1>7. /\ since \in Seq(Notes) /\ ToSet(since) = ToSet(delivered) \ k.before
      /\ Once(since, disturbed)
  BY <1>2, <1>5, Withheld DEF Placed
<1>8. ToSet(since) \subseteq Notes /\ disturbed \subseteq disturbed' /\ disturbed' \subseteq Notes
  BY <1>6, <1>7, Typed DEF ToSet
<1>9. ToSet(k.mine) \subseteq ToSet(since) \cup disturbed
  BY <1>2, <1>7 DEF Sound, CarriedBy
<1>10. PICK n : n = k.stray \o since
  OBVIOUS
<1>11. /\ n \in Seq(Notes) /\ ToSet(n) = ToSet(k.stray) \cup ToSet(since)
       /\ Once(n, disturbed')
  <2>1. k.stray \in Seq(Notes) /\ Once(k.stray, disturbed') /\ Once(since, disturbed')
    BY <1>2, <1>7, <1>8, OnceStill DEF CallType, Sound
  <2>2. ToSet(k.stray) \cap ToSet(since) \subseteq disturbed'
    BY <1>2, <1>6 DEF Sound
  <2> QED BY <1>7, <1>10, <2>1, <2>2, Joined
<1>12. PICK d : d = [k EXCEPT !.pc = "asking", !.source = k.source + 1, !.stray = n,
                              !.mine = e, !.before = {}]
  OBVIOUS
<1>13. /\ d \in CallType /\ d.pc = "asking" /\ d.notes = k.notes /\ d.mine = e
       /\ d.stray = n /\ d.unread = k.unread /\ d.before = {}
  <2>1. k.source + 1 \in 0..Sources + 1
    BY <1>2, TurnsAssumption DEF CallType, Sound
  <2>2. PICK i : i = k.source + 1
    OBVIOUS
  <2>3. d = [k EXCEPT !.pc = "asking", !.source = i, !.stray = n, !.mine = e, !.before = {}]
    BY <1>12, <2>2
  <2> QED BY <1>2, <1>4, <1>11, <2>1, <2>2, <2>3 DEF CallType
<1>14. Sound(d, disturbed')
  <2>1. Sound(k, disturbed')
    BY <1>2, <1>8, SoundStill
  <2>2. ToSet(d.notes) \cap ToSet(d.stray) \subseteq disturbed'
    BY <1>2, <1>6, <1>11, <1>13 DEF Sound
  <2> QED BY <1>3, <1>4, <1>11, <1>13, <2>1, <2>2 DEF Sound
<1>15. CarriedBy(d) = ToSet(k.notes) \cup ToSet(k.stray) \cup ToSet(since)
  BY <1>4, <1>11, <1>13 DEF CarriedBy
<1>16. /\ CarriedBy(k) \subseteq CarriedBy(d) \cup disturbed
       /\ CarriedBy(d) \subseteq CarriedBy(k) \cup disturbed'
       /\ CarriedBy(d) \subseteq 1..minted
  BY <1>2, <1>6, <1>7, <1>9, <1>15 DEF CarriedBy, Placed
<1>17. /\ call' = [call EXCEPT ![c] = d] /\ UNCHANGED <<inbox, turn, phase, begun, past>>
       /\ UnderWay(c)
  BY <1>1, <1>2, <1>3, <1>5, <1>10, <1>12, Typed DEF SourceRaise, UnderWay
<1>18. /\ Carried(c) \subseteq CarriedBy(d) \cup disturbed'
       /\ CarriedBy(d) \subseteq Carried(c) \cup disturbed'
       /\ CarriedBy(d) \cup d.before \subseteq 1..minted /\ d.unread = call[c].unread
  BY <1>1, <1>8, <1>13, <1>16 DEF Carried
<1> QED BY <1>8, <1>13, <1>14, <1>17, <1>18, KeepsNotes

LEMMA SourceMintKeeps ==
  ASSUME TurnInv, NEW c \in Calls, SourceMint(c)
  PROVE  TurnInv'
<1>1. PICK k : k = call[c]
  OBVIOUS
<1>2. PICK m : m = minted + 1
  OBVIOUS
<1>3. /\ k \in CallType /\ Sound(k, disturbed) /\ k.pc = "minting" /\ Placed
      /\ CarriedBy(k) \cup k.before \subseteq 1..minted
      /\ (k.unread => CarriedBy(k) \subseteq disturbed) /\ (phase # "open" => k.unread)
      /\ pending \in Seq(Notes) /\ delivered \in Seq(Notes)
  BY <1>1, Typed, Record DEF TurnInv, SourceMint, UnderWay, Carried
<1>4. /\ m \in Notes /\ m \in minted..MaxNotes /\ m \notin 1..minted
      /\ 1..m = 1..minted \cup {m} /\ minted' = m
  BY <1>2, Typed DEF SourceMint, Notes
<1>5. /\ m \notin ToSet(pending) /\ m \notin ToSet(delivered)
      /\ m \notin settled /\ m \notin withdrawn
  BY <1>3, <1>4 DEF Placed
<1>6. PICK n : n = Append(k.mine, m)
  OBVIOUS
<1>7. PICK d : d = [k EXCEPT !.mine = n]
  OBVIOUS
<1>8. disturbed' = IF k.unread THEN disturbed \cup {m} ELSE disturbed
  BY <1>1, <1>2, <1>4 DEF SourceMint
<1>9. disturbed \subseteq disturbed' /\ disturbed' \subseteq Notes /\ (k.unread => m \in disturbed')
  BY <1>4, <1>8, Typed
<1>10. m \notin CarriedBy(k) /\ m \notin k.before
  BY <1>3, <1>4
<1>11. /\ n \in Seq(Notes) /\ ToSet(n) = ToSet(k.mine) \cup {m} /\ Once(n, disturbed)
  <2>1. k.mine \in Seq(Notes) /\ Once(k.mine, disturbed) /\ m \notin ToSet(k.mine)
    BY <1>3, <1>10 DEF CallType, Sound, CarriedBy
  <2> QED BY <1>4, <1>6, <2>1, Appended
<1>12. /\ d \in CallType /\ d.pc = "minting" /\ d.notes = k.notes /\ d.mine = n
       /\ d.stray = k.stray /\ d.unread = k.unread /\ d.source = k.source
       /\ d.before = k.before
  BY <1>3, <1>7, <1>11 DEF CallType
<1>13. Sound(d, disturbed')
  <2>1. Sound(d, disturbed)
    BY <1>3, <1>10, <1>11, <1>12 DEF Sound, CarriedBy
  <2> QED BY <1>9, <2>1, SoundStill
<1>14. CarriedBy(d) = CarriedBy(k) \cup {m}
  BY <1>11, <1>12 DEF CarriedBy
<1>15. /\ delivered' \in Seq(Notes) /\ ToSet(delivered') = ToSet(delivered) \cup {m}
       /\ Once(delivered', disturbed')
  <2>1. Once(delivered, disturbed')
    BY <1>3, <1>9, OnceStill DEF Placed
  <2>2. delivered' = Append(delivered, m)
    BY <1>4 DEF SourceMint
  <2> QED BY <1>3, <1>4, <1>5, <2>1, <2>2, Appended
<1>16. /\ UNCHANGED <<pending, turn, phase, begun, read, kept, settled, withdrawn>>
       /\ call' = [call EXCEPT ![c] = d]
  BY <1>1, <1>2, <1>4, <1>6, <1>7, Typed DEF SourceMint, past
<1>17. Placed'
  <2>1. Once(pending', disturbed')
    BY <1>3, <1>9, <1>16, OnceStill DEF Placed
  <2>2. ToSet(pending') \cup ToSet(delivered') \cup settled' \cup withdrawn' = 1..minted'
    BY <1>3, <1>4, <1>15, <1>16 DEF Placed
  <2>3. /\ ToSet(pending') \cap ToSet(delivered') \subseteq disturbed'
        /\ (ToSet(pending') \cup ToSet(delivered')) \cap (settled' \cup withdrawn') \subseteq disturbed'
        /\ settled' \cap withdrawn' \subseteq disturbed'
    BY <1>3, <1>5, <1>9, <1>15, <1>16 DEF Placed
  <2> QED BY <1>15, <2>1, <2>2, <2>3 DEF Placed
<1>18. OneCall(c, d)
  <2>1. /\ ToSet(delivered) \subseteq read \cup CarriedBy(k) \cup Others(c) \cup disturbed
        /\ read \cup CarriedBy(k) \cup Others(c) \subseteq ToSet(delivered) \cup disturbed
        /\ read \cap CarriedBy(k) \subseteq disturbed
        /\ (read \cup CarriedBy(k)) \cap Others(c) \subseteq disturbed
        /\ Others(c) \subseteq 1..minted
    BY <1>1, Parts DEF Carried
  <2>2. m \in disturbed \/ m \notin read
    BY <1>5, <2>1
  <2>3. m \notin Others(c)
    BY <1>4, <2>1
  <2>4. ToSet(delivered') \subseteq read \cup CarriedBy(d) \cup Others(c) \cup disturbed'
    BY <1>9, <1>14, <1>15, <2>1
  <2>5. read \cup CarriedBy(d) \cup Others(c) \subseteq ToSet(delivered') \cup disturbed'
    BY <1>9, <1>14, <1>15, <2>1
  <2>6. /\ read \cap CarriedBy(d) \subseteq disturbed'
        /\ (read \cup CarriedBy(d)) \cap Others(c) \subseteq disturbed'
    BY <1>9, <1>14, <2>1, <2>2, <2>3
  <2>7. CarriedBy(d) \cup d.before \subseteq 1..minted'
    BY <1>3, <1>4, <1>12, <1>14
  <2>8. /\ (d.unread => CarriedBy(d) \subseteq disturbed') /\ (phase # "open" => d.unread)
        /\ read \subseteq Notes /\ begun \in 0..MaxDeliveries
    BY <1>3, <1>9, <1>12, <1>14, Typed
  <2> QED BY <1>3, <1>4, <1>9, <1>12, <1>13, <1>15, <1>16, <2>4, <2>5, <2>6, <2>7, <2>8 DEF OneCall
<1> QED BY <1>17, <1>18, CallStep

\* A delivery gives notes of its own back to the queue.
LEMMA GivesBack ==
  ASSUME TurnInv, NEW c \in Calls, UnderWay(c), NEW notes \in Seq(Notes), Once(notes, disturbed),
         ToSet(notes) \subseteq Carried(c), NEW d \in CallType, Sound(d, disturbed),
         CarriedBy(d) \subseteq Carried(c), Carried(c) \subseteq CarriedBy(d) \cup ToSet(notes),
         CarriedBy(d) \cap ToSet(notes) \subseteq disturbed,
         d.before = {}, d.pc # "idle" => d.unread = call[c].unread, d.pc = "idle" => ~d.unread,
         call' = [call EXCEPT ![c] = d],
         Restore(notes), UNCHANGED <<minted, turn, phase, begun, history>>
  PROVE  TurnInv'
<1>1. /\ ToSet(delivered) \subseteq read \cup Carried(c) \cup Others(c) \cup disturbed
      /\ read \cup Carried(c) \cup Others(c) \subseteq ToSet(delivered) \cup disturbed
      /\ read \cap Carried(c) \subseteq disturbed
      /\ (read \cup Carried(c)) \cap Others(c) \subseteq disturbed
  BY Parts
<1>2. /\ UNCHANGED <<read, kept, settled, withdrawn, disturbed>>
      /\ Carried(c) \subseteq 1..minted
      /\ call[c].unread => Carried(c) \subseteq disturbed
      /\ phase # "open" => call[c].unread
  BY Record DEF history, past
<1>3. ToSet(notes) \subseteq ToSet(delivered) \cup disturbed /\ ToSet(notes) \subseteq 1..minted
  BY <1>1, <1>2
<1>4. /\ pending' \in Seq(Notes) /\ delivered' \in Seq(Notes)
      /\ ToSet(delivered') = ToSet(delivered) \ ToSet(notes) /\ Placed'
  BY <1>2, <1>3, Restores
<1>5. ToSet(delivered') \subseteq read \cup CarriedBy(d) \cup Others(c) \cup disturbed
  BY <1>1, <1>4
<1>6. ToSet(notes) \cap (read \cup Others(c) \cup CarriedBy(d)) \subseteq disturbed
  BY <1>1
<1>7. read \cup CarriedBy(d) \cup Others(c) \subseteq ToSet(delivered') \cup disturbed
  BY <1>1, <1>4, <1>6
<1>8. /\ read \cap CarriedBy(d) \subseteq disturbed
      /\ (read \cup CarriedBy(d)) \cap Others(c) \subseteq disturbed
      /\ CarriedBy(d) \subseteq 1..minted
  BY <1>1, <1>2
<1>9. /\ minted \in minted..MaxNotes /\ begun \in 0..MaxDeliveries /\ read \subseteq Notes
      /\ disturbed \subseteq Notes
  BY Typed
<1>10. OneCall(c, d)
  BY <1>2, <1>4, <1>5, <1>7, <1>8, <1>9 DEF OneCall
<1> QED BY <1>4, <1>10, CallStep

LEMMA CollectedKeeps ==
  ASSUME TurnInv, NEW c \in Calls, Collected(c)
  PROVE  TurnInv'
<1>1. PICK k : k = call[c]
  OBVIOUS
<1>2. k \in CallType /\ Sound(k, disturbed) /\ k.pc = "asking"
  BY <1>1, Record DEF Collected
<1>3. PICK e : e = <<>>
  OBVIOUS
<1>4. e \in Seq(Notes) /\ ToSet(e) = {} /\ \A K : Once(e, K)
  BY <1>3, EmptyHolds
<1>5. /\ k.stray \in Seq(Notes) /\ Once(k.stray, disturbed) /\ k.mine = e
      /\ ToSet(k.notes) \cap ToSet(k.stray) \subseteq disturbed
  BY <1>2, <1>3 DEF CallType, Sound
<1>6. ToSet(k.stray) \subseteq Carried(c) /\ UnderWay(c)
  BY <1>1, <1>2 DEF Carried, CarriedBy, UnderWay
<1>7. Carried(c) = ToSet(k.notes) \cup ToSet(k.stray)
  BY <1>1, <1>4, <1>5 DEF Carried, CarriedBy
<1>8. Restore(k.stray) /\ UNCHANGED <<minted, turn, phase, begun, history>>
  BY <1>1 DEF Collected
<1>9. CASE k.notes = <<>>
  <2>1. call' = [call EXCEPT ![c] = Resting]
    BY <1>1, <1>9, Typed DEF Collected
  <2>2. Carried(c) = ToSet(k.stray)
    BY <1>3, <1>4, <1>7, <1>9
  <2>3. /\ Resting \in CallType /\ Sound(Resting, disturbed) /\ CarriedBy(Resting) = {}
        /\ Resting.pc = "idle" /\ Resting.before = {} /\ ~Resting.unread
    BY AtRest
  <2> QED BY <1>5, <1>6, <1>8, <2>1, <2>2, <2>3, GivesBack
<1>10. CASE k.notes # <<>>
  <2>1. PICK d : d = [k EXCEPT !.pc = "attaching", !.stray = e]
    OBVIOUS
  <2>2. /\ d \in CallType /\ d.pc = "attaching" /\ d.notes = k.notes /\ d.mine = e
        /\ d.stray = e /\ d.unread = k.unread /\ d.before = k.before
    BY <1>2, <1>4, <1>5, <2>1 DEF CallType
  <2>3. Sound(d, disturbed)
    BY <1>2, <1>3, <1>4, <2>2 DEF Sound
  <2>4. CarriedBy(d) = ToSet(k.notes)
    BY <1>4, <2>2 DEF CarriedBy
  <2>5. call' = [call EXCEPT ![c] = d]
    BY <1>1, <1>3, <1>10, <2>1, Typed DEF Collected
  <2>6. d.before = {}
    BY <1>2, <2>2 DEF Sound
  <2>7. /\ CarriedBy(d) \subseteq Carried(c) /\ Carried(c) \subseteq CarriedBy(d) \cup ToSet(k.stray)
        /\ CarriedBy(d) \cap ToSet(k.stray) \subseteq disturbed
    BY <1>5, <1>7, <2>4
  <2> QED BY <1>1, <1>5, <1>6, <1>8, <2>2, <2>3, <2>5, <2>6, <2>7, GivesBack
<1> QED BY <1>9, <1>10

\* A delivery past its sources has the notes for its result, and no other.
LEMMA Attaching ==
  ASSUME TurnInv, NEW c \in Calls, call[c].pc \in {"attaching", "announcing"}
  PROVE  /\ call[c].notes \in Seq(Notes) /\ Once(call[c].notes, disturbed)
         /\ Carried(c) = ToSet(call[c].notes) /\ UnderWay(c)
<1>1. PICK e : e = <<>>
  OBVIOUS
<1>2. ToSet(e) = {} /\ call[c].mine = e /\ call[c].stray = e
  BY <1>1, Record, EmptyHolds DEF Sound
<1> QED BY <1>2, Record DEF CallType, Sound, Carried, CarriedBy, UnderWay

\* What is left to deliver goes back to the queue, and the delivery is over.
LEMMA AllBack ==
  ASSUME TurnInv, NEW c \in Calls, call[c].pc \in {"attaching", "announcing"},
         Restore(call[c].notes), call' = [call EXCEPT ![c] = Resting],
         UNCHANGED <<minted, turn, phase, begun, history>>
  PROVE  TurnInv'
<1>1. PICK notes : notes = call[c].notes
  OBVIOUS
<1>2. /\ notes \in Seq(Notes) /\ Once(notes, disturbed)
      /\ Carried(c) = ToSet(notes) /\ UnderWay(c)
  BY <1>1, Attaching
<1>3. /\ Resting \in CallType /\ Sound(Resting, disturbed) /\ CarriedBy(Resting) = {}
      /\ Resting.pc = "idle" /\ Resting.before = {} /\ ~Resting.unread
  BY AtRest
<1>4. Restore(notes)
  BY <1>1
<1> QED BY <1>2, <1>3, <1>4, GivesBack

LEMMA AttachKeeps ==
  ASSUME TurnInv, NEW c \in Calls, Attach(c)
  PROVE  TurnInv'
<1>1. PICK k : k = call[c]
  OBVIOUS
<1>2. k \in CallType /\ Sound(k, disturbed) /\ k.pc = "attaching" /\ UnderWay(c)
  BY <1>1, Record DEF Attach, UnderWay
<1>3. CASE call' = [call EXCEPT ![c].pc = "announcing"] /\ UNCHANGED inbox
  <2>1. PICK d : d = [k EXCEPT !.pc = "announcing"]
    OBVIOUS
  <2>2. /\ d \in CallType /\ d.pc = "announcing" /\ d.notes = k.notes /\ d.mine = k.mine
        /\ d.stray = k.stray /\ d.unread = k.unread /\ d.before = k.before
    BY <1>2, <2>1 DEF CallType
  <2>3. Sound(d, disturbed) /\ CarriedBy(d) = Carried(c)
    BY <1>1, <1>2, <2>2 DEF Sound, CarriedBy, Carried
  <2>4. /\ call' = [call EXCEPT ![c] = d] /\ UNCHANGED <<inbox, turn, phase, begun, past, disturbed>>
    BY <1>1, <1>3, <2>1, Typed DEF Attach, history
  <2>5. CarriedBy(d) \cup d.before \subseteq 1..minted /\ disturbed' \subseteq Notes
    BY <1>1, <2>2, <2>3, <2>4, Record, Typed
  <2> QED BY <1>1, <1>2, <2>2, <2>3, <2>4, <2>5, KeepsNotes
<1>4. CASE Restore(call[c].notes) /\ call' = [call EXCEPT ![c] = Resting] /\ UNCHANGED minted
  <2>1. UNCHANGED <<minted, turn, phase, begun, history>>
    BY <1>4 DEF Attach
  <2> QED BY <1>1, <1>2, <1>4, <2>1, AllBack
<1> QED BY <1>3, <1>4 DEF Attach

LEMMA AnnounceKeeps ==
  ASSUME TurnInv, NEW c \in Calls, Announce(c)
  PROVE  TurnInv'
<1>1. PICK notes : notes = ToSet(call[c].notes)
  OBVIOUS
<1>2. /\ call[c].pc = "announcing" /\ call[c].notes \in Seq(Notes) /\ Carried(c) = notes
      /\ UnderWay(c)
  BY <1>1, Attaching DEF Announce
<1>3. CASE /\ read' = IF call[c].unread THEN read ELSE read \cup ToSet(call[c].notes)
           /\ UNCHANGED inbox
  <2>1. /\ ToSet(delivered) \subseteq read \cup notes \cup Others(c) \cup disturbed
        /\ read \cup notes \cup Others(c) \subseteq ToSet(delivered) \cup disturbed
        /\ (read \cup notes) \cap Others(c) \subseteq disturbed
    BY <1>2, Parts
  <2>2. /\ call' = [call EXCEPT ![c] = Resting]
        /\ UNCHANGED <<pending, delivered, minted, turn, phase, begun, kept, settled, withdrawn,
                       disturbed>>
    BY <1>3 DEF Announce, inbox
  <2>3. /\ (call[c].unread => notes \subseteq disturbed) /\ (phase # "open" => call[c].unread)
    BY <1>2, Record
  <2>4. /\ read \subseteq read' /\ read' \subseteq read \cup notes
        /\ notes \subseteq read' \cup disturbed /\ (phase # "open" => read' = read)
    BY <1>1, <1>3, <2>3
  <2>5. /\ pending \in Seq(Notes) /\ delivered \in Seq(Notes) /\ minted \in minted..MaxNotes
        /\ begun \in 0..MaxDeliveries /\ read \subseteq Notes /\ notes \subseteq Notes
        /\ disturbed \subseteq Notes
    BY <1>1, <1>2, Typed DEF ToSet
  <2>6. /\ ToSet(delivered) \subseteq read' \cup Others(c) \cup disturbed
        /\ read' \cup Others(c) \subseteq ToSet(delivered) \cup disturbed
        /\ read' \cap Others(c) \subseteq disturbed /\ read' \subseteq Notes
    BY <2>1, <2>4, <2>5
  <2>7. OneCall(c, Resting)
    BY <2>2, <2>4, <2>5, <2>6, AtRest DEF OneCall
  <2> QED BY <2>2, <2>7, CallStep, PlacedStill
<1>4. CASE Restore(call[c].notes) /\ UNCHANGED <<minted, read>>
  <2>1. call' = [call EXCEPT ![c] = Resting] /\ UNCHANGED <<minted, turn, phase, begun, history>>
    BY <1>4 DEF Announce, history, past
  <2> QED BY <1>2, <1>4, <2>1, AllBack
<1> QED BY <1>3, <1>4 DEF Announce

-----------------------------------------------------------------------------
(* The steps of the inbox and the turn *)

LEMMA PutKeeps == ASSUME TurnInv, Put PROVE TurnInv'
<1>1. PICK m : m = minted + 1
  OBVIOUS
<1>2. /\ m \in Notes /\ m \in 0..MaxNotes /\ m \notin 1..minted
      /\ 1..m = 1..minted \cup {m} /\ minted' = m
  BY <1>1, Typed DEF Put, Notes
<1>3. pending \in Seq(Notes) /\ Placed
  BY DEF TurnInv, TypeOK
<1>4. /\ m \notin ToSet(pending) /\ m \notin ToSet(delivered)
      /\ m \notin settled /\ m \notin withdrawn
  BY <1>2, <1>3 DEF Placed
<1>5. /\ pending' = Append(pending, m)
      /\ UNCHANGED <<delivered, turn, phase, begun, call, read, kept, settled, withdrawn, disturbed>>
  BY <1>2 DEF Put, history, past
<1>6. /\ pending' \in Seq(Notes) /\ ToSet(pending') = ToSet(pending) \cup {m}
      /\ Once(pending', disturbed)
  BY <1>2, <1>3, <1>4, <1>5, Appended DEF Placed
<1>7. Placed'
  BY <1>2, <1>3, <1>4, <1>5, <1>6 DEF Placed
<1>8. TypeOK'
  BY <1>2, <1>5, <1>6 DEF TurnInv, TypeOK
<1>9. /\ Shared' /\ Turning' /\ Handled'
      /\ \A c \in Calls : Sound(call[c], disturbed)'
  BY <1>2, <1>5 DEF TurnInv, Shared, Turning, Handled, Carried, UnderWay, Sound, Once
<1> QED BY <1>7, <1>8, <1>9 DEF TurnInv

LEMMA WithdrawKeeps == ASSUME TurnInv, NEW n \in Notes, Withdraw(n) PROVE TurnInv'
<1>1. PICK i \in DOMAIN pending : pending[i] = n /\ pending' = RemoveAt(pending, i)
  BY DEF Withdraw
<1>2. pending \in Seq(Notes) /\ Placed
  BY DEF TurnInv, TypeOK
<1>3. n \in ToSet(pending)
  BY <1>1 DEF ToSet
<1>4. /\ pending' \in Seq(Notes) /\ ToSet(pending') \subseteq ToSet(pending)
      /\ ToSet(pending) \subseteq ToSet(pending') \cup {n}
      /\ n \notin disturbed => n \notin ToSet(pending')
      /\ Once(pending', disturbed)
  BY <1>1, <1>2, Removed DEF Placed
<1>5. /\ withdrawn' = withdrawn \cup {n}
      /\ UNCHANGED <<delivered, minted, turn, phase, begun, call, read, kept, settled, disturbed>>
  BY DEF Withdraw
<1>6. Placed'
  <2>1. ToSet(pending') \cup ToSet(delivered') \cup settled' \cup withdrawn' = 1..minted'
    BY <1>2, <1>3, <1>4, <1>5 DEF Placed
  <2>2. /\ n \notin disturbed => n \notin ToSet(delivered) /\ n \notin settled
    BY <1>2, <1>3 DEF Placed
  <2>3. /\ ToSet(pending') \cap ToSet(delivered') \subseteq disturbed'
        /\ (ToSet(pending') \cup ToSet(delivered')) \cap (settled' \cup withdrawn') \subseteq disturbed'
        /\ settled' \cap withdrawn' \subseteq disturbed'
    BY <1>2, <1>4, <1>5, <2>2 DEF Placed
  <2> QED BY <1>2, <1>4, <1>5, <2>1, <2>3 DEF Placed
<1>7. TypeOK'
  BY <1>4, <1>5 DEF TurnInv, TypeOK
<1>8. /\ Shared' /\ Turning' /\ Handled'
      /\ \A c \in Calls : Sound(call[c], disturbed)'
  BY <1>5 DEF TurnInv, Shared, Turning, Handled, Carried, UnderWay, Sound, Once
<1> QED BY <1>6, <1>7, <1>8 DEF TurnInv

\* What every delivery under way has, once it has been overtaken.
LEMMA Overtaken ==
  ASSUME TurnInv, Overtake, minted' = minted
  PROVE  /\ call' \in [Calls -> CallType]
         /\ disturbed \subseteq disturbed' /\ disturbed' \subseteq Notes
         /\ \A c \in Calls : /\ Carried(c)' = Carried(c) /\ Carried(c) \subseteq disturbed'
                             /\ Sound(call'[c], disturbed')
                             /\ UnderWay(c)' => call'[c].unread
         /\ Handled'
<1>1. call \in [Calls -> CallType]
  BY Typed
<1>2. \A c \in Calls : call'[c] = [call[c] EXCEPT !.unread = UnderWay(c)]
  BY DEF Overtake
<1>3. \A c \in Calls : /\ call'[c] \in CallType
                       /\ call'[c].pc = call[c].pc /\ call'[c].notes = call[c].notes
                       /\ call'[c].mine = call[c].mine /\ call'[c].stray = call[c].stray
                       /\ call'[c].source = call[c].source /\ call'[c].before = call[c].before
                       /\ call'[c].unread = UnderWay(c)
  <2> TAKE c \in Calls
  <2>1. PICK k \in CallType : k = call[c]
    BY <1>1
  <2>2. PICK b \in BOOLEAN : b = UnderWay(c)
    BY DEF UnderWay
  <2>3. call'[c] = [k EXCEPT !.unread = b]
    BY <1>2, <2>1, <2>2
  <2>4. PICK d : d = [k EXCEPT !.unread = b]
    OBVIOUS
  <2>5. /\ d \in CallType /\ d.pc = k.pc /\ d.notes = k.notes /\ d.mine = k.mine
        /\ d.stray = k.stray /\ d.source = k.source /\ d.before = k.before /\ d.unread = b
    BY <2>1, <2>2, <2>4 DEF CallType
  <2> QED BY <2>1, <2>2, <2>3, <2>4, <2>5
<1>4. call' \in [Calls -> CallType]
  BY <1>3 DEF Overtake
<1>5. PICK all : all = UNION {Carried(c) : c \in Calls}
  OBVIOUS
<1>6. disturbed' = disturbed \cup all /\ \A c \in Calls : Carried(c) \subseteq all
  BY <1>5 DEF Overtake
<1>7. \A c \in Calls : Carried(c)' = Carried(c)
  BY <1>3 DEF Carried, CarriedBy
<1>8. \A c \in Calls : Carried(c) \cup call[c].before \subseteq 1..minted
  BY Record
<1>9. disturbed' \subseteq Notes
  <2>1. 1..minted \subseteq Notes
    BY Typed DEF Notes
  <2>2. all \subseteq Notes
    BY <1>5, <1>8, <2>1
  <2> QED BY <1>6, <2>2, Typed
<1>10. ASSUME NEW c \in Calls PROVE Sound(call'[c], disturbed')
  <2>1. Sound(call[c], disturbed')
    BY <1>6, SoundStill, Record
  <2>2. call[c].pc = "idle" => call'[c] = Resting
    <3> SUFFICES ASSUME call[c].pc = "idle" PROVE call'[c] = Resting
      OBVIOUS
    <3>1. call[c] = Resting /\ UnderWay(c) = FALSE
      BY <2>1 DEF Sound, UnderWay
    <3>2. Resting \in CallType /\ Resting.unread = FALSE
      BY AtRest
    <3>3. [Resting EXCEPT !.unread = FALSE] = Resting
      BY <3>2 DEF CallType
    <3> QED BY <1>2, <3>1, <3>3
  <2> QED BY <1>3, <2>1, <2>2 DEF Sound
<1>11. Handled'
  BY <1>3, <1>6, <1>7, <1>8 DEF Handled
<1>12. \A c \in Calls : UnderWay(c)' => call'[c].unread
  BY <1>3 DEF UnderWay
<1> QED BY <1>4, <1>6, <1>7, <1>9, <1>10, <1>11, <1>12

\* All that is delivered goes back to the queue; no delivery under way has
\* an undisturbed note.
LEMMA Requeues ==
  ASSUME TurnInv, Requeue, UNCHANGED <<minted, settled, withdrawn>>,
         disturbed \subseteq disturbed'
  PROVE  /\ pending' \in Seq(Notes) /\ delivered' \in Seq(Notes) /\ ToSet(delivered') = {}
         /\ Placed'
<1>1. pending \in Seq(Notes) /\ delivered \in Seq(Notes) /\ Placed
  BY DEF TurnInv, TypeOK
<1>2. delivered' = <<>> /\ pending' = delivered \o pending
  BY DEF Requeue
<1>3. delivered' \in Seq(Notes) /\ ToSet(delivered') = {} /\ Once(delivered', disturbed')
  BY <1>2, EmptyHolds
<1>4. /\ pending' \in Seq(Notes) /\ ToSet(pending') = ToSet(pending) \cup ToSet(delivered)
      /\ Once(pending', disturbed')
  <2>1. /\ Once(delivered, disturbed') /\ Once(pending, disturbed')
        /\ ToSet(delivered) \cap ToSet(pending) \subseteq disturbed'
    BY <1>1, OnceStill DEF Placed
  <2> QED BY <1>1, <1>2, <2>1, Joined
<1>5. Placed'
  BY <1>1, <1>3, <1>4 DEF Placed
<1> QED BY <1>3, <1>4, <1>5

LEMMA BeginKeeps == ASSUME TurnInv, Begin PROVE TurnInv'
<1>1. read = {} /\ turn' \in 0..MaxTurns
  BY TurnsAssumption DEF Begin, TurnInv, Turning, TypeOK
<1>2. /\ UNCHANGED <<pending, delivered, minted, begun, call, read, kept, settled, withdrawn, disturbed>>
      /\ phase' = "open"
  BY <1>1 DEF Begin, inbox
<1>3. TypeOK'
  BY <1>1, <1>2 DEF TurnInv, TypeOK
<1>4. /\ Placed' /\ Shared' /\ Handled' /\ Turning'
      /\ \A c \in Calls : Sound(call[c], disturbed)'
  BY <1>2 DEF TurnInv, Placed, Shared, Handled, Turning, Carried, Sound, Once
<1> QED BY <1>3, <1>4 DEF TurnInv

LEMMA RetryKeeps == ASSUME TurnInv, Retry PROVE TurnInv'
<1>1. /\ Requeue /\ Overtake /\ read' = {} /\ phase = "open"
      /\ UNCHANGED <<minted, turn, phase, begun, kept, settled, withdrawn>>
  BY DEF Retry
<1>2. /\ call' \in [Calls -> CallType]
      /\ disturbed \subseteq disturbed' /\ disturbed' \subseteq Notes
      /\ \A c \in Calls : /\ Carried(c)' = Carried(c) /\ Carried(c) \subseteq disturbed'
                          /\ Sound(call'[c], disturbed')
      /\ Handled'
  BY <1>1, Overtaken
<1>3. /\ pending' \in Seq(Notes) /\ delivered' \in Seq(Notes) /\ ToSet(delivered') = {}
      /\ Placed'
  BY <1>1, <1>2, Requeues
<1>4. TypeOK'
  BY <1>1, <1>2, <1>3 DEF TurnInv, TypeOK, CallType
<1>5. Shared'
  BY <1>1, <1>2, <1>3 DEF Shared
<1>6. Turning'
  BY <1>1, <1>2 DEF TurnInv, Turning
<1>7. \A c \in Calls : Sound(call[c], disturbed)'
  BY <1>2 DEF Sound, Once
<1> QED BY <1>2, <1>3, <1>4, <1>5, <1>6, <1>7 DEF TurnInv

LEMMA EndBeginKeeps == ASSUME TurnInv, EndBegin PROVE TurnInv'
<1>1. /\ Overtake /\ phase' = "ending"
      /\ UNCHANGED <<pending, delivered, minted, turn, begun, read, kept, settled, withdrawn>>
  BY DEF EndBegin, inbox, past
<1>2. /\ call' \in [Calls -> CallType]
      /\ disturbed \subseteq disturbed' /\ disturbed' \subseteq Notes
      /\ \A c \in Calls : /\ Carried(c)' = Carried(c)
                          /\ Sound(call'[c], disturbed')
                          /\ UnderWay(c)' => call'[c].unread
      /\ Handled'
  BY <1>1, Overtaken
<1>3. TypeOK'
  BY <1>1, <1>2 DEF TurnInv, TypeOK, CallType
<1>4. Placed'
  BY <1>1, <1>2, PlacedStill
<1>5. Shared'
  <2>1. UNION {Carried(c)' : c \in Calls} = UNION {Carried(c) : c \in Calls}
    BY <1>2
  <2>2. PICK all : all = UNION {Carried(c) : c \in Calls}
    OBVIOUS
  <2>3. ToSet(delivered) \subseteq read \cup all \cup disturbed
    BY <2>2 DEF TurnInv, Shared
  <2>4. ToSet(delivered') \subseteq read' \cup all \cup disturbed'
    BY <1>1, <1>2, <2>3
  <2>5. /\ read' \subseteq ToSet(delivered') \cup disturbed'
        /\ \A c \in Calls : Carried(c)' \subseteq ToSet(delivered') \cup disturbed'
        /\ \A c \in Calls : read' \cap Carried(c)' \subseteq disturbed'
        /\ \A c, d \in Calls : c # d => Carried(c)' \cap Carried(d)' \subseteq disturbed'
    BY <1>1, <1>2 DEF TurnInv, Shared
  <2> QED BY <2>1, <2>2, <2>4, <2>5 DEF Shared
<1>6. Turning'
  BY <1>1, <1>2 DEF TurnInv, Turning
<1>7. \A c \in Calls : Sound(call[c], disturbed)'
  BY <1>2 DEF Sound, Once
<1> QED BY <1>2, <1>3, <1>4, <1>5, <1>6, <1>7 DEF TurnInv

\* Outside an open turn, what is delivered has been read or is disturbed.
LEMMA AllRead ==
  ASSUME TurnInv, phase # "open"
  PROVE  /\ ToSet(delivered) \subseteq read \cup disturbed
         /\ \A c \in Calls : Carried(c) \subseteq disturbed
<1>1. \A c \in Calls : Carried(c) \subseteq disturbed
  <2> TAKE c \in Calls
  <2>1. CASE UnderWay(c)
    BY <2>1, Record
  <2>2. CASE ~UnderWay(c)
    <3>1. call[c] = Resting
      BY <2>2, Record DEF UnderWay, Sound
    <3> QED BY <3>1, AtRest DEF Carried
  <2> QED BY <2>1, <2>2
<1>2. PICK all : all = UNION {Carried(c) : c \in Calls}
  OBVIOUS
<1>3. ToSet(delivered) \subseteq read \cup all \cup disturbed
  BY <1>2 DEF TurnInv, Shared
<1>4. all \subseteq disturbed
  BY <1>1, <1>2
<1> QED BY <1>1, <1>3, <1>4

LEMMA EndStoreKeeps == ASSUME TurnInv, EndStore PROVE TurnInv'
<1>1. /\ phase = "ending"
      /\ UNCHANGED <<turn, begun, call, settled, withdrawn, disturbed>>
  BY DEF EndStore
<1>2. CASE phase' = "settling" /\ kept' = kept \cup read /\ UNCHANGED <<inbox, read>>
  <2>1. UNCHANGED <<pending, delivered, minted, read>>
    BY <1>2 DEF inbox
  <2>2. TypeOK'
    BY <1>1, <1>2, <2>1 DEF TurnInv, TypeOK
  <2>3. /\ Placed' /\ Shared' /\ Handled'
        /\ \A c \in Calls : Sound(call[c], disturbed)'
    BY <1>1, <2>1 DEF TurnInv, Placed, Shared, Handled, Carried, Sound, Once
  <2>4. Turning'
    BY <1>1, <1>2, <2>1 DEF TurnInv, Turning, UnderWay
  <2> QED BY <2>2, <2>3, <2>4 DEF TurnInv
<1>3. CASE phase' = "none" /\ Requeue /\ read' = {} /\ UNCHANGED <<minted, kept>>
  <2>1. /\ pending' \in Seq(Notes) /\ delivered' \in Seq(Notes) /\ ToSet(delivered') = {}
        /\ Placed'
    BY <1>1, <1>3, Requeues
  <2>2. \A c \in Calls : Carried(c)' = Carried(c) /\ Carried(c) \subseteq disturbed
    BY <1>1, AllRead DEF Carried
  <2>3. TypeOK'
    BY <1>1, <1>3, <2>1 DEF TurnInv, TypeOK
  <2>4. Shared'
    BY <1>1, <1>3, <2>1, <2>2 DEF Shared
  <2>5. Handled' /\ Turning' /\ \A c \in Calls : Sound(call[c], disturbed)'
    BY <1>1, <1>3, <2>2 DEF TurnInv, Handled, Turning, UnderWay, Sound, Once
  <2> QED BY <2>1, <2>3, <2>4, <2>5 DEF TurnInv
<1> QED BY <1>2, <1>3 DEF EndStore

LEMMA EndSettleKeeps == ASSUME TurnInv, EndSettle PROVE TurnInv'
<1>1. /\ ToSet(delivered) \subseteq kept \cup disturbed
      /\ \A c \in Calls : Carried(c) \subseteq disturbed
  BY AllRead DEF EndSettle, TurnInv, Turning
<1>2. /\ phase = "settling"
      /\ settled' = settled \cup ToSet(delivered) /\ delivered' = <<>> /\ phase' = "none"
      /\ read' = {} /\ UNCHANGED <<pending, minted, turn, begun, call, kept, withdrawn, disturbed>>
  BY DEF EndSettle
<1>3. delivered' \in Seq(Notes) /\ ToSet(delivered') = {} /\ Once(delivered', disturbed')
  BY <1>2, EmptyHolds
<1>4. TypeOK'
  <2>1. settled' \subseteq Notes
    BY <1>1, <1>2 DEF TurnInv, TypeOK
  <2> QED BY <1>2, <1>3, <2>1 DEF TurnInv, TypeOK
<1>5. Placed'
  <2>1. /\ Placed /\ Once(pending', disturbed')
    BY <1>2 DEF TurnInv, Placed, Once
  <2>2. ToSet(pending') \cup ToSet(delivered') \cup settled' \cup withdrawn' = 1..minted'
    BY <1>2, <1>3, <2>1 DEF Placed
  <2>3. /\ ToSet(pending') \cap ToSet(delivered') \subseteq disturbed'
        /\ (ToSet(pending') \cup ToSet(delivered')) \cap (settled' \cup withdrawn') \subseteq disturbed'
        /\ settled' \cap withdrawn' \subseteq disturbed'
    BY <1>2, <1>3, <2>1 DEF Placed
  <2> QED BY <1>3, <2>1, <2>2, <2>3 DEF Placed
<1>6. \A c \in Calls : Carried(c)' = Carried(c)
  BY <1>2 DEF Carried
<1>7. Shared'
  BY <1>1, <1>2, <1>3, <1>6 DEF Shared
<1>8. Turning'
  BY <1>1, <1>2 DEF TurnInv, Turning, UnderWay
<1>9. Handled' /\ \A c \in Calls : Sound(call[c], disturbed)'
  BY <1>2, <1>6 DEF TurnInv, Handled, Sound, Once
<1> QED BY <1>4, <1>5, <1>7, <1>8, <1>9 DEF TurnInv

LEMMA TurnInvInit == ASSUME Init PROVE TurnInv
<1>1. PICK e : e = <<>>
  OBVIOUS
<1>2. e \in Seq(Notes) /\ ToSet(e) = {} /\ \A K : Once(e, K)
  BY <1>1, EmptyHolds
<1>3. /\ pending = e /\ delivered = e /\ minted = 0 /\ turn = 0 /\ phase = "none" /\ begun = 0
      /\ call = [c \in Calls |-> Resting]
      /\ read = {} /\ kept = {} /\ settled = {} /\ withdrawn = {} /\ disturbed = {}
  BY <1>1 DEF Init
<1>4. 0 \in 0..MaxNotes /\ 0 \in 0..MaxTurns /\ 0 \in 0..MaxDeliveries /\ 1..0 = {}
  BY TurnsAssumption
<1>5. call \in [Calls -> CallType]
  BY <1>3, AtRest
<1>6. TypeOK
  BY <1>2, <1>3, <1>4, <1>5 DEF TypeOK, CallType
<1>7. Placed
  BY <1>2, <1>3, <1>4 DEF Placed
<1>8. \A c \in Calls : /\ Carried(c) = {} /\ ~UnderWay(c) /\ ~call[c].unread
                       /\ call[c].before = {} /\ Sound(call[c], disturbed)
  BY <1>3, AtRest DEF Carried, UnderWay
<1>9. Shared /\ Turning /\ Handled
  BY <1>2, <1>3, <1>8 DEF Shared, Turning, Handled
<1> QED BY <1>6, <1>7, <1>8, <1>9 DEF TurnInv

LEMMA TurnInvNext == ASSUME TurnInv, [Next]_vars PROVE TurnInv'
<1>1. ASSUME NEW c \in Calls, Deliver(c)
      PROVE  TurnInv'
  BY <1>1, DeliverBeginKeeps, SourceBeginKeeps, SourceMintKeeps, SourceReturnKeeps,
     SourceRaiseKeeps, CollectedKeeps, AttachKeeps, AnnounceKeeps DEF Deliver
<1>2. CASE UNCHANGED vars
  BY <1>2 DEF vars, TurnInv, TypeOK, Placed, Shared, Handled, Turning, Carried, UnderWay, Sound, Once
<1> QED BY <1>1, <1>2, PutKeeps, WithdrawKeeps, BeginKeeps, RetryKeeps, EndBeginKeeps,
           EndStoreKeeps, EndSettleKeeps DEF Next

-----------------------------------------------------------------------------
(* What it says *)

\* The inductive invariant: every note is in a place and an undisturbed one
\* in one place, where it has been read or is in the hands of one delivery
\* when it is delivered.
THEOREM TurnInvHolds == Spec => []TurnInv
<1>1. Init => TurnInv
  BY TurnInvInit
<1>2. TurnInv /\ [Next]_vars => TurnInv'
  BY TurnInvNext
<1> QED BY <1>1, <1>2, PTL DEF Spec

\* No note is lost, and none whose delivery was left alone is doubled or
\* raised from the dead, however deliveries, failures, retries and ends
\* interleave (Inbox, Turn.collect, Turn.end).
THEOREM OnePlaceHolds == Spec => []OnePlace
<1>1. TurnInv => OnePlace
  <2> SUFFICES ASSUME TurnInv PROVE OnePlace
    OBVIOUS
  <2>1. TypeOK /\ Placed /\ pending \in Seq(Notes) /\ delivered \in Seq(Notes)
    BY DEF TurnInv, TypeOK
  <2>2. PICK held : held = pending \o delivered
    OBVIOUS
  <2>3. ToSet(held) = ToSet(pending) \cup ToSet(delivered) /\ Once(held, disturbed)
    BY <2>1, <2>2, Joined DEF Placed
  <2> QED BY <2>1, <2>2, <2>3 DEF OnePlace, Placed, Once
<1> QED BY <1>1, TurnInvHolds, PTL

\* What the model has read in this attempt stays delivered: no failure of
\* another delivery queues it to be told again, unless a source that raised
\* took it for its own (Inbox.restore, Turn.collect).
THEOREM ReadStaysDeliveredHolds == Spec => []ReadStaysDelivered
<1>1. TurnInv => ReadStaysDelivered
  BY DEF TurnInv, Shared, ReadStaysDelivered
<1> QED BY <1>1, TurnInvHolds, PTL

\* A note is forgotten only when the model has read it in an attempt that its
\* turn's end kept, or the delivery that had it was overtaken (Inbox.settle
\* in Turn.end).
THEOREM SettledWasReadHolds == Spec => []SettledWasRead
<1>1. TurnInv => SettledWasRead
  BY DEF TurnInv, Turning, SettledWasRead
<1> QED BY <1>1, TurnInvHolds, PTL
=============================================================================
