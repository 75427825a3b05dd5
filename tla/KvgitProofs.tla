---------------------------- MODULE KvgitProofs ----------------------------
(***************************************************************************)
(* What the versioned store guarantees for any number of sessions, handles *)
(* and keys, any contents, and however many tries a checkout or a land is  *)
(* allowed: where a handle stands, what a commit may overwrite, which      *)
(* planes a merge crosses, what garbage collection spares, and what a      *)
(* checkout and a land have done when they say they succeeded.  The store  *)
(* then implements SessionLog, by way of what the branches can tell apart. *)
(***************************************************************************)
EXTENDS KvgitRefinement, WellFoundedInduction, TLAPS

-----------------------------------------------------------------------------
(* The inductive invariant *)

\* The history of a commit holds it and its parents' histories whole, and
\* ids grow along it.
Graph ==
    \A c \in Ids :
        /\ c \in Past(c) /\ Past(c) \subseteq 1 .. c
        /\ \A d \in Past(c) : Past(d) \subseteq Past(c)
        /\ commits[c].verb = "root" => commits[c].first = 0
        /\ commits[c].verb # "root" =>
              commits[c].first \in 1 .. (c - 1) /\ commits[c].from \in 1 .. (c - 1)

\* What a name or a handle stands on is held, the initial commit too.
Names ==
    /\ 1 \notin swept
    /\ \A s \in Sessions : branch[s] \notin swept
    /\ \A x \in Scopes : tags[x] \notin swept
    /\ \A h \in Handles : wt[h].head \notin swept

\* An open handle is on its branch's history, and its view is its head's tree
\* but for what it staged.
Stands(h) ==
    IF IsOpen(h)
    THEN /\ Tip(h) # 0 /\ wt[h].head \in Ids /\ wt[h].head \in Past(Tip(h))
         /\ \A k \in Keys \ wt[h].staged : wt[h].view[k] = TreeOf(wt[h].head)[k]
    ELSE wt[h].head = 0 /\ op[h].pc = "idle"

\* A land whose plan is staged: the plan is of the head it was judged on.
Planned(h) ==
    LET o == op[h]
        ours == TreeOf(wt[h].head)
    IN  /\ wt[h].view = LandPlan(o.base, o.target, ours)
        /\ ~LandRefused(o.base, o.target, ours)
        /\ o.expect \in {0, wt[h].head}

\* The commit a land made: the whole change, and nothing but the change, on a
\* head that had changed none of it differently.
Whole(made, base, theirs, expect) ==
    LET moved == LandedKeys(base, theirs)
        onto == TreeOf(commits[made].first)
    IN  /\ commits[made].verb = "land"
        /\ \A k \in Keys \ moved : TreeOf(made)[k] = onto[k]
        /\ \A k \in moved \ CwdKeys : onto[k] \in {TreeOf(base)[k], TreeOf(theirs)[k]}
        /\ expect # 0 => commits[made].first = expect

\* What a call that is over has done.
Over(h) ==
    LET o == op[h]
    IN  /\ o.verb = "checkout" /\ o.result = "ok" =>
              {o.commit, o.target} \subseteq Ids /\ TreeOf(o.commit) = TreeOf(o.target)
        /\ o.verb \in {"land", "merge"} => ~Dirty(h)
        /\ o.verb = "land" /\ o.result \in {"ok", "nothing"} =>
              /\ {o.commit, o.base, o.target} \subseteq Ids
              /\ \A k \in LandedKeys(o.base, o.target) :
                     TreeOf(o.commit)[k] = TreeOf(o.target)[k]
        /\ o.verb = "land" /\ o.result = "ok" => Whole(o.commit, o.base, o.target, o.expect)
        /\ o.verb = "land" /\ o.result = "nothing" /\ o.expect # 0 =>
              o.commit = o.expect /\ o.tip <= o.expect

\* What is true between the steps of a call.
Under(h) ==
    LET o == op[h]
    IN  /\ o.pc = "restoring" => o.verb = "checkout" /\ o.target \in Ids
        /\ o.pc \in {"landing", "landed"} =>
              o.verb = "land" /\ {o.base, o.target} \subseteq Ids /\ o.tip <= Tip(h)
        /\ o.pc \in {"landing", "merging"} => ~Dirty(h)
        /\ o.pc = "landed" => Planned(h)
        /\ o.pc = "merging" => o.verb = "merge" /\ o.target \in Ids
        /\ o.pc = "done" => Over(h)

KvInv ==
    /\ TypeOK /\ Graph /\ Names
    /\ OverwritesOnlyWhatItSaw /\ PlanesStayHome
    /\ \A h \in Handles : Stands(h) /\ Under(h)

-----------------------------------------------------------------------------
(* The store grows *)

CommitType == [first : Nat, past : SUBSET Nat, tree : Tree, verb : CommitVerbs, from : Nat]

WorktreeType(m) == [session : Sessions \cup {NoSession}, head : 0..m,
                    view : Tree, staged : SUBSET Keys]

CallType(m) == [pc : {"idle", "restoring", "landing", "landed", "merging", "done"},
                verb : {"none", "checkout", "land", "merge"},
                target : 0..m, base : 0..m, expect : 0..m, tries : Nat, tip : 0..m,
                result : Outcomes, commit : 0..m]

\* A commit is read the same however many follow it.
LEMMA Held1 ==
  ASSUME TypeOK, NEW c \in Ids
  PROVE  /\ commits[c] \in CommitType /\ TreeOf(c) \in Tree /\ Past(c) \subseteq Nat
         /\ c \in Nat /\ Len(commits) \in Nat /\ NewId \in Nat /\ c < NewId
         /\ c \in 0..Len(commits)
<1>1. commits \in Seq(CommitType) /\ Len(commits) \in Nat
  BY DEF TypeOK, CommitType
<1>2. commits[c] \in CommitType /\ c \in Nat /\ c <= Len(commits) /\ 1 <= c
  BY <1>1 DEF Ids
<1> QED BY <1>1, <1>2 DEF CommitType, TreeOf, Past, NewId

\* A verb makes one commit: n, recorded as r, over these parents.
PastOf(others) == UNION {Past(p) : p \in others}

Makes(n, r, first, others, tree, verb, from) ==
    /\ first \in Ids /\ others \subseteq Ids /\ tree \in Tree
    /\ verb \in CommitVerbs \ {"root"} /\ from \in Ids
    /\ n = NewId /\ r = CommitRecord(n, first, others, tree, verb, from)
    /\ commits' = Append(commits, r)

\* A record of a new commit over held ones is one.
LEMMA RecordTyped ==
  ASSUME TypeOK, NEW n, NEW r, NEW first, NEW others, NEW tree, NEW verb, NEW from,
         Makes(n, r, first, others, tree, verb, from)
  PROVE  /\ r \in CommitType
         /\ r.first = first /\ r.tree = tree /\ r.verb = verb /\ r.from = from
         /\ r.past = {n} \cup Past(first) \cup PastOf(others)
<1>1. /\ first \in Ids /\ others \subseteq Ids /\ tree \in Tree /\ verb \in CommitVerbs
      /\ from \in Ids /\ n = NewId
  BY DEF Makes
<1>2. first \in Nat /\ from \in Nat /\ n \in Nat /\ Past(first) \subseteq Nat
      /\ \A p \in others : Past(p) \subseteq Nat
  BY <1>1, Held1
<1>3. {n} \cup Past(first) \cup PastOf(others) \in SUBSET Nat
  BY <1>2 DEF PastOf
<1>4. r = [first |-> first, past |-> {n} \cup Past(first) \cup PastOf(others),
           tree |-> tree, verb |-> verb, from |-> from]
  BY DEF Makes, CommitRecord, PastOf
<1> QED BY <1>1, <1>2, <1>3, <1>4 DEF CommitType

\* The store after one more commit: nothing that was there has changed.
Grown(r) ==
    /\ commits' \in Seq(CommitType) /\ Len(commits') = NewId /\ commits'[NewId] = r
    /\ Ids' = Ids \cup {NewId} /\ NewId \notin Ids /\ NewId \in Nat \ {0}
    /\ \A c \in Ids : /\ commits'[c] = commits[c] /\ c \in Ids' /\ c < NewId
                      /\ TreeOf(c)' = TreeOf(c) /\ Past(c)' = Past(c)

LEMMA Grows ==
  ASSUME TypeOK, NEW r \in CommitType, commits' = Append(commits, r)
  PROVE  Grown(r)
<1>1. commits \in Seq(CommitType) /\ Len(commits) \in Nat
  BY DEF TypeOK, CommitType
<1>2. /\ commits' \in Seq(CommitType) /\ Len(commits') = Len(commits) + 1
      /\ commits'[Len(commits) + 1] = r
      /\ \A c \in 1..Len(commits) : commits'[c] = commits[c]
  BY <1>1
<1>3. /\ 1..(Len(commits) + 1) = 1..Len(commits) \cup {Len(commits) + 1}
      /\ Len(commits) + 1 \notin 1..Len(commits) /\ Len(commits) + 1 \in Nat \ {0}
      /\ \A c \in 1..Len(commits) : c < Len(commits) + 1
  BY <1>1
<1> QED BY <1>2, <1>3 DEF Grown, Ids, NewId, TreeOf, Past

\* The commit a verb makes keeps the graph, over whatever parents.
LEMMA GraphGrows ==
  ASSUME TypeOK, Graph, NEW n, NEW r, NEW first, NEW others, NEW tree, NEW verb, NEW from,
         Makes(n, r, first, others, tree, verb, from)
  PROVE  /\ Grown(r) /\ Graph'
         /\ Past(first) \subseteq Past(n)' /\ n \in Past(n)'
         /\ r.first = first /\ r.tree = tree /\ r.verb = verb /\ r.from = from
         /\ TreeOf(n)' = tree
<1>1. /\ r \in CommitType
      /\ r.first = first /\ r.tree = tree /\ r.verb = verb /\ r.from = from
      /\ r.past = {n} \cup Past(first) \cup PastOf(others)
      /\ commits' = Append(commits, r) /\ n = NewId
      /\ first \in Ids /\ others \subseteq Ids /\ from \in Ids /\ verb # "root"
  BY RecordTyped DEF Makes
<1>2. Grown(r)
  BY <1>1, Grows
<1>3. commits'[n] = r /\ Past(n)' = r.past /\ TreeOf(n)' = tree
  BY <1>1, <1>2 DEF Grown, Past, TreeOf
<1>4. ASSUME NEW c \in Ids
      PROVE  /\ c \in Past(c)' /\ Past(c)' \subseteq 1 .. c
             /\ \A d \in Past(c)' : Past(d)' \subseteq Past(c)'
             /\ commits'[c].verb = "root" => commits'[c].first = 0
             /\ commits'[c].verb # "root" =>
                   commits'[c].first \in 1 .. (c - 1) /\ commits'[c].from \in 1 .. (c - 1)
  <2>1. /\ c \in Past(c) /\ Past(c) \subseteq 1 .. c
        /\ \A d \in Past(c) : Past(d) \subseteq Past(c)
        /\ commits[c].verb = "root" => commits[c].first = 0
        /\ commits[c].verb # "root" =>
              commits[c].first \in 1 .. (c - 1) /\ commits[c].from \in 1 .. (c - 1)
    BY DEF Graph
  <2>2. 1 .. c \subseteq Ids
    BY DEF Ids
  <2>3. \A d \in Past(c) : Past(d)' = Past(d)
    BY <1>2, <2>1, <2>2 DEF Grown
  <2> QED BY <1>2, <2>1, <2>3 DEF Grown
<1>5. /\ n \in r.past /\ r.past \subseteq 1 .. n
      /\ \A d \in r.past : Past(d)' \subseteq r.past
      /\ r.first \in 1 .. (n - 1) /\ r.from \in 1 .. (n - 1)
  <2>1. Ids = 1 .. (n - 1) /\ n \in Nat \ {0}
    <3>1. Len(commits) \in Nat
      BY DEF TypeOK
    <3> QED BY <1>1, <3>1 DEF Ids, NewId
  <2>2. ASSUME NEW p \in Ids
        PROVE  Past(p) \subseteq Ids /\ \A d \in Past(p) : Past(d)' \subseteq Past(p)
    <3>1. Past(p) \subseteq 1 .. p /\ \A d \in Past(p) : Past(d) \subseteq Past(p)
      BY DEF Graph
    <3>2. Past(p) \subseteq Ids
      BY <2>1, <3>1
    <3> QED BY <1>2, <3>1, <3>2 DEF Grown
  <2>3. \A d \in r.past \ {n} : d \in Ids /\ Past(d)' \subseteq r.past
    BY <1>1, <2>2 DEF PastOf
  <2>4. Ids \cup {n} = 1 .. n
    BY <2>1
  <2> QED BY <1>1, <1>3, <2>1, <2>3, <2>4
<1>6. Graph'
  <2> SUFFICES ASSUME NEW c \in Ids'
               PROVE  /\ c \in Past(c)' /\ Past(c)' \subseteq 1 .. c
                      /\ \A d \in Past(c)' : Past(d)' \subseteq Past(c)'
                      /\ commits'[c].verb = "root" => commits'[c].first = 0
                      /\ commits'[c].verb # "root" => /\ commits'[c].first \in 1 .. (c - 1)
                                                      /\ commits'[c].from \in 1 .. (c - 1)
    BY DEF Graph
  <2>1. CASE c \in Ids
    BY <1>4, <2>1
  <2>2. CASE c = n
    <3>1. Past(c)' = r.past /\ commits'[c] = r
      BY <1>3, <2>2 DEF Past
    <3> QED BY <1>1, <1>5, <2>2, <3>1
  <2> QED BY <1>1, <1>2, <2>1, <2>2 DEF Grown
<1>7. Past(first) \subseteq r.past
  BY <1>1
<1> QED BY <1>1, <1>2, <1>3, <1>5, <1>6, <1>7

\* The tree of the new commit overwrites what it may, and crosses only the
\* planes its verb crosses.
Sound(verb, tree, first, from) ==
    /\ verb \in {"commit", "commit_keys", "checkout", "apply", "land"} =>
          \A k \in FileKeys \cup CacheKeys \cup ConvKeys :
              tree[k] = TreeOf(first)[k] \/ TreeOf(first)[k] = TreeOf(from)[k]
    /\ verb = "merge" =>
          \A k \in CacheKeys \cup ConvKeys \cup BookKeys : tree[k] = TreeOf(first)[k]
    /\ verb = "apply" => \A k \in CacheKeys \cup ConvKeys : tree[k] = TreeOf(first)[k]
    /\ verb = "land"  => \A k \in ConvKeys \cup BookKeys : tree[k] = TreeOf(first)[k]

\* Every commit but the initial one is sound, over the parent it names.
LEMMA SoundCommits ==
  ASSUME TypeOK, Graph
  PROVE  (OverwritesOnlyWhatItSaw /\ PlanesStayHome) <=>
         \A c \in Ids : commits[c].verb # "root" =>
             Sound(commits[c].verb, TreeOf(c), commits[c].first, commits[c].from)
BY DEF OverwritesOnlyWhatItSaw, PlanesStayHome, Sound

LEMMA SoundnessGrows ==
  ASSUME TypeOK, Graph, OverwritesOnlyWhatItSaw, PlanesStayHome,
         NEW n, NEW r, NEW first, NEW others, NEW tree, NEW verb, NEW from,
         Makes(n, r, first, others, tree, verb, from), TypeOK',
         Sound(verb, tree, first, from)
  PROVE  OverwritesOnlyWhatItSaw' /\ PlanesStayHome'
<1>1. /\ Grown(r) /\ Graph' /\ r.first = first /\ r.verb = verb /\ r.from = from
      /\ TreeOf(n)' = tree /\ first \in Ids /\ from \in Ids /\ n = NewId
  BY GraphGrows DEF Makes
<1>2. ASSUME NEW c \in Ids, commits[c].verb # "root"
      PROVE  Sound(commits[c].verb, TreeOf(c), commits[c].first, commits[c].from)'
  <2>1. commits[c].first \in Ids /\ commits[c].from \in Ids
    BY <1>2, Held1 DEF Graph, Ids
  <2>2. Sound(commits[c].verb, TreeOf(c), commits[c].first, commits[c].from)
    BY <1>2, SoundCommits
  <2>3. /\ commits'[c] = commits[c] /\ TreeOf(c)' = TreeOf(c)
        /\ TreeOf(commits[c].first)' = TreeOf(commits[c].first)
        /\ TreeOf(commits[c].from)' = TreeOf(commits[c].from)
    BY <1>1, <2>1 DEF Grown, TreeOf
  <2> QED BY <2>2, <2>3 DEF Sound
<1>3. Sound(verb, tree, first, from)'
  BY <1>1 DEF Sound, Grown, TreeOf
<1>4. ASSUME NEW c \in Ids'
      PROVE  commits'[c].verb # "root" =>
                 Sound(commits[c].verb, TreeOf(c), commits[c].first, commits[c].from)'
  <2>1. CASE c \in Ids
    <3>1. commits'[c] = commits[c]
      BY <1>1, <2>1 DEF Grown
    <3> QED BY <1>2, <2>1, <3>1
  <2>2. CASE c = n
    <3>1. commits'[c] = r /\ TreeOf(c)' = tree
      BY <1>1, <2>2 DEF Grown, TreeOf
    <3> QED BY <1>1, <1>3, <2>2, <3>1 DEF Sound
  <2> QED BY <1>1, <2>1, <2>2 DEF Grown
<1>5. (\A c \in Ids : commits[c].verb # "root" =>
          Sound(commits[c].verb, TreeOf(c), commits[c].first, commits[c].from))'
  BY <1>4
<1>6. (OverwritesOnlyWhatItSaw /\ PlanesStayHome)' <=>
         (\A c \in Ids : commits[c].verb # "root" =>
             Sound(commits[c].verb, TreeOf(c), commits[c].first, commits[c].from))'
  BY <1>1 DEF OverwritesOnlyWhatItSaw, PlanesStayHome, Sound
<1> QED BY <1>5, <1>6

-----------------------------------------------------------------------------
(* The trees a commit is made of *)

LEMMA MergesTyped ==
  ASSUME NEW k, NEW b \in Contents, NEW o \in Contents, NEW t \in Contents
  PROVE  /\ OrdinaryMerge(k, b, o, t) \in Contents
         /\ ThreeWayMerge(k, b, o, t) \in Contents
         /\ LandMerge(k, b, o, t) \in Contents
BY DEF OrdinaryMerge, ThreeWayMerge, LandMerge, Contents

LEMMA OursTyped ==
  ASSUME TypeOK, NEW w \in WorktreeType(Len(commits)), w.head \in Ids, NEW keys
  PROVE  /\ Ours(w, keys) \in Tree
         /\ \A k \in Keys : Ours(w, keys)[k] = IF k \in keys THEN w.view[k] ELSE TreeOf(w.head)[k]
<1>1. w.view \in Tree /\ TreeOf(w.head) \in Tree
  BY Held1 DEF WorktreeType
<1> QED BY <1>1 DEF Ours, Tree

LEMMA CommitTreeTyped ==
  ASSUME TypeOK, NEW w \in WorktreeType(Len(commits)), w.head \in Ids, NEW keys, NEW tip \in Ids
  PROVE  CommitTree(w, tip, keys) \in Tree
<1>1. Ours(w, keys) \in Tree /\ TreeOf(w.head) \in Tree /\ TreeOf(tip) \in Tree
  BY OursTyped, Held1
<1>2. ASSUME NEW k \in Keys
      PROVE  OrdinaryMerge(k, TreeOf(w.head)[k], Ours(w, keys)[k], TreeOf(tip)[k]) \in Contents
  BY <1>1, MergesTyped DEF Tree
<1> QED BY <1>1, <1>2 DEF CommitTree, Tree

\* An ordinary commit that was not refused overwrites nothing it did not see.
LEMMA CommitIsSound ==
  ASSUME TypeOK, NEW w \in WorktreeType(Len(commits)), w.head \in Ids, NEW keys, NEW tip \in Ids,
         ~CommitConflicts(w, tip, keys)
  PROVE  \A k \in FileKeys \cup CacheKeys \cup ConvKeys :
            \/ CommitTree(w, tip, keys)[k] = TreeOf(tip)[k]
            \/ TreeOf(tip)[k] = TreeOf(w.head)[k]
<1> SUFFICES ASSUME tip # w.head, NEW k \in FileKeys \cup CacheKeys \cup ConvKeys
             PROVE  \/ CommitTree(w, tip, keys)[k] = TreeOf(tip)[k]
                    \/ TreeOf(tip)[k] = TreeOf(w.head)[k]
  OBVIOUS
<1> DEFINE b == TreeOf(w.head)[k]
           o == Ours(w, keys)[k]
           t == TreeOf(tip)[k]
<1>1. k \in Keys /\ k \notin BookKeys \cup CwdKeys
  BY KvgitAssumption DEF Keys
<1>2. ~Contested(b, o, t)
  BY <1>1 DEF CommitConflicts, OrdinaryConflict
<1>3. CommitTree(w, tip, keys)[k] = OrdinaryMerge(k, b, o, t)
  BY <1>1 DEF CommitTree
<1> HIDE DEF b, o, t
<1>4. OrdinaryMerge(k, b, o, t) = t \/ t = b
  BY <1>1, <1>2 DEF OrdinaryMerge, Contested
<1> QED BY <1>3, <1>4 DEF t, b

\* Where a commit has nothing staged, it changes nothing.
LEMMA CommitKeepsTheRest ==
  ASSUME TypeOK, NEW w \in WorktreeType(Len(commits)), w.head \in Ids, NEW keys, NEW tip \in Ids,
         NEW k \in Keys \ (keys \cup BookKeys)
  PROVE  CommitTree(w, tip, keys)[k] = TreeOf(tip)[k]
<1> DEFINE b == TreeOf(w.head)[k]
           t == TreeOf(tip)[k]
<1>1. Ours(w, keys)[k] = b
  BY OursTyped
<1>2. CASE tip = w.head
  BY <1>1, <1>2 DEF CommitTree
<1>3. CASE tip # w.head
  <2>1. CommitTree(w, tip, keys)[k] = OrdinaryMerge(k, b, b, t)
    BY <1>1, <1>3 DEF CommitTree
  <2> QED BY <2>1 DEF OrdinaryMerge
<1> QED BY <1>2, <1>3

\* What a worktree is once its head moved to the commit it made.
LEMMA LandedTyped ==
  ASSUME NEW m \in Nat, NEW w \in WorktreeType(m), NEW tree \in Tree, NEW id \in Nat,
         NEW keys
  PROVE  /\ Landed(w, id, tree, keys) \in WorktreeType(id)
         /\ Landed(w, id, tree, keys).session = w.session
         /\ Landed(w, id, tree, keys).head = id
         /\ Landed(w, id, tree, keys).staged = w.staged \ keys
         /\ \A k \in Keys \ (w.staged \ keys) : Landed(w, id, tree, keys).view[k] = tree[k]
<1> DEFINE view == [k \in Keys |-> IF k \in w.staged \ keys THEN w.view[k] ELSE tree[k]]
           left == w.staged \ keys
<1>1. view \in Tree /\ left \subseteq Keys /\ id \in 0..id
  BY DEF Tree, WorktreeType
<1>2. \A k \in Keys \ left : view[k] = tree[k]
  OBVIOUS
<1>3. Landed(w, id, tree, keys) = [w EXCEPT !.head = id, !.view = view, !.staged = left]
  BY DEF Landed
<1> HIDE DEF view, left
<1>4. /\ Landed(w, id, tree, keys) \in WorktreeType(id)
      /\ Landed(w, id, tree, keys).session = w.session
      /\ Landed(w, id, tree, keys).head = id
      /\ Landed(w, id, tree, keys).view = view
      /\ Landed(w, id, tree, keys).staged = left
  BY <1>1, <1>3 DEF WorktreeType
<1> QED BY <1>2, <1>4 DEF left

LEMMA StagingTyped ==
  ASSUME NEW m \in Nat, NEW w \in WorktreeType(m), NEW tree \in Tree
  PROVE  /\ Staging(w, tree) \in WorktreeType(m)
         /\ Staging(w, tree).session = w.session
         /\ Staging(w, tree).head = w.head
         /\ Staging(w, tree).view = tree
         /\ Staging(w, tree).staged = {k \in Keys : tree[k] # TreeOf(w.head)[k]}
         /\ \A k \in Keys \ Staging(w, tree).staged : tree[k] = TreeOf(w.head)[k]
<1> DEFINE differ == {k \in Keys : tree[k] # TreeOf(w.head)[k]}
<1>1. differ \subseteq Keys /\ \A k \in Keys \ differ : tree[k] = TreeOf(w.head)[k]
  OBVIOUS
<1>2. Staging(w, tree) = [w EXCEPT !.view = tree, !.staged = differ]
  BY DEF Staging
<1> HIDE DEF differ
<1>3. /\ Staging(w, tree) \in WorktreeType(m)
      /\ Staging(w, tree).session = w.session /\ Staging(w, tree).head = w.head
      /\ Staging(w, tree).view = tree /\ Staging(w, tree).staged = differ
  BY <1>1, <1>2 DEF WorktreeType
<1> QED BY <1>1, <1>3 DEF differ

LEMMA OpenAtTyped ==
  ASSUME TypeOK, NEW s \in Sessions, NEW c \in Ids
  PROVE  OpenAt(s, c) \in WorktreeType(Len(commits))
BY Held1 DEF OpenAt, WorktreeType

LEMMA PlansTyped ==
  ASSUME TypeOK, NEW base \in Ids, NEW theirs \in Ids, NEW ours \in Tree
  PROVE  LandPlan(base, theirs, ours) \in Tree
<1>1. TreeOf(base) \in Tree /\ TreeOf(theirs) \in Tree
  BY Held1
<1>2. ASSUME NEW k \in Keys
      PROVE  LandMerge(k, TreeOf(base)[k], ours[k], TreeOf(theirs)[k]) \in Contents
  BY <1>1, MergesTyped DEF Tree
<1> QED BY <1>2 DEF LandPlan, Tree

-----------------------------------------------------------------------------
(* What a step leaves of the handles it does not touch *)

Extends == \A c \in Ids : c \in Ids' /\ commits'[c] = commits[c]

Forward(s) == branch'[s] # 0 /\ Past(branch[s]) \subseteq commits'[branch'[s]].past

\* An id is one of the store's whenever it is held by an open handle's branch.
LEMMA TipHeld ==
  ASSUME KvInv, NEW h \in Handles, IsOpen(h)
  PROVE  /\ wt[h].session \in Sessions /\ Tip(h) \in Ids /\ wt[h].head \in Ids
         /\ wt[h] \in WorktreeType(Len(commits)) /\ wt[h].head \in Past(Tip(h))
         /\ wt[h].head \notin swept /\ Tip(h) \notin swept
<1>1. wt[h] \in WorktreeType(Len(commits)) /\ branch \in [Sessions -> 0..Len(commits)]
      /\ Len(commits) \in Nat
  BY DEF KvInv, TypeOK, WorktreeType
<1>2. wt[h].session \in Sessions
  BY <1>1 DEF IsOpen, WorktreeType
<1>3. Tip(h) # 0 /\ wt[h].head \in Ids /\ wt[h].head \in Past(Tip(h))
  BY DEF KvInv, Stands
<1>4. Tip(h) \in Ids
  BY <1>1, <1>2, <1>3 DEF Tip, Ids
<1>5. wt[h].head \notin swept /\ Tip(h) \notin swept
  BY <1>2 DEF KvInv, Names, Tip
<1> QED BY <1>1, <1>2, <1>3, <1>4, <1>5

\* A head that moves forward does not pass a call's reading of it.
LEMMA TipGrows ==
  ASSUME Graph, Graph', NEW a \in Ids, NEW b \in Ids', Past(a) \subseteq commits'[b].past
  PROVE  a <= b
<1>1. a \in Past(a) /\ Past(b)' \subseteq 1 .. b
  BY DEF Graph
<1>2. a \in 1 .. b
  BY <1>1 DEF Past
<1> QED BY <1>2

\* Contents of the commits a call named are what they were.
LEMMA SameTrees ==
  ASSUME Extends, NEW c \in Ids
  PROVE  c \in Ids' /\ commits'[c] = commits[c] /\ TreeOf(c)' = TreeOf(c) /\ Past(c)' = Past(c)
BY DEF Extends, TreeOf, Past

LEMMA SameLand ==
  ASSUME Extends, NEW base \in Ids, NEW theirs \in Ids, NEW ours
  PROVE  /\ LandedKeys(base, theirs)' = LandedKeys(base, theirs)
         /\ LandPlan(base, theirs, ours)' = LandPlan(base, theirs, ours)
         /\ LandRefused(base, theirs, ours)' <=> LandRefused(base, theirs, ours)
<1>1. TreeOf(base)' = TreeOf(base) /\ TreeOf(theirs)' = TreeOf(theirs)
  BY SameTrees
<1>2. LandedKeys(base, theirs)' = LandedKeys(base, theirs)
  BY <1>1 DEF LandedKeys
<1>3. LandPlan(base, theirs, ours)' = LandPlan(base, theirs, ours)
  BY <1>1, <1>2 DEF LandPlan
<1> QED BY <1>1, <1>2, <1>3 DEF LandRefused

LEMMA Others ==
  ASSUME KvInv, Extends, TypeOK', Graph', NEW d \in Handles, wt'[d] = wt[d], op'[d] = op[d],
         IsOpen(d) => Forward(wt[d].session)
  PROVE  Stands(d)' /\ Under(d)'
<1>1. CASE ~IsOpen(d)
  <2>1. Stands(d) /\ Under(d)
    BY DEF KvInv
  <2>2. op[d].pc = "idle" /\ wt[d].head = 0
    BY <1>1, <2>1 DEF Stands
  <2>3. Under(d)'
    BY <2>2 DEF Under
  <2> QED BY <1>1, <2>2, <2>3 DEF Stands, IsOpen
<1>2. CASE IsOpen(d)
  <2>1. Stands(d) /\ Under(d)
    BY DEF KvInv
  <2>2. /\ wt[d].session \in Sessions /\ Tip(d) \in Ids /\ wt[d].head \in Ids
        /\ wt[d].head \in Past(Tip(d))
    BY <1>2, TipHeld
  <2>3. Tip(d)' = branch'[wt[d].session] /\ Tip(d)' # 0
        /\ Past(Tip(d)) \subseteq commits'[Tip(d)'].past
    BY <1>2 DEF Tip, Forward
  <2>4. Tip(d)' \in Ids'
    <3>1. branch' \in [Sessions -> 0..Len(commits')] /\ Len(commits') \in Nat
      BY DEF TypeOK
    <3> QED BY <2>2, <2>3, <3>1 DEF Ids
  <2>5. Tip(d) <= Tip(d)'
    <3> DEFINE a == Tip(d)
    <3>1. PICK b : b = Tip(d)'
      OBVIOUS
    <3> QED BY <2>2, <2>3, <2>4, <3>1, TipGrows DEF KvInv
  <2>6. TreeOf(wt[d].head)' = TreeOf(wt[d].head)
    BY <2>2, SameTrees DEF TreeOf
  <2>7. Stands(d)'
    <3>1. wt[d].head \in Ids' /\ wt[d].head \in Past(Tip(d))'
      BY <2>2, <2>3 DEF Extends, Past
    <3> QED BY <1>2, <2>1, <2>3, <2>6, <3>1 DEF Stands, IsOpen
  <2>8. Under(d)'
    <3> DEFINE o == op[d]
    <3>1. /\ o.pc = "restoring" => o.verb = "checkout" /\ o.target \in Ids'
          /\ o.pc = "merging" => o.verb = "merge" /\ o.target \in Ids'
      BY <2>1 DEF Under, Extends
    <3>2. o.pc \in {"landing", "landed"} =>
              o.verb = "land" /\ {o.base, o.target} \subseteq Ids' /\ o.tip <= Tip(d)'
      <4>1. ASSUME o.pc \in {"landing", "landed"}
            PROVE  o.verb = "land" /\ {o.base, o.target} \subseteq Ids /\ o.tip <= Tip(d)
        BY <2>1, <4>1 DEF Under
      <4>2. o.tip \in Nat /\ Tip(d) \in Nat /\ Tip(d)' \in Nat
        <5>1. o.tip \in 0..Len(commits)
          BY DEF KvInv, TypeOK
        <5> QED BY <2>2, <2>4, <5>1 DEF Ids
      <4> QED BY <4>1, <4>2, <2>5 DEF Extends
    <3>3. (o.pc \in {"landing", "merging"} => ~Dirty(d))'
      BY <2>1 DEF Under, Dirty
    <3>4. o.pc = "landed" => Planned(d)'
      <4> SUFFICES ASSUME o.pc = "landed" PROVE Planned(d)'
        OBVIOUS
      <4>1. o.base \in Ids /\ o.target \in Ids /\ Planned(d)
        BY <2>1 DEF Under
      <4>2. PICK ours : ours = TreeOf(wt[d].head)
        OBVIOUS
      <4>3. /\ wt[d].view = LandPlan(o.base, o.target, ours)
            /\ ~LandRefused(o.base, o.target, ours) /\ o.expect \in {0, wt[d].head}
        BY <4>1, <4>2 DEF Planned
      <4>4. PICK base, theirs : base = o.base /\ theirs = o.target
        OBVIOUS
      <4>5. /\ LandPlan(base, theirs, ours)' = LandPlan(base, theirs, ours)
            /\ LandRefused(base, theirs, ours)' <=> LandRefused(base, theirs, ours)
        BY <4>1, <4>4, SameLand
      <4> QED BY <2>6, <4>2, <4>3, <4>4, <4>5 DEF Planned
    <3>5. o.pc = "done" => Over(d)'
      <4> SUFFICES ASSUME o.pc = "done" PROVE Over(d)'
        OBVIOUS
      <4>1. Over(d)
        BY <2>1 DEF Under
      <4>2. PICK base, theirs, made : base = o.base /\ theirs = o.target /\ made = o.commit
        OBVIOUS
      <4>3. (o.verb = "checkout" /\ o.result = "ok" =>
               {o.commit, o.target} \subseteq Ids /\ TreeOf(o.commit) = TreeOf(o.target))'
        <5> SUFFICES ASSUME o.verb = "checkout", o.result = "ok"
                     PROVE  {made, theirs} \subseteq Ids' /\ TreeOf(made)' = TreeOf(theirs)'
          BY <4>2 DEF TreeOf
        <5>1. made \in Ids /\ theirs \in Ids /\ TreeOf(made) = TreeOf(theirs)
          BY <4>1, <4>2 DEF Over
        <5> QED BY <5>1, SameTrees
      <4>4. (o.verb \in {"land", "merge"} => ~Dirty(d))'
        BY <4>1 DEF Over, Dirty
      <4>5. ASSUME o.verb = "land", o.result \in {"ok", "nothing"}
            PROVE  /\ {made, base, theirs} \subseteq Ids' /\ {made, base, theirs} \subseteq Ids
                   /\ LandedKeys(base, theirs)' = LandedKeys(base, theirs)
                   /\ TreeOf(made)' = TreeOf(made) /\ TreeOf(theirs)' = TreeOf(theirs)
                   /\ TreeOf(base)' = TreeOf(base) /\ commits'[made] = commits[made]
                   /\ \A k \in LandedKeys(base, theirs) : TreeOf(made)[k] = TreeOf(theirs)[k]
        <5>1. /\ made \in Ids /\ base \in Ids /\ theirs \in Ids
              /\ \A k \in LandedKeys(base, theirs) : TreeOf(made)[k] = TreeOf(theirs)[k]
          BY <4>1, <4>2, <4>5 DEF Over
        <5> QED BY <5>1, SameTrees, SameLand
      <4>6. (o.verb = "land" /\ o.result \in {"ok", "nothing"} =>
               /\ {o.commit, o.base, o.target} \subseteq Ids
               /\ \A k \in LandedKeys(o.base, o.target) :
                     TreeOf(o.commit)[k] = TreeOf(o.target)[k])'
        BY <4>2, <4>5 DEF TreeOf, LandedKeys
      <4>7. ASSUME o.verb = "land", o.result = "ok"
            PROVE  Whole(made, base, theirs, o.expect)'
        <5>1. Whole(made, base, theirs, o.expect)
          BY <4>1, <4>2, <4>7 DEF Over
        <5>2. made \in Ids
          BY <4>5, <4>7
        <5>3. commits[made].first \in Ids
          <6>1. made \in Nat /\ made <= Len(commits) /\ Len(commits) \in Nat
            BY <5>2, Held1 DEF KvInv, Ids
          <6>2. commits[made].first \in 1 .. (made - 1)
            BY <5>1, <5>2 DEF KvInv, Graph, Whole
          <6> QED BY <6>1, <6>2 DEF Ids
        <5>4. TreeOf(commits[made].first)' = TreeOf(commits[made].first)
          BY <4>5, <4>7, <5>3, SameTrees DEF TreeOf
        <5> QED BY <4>5, <4>7, <5>1, <5>4 DEF Whole
      <4>8. (o.verb = "land" /\ o.result = "ok" =>
               Whole(o.commit, o.base, o.target, o.expect))'
        BY <4>2, <4>7
      <4>9. (o.verb = "land" /\ o.result = "nothing" /\ o.expect # 0 =>
               o.commit = o.expect /\ o.tip <= o.expect)'
        BY <4>1 DEF Over
      <4> QED BY <4>3, <4>4, <4>6, <4>8, <4>9 DEF Over
    <3> QED BY <3>1, <3>2, <3>3, <3>4, <3>5 DEF Under
  <2> QED BY <2>7, <2>8
<1> QED BY <1>1, <1>2

-----------------------------------------------------------------------------
(* The shapes of a step *)

\* The verb of one handle, the store only extended.
LEMMA Step ==
  ASSUME KvInv, NEW h \in Handles, NEW w, NEW o,
         wt' = [wt EXCEPT ![h] = w], op' = [op EXCEPT ![h] = o],
         Extends, TypeOK', Graph', Names', OverwritesOnlyWhatItSaw', PlanesStayHome',
         \A s \in Sessions : branch[s] # 0 => Forward(s),
         Stands(h)', Under(h)'
  PROVE  KvInv'
<1>1. wt \in [Handles -> WorktreeType(Len(commits))] /\ DOMAIN op = Handles
  BY DEF KvInv, TypeOK, WorktreeType
<1>2. ASSUME NEW d \in Handles
      PROVE  Stands(d)' /\ Under(d)'
  <2>1. CASE d = h
    BY <2>1
  <2>2. CASE d # h
    <3>1. wt'[d] = wt[d] /\ op'[d] = op[d]
      BY <1>1, <2>2
    <3>2. IsOpen(d) => Forward(wt[d].session)
      <4> SUFFICES ASSUME IsOpen(d) PROVE Forward(wt[d].session)
        OBVIOUS
      <4>1. wt[d].session \in Sessions /\ branch[wt[d].session] \in Ids
        BY TipHeld DEF Tip
      <4>2. branch[wt[d].session] # 0
        BY <4>1 DEF Ids
      <4> QED BY <4>1, <4>2
    <3> QED BY <3>1, <3>2, Others
  <2> QED BY <2>1, <2>2
<1> QED BY <1>2 DEF KvInv

\* Nothing is committed.
LEMMA SameCommits ==
  ASSUME KvInv, commits' = commits
  PROVE  /\ Extends /\ Graph' /\ OverwritesOnlyWhatItSaw' /\ PlanesStayHome'
         /\ Ids' = Ids /\ \A c : TreeOf(c)' = TreeOf(c) /\ Past(c)' = Past(c)
<1>1. /\ Ids' = Ids /\ \A c : TreeOf(c)' = TreeOf(c) /\ Past(c)' = Past(c)
  BY DEF Ids, TreeOf, Past
<1>2. Extends
  BY <1>1 DEF Extends
<1>3. Graph'
  BY <1>1 DEF KvInv, Graph
<1>4. OverwritesOnlyWhatItSaw'
  BY <1>1 DEF KvInv, OverwritesOnlyWhatItSaw
<1>5. PlanesStayHome'
  BY <1>1 DEF KvInv, PlanesStayHome
<1> QED BY <1>1, <1>2, <1>3, <1>4, <1>5

\* Nothing is committed and no branch that was there moves or goes.
LEMMA QuietStep ==
  ASSUME KvInv, NEW h \in Handles, NEW w \in WorktreeType(Len(commits)),
         NEW o \in CallType(Len(commits)),
         wt' = [wt EXCEPT ![h] = w], op' = [op EXCEPT ![h] = o], commits' = commits,
         branch' \in [Sessions -> 0..Len(commits)], tags' \in [Scopes -> 0..Len(commits)],
         swept' \subseteq Ids, Names',
         \A s \in Sessions : branch[s] # 0 => branch'[s] = branch[s],
         Stands(h)', Under(h)'
  PROVE  KvInv'
<1>1. wt \in [Handles -> WorktreeType(Len(commits))] /\ op \in [Handles -> CallType(Len(commits))]
  BY DEF KvInv, TypeOK, WorktreeType, CallType
<1>2. wt' \in [Handles -> WorktreeType(Len(commits))] /\ op' \in [Handles -> CallType(Len(commits))]
  BY <1>1
<1>3. TypeOK'
  <2>1. Ids' = Ids /\ Len(commits') = Len(commits)
    BY DEF Ids
  <2> QED BY <1>2, <2>1 DEF KvInv, TypeOK, WorktreeType, CallType
<1>4. \A s \in Sessions : branch[s] # 0 => Forward(s)
  BY DEF Forward, Past
<1> QED BY <1>3, <1>4, SameCommits, Step

\* Only this handle's worktree and call change.
LEMMA HandleStep ==
  ASSUME KvInv, NEW h \in Handles, NEW w \in WorktreeType(Len(commits)),
         NEW o \in CallType(Len(commits)),
         wt' = [wt EXCEPT ![h] = w], op' = [op EXCEPT ![h] = o],
         UNCHANGED <<commits, branch, tags, swept>>,
         w.head \notin swept, Stands(h)', Under(h)'
  PROVE  KvInv'
<1>1. /\ branch' \in [Sessions -> 0..Len(commits)] /\ tags' \in [Scopes -> 0..Len(commits)]
      /\ swept' \subseteq Ids
      /\ \A s \in Sessions : branch[s] # 0 => branch'[s] = branch[s]
  BY DEF KvInv, TypeOK
<1>2. wt \in [Handles -> WorktreeType(Len(commits))]
  BY DEF KvInv, TypeOK, WorktreeType
<1>3. \A d \in Handles : wt'[d].head \notin swept
  BY <1>2 DEF KvInv, Names
<1>4. Names'
  BY <1>3 DEF KvInv, Names
<1> QED BY <1>1, <1>4, QuietStep

\* One commit on the tip of the handle's branch, which the branches named new
\* start at as well.
LEMMA MakingStep ==
  ASSUME KvInv, NEW h \in Handles, IsOpen(h),
         NEW first, first = Tip(h), NEW n, NEW r, NEW others, NEW tree, NEW verb, NEW from,
         Makes(n, r, first, others, tree, verb, from), Sound(verb, tree, first, from),
         NEW w \in WorktreeType(n), w.head = n, NEW o \in CallType(n),
         wt' = [wt EXCEPT ![h] = w], op' = [op EXCEPT ![h] = o],
         UNCHANGED <<tags, swept>>,
         branch' \in [Sessions -> 0..n],
         \A s \in Sessions : \/ branch'[s] = branch[s]
                             \/ branch'[s] = n /\ branch[s] \in {0, Tip(h)},
         Stands(h)', Under(h)'
  PROVE  KvInv'
<1>1. /\ Grown(r) /\ Graph' /\ Past(Tip(h)) \subseteq Past(n)' /\ n \in Past(n)' /\ n = NewId
  BY GraphGrows DEF KvInv, Makes
<1>2. /\ n \in Nat /\ Len(commits) \in Nat /\ n = Len(commits) + 1 /\ Len(commits') = n
      /\ Ids \subseteq Ids' /\ n \notin Ids
  BY <1>1 DEF Grown, NewId, KvInv, TypeOK
<1>3. 0..Len(commits) \subseteq 0..n
  BY <1>2
<1>4. wt' \in [Handles -> WorktreeType(n)] /\ op' \in [Handles -> CallType(n)]
  <2>1. WorktreeType(Len(commits)) \subseteq WorktreeType(n)
    BY <1>3 DEF WorktreeType
  <2>2. CallType(Len(commits)) \subseteq CallType(n)
    BY <1>3 DEF CallType
  <2>3. /\ wt \in [Handles -> WorktreeType(Len(commits))]
        /\ op \in [Handles -> CallType(Len(commits))]
    BY DEF KvInv, TypeOK, WorktreeType, CallType
  <2> QED BY <2>1, <2>2, <2>3
<1>5. TypeOK'
  <2>1. tags' \in [Scopes -> 0..n] /\ swept' \subseteq Ids'
    BY <1>2, <1>3 DEF KvInv, TypeOK
  <2>2. commits' \in Seq(CommitType)
    BY <1>1 DEF Grown
  <2>3. Len(commits') >= 1
    BY <1>2 DEF KvInv, TypeOK
  <2> QED BY <1>2, <1>4, <2>1, <2>2, <2>3 DEF TypeOK, WorktreeType, CallType, CommitType
<1>6. OverwritesOnlyWhatItSaw' /\ PlanesStayHome'
  BY <1>5, SoundnessGrows DEF KvInv
<1>7. Extends
  BY <1>1 DEF Extends, Grown
<1>8. \A s \in Sessions : branch[s] # 0 => Forward(s)
  <2> TAKE s \in Sessions
  <2>1. CASE branch'[s] = branch[s] /\ branch[s] # 0
    <3>1. branch[s] \in Ids
      <4>1. branch[s] \in 0..Len(commits)
        BY DEF KvInv, TypeOK
      <4> QED BY <1>2, <2>1, <4>1 DEF Ids
    <3> QED BY <1>7, <2>1, <3>1 DEF Forward, Past, Extends
  <2>2. CASE branch'[s] = n /\ branch[s] = Tip(h)
    BY <1>1, <1>2, <2>2 DEF Forward, Past
  <2> QED BY <2>1, <2>2
<1>9. Names'
  <2>1. n \notin swept
    BY <1>2 DEF KvInv, TypeOK
  <2>2. \A s \in Sessions : branch'[s] \notin swept
    BY <2>1 DEF KvInv, Names
  <2>3. \A d \in Handles : wt'[d].head \notin swept
    <3>1. DOMAIN wt = Handles
      BY DEF KvInv, TypeOK
    <3> QED BY <2>1, <3>1 DEF KvInv, Names
  <2> QED BY <2>2, <2>3 DEF KvInv, Names
<1> QED BY <1>1, <1>5, <1>6, <1>7, <1>8, <1>9, Step

-----------------------------------------------------------------------------
(* The verbs that commit nothing *)

LEMMA TypedNow ==
  ASSUME KvInv
  PROVE  /\ Len(commits) \in Nat /\ 1 \in Ids /\ NewId \in Nat /\ Ids \subseteq Nat \ {0}
         /\ \A c \in Ids : c \in 0..Len(commits)
         /\ \A c \in 0..Len(commits) \ {0} : c \in Ids
         /\ branch \in [Sessions -> 0..Len(commits)]
         /\ wt \in [Handles -> WorktreeType(Len(commits))]
         /\ op \in [Handles -> CallType(Len(commits))]
BY DEF KvInv, TypeOK, WorktreeType, CallType, Ids, NewId

\* A call in progress is on an open handle.
LEMMA CallIsOpen ==
  ASSUME KvInv, NEW h \in Handles, op[h].pc # "idle"
  PROVE  IsOpen(h)
BY DEF KvInv, Stands

LEMMA SameOp ==
  ASSUME KvInv, NEW h \in Handles, UNCHANGED op, op[h].pc = "idle"
  PROVE  op' = [op EXCEPT ![h] = op[h]] /\ op[h] \in CallType(Len(commits)) /\ Under(h)'
<1>1. op' = [op EXCEPT ![h] = op[h]] /\ op[h] \in CallType(Len(commits)) /\ op'[h].pc = "idle"
  BY TypedNow
<1> QED BY <1>1 DEF Under

LEMMA SameWt ==
  ASSUME KvInv, NEW h \in Handles, UNCHANGED <<commits, branch, wt>>, IsOpen(h)
  PROVE  wt' = [wt EXCEPT ![h] = wt[h]] /\ wt[h] \in WorktreeType(Len(commits)) /\ Stands(h)'
<1>1. wt' = [wt EXCEPT ![h] = wt[h]] /\ wt[h] \in WorktreeType(Len(commits))
  BY TypedNow
<1>2. Stands(h)'
  BY DEF KvInv, Stands, IsOpen, Tip, Past, TreeOf, Ids
<1> QED BY <1>1, <1>2

\* A handle moved to a commit of its branch, with nothing staged.
LEMMA StandsOpen ==
  ASSUME KvInv, NEW h \in Handles, NEW s \in Sessions, NEW c \in Ids,
         UNCHANGED commits, wt' = [wt EXCEPT ![h] = OpenAt(s, c)],
         branch'[s] \in Ids, c \in Past(branch'[s])
  PROVE  Stands(h)'
<1>1. wt'[h] = OpenAt(s, c)
  BY TypedNow
<1>2. /\ wt'[h].session = s /\ wt'[h].head = c /\ wt'[h].view = TreeOf(c)
      /\ wt'[h].staged = {}
  BY <1>1 DEF OpenAt
<1>3. s # NoSession /\ branch'[s] # 0
  BY KvgitAssumption, TypedNow
<1> QED BY <1>2, <1>3 DEF Stands, IsOpen, Tip, Past, TreeOf, Ids

LEMMA OpenStep ==
  ASSUME KvInv, NEW h \in Handles, NEW s \in Sessions, Open(h, s)
  PROVE  KvInv'
<1> DEFINE head == IF branch[s] = 0 THEN 1 ELSE branch[s]
<1>1. head \in Ids /\ head \in Past(head) /\ head \notin swept
  BY TypedNow DEF KvInv, Graph, Names
<1>2. /\ ~IsOpen(h) /\ branch' = [branch EXCEPT ![s] = head]
      /\ wt' = [wt EXCEPT ![h] = OpenAt(s, head)]
      /\ UNCHANGED <<commits, tags, swept, op>>
  BY DEF Open
<1> HIDE DEF head
<1>3. op[h].pc = "idle"
  BY <1>2 DEF KvInv, Stands
<1>4. branch' \in [Sessions -> 0..Len(commits)] /\ branch'[s] = head
  BY <1>1, <1>2, TypedNow
<1>5. Stands(h)'
  BY <1>1, <1>2, <1>4, StandsOpen
<1>6. \A d \in Handles : wt'[d].head \notin swept
  <2>1. OpenAt(s, head).head = head
    BY DEF OpenAt
  <2> QED BY <1>1, <1>2, <2>1, TypedNow DEF KvInv, Names
<1>7. \A x \in Sessions : branch'[x] \notin swept
  BY <1>1, <1>2, TypedNow DEF KvInv, Names
<1>8. Names'
  BY <1>2, <1>6, <1>7 DEF KvInv, Names
<1>9. \A x \in Sessions : branch[x] # 0 => branch'[x] = branch[x]
  BY <1>2, TypedNow DEF head
<1>10. tags' \in [Scopes -> 0..Len(commits)] /\ swept' \subseteq Ids
  BY <1>2 DEF KvInv, TypeOK
<1>11. OpenAt(s, head) \in WorktreeType(Len(commits))
  BY <1>1, OpenAtTyped DEF KvInv
<1> QED BY <1>2, <1>3, <1>4, <1>5, <1>8, <1>9, <1>10, <1>11, SameOp, QuietStep

LEMMA CloseStep ==
  ASSUME KvInv, NEW h \in Handles, Close(h)
  PROVE  KvInv'
<1>1. /\ op[h].pc = "idle" /\ wt' = [wt EXCEPT ![h] = Closed]
      /\ UNCHANGED <<commits, branch, tags, swept, op>>
  BY DEF Close, Ready
<1>2. Closed \in WorktreeType(Len(commits)) /\ Closed.session = NoSession /\ Closed.head = 0
  BY TypedNow DEF Closed, WorktreeType, EmptyTree, Tree, Contents
<1>3. Closed.head \notin swept
  BY <1>2, TypedNow DEF KvInv, TypeOK
<1>4. Stands(h)'
  BY <1>1, <1>2, TypedNow DEF Stands, IsOpen
<1> QED BY <1>1, <1>2, <1>3, <1>4, SameOp, HandleStep

LEMMA WriteStep ==
  ASSUME KvInv, NEW h \in Handles, NEW k \in Keys, NEW v \in Values \cup {Absent}, Write(h, k, v)
  PROVE  KvInv'
<1>1. /\ op[h].pc = "idle" /\ IsOpen(h) /\ UNCHANGED <<commits, branch, tags, swept, op>>
      /\ wt' = [wt EXCEPT ![h].view[k] = v, ![h].staged = @ \cup {k}]
  BY DEF Write, Ready
<1>2. /\ wt[h].session \in Sessions /\ Tip(h) \in Ids /\ wt[h].head \in Ids
      /\ wt[h] \in WorktreeType(Len(commits)) /\ wt[h].head \in Past(Tip(h))
      /\ wt[h].head \notin swept
  BY <1>1, TipHeld
<1> DEFINE view == [wt[h].view EXCEPT ![k] = v]
           staged == wt[h].staged \cup {k}
           w == [wt[h] EXCEPT !.view = view, !.staged = staged]
<1>3. view \in Tree /\ staged \subseteq Keys
  BY <1>2 DEF WorktreeType, Tree, Contents
<1>4. \A x \in Keys \ staged : view[x] = TreeOf(wt[h].head)[x]
  BY <1>1, <1>2 DEF KvInv, Stands, WorktreeType, Tree
<1>5. wt' = [wt EXCEPT ![h] = w]
  BY <1>1, TypedNow
<1> HIDE DEF view, staged
<1>6. /\ w \in WorktreeType(Len(commits)) /\ w.head = wt[h].head /\ w.session = wt[h].session
      /\ w.view = view /\ w.staged = staged
  BY <1>2, <1>3 DEF WorktreeType
<1>7. wt'[h] = w
  BY <1>5, TypedNow
<1> HIDE DEF w
<1>8. Stands(h)'
  <2>1. Tip(h)' = Tip(h) /\ Tip(h) # 0
    BY <1>1, <1>2, <1>6, <1>7, TypedNow DEF Tip
  <2> QED BY <1>1, <1>2, <1>4, <1>6, <1>7, <2>1 DEF Stands, IsOpen, Past, TreeOf, Ids
<1> QED BY <1>1, <1>2, <1>5, <1>6, <1>8, SameOp, HandleStep

LEMMA ToCommitStep ==
  ASSUME KvInv, NEW h \in Handles, Ready(h), NEW c \in Ids, c \in Past(Tip(h)), c \notin swept,
         wt' = [wt EXCEPT ![h] = OpenAt(wt[h].session, c)],
         UNCHANGED <<commits, branch, tags, swept, op>>
  PROVE  KvInv'
<1>1. /\ op[h].pc = "idle" /\ wt[h].session \in Sessions /\ Tip(h) \in Ids
  BY TipHeld DEF Ready
<1>2. PICK s : s = wt[h].session
  OBVIOUS
<1>3. Stands(h)'
  BY <1>1, <1>2, StandsOpen DEF Tip
<1>4. OpenAt(s, c) \in WorktreeType(Len(commits)) /\ OpenAt(s, c).head = c
  <2>1. OpenAt(s, c).head = c
    BY DEF OpenAt
  <2> QED BY <1>1, <1>2, <2>1, OpenAtTyped DEF KvInv
<1> QED BY <1>1, <1>2, <1>3, <1>4, SameOp, HandleStep

LEMMA DiscardStep ==
  ASSUME KvInv, NEW h \in Handles, Discard(h)
  PROVE  KvInv'
<1>1. /\ Ready(h) /\ UNCHANGED <<commits, branch, tags, swept, op>>
      /\ wt' = [wt EXCEPT ![h] = OpenAt(wt[h].session, wt[h].head)]
  BY DEF Discard
<1>2. wt[h].head \in Ids /\ wt[h].head \in Past(Tip(h)) /\ wt[h].head \notin swept
  BY <1>1, TipHeld DEF Ready
<1> QED BY <1>1, <1>2, ToCommitStep

LEMMA RefreshStep ==
  ASSUME KvInv, NEW h \in Handles, Refresh(h)
  PROVE  KvInv'
<1>1. /\ Ready(h) /\ UNCHANGED <<commits, branch, tags, swept, op>>
      /\ wt' = [wt EXCEPT ![h] = OpenAt(wt[h].session, Tip(h))]
  BY DEF Refresh
<1>2. Tip(h) \in Ids /\ Tip(h) \notin swept
  BY <1>1, TipHeld DEF Ready
<1>3. Tip(h) \in Past(Tip(h))
  BY <1>2 DEF KvInv, Graph
<1> QED BY <1>1, <1>2, <1>3, ToCommitStep

\* Names, and what they are of.
LEMMA ForkAtStep ==
  ASSUME KvInv, NEW h \in Handles, NEW n \in Sessions, NEW c \in Held, op[h].pc = "idle",
         IsOpen(h), branch[n] = 0, branch' = [branch EXCEPT ![n] = c],
         UNCHANGED <<commits, tags, swept, wt, op>>
  PROVE  KvInv'
<1>1. c \in Ids /\ c \notin swept
  BY DEF Held
<1>2. /\ branch' \in [Sessions -> 0..Len(commits)] /\ tags' \in [Scopes -> 0..Len(commits)]
      /\ swept' \subseteq Ids
      /\ \A s \in Sessions : branch[s] # 0 => branch'[s] = branch[s]
  BY <1>1, TypedNow DEF KvInv, TypeOK
<1>3. Names'
  BY <1>1, TypedNow DEF KvInv, Names
<1>4. wt' = [wt EXCEPT ![h] = wt[h]] /\ wt[h] \in WorktreeType(Len(commits))
  BY TypedNow
<1>5. Stands(h)'
  <2>1. Tip(h)' = Tip(h)
    <3>1. wt[h].session \in Sessions /\ Tip(h) \in Ids
      BY TipHeld
    <3>2. wt[h].session # n
      BY <3>1, TypedNow DEF Tip
    <3> QED BY <3>1, <3>2, TypedNow DEF Tip
  <2> QED BY <2>1 DEF KvInv, Stands, IsOpen, Past, TreeOf, Ids
<1> QED BY <1>2, <1>3, <1>4, <1>5, SameOp, QuietStep

LEMMA TagAtStep ==
  ASSUME KvInv, NEW h \in Handles, NEW x \in Scopes, NEW c \in Ids, TagAt(h, x, c)
  PROVE  KvInv'
<1>1. /\ Ready(h) /\ c \in Held /\ tags' = [tags EXCEPT ![x] = c]
      /\ UNCHANGED <<commits, branch, swept, wt, op>>
  BY DEF TagAt
<1>2. c \in Ids /\ c \notin swept /\ op[h].pc = "idle" /\ IsOpen(h)
  BY <1>1 DEF Held, Ready
<1>3. tags \in [Scopes -> 0..Len(commits)]
  BY DEF KvInv, TypeOK
<1>4. tags' \in [Scopes -> 0..Len(commits)]
  BY <1>1, <1>2, <1>3, TypedNow
<1>5. \A s \in Scopes : tags'[s] \notin swept
  BY <1>1, <1>2, <1>3 DEF KvInv, Names
<1>6. Names'
  BY <1>1, <1>5 DEF KvInv, Names
<1>7. branch' \in [Sessions -> 0..Len(commits)] /\ swept' \subseteq Ids
  BY <1>1 DEF KvInv, TypeOK
<1> QED BY <1>1, <1>2, <1>4, <1>6, <1>7, SameOp, SameWt, QuietStep

\* A sweep takes nothing a branch, a tag or an open handle's branch reaches.
LEMMA SweepSpares ==
  ASSUME KvInv, UNCHANGED <<commits, wt>>, NEW age, swept' = Swept(branch', tags', age),
         \A s \in Sessions : branch'[s] \in {0, branch[s]},
         \A x \in Scopes : tags'[x] \in {0, tags[x]},
         \A h \in Handles : IsOpen(h) => branch'[wt[h].session] = Tip(h)
  PROVE  swept' \subseteq Ids /\ Names'
<1>1. swept' = swept \cup {c \in Held : 1 < c /\ c <= age /\ c \notin Reachable(branch', tags')}
  BY DEF Swept
<1>2. swept \subseteq Ids /\ Held \subseteq Ids
  BY DEF KvInv, TypeOK, Held
<1>3. ASSUME NEW c \in swept'
      PROVE  c \in Ids /\ (c \in swept \/ (c \notin Reachable(branch', tags') /\ 1 < c))
  BY <1>1, <1>2
<1>4. 0 \notin swept' /\ 1 \notin swept'
  BY <1>3, TypedNow DEF KvInv, Names
<1>5. ASSUME NEW c \in Ids
      PROVE  c \in Past(c)
  BY DEF KvInv, Graph
<1>6. ASSUME NEW s \in Sessions, branch'[s] # 0, NEW c \in Past(branch'[s]), c \notin swept
      PROVE  c \notin swept'
  <2>1. c \in Reachable(branch', tags')
    BY <1>6 DEF Reachable
  <2> QED BY <1>3, <1>6, <2>1
<1>7. ASSUME NEW s \in Sessions
      PROVE  branch'[s] \notin swept'
  <2>1. CASE branch'[s] = 0
    BY <1>4, <2>1
  <2>2. CASE branch'[s] # 0
    <3>1. branch'[s] = branch[s] /\ branch[s] \in Ids /\ branch[s] \notin swept
      BY <2>2, TypedNow DEF KvInv, Names
    <3> QED BY <1>5, <1>6, <2>2, <3>1
  <2> QED BY <2>1, <2>2
<1>8. ASSUME NEW x \in Scopes
      PROVE  tags'[x] \notin swept'
  <2>1. CASE tags'[x] = 0
    BY <1>4, <2>1
  <2>2. CASE tags'[x] # 0
    <3>1. tags'[x] = tags[x] /\ tags[x] \in 0..Len(commits) /\ tags[x] \notin swept
      BY <2>2 DEF KvInv, Names, TypeOK
    <3>2. tags[x] \in Past(tags[x])
      BY <1>5, <2>2, <3>1, TypedNow
    <3>3. tags[x] \in Reachable(branch', tags')
      BY <2>2, <3>1, <3>2 DEF Reachable
    <3> QED BY <1>3, <3>1, <3>3
  <2> QED BY <2>1, <2>2
<1>9. ASSUME NEW h \in Handles
      PROVE  wt[h].head \notin swept'
  <2>1. CASE ~IsOpen(h)
    BY <1>4, <2>1 DEF KvInv, Stands
  <2>2. CASE IsOpen(h)
    <3>1. /\ wt[h].session \in Sessions /\ Tip(h) \in Ids
          /\ wt[h].head \in Past(Tip(h)) /\ wt[h].head \notin swept
      BY <2>2, TipHeld
    <3>2. branch'[wt[h].session] = Tip(h) /\ Tip(h) # 0
      BY <2>2, <3>1, TypedNow
    <3> QED BY <1>6, <3>1, <3>2
  <2> QED BY <2>1, <2>2
<1>10. swept' \subseteq Ids
  BY <1>3
<1> QED BY <1>4, <1>7, <1>8, <1>9, <1>10 DEF Names

LEMMA DeleteTagStep ==
  ASSUME KvInv, NEW h \in Handles, NEW x \in Scopes, NEW age, DeleteTag(h, x, age)
  PROVE  KvInv'
<1>1. /\ Ready(h) /\ tags' = [tags EXCEPT ![x] = 0] /\ swept' = Swept(branch, tags', age)
      /\ UNCHANGED <<commits, branch, wt, op>>
  BY DEF DeleteTag
<1>2. tags \in [Scopes -> 0..Len(commits)] /\ 0 \in 0..Len(commits)
  BY TypedNow DEF KvInv, TypeOK
<1>3. tags' \in [Scopes -> 0..Len(commits)] /\ \A y \in Scopes : tags'[y] \in {0, tags[y]}
  BY <1>1, <1>2
<1>4. swept' = Swept(branch', tags', age) /\ \A s \in Sessions : branch'[s] \in {0, branch[s]}
  BY <1>1
<1>5. swept' \subseteq Ids /\ Names'
  BY <1>1, <1>3, <1>4, SweepSpares DEF Tip
<1>6. branch' \in [Sessions -> 0..Len(commits)] /\ op[h].pc = "idle" /\ IsOpen(h)
  BY <1>1, TypedNow DEF Ready
<1> QED BY <1>1, <1>3, <1>5, <1>6, SameOp, SameWt, QuietStep

\* A session that goes has no handle on it: the others stand where they did.
LEMMA DeleteStep ==
  ASSUME KvInv, NEW s \in Sessions, NEW age, Delete(s, age)
  PROVE  KvInv'
<1>1. /\ \A h \in Handles : wt[h].session # s
      /\ tags' = [tags EXCEPT ![s] = 0] /\ branch' = [branch EXCEPT ![s] = 0]
      /\ swept' = Swept(branch', tags', age) /\ UNCHANGED <<commits, wt, op>>
  BY DEF Delete
<1>2. /\ tags \in [Scopes -> 0..Len(commits)] /\ branch \in [Sessions -> 0..Len(commits)]
      /\ 0 \in 0..Len(commits) /\ s \in Scopes
  BY TypedNow DEF KvInv, TypeOK, Scopes
<1>3. /\ tags' \in [Scopes -> 0..Len(commits)] /\ branch' \in [Sessions -> 0..Len(commits)]
      /\ \A x \in Scopes : tags'[x] \in {0, tags[x]}
      /\ \A x \in Sessions : branch'[x] \in {0, branch[x]}
      /\ \A x \in Sessions \ {s} : branch'[x] = branch[x]
  BY <1>1, <1>2
<1>4. \A h \in Handles : IsOpen(h) => branch'[wt[h].session] = Tip(h) /\ Forward(wt[h].session)
  <2> SUFFICES ASSUME NEW h \in Handles, IsOpen(h)
               PROVE  branch'[wt[h].session] = Tip(h) /\ Forward(wt[h].session)
    OBVIOUS
  <2>1. wt[h].session \in Sessions \ {s} /\ Tip(h) \in Ids
    BY <1>1, TipHeld
  <2>2. branch'[wt[h].session] = Tip(h) /\ Tip(h) # 0
    BY <1>3, <2>1, TypedNow DEF Tip
  <2> QED BY <1>1, <2>2 DEF Forward, Past, Tip
<1>5. swept' \subseteq Ids /\ Names'
  BY <1>1, <1>3, <1>4, SweepSpares
<1>6. TypeOK'
  BY <1>1, <1>3, <1>5 DEF KvInv, TypeOK, Ids
<1>7. Extends /\ Graph' /\ OverwritesOnlyWhatItSaw' /\ PlanesStayHome'
  BY <1>1, SameCommits
<1>8. \A d \in Handles : Stands(d)' /\ Under(d)'
  BY <1>1, <1>4, <1>6, <1>7, Others
<1> QED BY <1>5, <1>6, <1>7, <1>8 DEF KvInv

LEMMA IdleTyped ==
  ASSUME NEW m \in Nat
  PROVE  Idle \in CallType(m)
BY DEF Idle, CallType, Outcomes

\* How a call ends: what it reports and the commit it names.
LEMMA DoneTyped ==
  ASSUME NEW m \in Nat, NEW h, op[h] \in CallType(m), NEW result \in Outcomes, NEW c \in 0..m
  PROVE  /\ Done(h, result, c) \in CallType(m)
         /\ Done(h, result, c).pc = "done" /\ Done(h, result, c).verb = op[h].verb
         /\ Done(h, result, c).result = result /\ Done(h, result, c).commit = c
         /\ Done(h, result, c).base = op[h].base /\ Done(h, result, c).target = op[h].target
         /\ Done(h, result, c).expect = op[h].expect /\ Done(h, result, c).tip = op[h].tip
BY DEF Done, CallType

\* A call that ends with nothing done, its buffer empty.
LEMMA RefusalStep ==
  ASSUME KvInv, NEW h \in Handles, op[h].pc \in {"landing", "landed", "merging"},
         NEW result \in Outcomes \ {"ok", "nothing"}, NEW c \in 0..Len(commits),
         NEW w \in WorktreeType(Len(commits)), w.staged = {}, w.head \notin swept,
         wt' = [wt EXCEPT ![h] = w], op' = [op EXCEPT ![h] = Done(h, result, c)],
         UNCHANGED <<commits, branch, tags, swept>>, Stands(h)'
  PROVE  KvInv'
<1>1. PICK o : o = Done(h, result, c)
  OBVIOUS
<1>2. /\ o \in CallType(Len(commits)) /\ o.pc = "done" /\ o.verb = op[h].verb
      /\ o.result = result
  BY <1>1, TypedNow, DoneTyped
<1>3. op[h].verb \in {"land", "merge"}
  BY DEF KvInv, Under
<1>4. wt'[h] = w /\ op'[h] = o
  BY <1>1, TypedNow
<1>5. Over(h)'
  BY <1>2, <1>3, <1>4 DEF Over, Dirty
<1>6. Under(h)'
  BY <1>2, <1>4, <1>5 DEF Under
<1> QED BY <1>1, <1>2, <1>6, HandleStep

LEMMA ReturnStep ==
  ASSUME KvInv, NEW h \in Handles, Return(h)
  PROVE  KvInv'
<1>1. /\ op[h].pc = "done" /\ op' = [op EXCEPT ![h] = Idle]
      /\ UNCHANGED <<commits, branch, tags, swept, wt>>
  BY DEF Return
<1>2. IsOpen(h)
  BY <1>1, CallIsOpen
<1>3. Idle \in CallType(Len(commits)) /\ op'[h].pc = "idle"
  BY <1>1, TypedNow, IdleTyped DEF Idle
<1>4. Under(h)'
  BY <1>3 DEF Under
<1> QED BY <1>1, <1>2, <1>3, <1>4, TipHeld, SameWt, HandleStep

LEMMA CheckoutBeginStep ==
  ASSUME KvInv, NEW h \in Handles, NEW target \in Ids, CheckoutBegin(h, target)
  PROVE  KvInv'
<1> DEFINE called == [Idle EXCEPT !.verb = "checkout", !.target = target, !.tip = Tip(h)]
           over == [called EXCEPT !.pc = "done", !.result = "ok", !.commit = wt[h].head]
           going == [called EXCEPT !.pc = "restoring"]
<1>1. PICK w : w = Staging(wt[h], TreeOf(target))
  OBVIOUS
<1>2. /\ IsOpen(h) /\ wt' = [wt EXCEPT ![h] = w]
      /\ op' = [op EXCEPT ![h] = IF w.staged = {} THEN over ELSE going]
      /\ UNCHANGED <<commits, branch, tags, swept>>
  BY <1>1 DEF CheckoutBegin, Ready
<1>3. PICK o : o = IF w.staged = {} THEN over ELSE going
  OBVIOUS
<1>4. /\ wt[h].session \in Sessions /\ Tip(h) \in Ids /\ wt[h].head \in Ids
      /\ wt[h] \in WorktreeType(Len(commits)) /\ wt[h].head \in Past(Tip(h))
      /\ wt[h].head \notin swept
  BY <1>2, TipHeld
<1>5. /\ w \in WorktreeType(Len(commits)) /\ w.session = wt[h].session /\ w.head = wt[h].head
      /\ w.view = TreeOf(target) /\ TreeOf(target) \in Tree /\ TreeOf(wt[h].head) \in Tree
      /\ \A k \in Keys \ w.staged : TreeOf(target)[k] = TreeOf(wt[h].head)[k]
  <2>1. TreeOf(target) \in Tree /\ TreeOf(wt[h].head) \in Tree
    BY <1>4, Held1 DEF KvInv
  <2> QED BY <1>1, <1>4, <2>1, StagingTyped, TypedNow
<1>6. Idle \in CallType(Len(commits)) /\ target \in 0..Len(commits) /\ Tip(h) \in 0..Len(commits)
      /\ wt[h].head \in 0..Len(commits)
  BY <1>4, TypedNow, IdleTyped
<1>7. /\ called \in CallType(Len(commits)) /\ called.verb = "checkout" /\ called.target = target
  BY <1>6 DEF CallType
<1> HIDE DEF called
<1>8. /\ over \in CallType(Len(commits)) /\ over.verb = "checkout" /\ over.target = target
      /\ over.pc = "done" /\ over.result = "ok" /\ over.commit = wt[h].head
      /\ going \in CallType(Len(commits)) /\ going.verb = "checkout" /\ going.target = target
      /\ going.pc = "restoring"
  BY <1>6, <1>7 DEF CallType, Outcomes
<1> HIDE DEF over, going
<1>9. wt'[h] = w /\ op'[h] = o /\ op' = [op EXCEPT ![h] = o] /\ o \in CallType(Len(commits))
  BY <1>2, <1>3, <1>8, TypedNow
<1>10. Stands(h)'
  <2>1. Tip(h)' = Tip(h) /\ Tip(h) # 0
    BY <1>2, <1>4, <1>5, <1>9, TypedNow DEF Tip
  <2> QED BY <1>2, <1>4, <1>5, <1>9, <2>1 DEF Stands, IsOpen, Past, TreeOf, Ids
<1>11. Under(h)'
  <2>1. CASE w.staged = {}
    <3>1. TreeOf(target) = TreeOf(wt[h].head)
      BY <1>5, <2>1 DEF Tree
    <3>2. o = over
      BY <1>3, <2>1
    <3>3. Over(h)'
      BY <1>2, <1>4, <1>8, <1>9, <3>1, <3>2 DEF Over, TreeOf, Ids
    <3> QED BY <1>8, <1>9, <3>2, <3>3 DEF Under
  <2>2. CASE w.staged # {}
    BY <1>2, <1>3, <1>8, <1>9, <2>2 DEF Under, Ids
  <2> QED BY <2>1, <2>2
<1> QED BY <1>2, <1>4, <1>5, <1>9, <1>10, <1>11, HandleStep

LEMMA CheckoutConflictStep ==
  ASSUME KvInv, NEW h \in Handles, CheckoutConflict(h)
  PROVE  KvInv'
<1>1. /\ op[h].pc = "restoring" /\ op' = [op EXCEPT ![h] = Done(h, "conflict", 0)]
      /\ UNCHANGED <<commits, branch, tags, swept, wt>>
  BY DEF CheckoutConflict
<1>2. IsOpen(h) /\ op[h].verb = "checkout"
  BY <1>1, CallIsOpen DEF KvInv, Under
<1>3. PICK o : o = Done(h, "conflict", 0)
  OBVIOUS
<1>4. /\ o \in CallType(Len(commits)) /\ o.pc = "done" /\ o.verb = "checkout"
      /\ o.result = "conflict"
  <2>1. "conflict" \in Outcomes /\ 0 \in 0..Len(commits)
    BY TypedNow DEF Outcomes
  <2> QED BY <1>2, <1>3, <2>1, TypedNow, DoneTyped
<1>5. op'[h] = o
  BY <1>1, <1>3, TypedNow
<1>6. Over(h)'
  BY <1>4, <1>5 DEF Over
<1>7. Under(h)'
  BY <1>4, <1>5, <1>6 DEF Under
<1> QED BY <1>1, <1>2, <1>3, <1>4, <1>7, TipHeld, SameWt, HandleStep

LEMMA LandBeginStep ==
  ASSUME KvInv, NEW h \in Handles, NEW base \in Ids, NEW theirs \in Ids,
         NEW expect \in Ids \cup {0}, LandBegin(h, base, theirs, expect)
  PROVE  KvInv'
<1> DEFINE o == [Idle EXCEPT !.pc = "landing", !.verb = "land",
                !.target = theirs, !.base = base, !.expect = expect, !.tip = Tip(h)]
<1>1. /\ IsOpen(h) /\ ~Dirty(h) /\ op' = [op EXCEPT ![h] = o]
      /\ UNCHANGED <<commits, branch, tags, swept, wt>>
  BY DEF LandBegin, Ready
<1>2. Tip(h) \in Ids
  BY <1>1, TipHeld
<1>3. Idle \in CallType(Len(commits)) /\ {theirs, base, expect, Tip(h)} \subseteq 0..Len(commits)
  BY <1>2, TypedNow, IdleTyped
<1>4. /\ o \in CallType(Len(commits)) /\ o.pc = "landing" /\ o.verb = "land"
      /\ o.target = theirs /\ o.base = base /\ o.tip = Tip(h)
  BY <1>3 DEF CallType
<1> HIDE DEF o
<1>5. op'[h] = o /\ Tip(h)' = Tip(h) /\ Tip(h) <= Tip(h) /\ ~Dirty(h)' /\ Ids' = Ids
  BY <1>1, <1>2, TypedNow DEF Tip, Dirty, Ids
<1>6. Under(h)'
  BY <1>4, <1>5 DEF Under
<1> QED BY <1>1, <1>4, <1>6, TipHeld, SameWt, HandleStep

LEMMA MergeBeginStep ==
  ASSUME KvInv, NEW h \in Handles, NEW s \in Sessions, MergeBegin(h, s)
  PROVE  KvInv'
<1> DEFINE o == [Idle EXCEPT !.pc = "merging", !.verb = "merge",
                             !.target = branch[s], !.tip = Tip(h)]
<1>1. /\ IsOpen(h) /\ ~Dirty(h) /\ branch[s] # 0 /\ op' = [op EXCEPT ![h] = o]
      /\ UNCHANGED <<commits, branch, tags, swept, wt>>
  BY DEF MergeBegin, Ready
<1>2. Tip(h) \in Ids /\ branch[s] \in Ids
  BY <1>1, TipHeld, TypedNow
<1>3. Idle \in CallType(Len(commits)) /\ {branch[s], Tip(h)} \subseteq 0..Len(commits)
  BY <1>2, TypedNow, IdleTyped
<1>4. /\ o \in CallType(Len(commits)) /\ o.pc = "merging" /\ o.verb = "merge"
      /\ o.target = branch[s]
  BY <1>3 DEF CallType
<1> HIDE DEF o
<1>5. op'[h] = o /\ ~Dirty(h)' /\ Ids' = Ids
  BY <1>1, <1>2, TypedNow DEF Dirty, Ids
<1>6. Under(h)'
  BY <1>2, <1>4, <1>5 DEF Under
<1> QED BY <1>1, <1>4, <1>6, TipHeld, SameWt, HandleStep

\* A plan that is not refused holds the whole change, and only the change.
LEMMA PlanIsTheChange ==
  ASSUME NEW base, NEW theirs, NEW ours, ~LandRefused(base, theirs, ours)
  PROVE  /\ \A k \in LandedKeys(base, theirs) : LandPlan(base, theirs, ours)[k] = TreeOf(theirs)[k]
         /\ \A k \in Keys \ LandedKeys(base, theirs) : LandPlan(base, theirs, ours)[k] = ours[k]
         /\ \A k \in LandedKeys(base, theirs) \ CwdKeys :
               ours[k] \in {TreeOf(base)[k], TreeOf(theirs)[k]}
         /\ LandedKeys(base, theirs) \cap (ConvKeys \cup BookKeys) = {}
<1>1. LandedKeys(base, theirs) \subseteq FileKeys \cup CacheKeys \cup CwdKeys
      /\ \A k \in LandedKeys(base, theirs) : TreeOf(base)[k] # TreeOf(theirs)[k]
  BY DEF LandedKeys
<1>2. ASSUME NEW k \in LandedKeys(base, theirs)
      PROVE  /\ LandMerge(k, TreeOf(base)[k], ours[k], TreeOf(theirs)[k]) = TreeOf(theirs)[k]
             /\ k \notin CwdKeys => ours[k] \in {TreeOf(base)[k], TreeOf(theirs)[k]}
  <2>1. ~LandConflict(k, TreeOf(base)[k], ours[k], TreeOf(theirs)[k])
    BY DEF LandRefused
  <2> QED BY <1>1, <2>1 DEF LandConflict, Contested, LandMerge
<1>3. LandedKeys(base, theirs) \subseteq Keys
  BY <1>1 DEF Keys
<1>4. LandedKeys(base, theirs) \cap (ConvKeys \cup BookKeys) = {}
  BY <1>1, KvgitAssumption
<1> QED BY <1>2, <1>3, <1>4 DEF LandPlan

LEMMA LandJudgeStep ==
  ASSUME KvInv, NEW h \in Handles, LandJudge(h)
  PROVE  KvInv'
<1>1. op[h].pc = "landing" /\ UNCHANGED <<commits, branch, tags, swept>> /\ IsOpen(h)
  BY CallIsOpen DEF LandJudge
<1>2. PICK s, tip, base, theirs, expect :
        /\ s = wt[h].session /\ tip = Tip(h) /\ base = op[h].base /\ theirs = op[h].target
        /\ expect = op[h].expect
  OBVIOUS
<1>3. /\ s \in Sessions /\ tip \in Ids /\ tip \notin swept /\ tip \in Past(tip)
      /\ TreeOf(tip) \in Tree /\ tip \in 0..Len(commits) /\ 0 \in 0..Len(commits)
  BY <1>1, <1>2, TipHeld, TypedNow, Held1 DEF KvInv, Graph
<1>4. base \in Ids /\ theirs \in Ids /\ op[h].verb = "land" /\ op[h].tip <= tip
  BY <1>1, <1>2 DEF KvInv, Under
<1>5. PICK here : here = OpenAt(s, tip)
  OBVIOUS
<1>6. /\ here \in WorktreeType(Len(commits)) /\ here.session = s /\ here.head = tip
      /\ here.staged = {}
  BY <1>3, <1>5, OpenAtTyped DEF KvInv, OpenAt
<1>7. ASSUME NEW result \in {"gone", "head moved", "conflict"}, wt' = [wt EXCEPT ![h] = here],
             op' = [op EXCEPT ![h] = Done(h, result, 0)]
      PROVE  KvInv'
  <2>1. Stands(h)'
    BY <1>1, <1>2, <1>3, <1>5, <1>7, StandsOpen DEF Tip
  <2>2. result \in Outcomes \ {"ok", "nothing"}
    BY DEF Outcomes
  <2> QED BY <1>1, <1>3, <1>6, <1>7, <2>1, <2>2, RefusalStep
<1> DEFINE plan == LandPlan(base, theirs, TreeOf(tip))
           next == [op[h] EXCEPT !.pc = "landed"]
<1>8. ASSUME expect \in {0, tip}, ~LandRefused(base, theirs, TreeOf(tip)),
             wt' = [wt EXCEPT ![h] = Staging(here, plan)],
             op' = [op EXCEPT ![h] = IF plan = TreeOf(tip) THEN Done(h, "nothing", tip) ELSE next]
      PROVE  KvInv'
  <2>1. plan \in Tree
    BY <1>3, <1>4, PlansTyped DEF KvInv
  <2>2. /\ \A k \in LandedKeys(base, theirs) : plan[k] = TreeOf(theirs)[k]
    BY <1>8, PlanIsTheChange
  <2>3. PICK p : p = plan
    OBVIOUS
  <2> HIDE DEF plan
  <2>4. PICK w : w = Staging(here, p)
    OBVIOUS
  <2>5. /\ w \in WorktreeType(Len(commits)) /\ w.session = s /\ w.head = tip /\ w.view = p
        /\ w.staged = {k \in Keys : p[k] # TreeOf(tip)[k]}
        /\ \A k \in Keys \ w.staged : p[k] = TreeOf(tip)[k]
    BY <1>6, <2>1, <2>3, <2>4, StagingTyped, TypedNow
  <2>6. PICK o : o = IF p = TreeOf(tip) THEN Done(h, "nothing", tip) ELSE next
    OBVIOUS
  <2>7. /\ next \in CallType(Len(commits)) /\ next.pc = "landed" /\ next.verb = "land"
        /\ next.base = base /\ next.target = theirs /\ next.expect = expect
        /\ next.tip = op[h].tip
    BY <1>2, <1>4, TypedNow DEF CallType
  <2> HIDE DEF next
  <2>8. PICK done : done = Done(h, "nothing", tip)
    OBVIOUS
  <2>9. /\ done \in CallType(Len(commits)) /\ done.pc = "done" /\ done.verb = "land"
        /\ done.base = base /\ done.target = theirs /\ done.expect = expect
        /\ done.tip = op[h].tip /\ done.commit = tip /\ done.result = "nothing"
    <3>1. "nothing" \in Outcomes
      BY DEF Outcomes
    <3> QED BY <1>2, <1>3, <1>4, <2>8, <3>1, TypedNow, DoneTyped
  <2>10. /\ op' = [op EXCEPT ![h] = o] /\ wt' = [wt EXCEPT ![h] = w]
         /\ op'[h] = o /\ wt'[h] = w /\ o \in CallType(Len(commits))
    BY <1>8, <2>3, <2>4, <2>6, <2>7, <2>8, <2>9, TypedNow
  <2>11. Tip(h)' = tip /\ tip # 0
    BY <1>1, <1>2, <1>3, <2>5, <2>10, TypedNow DEF Tip
  <2>12. Stands(h)'
    BY <1>1, <1>2, <1>3, <2>5, <2>10, <2>11 DEF Stands, IsOpen, Past, TreeOf, Ids
  <2>13. Extends /\ Ids' = Ids
    BY <1>1, SameCommits
  <2>14. CASE p = TreeOf(tip)
    <3>1. o = done /\ w.staged = {}
      BY <2>5, <2>6, <2>8, <2>14
    <3>2. \A k \in LandedKeys(base, theirs)' : TreeOf(tip)'[k] = TreeOf(theirs)'[k]
      <4>1. LandedKeys(base, theirs)' = LandedKeys(base, theirs)
        BY <1>4, <2>13, SameLand
      <4> QED BY <1>1, <2>2, <2>3, <2>14, <4>1 DEF TreeOf
    <3>3. expect # 0 => tip = expect /\ op[h].tip <= expect
      BY <1>4, <1>8
    <3>4. Over(h)'
      BY <1>3, <1>4, <2>9, <2>10, <2>13, <3>1, <3>2, <3>3 DEF Over, Dirty, TreeOf
    <3> QED BY <1>3, <2>5, <2>9, <2>10, <2>12, <3>1, <3>4, <1>1, HandleStep DEF Under
  <2>15. CASE p # TreeOf(tip)
    <3>1. o = next
      BY <2>6, <2>15
    <3>2. PICK ours : ours = TreeOf(tip)
      OBVIOUS
    <3>3. /\ LandPlan(base, theirs, ours)' = LandPlan(base, theirs, ours)
          /\ LandRefused(base, theirs, ours)' <=> LandRefused(base, theirs, ours)
      BY <1>4, <2>13, SameLand
    <3>4. TreeOf(wt[h].head)' = ours
      BY <1>1, <2>5, <2>10, <3>2 DEF TreeOf
    <3>5. Planned(h)'
      <4>1. p = LandPlan(base, theirs, ours) /\ ~LandRefused(base, theirs, ours)
        BY <1>8, <2>3, <3>2 DEF plan
      <4> QED BY <1>8, <2>5, <2>7, <2>10, <3>1, <3>3, <3>4, <4>1 DEF Planned
    <3>6. Under(h)'
      BY <1>4, <2>7, <2>10, <2>11, <2>13, <3>1, <3>5 DEF Under
    <3> QED BY <1>1, <1>3, <2>5, <2>10, <2>12, <3>6, HandleStep
  <2> QED BY <2>14, <2>15
<1> HIDE DEF plan, next
<1>9. \/ \E result \in {"gone", "head moved", "conflict"} :
            /\ wt' = [wt EXCEPT ![h] = here] /\ op' = [op EXCEPT ![h] = Done(h, result, 0)]
      \/ /\ expect \in {0, tip} /\ ~LandRefused(base, theirs, TreeOf(tip))
         /\ wt' = [wt EXCEPT ![h] = Staging(here, plan)]
         /\ op' = [op EXCEPT ![h] = IF plan = TreeOf(tip) THEN Done(h, "nothing", tip) ELSE next]
  BY <1>2, <1>5, TypedNow DEF LandJudge, plan, next
<1> QED BY <1>7, <1>8, <1>9

LEMMA LandMovedStep ==
  ASSUME KvInv, NEW h \in Handles, LandMoved(h)
  PROVE  KvInv'
<1>1. /\ op[h].pc = "landed" /\ UNCHANGED <<commits, branch, tags, swept>> /\ IsOpen(h)
      /\ wt' = [wt EXCEPT ![h] = OpenAt(wt[h].session, wt[h].head)]
  BY CallIsOpen DEF LandMoved
<1>2. PICK s, c : s = wt[h].session /\ c = wt[h].head
  OBVIOUS
<1>3. PICK w : w = OpenAt(s, c)
  OBVIOUS
<1>4. /\ s \in Sessions /\ Tip(h) \in Ids /\ c \in Ids /\ c \in Past(Tip(h)) /\ c \notin swept
  BY <1>1, <1>2, TipHeld
<1>5. /\ w \in WorktreeType(Len(commits)) /\ w.head = c /\ w.staged = {} /\ w.session = s
      /\ wt' = [wt EXCEPT ![h] = w]
  BY <1>1, <1>2, <1>3, <1>4, OpenAtTyped DEF KvInv, OpenAt
<1>6. Stands(h)'
  BY <1>1, <1>2, <1>4, StandsOpen DEF Tip
<1> DEFINE again == [op[h] EXCEPT !.pc = "landing", !.tries = op[h].tries + 1]
<1>7. \/ op' = [op EXCEPT ![h] = Done(h, "head moved", 0)]
      \/ op' = [op EXCEPT ![h] = Done(h, "no settling", 0)]
      \/ op' = [op EXCEPT ![h] = again]
  BY DEF LandMoved
<1>8. CASE op' = [op EXCEPT ![h] = again]
  <2>1. /\ again \in CallType(Len(commits)) /\ again.pc = "landing" /\ again.verb = op[h].verb
        /\ again.base = op[h].base /\ again.target = op[h].target /\ again.tip = op[h].tip
    <3>1. op[h] \in CallType(Len(commits))
      BY TypedNow
    <3>2. PICK tries \in Nat : tries = op[h].tries + 1
      BY <3>1 DEF CallType
    <3>3. again = [op[h] EXCEPT !.pc = "landing", !.tries = tries]
      BY <3>2
    <3> HIDE DEF again
    <3> QED BY <3>1, <3>3 DEF CallType
  <2> HIDE DEF again
  <2>2. op'[h] = again /\ wt'[h] = w
    BY <1>5, <1>8, TypedNow
  <2>3. Tip(h)' = Tip(h) /\ ~Dirty(h)' /\ Ids' = Ids
    BY <1>1, <1>2, <1>5, <2>2 DEF Tip, Dirty, Ids
  <2>4. Under(h)'
    BY <1>1, <2>1, <2>2, <2>3 DEF Under, KvInv
  <2> QED BY <1>1, <1>4, <1>5, <1>6, <1>8, <2>1, <2>4, HandleStep
<1>9. CASE \E result \in {"head moved", "no settling"} : op' = [op EXCEPT ![h] = Done(h, result, 0)]
  <2>1. {"head moved", "no settling"} \subseteq Outcomes \ {"ok", "nothing"} /\ 0 \in 0..Len(commits)
    BY TypedNow DEF Outcomes
  <2> QED BY <1>1, <1>4, <1>5, <1>6, <1>9, <2>1, RefusalStep
<1> QED BY <1>7, <1>8, <1>9

-----------------------------------------------------------------------------
(* The verbs that commit *)

\* A handle whose head moved to the commit it made stands on it.
LEMMA StandsOnNew ==
  ASSUME KvInv, NEW h \in Handles, IsOpen(h),
         NEW first, first = Tip(h), NEW n, NEW r, NEW others, NEW tree, NEW verb, NEW from,
         Makes(n, r, first, others, tree, verb, from),
         NEW w, wt'[h] = w, w.session = wt[h].session, w.head = n,
         \A k \in Keys \ w.staged : w.view[k] = tree[k],
         branch'[wt[h].session] = n
  PROVE  Stands(h)'
<1>1. Grown(r) /\ n \in Past(n)' /\ TreeOf(n)' = tree /\ n = NewId
  BY GraphGrows DEF KvInv, Makes
<1>2. n \in Ids' /\ n # 0
  BY <1>1 DEF Grown
<1>3. commits'[n].tree = tree /\ n \in commits'[n].past
  BY <1>1 DEF TreeOf, Past
<1>4. IsOpen(h)' /\ Tip(h)' = n
  BY DEF IsOpen, Tip
<1> QED BY <1>2, <1>3, <1>4 DEF Stands, TreeOf, Past

\* The branch after a commit, and after a fork that starts at it.
LEMMA BranchMoves ==
  ASSUME KvInv, NEW h \in Handles, IsOpen(h), NEW n, n = NewId,
         \/ branch' = [branch EXCEPT ![wt[h].session] = n]
         \/ \E s \in Sessions : /\ branch[s] = 0
                                /\ branch' = [branch EXCEPT ![wt[h].session] = n, ![s] = n]
  PROVE  /\ branch' \in [Sessions -> 0..n] /\ branch'[wt[h].session] = n /\ n \in Nat
         /\ \A s \in Sessions : \/ branch'[s] = branch[s]
                                \/ branch'[s] = n /\ branch[s] \in {0, Tip(h)}
<1>1. branch \in [Sessions -> 0..Len(commits)] /\ wt[h].session \in Sessions /\ n \in Nat
  BY TipHeld, TypedNow
<1>2. n \in 0..n /\ 0..Len(commits) \subseteq 0..n
  BY TypedNow DEF NewId
<1>3. branch \in [Sessions -> 0..n]
  BY <1>1, <1>2
<1> QED BY <1>1, <1>2, <1>3 DEF Tip

\* One commit of the handle's, n, and its worktree on it: w.
Landing(h, first, n, r, others, tree, verb, from, w) ==
    /\ IsOpen(h) /\ first = Tip(h)
    /\ Makes(n, r, first, others, tree, verb, from) /\ Sound(verb, tree, first, from)
    /\ w \in WorktreeType(n) /\ w.session = wt[h].session /\ w.head = n
    /\ \A k \in Keys \ w.staged : w.view[k] = tree[k]

\* The rest of the step that makes it.
Moves(h, n, w, o) ==
    /\ o \in CallType(n) /\ wt' = [wt EXCEPT ![h] = w] /\ op' = [op EXCEPT ![h] = o]
    /\ UNCHANGED <<tags, swept>>
    /\ \/ branch' = [branch EXCEPT ![wt[h].session] = n]
       \/ \E s \in Sessions : /\ branch[s] = 0
                              /\ branch' = [branch EXCEPT ![wt[h].session] = n, ![s] = n]

LEMMA LandingStep ==
  ASSUME KvInv, NEW h \in Handles, NEW first, NEW n, NEW r, NEW others, NEW tree, NEW verb,
         NEW from, NEW w, Landing(h, first, n, r, others, tree, verb, from, w),
         NEW o, Moves(h, n, w, o), Under(h)'
  PROVE  KvInv'
<1>1. /\ IsOpen(h) /\ first = Tip(h) /\ Sound(verb, tree, first, from)
      /\ Makes(n, r, first, others, tree, verb, from)
      /\ w \in WorktreeType(n) /\ w.session = wt[h].session /\ w.head = n
      /\ \A k \in Keys \ w.staged : w.view[k] = tree[k]
  BY DEF Landing
<1>2. n = NewId
  BY <1>1 DEF Makes
<1>3. /\ o \in CallType(n) /\ wt' = [wt EXCEPT ![h] = w] /\ op' = [op EXCEPT ![h] = o]
      /\ UNCHANGED <<tags, swept>>
  BY DEF Moves
<1>4. /\ branch' \in [Sessions -> 0..n] /\ branch'[wt[h].session] = n /\ n \in Nat
      /\ \A s \in Sessions : \/ branch'[s] = branch[s]
                             \/ branch'[s] = n /\ branch[s] \in {0, Tip(h)}
  BY <1>1, <1>2, BranchMoves DEF Moves
<1>5. wt'[h] = w
  BY <1>3, TypedNow
<1>6. Stands(h)'
  BY <1>1, <1>4, <1>5, StandsOnNew
<1> QED BY <1>1, <1>3, <1>4, <1>6, MakingStep

\* An ordinary commit of these staged keys of worktree old.
Ordinary(h, old, keys, first, verb, n, r, tree, w) ==
    /\ IsOpen(h) /\ first = Tip(h) /\ old \in WorktreeType(Len(commits))
    /\ old.session = wt[h].session /\ old.head = wt[h].head
    /\ ~CommitConflicts(old, first, keys)
    /\ verb \in {"commit", "commit_keys", "checkout", "apply"}
    /\ n = NewId /\ tree = CommitTree(old, first, keys)
    /\ verb = "apply" => \A k \in CacheKeys \cup ConvKeys : tree[k] = TreeOf(first)[k]
    /\ r = CommitRecord(n, first, {}, tree, verb, old.head) /\ commits' = Append(commits, r)
    /\ w = Landed(old, n, tree, keys)

LEMMA OrdinaryLands ==
  ASSUME KvInv, NEW h \in Handles, NEW old, NEW keys, NEW first, NEW verb, NEW n, NEW r, NEW tree,
         NEW w, Ordinary(h, old, keys, first, verb, n, r, tree, w)
  PROVE  /\ Landing(h, first, n, r, {}, tree, verb, wt[h].head, w)
         /\ tree \in Tree /\ w.staged = old.staged \ keys /\ n \in Nat
<1>1. /\ IsOpen(h) /\ first = Tip(h) /\ old \in WorktreeType(Len(commits))
      /\ old.session = wt[h].session /\ old.head = wt[h].head
      /\ ~CommitConflicts(old, first, keys)
      /\ verb \in {"commit", "commit_keys", "checkout", "apply"}
      /\ n = NewId /\ tree = CommitTree(old, first, keys)
      /\ verb = "apply" => \A k \in CacheKeys \cup ConvKeys : tree[k] = TreeOf(first)[k]
      /\ r = CommitRecord(n, first, {}, tree, verb, old.head) /\ commits' = Append(commits, r)
      /\ w = Landed(old, n, tree, keys)
  BY DEF Ordinary
<1>2. first \in Ids /\ old.head \in Ids /\ n \in Nat
  BY <1>1, TipHeld, TypedNow
<1>3. tree \in Tree
  BY <1>1, <1>2, CommitTreeTyped DEF KvInv
<1>4. Sound(verb, tree, first, wt[h].head)
  <2>1. \A k \in FileKeys \cup CacheKeys \cup ConvKeys :
            \/ tree[k] = TreeOf(first)[k] \/ TreeOf(first)[k] = TreeOf(old.head)[k]
    BY <1>1, <1>2, CommitIsSound DEF KvInv
  <2> QED BY <1>1, <2>1 DEF Sound
<1>5. Makes(n, r, first, {}, tree, verb, wt[h].head)
  BY <1>1, <1>2, <1>3 DEF Makes, CommitVerbs
<1>6. PICK m \in Nat : m = Len(commits)
  BY TypedNow
<1>7. /\ w \in WorktreeType(n) /\ w.session = old.session /\ w.head = n
      /\ w.staged = old.staged \ keys
      /\ \A k \in Keys \ (old.staged \ keys) : w.view[k] = tree[k]
  BY <1>1, <1>2, <1>3, <1>6, LandedTyped
<1>8. \A k \in Keys \ w.staged : w.view[k] = tree[k]
  BY <1>7
<1> QED BY <1>1, <1>2, <1>3, <1>4, <1>5, <1>7, <1>8 DEF Landing

\* commit(), commit_keys() and the commit of a fork: the same call of kvgit.
CommitsKeys(h, keys, verb) ==
    LET tree == CommitTree(wt[h], Tip(h), keys)
    IN  /\ IsOpen(h) /\ op[h].pc = "idle" /\ verb \in {"commit", "commit_keys"}
        /\ ~CommitConflicts(wt[h], Tip(h), keys)
        /\ commits' = Append(commits, CommitRecord(NewId, Tip(h), {}, tree, verb, wt[h].head))
        /\ \/ branch' = [branch EXCEPT ![wt[h].session] = NewId]
           \/ \E s \in Sessions :
                 /\ branch[s] = 0
                 /\ branch' = [branch EXCEPT ![wt[h].session] = NewId, ![s] = NewId]
        /\ wt' = [wt EXCEPT ![h] = Landed(wt[h], NewId, tree, keys)]
        /\ UNCHANGED <<tags, swept, op>>

LEMMA CommitsKeysStep ==
  ASSUME KvInv, NEW h \in Handles, NEW keys, NEW verb, CommitsKeys(h, keys, verb)
  PROVE  KvInv'
<1>1. PICK old, first, n, o : old = wt[h] /\ first = Tip(h) /\ n = NewId /\ o = op[h]
  OBVIOUS
<1>2. PICK tree : tree = CommitTree(old, first, keys)
  OBVIOUS
<1>3. PICK r, w : /\ r = CommitRecord(n, first, {}, tree, verb, old.head)
                  /\ w = Landed(old, n, tree, keys)
  OBVIOUS
<1>4. op[h].pc = "idle" /\ UNCHANGED op
  BY DEF CommitsKeys
<1>5. Ordinary(h, old, keys, first, verb, n, r, tree, w)
  BY <1>1, <1>2, <1>3, TypedNow DEF CommitsKeys, Ordinary
<1>6. Landing(h, first, n, r, {}, tree, verb, wt[h].head, w) /\ n \in Nat
  BY <1>5, OrdinaryLands
<1>7. op' = [op EXCEPT ![h] = o] /\ o \in CallType(n) /\ Under(h)'
  <2>1. 0..Len(commits) \subseteq 0..n
    BY <1>1, TypedNow DEF NewId
  <2>2. CallType(Len(commits)) \subseteq CallType(n)
    BY <2>1 DEF CallType
  <2> QED BY <1>1, <1>4, <2>2, SameOp
<1>8. Moves(h, n, w, o)
  BY <1>1, <1>2, <1>3, <1>7 DEF CommitsKeys, Moves
<1> QED BY <1>6, <1>7, <1>8, LandingStep

LEMMA CommitStep ==
  ASSUME KvInv, NEW h \in Handles, Commit(h)
  PROVE  KvInv'
<1>1. CommitsKeys(h, wt[h].staged, "commit")
  BY DEF Commit, CommitsKeys, Ready, AddCommit, Tip
<1> QED BY <1>1, CommitsKeysStep

LEMMA CommitKeysStep ==
  ASSUME KvInv, NEW h \in Handles, NEW keys \in SUBSET Keys, CommitKeys(h, keys)
  PROVE  KvInv'
<1>1. CommitsKeys(h, keys \cap wt[h].staged, "commit_keys")
  BY DEF CommitKeys, CommitsKeys, Ready, AddCommit, Tip
<1> QED BY <1>1, CommitsKeysStep

LEMMA ForkStep ==
  ASSUME KvInv, NEW h \in Handles, NEW s \in Sessions, Fork(h, s)
  PROVE  KvInv'
<1>1. IsOpen(h) /\ op[h].pc = "idle" /\ branch[s] = 0 /\ UNCHANGED <<tags, swept, op>>
  BY DEF Fork, Ready
<1>2. CASE branch' = [branch EXCEPT ![s] = wt[h].head] /\ UNCHANGED <<commits, wt>>
  <2>1. wt[h].head \in Held
    BY <1>1, TipHeld DEF Held
  <2> QED BY <1>1, <1>2, <2>1, ForkAtStep
<1>3. CASE ~UNCHANGED <<commits, wt>>
  <2>1. CommitsKeys(h, wt[h].staged, "commit")
    BY <1>1, <1>3 DEF Fork, CommitsKeys
  <2> QED BY <2>1, CommitsKeysStep
<1> QED BY <1>1, <1>2, <1>3 DEF Fork

\* The commit is in the store, and what was there is as it was.
LEMMA LandingGrows ==
  ASSUME KvInv, NEW h \in Handles, NEW first, NEW n, NEW r, NEW others, NEW tree, NEW verb,
         NEW from, NEW w, Landing(h, first, n, r, others, tree, verb, from, w)
  PROVE  /\ Extends /\ n \in Ids' /\ commits'[n] = r /\ TreeOf(n)' = tree
         /\ r.first = first /\ r.verb = verb /\ Ids \subseteq Ids' /\ n \in 0..n
<1>1. /\ Makes(n, r, first, others, tree, verb, from) /\ n = NewId
  BY DEF Landing, Makes
<1>2. /\ Grown(r) /\ TreeOf(n)' = tree /\ r.first = first /\ r.verb = verb
  BY <1>1, GraphGrows DEF KvInv
<1>3. n \in Nat /\ n \in 0..n
  BY <1>1, TypedNow
<1> QED BY <1>1, <1>2, <1>3 DEF Grown, Extends

\* The handle of a call that ends with this commit.
LEMMA DoneMoves ==
  ASSUME KvInv, NEW h \in Handles, NEW n, n = NewId, NEW result \in Outcomes
  PROVE  /\ Done(h, result, n) \in CallType(n)
         /\ Done(h, result, n).pc = "done" /\ Done(h, result, n).verb = op[h].verb
         /\ Done(h, result, n).result = result /\ Done(h, result, n).commit = n
         /\ Done(h, result, n).base = op[h].base /\ Done(h, result, n).target = op[h].target
         /\ Done(h, result, n).expect = op[h].expect
         /\ op[h] \in CallType(n)
<1>1. n \in Nat /\ n \in 0..n /\ 0..Len(commits) \subseteq 0..n
  BY TypedNow DEF NewId
<1>2. op[h] \in CallType(n)
  <2>1. CallType(Len(commits)) \subseteq CallType(n)
    BY <1>1 DEF CallType
  <2> QED BY <2>1, TypedNow
<1> QED BY <1>1, <1>2, DoneTyped

LEMMA CheckoutCommitStep ==
  ASSUME KvInv, NEW h \in Handles, CheckoutCommit(h)
  PROVE  KvInv'
<1>1. PICK old, first, n, keys, target :
        /\ old = wt[h] /\ first = Tip(h) /\ n = NewId /\ keys = wt[h].staged
        /\ target = op[h].target
  OBVIOUS
<1>2. PICK tree : tree = CommitTree(old, first, keys)
  OBVIOUS
<1>3. PICK r, w, again :
        /\ r = CommitRecord(n, first, {}, tree, "checkout", old.head)
        /\ w = Landed(old, n, tree, keys)
        /\ again = {k \in Keys : TreeOf(target)[k] # tree[k]}
  OBVIOUS
<1>4. op[h].pc = "restoring" /\ IsOpen(h)
  BY CallIsOpen DEF CheckoutCommit
<1>5. op[h].verb = "checkout" /\ target \in Ids /\ TreeOf(target) \in Tree
  BY <1>1, <1>4, Held1 DEF KvInv, Under
<1>6. Ordinary(h, old, keys, first, "checkout", n, r, tree, w)
  BY <1>1, <1>2, <1>3, <1>4, TypedNow DEF CheckoutCommit, Ordinary, AddCommit, Tip
<1>7. /\ Landing(h, first, n, r, {}, tree, "checkout", wt[h].head, w) /\ n \in Nat
      /\ tree \in Tree /\ w.staged = {} /\ w.view = tree
  <2>1. /\ Landing(h, first, n, r, {}, tree, "checkout", wt[h].head, w) /\ n \in Nat
        /\ tree \in Tree /\ w.staged = {}
    BY <1>1, <1>6, OrdinaryLands
  <2>2. w \in WorktreeType(n) /\ \A k \in Keys : w.view[k] = tree[k]
    BY <2>1 DEF Landing
  <2>3. w.view \in Tree
    BY <2>2 DEF WorktreeType
  <2> QED BY <2>1, <2>2, <2>3 DEF Tree
<1>8. /\ Extends /\ n \in Ids' /\ TreeOf(n)' = tree /\ Ids \subseteq Ids'
  BY <1>7, LandingGrows
<1>9. branch' = [branch EXCEPT ![wt[h].session] = n] /\ UNCHANGED <<tags, swept>>
  BY <1>1 DEF CheckoutCommit, AddCommit
<1>13. \A result \in {"ok", "no convergence"} :
          /\ Done(h, result, n) \in CallType(n)
          /\ Done(h, result, n).pc = "done" /\ Done(h, result, n).verb = op[h].verb
          /\ Done(h, result, n).result = result /\ Done(h, result, n).commit = n
          /\ Done(h, result, n).target = op[h].target
  <2>1. n = NewId /\ "ok" \in Outcomes
    BY <1>1 DEF Outcomes
  <2>2. op[h] \in CallType(n)
    BY <2>1, DoneMoves
  <2>3. n \in 0..n /\ {"ok", "no convergence"} \subseteq Outcomes
    BY <2>1, TypedNow DEF Outcomes
  <2> QED BY <2>2, <2>3 DEF Done, CallType
<1>10. ASSUME NEW result \in {"ok", "no convergence"}, result = "ok" => again = {},
              wt' = [wt EXCEPT ![h] = w], op' = [op EXCEPT ![h] = Done(h, result, n)]
       PROVE  KvInv'
  <2>1. PICK o : o = Done(h, result, n)
    OBVIOUS
  <2>2. /\ o \in CallType(n) /\ o.pc = "done" /\ o.verb = "checkout" /\ o.result = result
        /\ o.commit = n /\ o.target = target
    BY <1>1, <1>5, <1>13, <2>1
  <2>3. op'[h] = o /\ Moves(h, n, w, o)
    BY <1>9, <1>10, <2>1, <2>2, TypedNow DEF Moves
  <2>4. result = "ok" => TreeOf(target) = tree
    BY <1>3, <1>5, <1>7, <1>10 DEF Tree
  <2>5. TreeOf(target)' = TreeOf(target)
    BY <1>5, <1>8, SameTrees
  <2>6. result = "ok" => TreeOf(op[h].commit)' = TreeOf(op[h].target)'
    BY <1>8, <2>2, <2>3, <2>4, <2>5 DEF TreeOf
  <2>7. Over(h)'
    BY <1>5, <1>8, <2>2, <2>3, <2>6 DEF Over
  <2>8. Under(h)'
    BY <2>2, <2>3, <2>7 DEF Under
  <2> QED BY <1>7, <2>3, <2>8, LandingStep
<1> DEFINE next == [op[h] EXCEPT !.tries = op[h].tries + 1]
           left == [w EXCEPT !.view = TreeOf(target), !.staged = again]
<1>11. ASSUME wt' = [wt EXCEPT ![h] = left], op' = [op EXCEPT ![h] = next]
       PROVE  KvInv'
  <2>1. again \subseteq Keys /\ \A k \in Keys \ again : TreeOf(target)[k] = tree[k]
    BY <1>3
  <2>2. /\ left \in WorktreeType(n) /\ left.session = w.session /\ left.head = w.head
        /\ left.view = TreeOf(target) /\ left.staged = again
    BY <1>5, <1>7, <2>1 DEF Landing, WorktreeType
  <2>3. Landing(h, first, n, r, {}, tree, "checkout", wt[h].head, left)
    BY <1>7, <2>1, <2>2 DEF Landing
  <2>4. next \in CallType(n) /\ next.pc = op[h].pc /\ next.verb = op[h].verb
        /\ next.target = op[h].target
    <3>1. op[h] \in CallType(n)
      <4>1. "ok" \in Outcomes
        BY DEF Outcomes
      <4> QED BY <1>1, <4>1, DoneMoves
    <3>2. PICK tries \in Nat : tries = op[h].tries + 1
      BY <3>1 DEF CallType
    <3>3. next = [op[h] EXCEPT !.tries = tries]
      BY <3>2
    <3> HIDE DEF next
    <3> QED BY <3>1, <3>3 DEF CallType
  <2> HIDE DEF next, left
  <2>5. op'[h] = next /\ Moves(h, n, left, next)
    BY <1>9, <1>11, <2>4, TypedNow DEF Moves
  <2>6. Under(h)'
    BY <1>1, <1>4, <1>5, <1>8, <2>4, <2>5 DEF Under
  <2> QED BY <2>3, <2>5, <2>6, LandingStep
<1>12. \/ /\ wt' = [wt EXCEPT ![h] = left] /\ op' = [op EXCEPT ![h] = next]
       \/ \E result \in {"ok", "no convergence"} :
             /\ result = "ok" => again = {}
             /\ wt' = [wt EXCEPT ![h] = w] /\ op' = [op EXCEPT ![h] = Done(h, result, n)]
  <2>1. op' = [op EXCEPT ![h].tries = op[h].tries + 1] => op' = [op EXCEPT ![h] = next]
    BY TypedNow
  <2> QED BY <1>1, <1>2, <1>3, <2>1 DEF CheckoutCommit
<1> HIDE DEF next, left
<1> QED BY <1>10, <1>11, <1>12

LEMMA LandCommitStep ==
  ASSUME KvInv, NEW h \in Handles, LandCommit(h)
  PROVE  KvInv'
<1>1. PICK old, first, n, keys : old = wt[h] /\ first = Tip(h) /\ n = NewId /\ keys = wt[h].staged
  OBVIOUS
<1>2. PICK base, theirs, expect :
        base = op[h].base /\ theirs = op[h].target /\ expect = op[h].expect
  OBVIOUS
<1>3. PICK tree, ours : tree = old.view /\ ours = TreeOf(first)
  OBVIOUS
<1>4. PICK r, w : r = CommitRecord(n, first, {}, tree, "land", old.head) /\ w = Landed(old, n, tree, keys)
  OBVIOUS
<1>5. op[h].pc = "landed" /\ first = old.head /\ IsOpen(h)
  BY <1>1, CallIsOpen DEF LandCommit
<1>6. /\ op[h].verb = "land" /\ base \in Ids /\ theirs \in Ids
      /\ tree = LandPlan(base, theirs, ours) /\ ~LandRefused(base, theirs, ours)
      /\ expect \in {0, first}
  BY <1>1, <1>2, <1>3, <1>5 DEF KvInv, Under, Planned
<1>7. /\ \A k \in LandedKeys(base, theirs) : tree[k] = TreeOf(theirs)[k]
      /\ \A k \in Keys \ LandedKeys(base, theirs) : tree[k] = ours[k]
      /\ \A k \in LandedKeys(base, theirs) \ CwdKeys :
            ours[k] \in {TreeOf(base)[k], TreeOf(theirs)[k]}
      /\ LandedKeys(base, theirs) \cap (ConvKeys \cup BookKeys) = {}
  BY <1>6, PlanIsTheChange
<1>8. /\ first \in Ids /\ old \in WorktreeType(Len(commits)) /\ old.session = wt[h].session
      /\ n \in Nat /\ \A k \in Keys \ keys : tree[k] = ours[k] /\ keys = old.staged
  BY <1>1, <1>3, <1>5, TipHeld, TypedNow DEF KvInv, Stands
<1>9. tree \in Tree /\ ours \in Tree
  BY <1>3, <1>8, Held1 DEF KvInv, WorktreeType
<1>10. CommitTree(old, first, keys) = tree
  <2>1. /\ Ours(old, keys) \in Tree
        /\ \A k \in Keys : Ours(old, keys)[k] = IF k \in keys THEN old.view[k] ELSE TreeOf(old.head)[k]
    BY <1>5, <1>8, OursTyped DEF KvInv
  <2>2. \A k \in Keys : Ours(old, keys)[k] = tree[k]
    BY <1>3, <1>5, <1>8, <2>1
  <2>3. Ours(old, keys) = tree
    BY <1>9, <2>1, <2>2 DEF Tree
  <2> QED BY <1>5, <2>3 DEF CommitTree
<1>11. Landing(h, first, n, r, {}, tree, "land", wt[h].head, w) /\ w.staged = {}
  <2>1. Sound("land", tree, first, wt[h].head)
    <3>1. \A k \in ConvKeys \cup BookKeys : tree[k] = TreeOf(first)[k]
      BY <1>3, <1>7 DEF Keys
    <3> QED BY <1>1, <1>5, <3>1 DEF Sound
  <2>2. Makes(n, r, first, {}, tree, "land", wt[h].head)
    <3>1. commits' = Append(commits, r) /\ r = CommitRecord(n, first, {}, tree, "land", wt[h].head)
      BY <1>1, <1>4, <1>10 DEF LandCommit, AddCommit, Tip
    <3>2. wt[h].head \in Ids /\ n = NewId
      BY <1>1, <1>5, <1>8
    <3> QED BY <1>8, <1>9, <3>1, <3>2 DEF Makes, CommitVerbs
  <2>3. PICK m \in Nat : m = Len(commits)
    BY TypedNow
  <2>4. /\ w \in WorktreeType(n) /\ w.session = old.session /\ w.head = n
        /\ w.staged = old.staged \ keys
        /\ \A k \in Keys \ (old.staged \ keys) : w.view[k] = tree[k]
    BY <1>4, <1>8, <1>9, <2>3, LandedTyped
  <2>5. w.staged = {}
    BY <1>1, <2>4
  <2> QED BY <1>1, <1>5, <1>8, <2>1, <2>2, <2>4, <2>5 DEF Landing
<1>12. PICK o : o = Done(h, "ok", n)
  OBVIOUS
<1>13. /\ o \in CallType(n) /\ o.pc = "done" /\ o.verb = "land" /\ o.result = "ok"
       /\ o.commit = n /\ o.base = base /\ o.target = theirs /\ o.expect = expect
  <2>1. "ok" \in Outcomes /\ n = NewId
    BY <1>1 DEF Outcomes
  <2>2. /\ Done(h, "ok", n) \in CallType(n)
        /\ Done(h, "ok", n).pc = "done" /\ Done(h, "ok", n).verb = op[h].verb
        /\ Done(h, "ok", n).result = "ok" /\ Done(h, "ok", n).commit = n
        /\ Done(h, "ok", n).base = op[h].base /\ Done(h, "ok", n).target = op[h].target
        /\ Done(h, "ok", n).expect = op[h].expect
    BY <2>1, DoneMoves
  <2> QED BY <1>2, <1>6, <1>12, <2>2
<1>14. /\ branch' = [branch EXCEPT ![wt[h].session] = n] /\ UNCHANGED <<tags, swept>>
       /\ wt' = [wt EXCEPT ![h] = w] /\ op' = [op EXCEPT ![h] = o]
  BY <1>1, <1>3, <1>4, <1>12 DEF LandCommit, AddCommit
<1>15. op'[h] = o /\ wt'[h] = w /\ Moves(h, n, w, o)
  BY <1>13, <1>14, TypedNow DEF Moves
<1>16. /\ Extends /\ n \in Ids' /\ TreeOf(n)' = tree /\ Ids \subseteq Ids'
       /\ commits'[n] = r /\ r.first = first /\ r.verb = "land"
  BY <1>11, LandingGrows
<1>17. /\ LandedKeys(base, theirs)' = LandedKeys(base, theirs)
       /\ TreeOf(base)' = TreeOf(base) /\ TreeOf(theirs)' = TreeOf(theirs)
       /\ TreeOf(first)' = ours
  BY <1>3, <1>6, <1>8, <1>16, SameTrees, SameLand
<1>18. Whole(n, base, theirs, expect)'
  <2>1. TreeOf(commits[n].first)' = ours
    BY <1>16, <1>17 DEF TreeOf
  <2> QED BY <1>6, <1>7, <1>16, <1>17, <2>1 DEF Whole
<1>19. \A k \in LandedKeys(base, theirs)' : TreeOf(n)'[k] = TreeOf(theirs)'[k]
  BY <1>7, <1>16, <1>17
<1>20. Over(h)'
  <2>1. (\A k \in LandedKeys(op[h].base, op[h].target) :
            TreeOf(op[h].commit)[k] = TreeOf(op[h].target)[k])'
    BY <1>13, <1>15, <1>19 DEF TreeOf, LandedKeys
  <2>2. Whole(op[h].commit, op[h].base, op[h].target, op[h].expect)'
    BY <1>13, <1>15, <1>18
  <2>3. ~Dirty(h)'
    BY <1>11, <1>15 DEF Dirty
  <2> QED BY <1>6, <1>13, <1>15, <1>16, <2>1, <2>2, <2>3 DEF Over
<1>21. Under(h)'
  BY <1>13, <1>15, <1>20 DEF Under
<1> QED BY <1>11, <1>15, <1>21, LandingStep

LEMMA MergeCommitStep ==
  ASSUME KvInv, NEW h \in Handles, MergeCommit(h)
  PROVE  KvInv'
<1>1. PICK old, tip, n, src : old = wt[h] /\ tip = Tip(h) /\ n = NewId /\ src = op[h].target
  OBVIOUS
<1>2. op[h].pc = "merging" /\ IsOpen(h) /\ UNCHANGED <<tags, swept>>
  BY CallIsOpen DEF MergeCommit
<1>3. op[h].verb = "merge" /\ src \in Ids /\ ~Dirty(h)
  BY <1>1, <1>2 DEF KvInv, Under
<1>4. /\ tip \in Ids /\ old \in WorktreeType(Len(commits)) /\ old.session = wt[h].session
      /\ wt[h].head \in Ids /\ old.staged = {} /\ n \in Nat /\ n = NewId
  BY <1>1, <1>2, <1>3, TipHeld, TypedNow DEF Dirty
<1> DEFINE base == TreeOf(MergeBase(tip, src))
           merged == [k \in Keys |-> ThreeWayMerge(k, base[k], TreeOf(tip)[k], TreeOf(src)[k])]
<1>5. ASSUME NEW result \in {"gone", "no op", "conflict"}, NEW c \in 0..Len(commits),
             op' = [op EXCEPT ![h] = Done(h, result, c)], UNCHANGED <<commits, branch, wt>>
      PROVE  KvInv'
  <2>1. wt' = [wt EXCEPT ![h] = old] /\ Stands(h)' /\ old.head \notin swept
    BY <1>1, <1>2, <1>5, SameWt, TipHeld
  <2>2. result \in Outcomes \ {"ok", "nothing"}
    BY DEF Outcomes
  <2>3. UNCHANGED <<commits, branch, tags, swept>>
    BY <1>2, <1>5
  <2> QED BY <1>2, <1>4, <1>5, <2>1, <2>2, <2>3, RefusalStep
<1>6. ASSUME commits' = Append(commits, CommitRecord(n, tip, {src}, merged, "merge", wt[h].head)),
             branch' = [branch EXCEPT ![wt[h].session] = n],
             wt' = [wt EXCEPT ![h] = Landed(old, n, merged, {})],
             op' = [op EXCEPT ![h] = Done(h, "ok", n)]
      PROVE  KvInv'
  <2>1. PICK tree, others : tree = merged /\ others = {src}
    OBVIOUS
  <2>2. tree \in Tree
    <3>1. TreeOf(tip) \in Tree /\ TreeOf(src) \in Tree
      BY <1>3, <1>4, Held1 DEF KvInv
    <3>2. \A k \in Keys : ThreeWayMerge(k, base[k], TreeOf(tip)[k], TreeOf(src)[k]) \in Contents
      BY <3>1 DEF ThreeWayMerge, Tree, Contents
    <3> QED BY <2>1, <3>2 DEF Tree
  <2>3. \A k \in CacheKeys \cup ConvKeys \cup BookKeys : tree[k] = TreeOf(tip)[k]
    <3> SUFFICES ASSUME NEW k \in CacheKeys \cup ConvKeys \cup BookKeys
                 PROVE  tree[k] = TreeOf(tip)[k]
      OBVIOUS
    <3>1. k \in Keys /\ k \notin FileKeys \cup CwdKeys
      BY KvgitAssumption DEF Keys
    <3>2. tree[k] = ThreeWayMerge(k, base[k], TreeOf(tip)[k], TreeOf(src)[k])
      BY <2>1, <3>1
    <3> QED BY <3>1, <3>2 DEF ThreeWayMerge
  <2>4. Sound("merge", tree, tip, wt[h].head)
    BY <2>3 DEF Sound
  <2>5. PICK r, w : /\ r = CommitRecord(n, tip, others, tree, "merge", wt[h].head)
                    /\ w = Landed(old, n, tree, {})
    OBVIOUS
  <2>6. commits' = Append(commits, r) /\ wt' = [wt EXCEPT ![h] = w]
    BY <1>6, <2>1, <2>5
  <2> HIDE DEF merged
  <2>7. Makes(n, r, tip, others, tree, "merge", wt[h].head)
    BY <1>3, <1>4, <2>1, <2>2, <2>5, <2>6 DEF Makes, CommitVerbs
  <2>8. PICK m \in Nat : m = Len(commits)
    BY TypedNow
  <2>9. /\ w \in WorktreeType(n) /\ w.session = old.session /\ w.head = n
        /\ w.staged = old.staged \ {}
        /\ \A k \in Keys \ (old.staged \ {}) : w.view[k] = tree[k]
    BY <1>4, <2>2, <2>5, <2>8, LandedTyped
  <2>10. w.staged = {} /\ Landing(h, tip, n, r, others, tree, "merge", wt[h].head, w)
    BY <1>1, <1>2, <1>4, <2>4, <2>7, <2>9 DEF Landing
  <2>11. PICK o : o = Done(h, "ok", n)
    OBVIOUS
  <2>12. o \in CallType(n) /\ o.pc = "done" /\ o.verb = "merge"
    <3>1. "ok" \in Outcomes
      BY DEF Outcomes
    <3>2. Done(h, "ok", n) \in CallType(n) /\ Done(h, "ok", n).pc = "done"
          /\ Done(h, "ok", n).verb = op[h].verb
      BY <1>4, <3>1, DoneMoves
    <3> QED BY <1>3, <2>11, <3>2
  <2>13. op'[h] = o /\ wt'[h] = w /\ Moves(h, n, w, o)
    BY <1>2, <1>6, <2>6, <2>11, <2>12, TypedNow DEF Moves
  <2>14. Over(h)'
    BY <2>10, <2>12, <2>13 DEF Over, Dirty
  <2>15. Under(h)'
    BY <2>12, <2>13, <2>14 DEF Under
  <2> QED BY <2>10, <2>13, <2>15, LandingStep
<1>7. \/ /\ commits' = Append(commits, CommitRecord(n, tip, {src}, merged, "merge", wt[h].head))
         /\ branch' = [branch EXCEPT ![wt[h].session] = n]
         /\ wt' = [wt EXCEPT ![h] = Landed(old, n, merged, {})]
         /\ op' = [op EXCEPT ![h] = Done(h, "ok", n)]
      \/ \E result \in {"gone", "no op", "conflict"}, c \in {0, wt[h].head} :
            op' = [op EXCEPT ![h] = Done(h, result, c)] /\ UNCHANGED <<commits, branch, wt>>
  BY <1>1 DEF MergeCommit
<1>8. {0, wt[h].head} \subseteq 0..Len(commits)
  BY <1>4, TypedNow
<1> HIDE DEF merged
<1> QED BY <1>5, <1>6, <1>7, <1>8

LEMMA ApplyStep ==
  ASSUME KvInv, NEW h \in Handles, NEW base \in Ids, NEW theirs \in Ids, Apply(h, base, theirs)
  PROVE  KvInv'
<1>1. PICK here, first, n, plan, o :
        /\ here = wt[h] /\ first = Tip(h) /\ n = NewId /\ plan = ApplyPlan(here, base, theirs)
        /\ o = op[h]
  OBVIOUS
<1>2. PICK old : old = Staging(here, plan)
  OBVIOUS
<1>3. PICK keys, tree : keys = old.staged /\ tree = CommitTree(old, first, keys)
  OBVIOUS
<1>4. PICK r, w : /\ r = CommitRecord(n, first, {}, tree, "apply", old.head)
                  /\ w = Landed(old, n, tree, keys)
  OBVIOUS
<1>5. IsOpen(h) /\ op[h].pc = "idle" /\ ~Dirty(h) /\ UNCHANGED op
  BY DEF Apply, Ready
<1>6. /\ here \in WorktreeType(Len(commits)) /\ here.head \in Ids /\ first \in Ids
      /\ here.session = wt[h].session
      /\ \A k \in Keys : here.view[k] = TreeOf(here.head)[k]
  BY <1>1, <1>5, TipHeld DEF KvInv, Stands, Dirty
<1>7. plan \in Tree
  <2>1. here.view \in Tree /\ TreeOf(base) \in Tree /\ TreeOf(theirs) \in Tree
    BY <1>6, Held1 DEF KvInv, WorktreeType
  <2>2. \A k \in Keys : /\ ThreeWayMerge(k, TreeOf(base)[k], here.view[k], TreeOf(theirs)[k]) \in Contents
                        /\ here.view[k] \in Contents
    BY <2>1, MergesTyped DEF Tree
  <2> QED BY <1>1, <2>2 DEF ApplyPlan, Tree
<1>8. PICK m \in Nat : m = Len(commits)
  BY TypedNow
<1>9. /\ old \in WorktreeType(Len(commits)) /\ old.session = wt[h].session
      /\ old.head = here.head
      /\ old.staged = {k \in Keys : plan[k] # TreeOf(here.head)[k]}
  BY <1>2, <1>6, <1>7, <1>8, StagingTyped
<1>10. \A k \in CacheKeys \cup ConvKeys : tree[k] = TreeOf(first)[k]
  <2> SUFFICES ASSUME NEW k \in CacheKeys \cup ConvKeys
               PROVE  tree[k] = TreeOf(first)[k]
    OBVIOUS
  <2>1. k \in Keys /\ k \notin FileKeys \cup CwdKeys \cup BookKeys
    BY KvgitAssumption DEF Keys
  <2>2. plan[k] = here.view[k]
    BY <1>1, <2>1 DEF ApplyPlan, ThreeWayMerge
  <2>3. k \notin old.staged
    BY <1>6, <1>9, <2>1, <2>2
  <2> QED BY <1>3, <1>6, <1>9, <2>1, <2>3, CommitKeepsTheRest DEF KvInv
<1>11. Ordinary(h, old, keys, first, "apply", n, r, tree, w)
  <2>1. ~CommitConflicts(old, first, keys) /\ commits' = Append(commits, r)
    BY <1>1, <1>2, <1>3, <1>4, <1>9 DEF Apply, AddCommit, Tip
  <2> QED BY <1>1, <1>3, <1>4, <1>5, <1>9, <1>10, <2>1 DEF Ordinary
<1>12. Landing(h, first, n, r, {}, tree, "apply", wt[h].head, w) /\ n \in Nat
  BY <1>11, OrdinaryLands
<1>13. op' = [op EXCEPT ![h] = o] /\ o \in CallType(n) /\ Under(h)'
  <2>1. 0..Len(commits) \subseteq 0..n
    BY <1>1, TypedNow DEF NewId
  <2>2. CallType(Len(commits)) \subseteq CallType(n)
    BY <2>1 DEF CallType
  <2> QED BY <1>1, <1>5, <2>2, SameOp
<1>14. Moves(h, n, w, o)
  BY <1>1, <1>2, <1>3, <1>4, <1>9, <1>13 DEF Apply, AddCommit, Moves
<1> QED BY <1>12, <1>13, <1>14, LandingStep

-----------------------------------------------------------------------------
(* The invariant *)

LEMMA KvInvInit ==
  Init => KvInv
<1> SUFFICES ASSUME Init PROVE KvInv
  OBVIOUS
<1> DEFINE root == [first |-> 0, past |-> {1}, tree |-> EmptyTree, verb |-> "root", from |-> 0]
<1>1. /\ commits = <<root>> /\ branch = [s \in Sessions |-> 0] /\ tags = [s \in Scopes |-> 0]
      /\ swept = {} /\ wt = [h \in Handles |-> Closed] /\ op = [h \in Handles |-> Idle]
  BY DEF Init
<1>2. EmptyTree \in Tree
  BY DEF EmptyTree, Tree, Contents
<1>3. /\ root \in CommitType /\ root.past = {1} /\ root.verb = "root" /\ root.first = 0
  BY <1>2 DEF CommitType, CommitVerbs
<1> HIDE DEF root
<1>4. /\ commits \in Seq(CommitType) /\ Len(commits) = 1 /\ commits[1] = root /\ Ids = {1}
  BY <1>1, <1>3 DEF Ids
<1>5. Closed \in WorktreeType(1) /\ Closed.session = NoSession /\ Closed.head = 0
  BY <1>2 DEF Closed, WorktreeType
<1>6. Idle \in CallType(1) /\ Idle.pc = "idle"
  BY IdleTyped DEF Idle
<1> HIDE DEF Closed, Idle
<1>7. TypeOK
  <2>1. /\ branch \in [Sessions -> 0..1] /\ tags \in [Scopes -> 0..1] /\ swept \subseteq Ids
        /\ wt \in [Handles -> WorktreeType(1)] /\ op \in [Handles -> CallType(1)]
    BY <1>1, <1>5, <1>6
  <2> QED BY <1>4, <2>1 DEF TypeOK, CommitType, WorktreeType, CallType
<1>8. Graph
  BY <1>3, <1>4 DEF Graph, Past
<1>9. Names
  BY <1>1 DEF Names
<1>10. OverwritesOnlyWhatItSaw /\ PlanesStayHome
  BY <1>3, <1>4 DEF OverwritesOnlyWhatItSaw, PlanesStayHome
<1>11. ASSUME NEW h \in Handles PROVE Stands(h) /\ Under(h)
  BY <1>1, <1>5, <1>6 DEF Stands, Under, IsOpen
<1> QED BY <1>7, <1>8, <1>9, <1>10, <1>11 DEF KvInv

LEMMA KvInvNext ==
  KvInv /\ [Next]_vars => KvInv'
<1> SUFFICES ASSUME KvInv, [Next]_vars PROVE KvInv'
  OBVIOUS
<1>1. CASE UNCHANGED vars
  <2>1. UNCHANGED <<commits, branch, tags, swept, wt, op>>
    BY <1>1 DEF vars
  <2>2. TypeOK' /\ Names'
    BY <2>1 DEF KvInv, TypeOK, Names, Ids
  <2>3. Extends /\ Graph' /\ OverwritesOnlyWhatItSaw' /\ PlanesStayHome'
    BY <2>1, SameCommits
  <2>4. ASSUME NEW h \in Handles, IsOpen(h) PROVE Forward(wt[h].session)
    <3>1. Tip(h) # 0
      BY <2>4 DEF KvInv, Stands
    <3> QED BY <2>1, <3>1 DEF Forward, Tip, Past
  <2>5. \A h \in Handles : Stands(h)' /\ Under(h)'
    BY <2>1, <2>2, <2>3, <2>4, Others
  <2> QED BY <2>2, <2>3, <2>5 DEF KvInv
<1>2. ASSUME NEW h \in Handles, NEW s \in Sessions, Open(h, s) \/ MergeBegin(h, s) \/ Fork(h, s)
      PROVE  KvInv'
  BY <1>2, OpenStep, MergeBeginStep, ForkStep
<1>3. ASSUME NEW h \in Handles, NEW k \in Keys, NEW v \in Values \cup {Absent}, Write(h, k, v)
      PROVE  KvInv'
  BY <1>3, WriteStep
<1>4. ASSUME NEW h \in Handles, NEW keys \in SUBSET Keys, CommitKeys(h, keys)
      PROVE  KvInv'
  BY <1>4, CommitKeysStep
<1>5. ASSUME NEW h \in Handles, Close(h) \/ Commit(h) \/ Discard(h) \/ Refresh(h)
      PROVE  KvInv'
  BY <1>5, CloseStep, CommitStep, DiscardStep, RefreshStep
<1>6. ASSUME NEW h \in Handles, NEW c \in Ids, CheckoutBegin(h, c)
      PROVE  KvInv'
  BY <1>6, CheckoutBeginStep
<1>7. ASSUME NEW h \in Handles, NEW base \in Ids, NEW theirs \in Ids, Apply(h, base, theirs)
      PROVE  KvInv'
  BY <1>7, ApplyStep
<1>8. ASSUME NEW h \in Handles, NEW base \in Ids, NEW theirs \in Ids, NEW expect \in Ids \cup {0},
             LandBegin(h, base, theirs, expect)
      PROVE  KvInv'
  BY <1>8, LandBeginStep
<1>9. ASSUME NEW h \in Handles, NEW s \in Sessions, NEW c \in Ids, ForkAt(h, s, c)
      PROVE  KvInv'
  BY <1>9, ForkAtStep DEF ForkAt, Ready
<1>10. ASSUME NEW h \in Handles, NEW x \in Scopes, NEW c \in Ids, TagAt(h, x, c)
       PROVE  KvInv'
  BY <1>10, TagAtStep
<1>11. ASSUME NEW h \in Handles, NEW x \in Scopes, NEW age, DeleteTag(h, x, age)
       PROVE  KvInv'
  BY <1>11, DeleteTagStep
<1>12. ASSUME NEW h \in Handles, Continue(h)
       PROVE  KvInv'
  BY <1>12, CheckoutCommitStep, CheckoutConflictStep, LandJudgeStep, LandCommitStep,
     LandMovedStep, MergeCommitStep, ReturnStep DEF Continue
<1>13. ASSUME NEW s \in Sessions, NEW age, Delete(s, age)
       PROVE  KvInv'
  BY <1>13, DeleteStep
<1> QED BY <1>1, <1>2, <1>3, <1>4, <1>5, <1>6, <1>7, <1>8, <1>9, <1>10, <1>11, <1>12, <1>13 DEF Next

\* The inductive invariant: every handle, however many share a session and
\* whatever each is in the middle of, stands on its branch, and every call in
\* progress is of the state it was judged on.
THEOREM KvInvHolds == Spec => []KvInv
BY KvInvInit, KvInvNext, PTL DEF Spec

-----------------------------------------------------------------------------
(* What it says *)

\* No verb, refused or lost to a race, leaves a worktree between two states:
\* the handle is on its branch's history and its view is its head's tree but
\* for what it staged.
THEOREM HandleOnItsBranchHolds == Spec => []HandleOnItsBranch
<1>1. KvInv => HandleOnItsBranch
  BY DEF KvInv, Stands, HandleOnItsBranch
<1> QED BY <1>1, KvInvHolds, PTL

\* Optimistic commits lose no update: a commit changes a file, cache value or
\* conversation of the tip it lands on only where that tip still held what the
\* writer had seen.
THEOREM OverwritesOnlyWhatItSawHolds == Spec => []OverwritesOnlyWhatItSaw
<1>1. KvInv => OverwritesOnlyWhatItSaw
  BY DEF KvInv
<1> QED BY <1>1, KvInvHolds, PTL

\* Merges, reverts, cherry-picks and lands carry no plane they should not,
\* additions included, through every race and three-way merge.
THEOREM PlanesStayHomeHolds == Spec => []PlanesStayHome
<1>1. KvInv => PlanesStayHome
  BY DEF KvInv
<1> QED BY <1>1, KvInvHolds, PTL

\* Garbage collection never takes what a branch, a tag or an open handle
\* stands on, whatever is deleted beside them.
THEOREM EveryNameResolvesHolds == Spec => []EveryNameResolves
<1>1. KvInv => EveryNameResolves
  BY DEF KvInv, Names, EveryNameResolves
<1> QED BY <1>1, KvInvHolds, PTL

\* A checkout that reports success has landed the target's tree exactly, for
\* any bound on its tries and whatever is committed while it runs.
THEOREM CheckoutConvergesHolds == Spec => []CheckoutConverges
<1>1. KvInv => CheckoutConverges
  BY DEF KvInv, Under, Over, CheckoutConverges
<1> QED BY <1>1, KvInvHolds, PTL

\* A land puts the whole change on the head it was allowed to go on or nothing
\* of it anywhere, for any bound on its tries, guarded or not.
THEOREM LandsAllOrNothingHolds == Spec => []LandsAllOrNothing
<1>1. KvInv => LandsAllOrNothing
  <2> SUFFICES ASSUME KvInv PROVE LandsAllOrNothing
    OBVIOUS
  <2>1. ASSUME NEW h \in Handles, op[h].pc = "done"
        PROVE  Over(h)
    BY <2>1 DEF KvInv, Under
  <2>2. LandsTheWholeChange
    BY <2>1 DEF Over, Whole, LandsTheWholeChange
  <2>3. GuardedLandOnExpectedHead
    BY <2>1 DEF Over, Whole, GuardedLandOnExpectedHead
  <2>4. NothingLeftStaged
    BY <2>1 DEF Over, NothingLeftStaged
  <2> QED BY <2>2, <2>3, <2>4 DEF LandsAllOrNothing
<1> QED BY <1>1, KvInvHolds, PTL

-----------------------------------------------------------------------------
(* The steps the branches can tell apart: every step, whatever races and    *)
(* retries it is part of, leaves the branches and the commits alone, starts *)
(* or ends one branch, or puts one commit on a branch's head.               *)

Starts == \E s \in Sessions, c \in Ids :
    branch[s] = 0 /\ branch' = [branch EXCEPT ![s] = c] /\ UNCHANGED commits

Ends == \E s \in Sessions :
    branch[s] # 0 /\ branch' = [branch EXCEPT ![s] = 0] /\ UNCHANGED commits

\* The commit r on the head of a session, a fork of the session included.
Records == \E s \in Sessions, r \in CommitType :
    /\ branch[s] \in Ids /\ r.first = branch[s] /\ Past(branch[s]) \subseteq r.past
    /\ commits' = Append(commits, r)
    /\ \/ branch' = [branch EXCEPT ![s] = NewId]
       \/ \E n \in Sessions : /\ branch[n] = 0
                              /\ branch' = [branch EXCEPT ![s] = NewId, ![n] = NewId]

StoreStep == UNCHANGED <<commits, branch>> \/ Starts \/ Ends \/ Records

\* What AddCommit and its kin do to the store.
LEMMA RecordsOne ==
  ASSUME KvInv, TypeOK', NEW h \in Handles, IsOpen(h), NEW others, NEW tree, NEW verb, NEW from,
         commits' = Append(commits, CommitRecord(NewId, Tip(h), others, tree, verb, from)),
         \/ branch' = [branch EXCEPT ![wt[h].session] = NewId]
         \/ \E n \in Sessions :
               /\ branch[n] = 0
               /\ branch' = [branch EXCEPT ![wt[h].session] = NewId, ![n] = NewId]
  PROVE  Records
<1> DEFINE r == CommitRecord(NewId, Tip(h), others, tree, verb, from)
<1>1. wt[h].session \in Sessions /\ Tip(h) \in Ids /\ Tip(h) = branch[wt[h].session]
  BY TipHeld DEF Tip
<1>2. r.first = Tip(h) /\ Past(Tip(h)) \subseteq r.past
  BY DEF CommitRecord
<1>3. r \in CommitType
  <2> HIDE DEF r
  <2>1. commits \in Seq(CommitType) /\ commits' \in Seq(CommitType) /\ commits' = Append(commits, r)
    BY DEF KvInv, TypeOK, CommitType, r
  <2>2. Len(commits) \in Nat /\ Len(commits') = Len(commits) + 1
    BY <2>1
  <2>3. Len(commits) + 1 \in 1 .. Len(commits')
    BY <2>2
  <2>4. commits'[Len(commits) + 1] = r
    BY <2>1
  <2> QED BY <2>1, <2>3, <2>4
<1> HIDE DEF r
<1>4. commits' = Append(commits, r)
  BY DEF r
<1> QED BY <1>1, <1>2, <1>3, <1>4 DEF Records

LEMMA StepsOfTheStore ==
  ASSUME KvInv, KvInv', Next
  PROVE  StoreStep
<1>1. ASSUME NEW h \in Handles, NEW s \in Sessions, Open(h, s)
      PROVE  StoreStep
  <2>1. 1 \in Ids /\ UNCHANGED commits
    BY <1>1, TypedNow DEF Open
  <2>2. CASE branch[s] = 0
    BY <1>1, <2>1, <2>2 DEF Open, StoreStep, Starts
  <2>3. CASE branch[s] # 0
    <3>1. branch' = branch
      BY <1>1, <2>3, TypedNow DEF Open
    <3> QED BY <2>1, <3>1 DEF StoreStep
  <2> QED BY <2>2, <2>3
<1>2. ASSUME NEW h \in Handles, NEW s \in Sessions, Fork(h, s)
      PROVE  StoreStep
  <2>1. IsOpen(h) /\ branch[s] = 0
    BY <1>2 DEF Fork, Ready
  <2>2. wt[h].head \in Ids
    BY <2>1, TipHeld
  <2>3. CASE branch' = [branch EXCEPT ![s] = wt[h].head] /\ UNCHANGED commits
    BY <2>1, <2>2, <2>3 DEF StoreStep, Starts
  <2>4. CASE /\ commits' = Append(commits, CommitRecord(NewId, Tip(h), {},
                               CommitTree(wt[h], Tip(h), wt[h].staged), "commit", wt[h].head))
             /\ branch' = [branch EXCEPT ![wt[h].session] = NewId, ![s] = NewId]
    BY <2>1, <2>4, RecordsOne DEF KvInv, StoreStep
  <2> QED BY <1>2, <2>3, <2>4 DEF Fork
<1>3. ASSUME NEW h \in Handles, NEW s \in Sessions, NEW c \in Ids, ForkAt(h, s, c)
      PROVE  StoreStep
  BY <1>3 DEF ForkAt, StoreStep, Starts
<1>4. ASSUME NEW s \in Sessions, NEW age, Delete(s, age)
      PROVE  StoreStep
  BY <1>4 DEF Delete, StoreStep, Ends
<1>5. ASSUME NEW h \in Handles, IsOpen(h), NEW w, w.session = wt[h].session, NEW keys, NEW verb,
             AddCommit(w, keys, verb)
      PROVE  StoreStep
  <2>1. /\ commits' = Append(commits, CommitRecord(NewId, Tip(h), {},
                               CommitTree(w, Tip(h), keys), verb, w.head))
        /\ branch' = [branch EXCEPT ![wt[h].session] = NewId]
    BY <1>5 DEF AddCommit, Tip
  <2> QED BY <1>5, <2>1, RecordsOne DEF KvInv, StoreStep
<1>6. ASSUME NEW h \in Handles, Commit(h)
      PROVE  StoreStep
  BY <1>5, <1>6 DEF Commit, Ready
<1>7. ASSUME NEW h \in Handles, NEW keys \in SUBSET Keys, CommitKeys(h, keys)
      PROVE  StoreStep
  BY <1>5, <1>7 DEF CommitKeys, Ready
<1>8. ASSUME NEW h \in Handles, CheckoutCommit(h) \/ LandCommit(h)
      PROVE  StoreStep
  <2>1. IsOpen(h)
    BY <1>8, CallIsOpen DEF CheckoutCommit, LandCommit
  <2>2. \E verb : AddCommit(wt[h], wt[h].staged, verb)
    BY <1>8 DEF CheckoutCommit, LandCommit
  <2> QED BY <1>5, <2>1, <2>2
<1>9. ASSUME NEW h \in Handles, NEW base \in Ids, NEW theirs \in Ids, Apply(h, base, theirs)
      PROVE  StoreStep
  <2>1. PICK w : w = Staging(wt[h], ApplyPlan(wt[h], base, theirs))
    OBVIOUS
  <2>2. IsOpen(h) /\ AddCommit(w, w.staged, "apply")
    BY <1>9, <2>1 DEF Apply, Ready
  <2>3. w.session = wt[h].session
    BY <2>1, TypedNow DEF Staging, WorktreeType
  <2> QED BY <1>5, <2>2, <2>3
<1>10. ASSUME NEW h \in Handles, MergeCommit(h)
       PROVE  StoreStep
  <2>1. IsOpen(h)
    BY <1>10, CallIsOpen DEF MergeCommit
  <2>2. \/ UNCHANGED <<commits, branch>>
        \/ \E others, tree, from :
              /\ commits' = Append(commits, CommitRecord(NewId, Tip(h), others, tree, "merge", from))
              /\ branch' = [branch EXCEPT ![wt[h].session] = NewId]
    BY <1>10 DEF MergeCommit
  <2> QED BY <2>1, <2>2, RecordsOne DEF KvInv, StoreStep
<1>11. ASSUME UNCHANGED <<commits, branch>>
       PROVE  StoreStep
  BY <1>11 DEF StoreStep
<1>12. ASSUME NEW h \in Handles, Continue(h)
       PROVE  StoreStep
  BY <1>8, <1>10, <1>11, <1>12 DEF Continue, CheckoutConflict, LandJudge, LandMoved, Return
<1>13. ASSUME NEW h \in Handles, Close(h) \/ Discard(h) \/ Refresh(h)
       PROVE  StoreStep
  BY <1>11, <1>13 DEF Close, Discard, Refresh
<1>14. ASSUME NEW h \in Handles, NEW s \in Sessions, MergeBegin(h, s)
       PROVE  StoreStep
  BY <1>11, <1>14 DEF MergeBegin
<1>15. ASSUME NEW h \in Handles, NEW k, NEW v, Write(h, k, v)
       PROVE  StoreStep
  BY <1>11, <1>15 DEF Write
<1>16. ASSUME NEW h \in Handles, NEW c, CheckoutBegin(h, c)
       PROVE  StoreStep
  BY <1>11, <1>16 DEF CheckoutBegin
<1>17. ASSUME NEW h \in Handles, NEW base, NEW theirs, NEW expect, LandBegin(h, base, theirs, expect)
       PROVE  StoreStep
  BY <1>11, <1>17 DEF LandBegin
<1>18. ASSUME NEW h \in Handles, NEW x, NEW c, TagAt(h, x, c) \/ DeleteTag(h, x, c)
       PROVE  StoreStep
  BY <1>11, <1>18 DEF TagAt, DeleteTag
<1> QED BY <1>1, <1>2, <1>3, <1>4, <1>6, <1>7, <1>9, <1>12, <1>13, <1>14, <1>15, <1>16, <1>17,
           <1>18 DEF Next

\* "Nothing here moves a branch head backward": the head a verb leaves has the
\* head it found in its history, for every verb and every race.
THEOREM HeadsMoveForwardHolds == Spec => HeadsMoveForward
<1> DEFINE P == \A s \in Sessions :
                   branch[s] # 0 /\ branch'[s] # 0 => branch[s] \in commits'[branch'[s]].past
<1>1. ASSUME KvInv, KvInv', [Next]_vars
      PROVE  P
  <2> SUFFICES ASSUME NEW s \in Sessions, branch[s] # 0, branch'[s] # 0
               PROVE  branch[s] \in commits'[branch'[s]].past
    OBVIOUS
  <2>1. branch[s] \in Ids /\ branch[s] \in commits[branch[s]].past
    BY <1>1, TypedNow DEF KvInv, Graph, Past
  <2>2. CASE branch'[s] = branch[s] /\ commits' = commits
    BY <2>1, <2>2
  <2>3. CASE Starts \/ Ends \/ UNCHANGED <<commits, branch>> \/ UNCHANGED vars
    <3>1. branch'[s] = branch[s] /\ commits' = commits
      BY <1>1, <2>3, TypedNow DEF Starts, Ends, vars
    <3> QED BY <2>2, <3>1
  <2>4. CASE Records
    <3>1. PICK x \in Sessions, r \in CommitType :
            /\ branch[x] \in Ids /\ r.first = branch[x] /\ Past(branch[x]) \subseteq r.past
            /\ commits' = Append(commits, r)
            /\ \/ branch' = [branch EXCEPT ![x] = NewId]
               \/ \E n \in Sessions : /\ branch[n] = 0
                                      /\ branch' = [branch EXCEPT ![x] = NewId, ![n] = NewId]
      BY <2>4 DEF Records
    <3>2. Grown(r)
      BY <1>1, <3>1, Grows DEF KvInv
    <3>3. CASE branch'[s] = branch[s]
      BY <2>1, <3>2, <3>3 DEF Grown
    <3>4. CASE branch'[s] # branch[s]
      <4>1. s = x /\ branch'[s] = NewId
        BY <1>1, <3>1, <3>4, TypedNow
      <4> QED BY <2>1, <3>1, <3>2, <4>1 DEF Grown, Past
    <3> QED BY <3>3, <3>4
  <2> QED BY <1>1, <2>3, <2>4, StepsOfTheStore DEF StoreStep
<1> HIDE DEF P
<1>2. KvInv /\ KvInv' /\ [Next]_vars => [P]_vars
  BY <1>1
<1>3. HeadsMoveForward <=> [][P]_vars
  BY DEF HeadsMoveForward, P
<1> QED BY <1>2, <1>3, KvInvHolds, PTL DEF Spec

-----------------------------------------------------------------------------
(* The first-parent line of a commit *)

\* Every set of naturals that has an element has a least one.
LEMMA LeastNumber ==
  ASSUME NEW T, T \subseteq Nat, T # {}
  PROVE  \E m \in T : \A n \in T : m <= n
<1> DEFINE R == {ss \in Nat \X Nat : ss[1] < ss[2]}
<1>1. IsWellFoundedOn(R, Nat)
  BY NatLessThanWellFounded DEF OpToRel
<1>2. PICK m \in T : \A n \in T : ~(<<n, m>> \in R)
  <2> HIDE DEF R
  <2> QED BY <1>1, WFMin
<1>3. \A n \in T : m <= n
  <2> SUFFICES ASSUME NEW n \in T, n < m PROVE FALSE
    OBVIOUS
  <2>1. <<n, m>> \in Nat \X Nat /\ <<n, m>>[1] < <<n, m>>[2]
    OBVIOUS
  <2> QED BY <1>2, <2>1
<1> QED BY <1>3

\* A set of ids that holds every id whose smaller ids it holds has them all.
LEMMA AllIds ==
  ASSUME TypeOK, NEW S,
         \A c \in Ids : (\A d \in 1 .. (c - 1) : d \in S) => c \in S
  PROVE  Ids \subseteq S
<1> SUFFICES ASSUME ~(Ids \subseteq S) PROVE FALSE
  OBVIOUS
<1> DEFINE T == Ids \ S
<1>1. T \subseteq Nat /\ T # {}
  BY DEF Ids
<1> HIDE DEF T
<1>2. PICK m \in T : \A n \in T : m <= n
  BY <1>1, LeastNumber
<1>3. m \in Ids /\ m \notin S /\ m \in Nat /\ Len(commits) \in Nat
  BY <1>1 DEF T, TypeOK
<1>4. \A d \in 1 .. (m - 1) : d \in Ids /\ d < m
  BY <1>3 DEF Ids
<1>5. \A d \in 1 .. (m - 1) : d \in S
  <2> TAKE d \in 1 .. (m - 1)
  <2>1. d \in Ids /\ d < m /\ d \in Nat
    BY <1>3, <1>4
  <2>2. ~(m <= d)
    BY <1>3, <2>1
  <2> QED BY <1>2, <2>1, <2>2 DEF T
<1> QED BY <1>3, <1>5

\* The equation of the line function, for a function f up to commit m.
NextOnLine(f, c) == IF commits[c].first = 0 THEN <<TreeOf(c)>>
                    ELSE Append(f[commits[c].first], TreeOf(c))

IsLine(f, m) == f = [c \in 1 .. m |-> NextOnLine(f, c)]

\* First parents are older, so the line up to a commit determines the next.
LEMMA LineExists ==
  ASSUME TypeOK, Graph
  PROVE  \E f : IsLine(f, Len(commits))
<1>1. Len(commits) \in Nat
  BY DEF TypeOK
<1>2. ASSUME NEW c \in Ids
      PROVE  commits[c].first = 0 \/ commits[c].first \in 1 .. (c - 1)
  BY DEF Graph
<1>3. \E f : IsLine(f, 0)
  <2>1. IsLine([c \in 1 .. 0 |-> NextOnLine(<<>>, c)], 0)
    BY DEF IsLine
  <2> QED BY <2>1
<1>4. ASSUME NEW m \in Ids, \E f : IsLine(f, m - 1)
      PROVE  \E f : IsLine(f, m)
  <2>1. PICK f : IsLine(f, m - 1)
    BY <1>4
  <2> DEFINE g == [c \in 1 .. m |-> IF c = m THEN NextOnLine(f, m) ELSE f[c]]
  <2>2. m \in Nat /\ 1 .. (m - 1) = 1 .. m \ {m} /\ 1 .. m \subseteq Ids /\ m \in 1 .. m
    BY <1>1 DEF Ids
  <2>3. ASSUME NEW c \in 1 .. m PROVE NextOnLine(g, c) = NextOnLine(f, c)
    <3>1. commits[c].first = 0 \/ commits[c].first \in 1 .. (c - 1)
      BY <1>2, <2>2
    <3>2. 1 .. (c - 1) \subseteq 1 .. m \ {m}
      BY <2>2
    <3>3. commits[c].first # 0 => g[commits[c].first] = f[commits[c].first]
      BY <3>1, <3>2
    <3> QED BY <3>3 DEF NextOnLine
  <2>4. \A c \in 1 .. m : g[c] = NextOnLine(f, c)
    BY <2>1, <2>2 DEF IsLine
  <2>5. g = [c \in 1 .. m |-> NextOnLine(g, c)]
    BY <2>3, <2>4
  <2> HIDE DEF g
  <2> QED BY <2>5 DEF IsLine
<1> DEFINE S == {c \in Ids : \E f : IsLine(f, c)}
<1>5. \A c \in Ids : (\A d \in 1 .. (c - 1) : d \in S) => c \in S
  <2> SUFFICES ASSUME NEW c \in Ids, \A d \in 1 .. (c - 1) : d \in S PROVE c \in S
    OBVIOUS
  <2>1. c - 1 = 0 \/ c - 1 \in 1 .. (c - 1)
    BY <1>1 DEF Ids
  <2>2. \E f : IsLine(f, c - 1)
    BY <1>3, <2>1
  <2> QED BY <1>4, <2>2
<1> HIDE DEF S
<1>6. Ids \subseteq S
  BY <1>5, AllIds
<1>7. Len(commits) \in Ids
  BY <1>1 DEF TypeOK, Ids
<1> QED BY <1>6, <1>7 DEF S

\* What _history_iter reads, oldest first.
LEMMA LinesRead ==
  ASSUME TypeOK, Graph
  PROVE  \A c \in Ids : Lines[c] = NextOnLine(Lines, c)
<1>1. PICK f : IsLine(f, Len(commits))
  BY LineExists
<1>2. f = [c \in Ids |-> IF commits[c].first = 0 THEN <<TreeOf(c)>>
                         ELSE Append(f[commits[c].first], TreeOf(c))]
  BY <1>1 DEF IsLine, NextOnLine, Ids
<1>3. Lines = [c \in Ids |-> IF commits[c].first = 0 THEN <<TreeOf(c)>>
                             ELSE Append(Lines[commits[c].first], TreeOf(c))]
  BY <1>2 DEF Lines
<1> QED BY <1>3 DEF NextOnLine

LinesAreRead == \A c \in Ids : Lines[c] = NextOnLine(Lines, c)

LEMMA LinesReadNext == TypeOK' /\ Graph' => LinesAreRead'
<1>1. TypeOK /\ Graph => LinesAreRead
  BY LinesRead DEF LinesAreRead
<1> QED BY <1>1, PTL

\* A line one entry longer.
LEMMA OneLonger ==
  ASSUME NEW X, NEW l \in Seq(X), NEW x \in X
  PROVE  /\ Append(l, x) \in Seq(X) /\ Append(l, x) # <<>> /\ Append(l, x) # l
         /\ <<x>> \in Seq(X) /\ <<x>> # <<>>
<1>1. Append(l, x) \in Seq(X) /\ Len(Append(l, x)) = Len(l) + 1 /\ Len(l) \in Nat
  OBVIOUS
<1>2. <<x>> \in Seq(X) /\ Len(<<x>>) = 1 /\ Len(<<>>) = 0
  OBVIOUS
<1>3. Append(l, x) # l
  BY <1>1
<1>4. Append(l, x) # <<>>
  BY <1>1, <1>2
<1>5. <<x>> # <<>>
  BY <1>2
<1> QED BY <1>1, <1>2, <1>3, <1>4, <1>5

\* A line is never empty.
LEMMA LinesTyped ==
  ASSUME TypeOK, Graph
  PROVE  \A c \in Ids : Lines[c] \in Seq(Tree) /\ Lines[c] # <<>>
<1> DEFINE S == {c \in Ids : Lines[c] \in Seq(Tree) /\ Lines[c] # <<>>}
<1>1. \A c \in Ids : (\A d \in 1 .. (c - 1) : d \in S) => c \in S
  <2> SUFFICES ASSUME NEW c \in Ids, \A d \in 1 .. (c - 1) : d \in S PROVE c \in S
    OBVIOUS
  <2>1. TreeOf(c) \in Tree
    BY Held1
  <2>2. Lines[c] = NextOnLine(Lines, c)
    BY LinesRead
  <2>3. CASE commits[c].first = 0
    <3>1. Lines[c] = <<TreeOf(c)>>
      BY <2>2, <2>3 DEF NextOnLine
    <3>2. <<TreeOf(c)>> \in Seq(Tree) /\ <<TreeOf(c)>> # <<>>
      <4>1. <<>> \in Seq(Tree)
        OBVIOUS
      <4> QED BY <2>1, <4>1, OneLonger
    <3>3. Lines[c] \in Seq(Tree) /\ Lines[c] # <<>>
      BY <3>1, <3>2
    <3> QED BY <3>3
  <2>4. CASE commits[c].first # 0
    <3>1. commits[c].first \in 1 .. (c - 1)
      BY <2>4 DEF Graph
    <3>2. Lines[commits[c].first] \in Seq(Tree)
      BY <3>1
    <3>3. Lines[c] = Append(Lines[commits[c].first], TreeOf(c))
      BY <2>2, <2>4 DEF NextOnLine
    <3>4. Lines[c] \in Seq(Tree) /\ Lines[c] # <<>>
      BY <2>1, <3>2, <3>3, OneLonger
    <3> QED BY <3>4
  <2> QED BY <2>3, <2>4
<1> HIDE DEF S
<1>2. Ids \subseteq S
  BY <1>1, AllIds
<1> QED BY <1>2 DEF S

\* However the store grows, the line of a commit it had does not change.
LEMMA LinesStay ==
  ASSUME TypeOK, Graph, TypeOK', Graph',
         \A c \in Ids : c \in Ids' /\ commits'[c] = commits[c]
  PROVE  \A c \in Ids : Lines'[c] = Lines[c]
<1> DEFINE S == {c \in Ids : Lines'[c] = Lines[c]}
<1>1. \A c \in Ids : (\A d \in 1 .. (c - 1) : d \in S) => c \in S
  <2> SUFFICES ASSUME NEW c \in Ids, \A d \in 1 .. (c - 1) : d \in S PROVE c \in S
    OBVIOUS
  <2>1. Lines[c] = IF commits[c].first = 0 THEN <<TreeOf(c)>>
                   ELSE Append(Lines[commits[c].first], TreeOf(c))
    BY LinesRead DEF NextOnLine
  <2>2. Lines'[c] = IF commits'[c].first = 0 THEN <<commits'[c].tree>>
                    ELSE Append(Lines'[commits'[c].first], commits'[c].tree)
    BY LinesReadNext DEF LinesAreRead, NextOnLine, TreeOf
  <2>3. commits'[c] = commits[c] /\ TreeOf(c) = commits[c].tree
    BY DEF TreeOf
  <2>4. commits[c].first # 0 => commits[c].first \in 1 .. (c - 1)
    BY DEF Graph
  <2>5. commits[c].first # 0 => Lines'[commits[c].first] = Lines[commits[c].first]
    BY <2>4
  <2>6. Lines'[c] = Lines[c]
    BY <2>1, <2>2, <2>3, <2>5
  <2> QED BY <2>6
<1> HIDE DEF S
<1>2. Ids \subseteq S
  BY <1>1, AllIds
<1> QED BY <1>2 DEF S

-----------------------------------------------------------------------------
(* The store implements the log *)

LogOf == [s \in Sessions |-> IF branch[s] = 0 THEN <<>> ELSE Lines[branch[s]]]

SavedOf == {Lines[c] : c \in Ids}

LEMMA InitMaps == ASSUME Init PROVE Log!Init
<1>1. TypeOK /\ Graph /\ Ids = {1} /\ commits[1].first = 0 /\ TreeOf(1) = EmptyTree
  BY KvInvInit DEF Init, KvInv, Ids, TreeOf
<1>2. Lines[1] = <<EmptyTree>>
  BY <1>1, LinesRead DEF NextOnLine
<1>3. LogOf = [s \in Sessions |-> <<>>]
  BY DEF LogOf, Init
<1>4. SavedOf = {<<EmptyTree>>}
  BY <1>1, <1>2 DEF SavedOf
<1> QED BY <1>3, <1>4 DEF Log!Init, LogOf, SavedOf

\* A step that leaves the commits alone: the log of each session is the line
\* of its head, as before.
LEMMA SameLines ==
  ASSUME UNCHANGED commits
  PROVE  Lines' = Lines /\ Ids' = Ids /\ SavedOf' = SavedOf
<1>1. Lines' = Lines /\ Ids' = Ids
  BY DEF Lines, Ids, TreeOf
<1> QED BY <1>1 DEF SavedOf

LEMMA StartsMap ==
  ASSUME KvInv, Starts
  PROVE  LogOf' # LogOf /\ \E s \in Sessions : \E l \in SavedOf : Log!Branch(s, l)
<1>1. PICK s \in Sessions, c \in Ids :
        branch[s] = 0 /\ branch' = [branch EXCEPT ![s] = c] /\ UNCHANGED commits
  BY DEF Starts
<1>2. PICK l : l = Lines[c]
  OBVIOUS
<1>3. l \in SavedOf /\ l # <<>> /\ c # 0
  BY <1>1, <1>2, LinesTyped DEF KvInv, SavedOf, Ids
<1>4. Lines' = Lines /\ SavedOf' = SavedOf
  BY <1>1, SameLines
<1>5. branch \in [Sessions -> 0..Len(commits)]
  BY DEF KvInv, TypeOK
<1>6. LogOf[s] = <<>>
  BY <1>1 DEF LogOf
<1>7. LogOf' = [LogOf EXCEPT ![s] = l]
  BY <1>1, <1>2, <1>3, <1>4, <1>5 DEF LogOf
<1>8. LogOf'[s] = l
  BY <1>7 DEF LogOf
<1>9. Log!Branch(s, l)
  BY <1>3, <1>4, <1>6, <1>7 DEF Log!Branch, LogOf, SavedOf
<1> QED BY <1>3, <1>6, <1>8, <1>9

LEMMA EndsMap ==
  ASSUME KvInv, Ends
  PROVE  LogOf' # LogOf /\ \E s \in Sessions : Log!Delete(s)
<1>1. PICK s \in Sessions :
        branch[s] # 0 /\ branch' = [branch EXCEPT ![s] = 0] /\ UNCHANGED commits
  BY DEF Ends
<1>2. Lines' = Lines /\ SavedOf' = SavedOf
  BY <1>1, SameLines
<1>3. branch \in [Sessions -> 0..Len(commits)]
  BY DEF KvInv, TypeOK
<1>4. LogOf[s] # <<>>
  BY <1>1, <1>3, LinesTyped DEF KvInv, LogOf, Ids
<1>5. LogOf' = [LogOf EXCEPT ![s] = <<>>]
  BY <1>1, <1>2, <1>3 DEF LogOf
<1>6. LogOf'[s] = <<>>
  BY <1>5 DEF LogOf
<1>7. Log!Delete(s)
  BY <1>2, <1>5 DEF Log!Delete, LogOf, SavedOf
<1> QED BY <1>4, <1>6, <1>7

LEMMA RecordsMap ==
  ASSUME KvInv, KvInv', Records
  PROVE  /\ LogOf' # LogOf
         /\ \E s \in Sessions : Log!Record(s) \/ \E n \in Sessions : Log!RecordAndBranch(s, n)
<1>1. PICK x \in Sessions, r \in CommitType :
        /\ branch[x] \in Ids /\ r.first = branch[x] /\ Past(branch[x]) \subseteq r.past
        /\ commits' = Append(commits, r)
        /\ \/ branch' = [branch EXCEPT ![x] = NewId]
           \/ \E n \in Sessions : /\ branch[n] = 0
                                  /\ branch' = [branch EXCEPT ![x] = NewId, ![n] = NewId]
  BY DEF Records
<1>2. Grown(r)
  BY <1>1, Grows DEF KvInv
<1>3. PICK new : new = NewId
  OBVIOUS
<1>4. PICK l : l = Append(Lines[branch[x]], r.tree)
  OBVIOUS
<1>5. /\ Ids' = Ids \cup {new} /\ new \notin Ids /\ new # 0
      /\ \A c \in Ids : Lines'[c] = Lines[c]
      /\ Lines'[new] = l
  <2>1. Ids' = Ids \cup {new} /\ new \notin Ids /\ new # 0 /\ commits'[new] = r
    BY <1>2, <1>3 DEF Grown
  <2>2. \A c \in Ids : Lines'[c] = Lines[c]
    BY <1>2, LinesStay DEF Grown, KvInv
  <2>3. Lines'[new] = IF commits'[new].first = 0 THEN <<commits'[new].tree>>
                      ELSE Append(Lines'[commits'[new].first], commits'[new].tree)
    BY <2>1, LinesReadNext DEF KvInv, LinesAreRead, NextOnLine, TreeOf
  <2>4. r.first # 0
    BY <1>1 DEF Ids
  <2> QED BY <1>1, <1>4, <2>1, <2>2, <2>3, <2>4
<1>6. l # <<>> /\ l # Lines[branch[x]] /\ Lines[branch[x]] # <<>> /\ l \in Log!Longer(Lines[branch[x]])
  <2>1. Lines[branch[x]] \in Seq(Tree) /\ Lines[branch[x]] # <<>>
    BY <1>1, LinesTyped DEF KvInv
  <2>2. r.tree \in Tree
    BY DEF CommitType
  <2>3. l # <<>> /\ l # Lines[branch[x]]
    BY <1>4, <2>1, <2>2, OneLonger
  <2>4. l \in Log!Longer(Lines[branch[x]])
    BY <1>4, <2>2 DEF Log!Longer
  <2> QED BY <2>1, <2>3, <2>4
<1>7. SavedOf' = SavedOf \cup {l}
  BY <1>5 DEF SavedOf
<1>8. /\ branch \in [Sessions -> 0..Len(commits)]
      /\ \A s \in Sessions : branch[s] = 0 \/ branch[s] \in Ids
      /\ branch[x] # 0
  BY <1>1, TypedNow
<1>9. LogOf[x] = Lines[branch[x]]
  BY <1>8 DEF LogOf
<1>10. CASE branch' = [branch EXCEPT ![x] = NewId]
  <2>1. branch' = [branch EXCEPT ![x] = new]
    BY <1>3, <1>10
  <2>2. LogOf' = [LogOf EXCEPT ![x] = l]
    BY <1>5, <1>8, <2>1 DEF LogOf
  <2>3. LogOf'[x] = l
    BY <2>2 DEF LogOf
  <2>4. Log!Record(x)
    BY <1>6, <1>7, <1>9, <2>2, <2>3 DEF Log!Record, LogOf, SavedOf
  <2> QED BY <1>6, <1>9, <2>3, <2>4
<1>11. ASSUME NEW n \in Sessions, branch[n] = 0,
              branch' = [branch EXCEPT ![x] = NewId, ![n] = NewId]
       PROVE  LogOf' # LogOf /\ Log!RecordAndBranch(x, n)
  <2>1. branch' = [branch EXCEPT ![x] = new, ![n] = new]
    BY <1>3, <1>11
  <2>2. LogOf' = [LogOf EXCEPT ![x] = l, ![n] = l]
    BY <1>5, <1>8, <2>1 DEF LogOf
  <2>3. LogOf'[x] = l /\ LogOf[n] = <<>>
    BY <1>11, <2>2 DEF LogOf
  <2>4. Log!RecordAndBranch(x, n)
    BY <1>6, <1>7, <1>9, <2>2, <2>3 DEF Log!RecordAndBranch, LogOf, SavedOf
  <2> QED BY <1>6, <1>9, <2>3, <2>4
<1> QED BY <1>1, <1>10, <1>11

LEMMA StepMaps ==
  ASSUME KvInv, KvInv', [Next]_vars
  PROVE  [Log!Next]_(Log!vars)
<1>1. ASSUME UNCHANGED <<commits, branch>>
      PROVE  UNCHANGED Log!vars
  <2>1. Lines' = Lines /\ SavedOf' = SavedOf
    BY <1>1, SameLines
  <2>2. LogOf' = LogOf
    BY <1>1, <2>1 DEF LogOf
  <2> QED BY <2>1, <2>2 DEF Log!vars, LogOf, SavedOf
<1>2. CASE UNCHANGED vars
  BY <1>1, <1>2 DEF vars
<1>3. CASE Starts
  BY <1>3, StartsMap DEF Log!Next, LogOf, SavedOf
<1>4. CASE Ends
  BY <1>4, EndsMap DEF Log!Next, LogOf, SavedOf
<1>5. CASE Records
  BY <1>5, RecordsMap DEF Log!Next, LogOf, SavedOf
<1> QED BY <1>1, <1>2, <1>3, <1>4, <1>5, StepsOfTheStore DEF StoreStep

\* Every verb of the provider, with its races, retries and refusals, is at
\* most one step of the session log: a log is started empty or off a log some
\* session has had, grows by one tree at its end, or goes; a checkout is one
\* more entry and never a shorter log.
THEOREM ImplementsSessionLogHolds == Spec => ImplementsSessionLog
<1>1. Init => Log!Init
  BY InitMaps
<1>2. KvInv /\ KvInv' /\ [Next]_vars => [Log!Next]_(Log!vars)
  BY StepMaps
<1> QED BY <1>1, <1>2, KvInvHolds, PTL DEF Spec, ImplementsSessionLog, Log!Spec
=============================================================================
