---------------------------- MODULE AgentGitProofs ----------------------------
(***************************************************************************)
(* What the agent's git keeps for any handles, paths, sources and bounds:  *)
(* every commit a blob or a record names is one of the session's, and a    *)
(* verb whose record is still to be written has its work in the tree.      *)
(***************************************************************************)
EXTENDS AgentGit, TLAPS

-----------------------------------------------------------------------------
(* The inductive invariant *)

Origins == Sources \cup StashIds \cup {NoSource}

\* Blobs, commits, worktrees and verbs that name commits up to n.
BlobAt(n) == [head : 0 .. n, base : 0 .. 1, staged : SUBSET Paths, source : Origins,
              unresolved : SUBSET Paths, pre : 0 .. n]

CommitAt(n) == [kind : Kinds, tree : Tree, blob : BlobAt(n), parent : 0 .. n,
                files : SUBSET Paths, source : Origins]

WorkAt(n) == [head : 0 .. n, tree : Tree, blob : BlobAt(n)]

OpAt(n) == [pc : {"closed", "idle", "settle", "land", "record", "again"},
            verb : {"none", "commit", "checkout", "merge", "apply"},
            base : Tree, theirs : Tree, source : Origins, keys : SUBSET Paths, want : Tree,
            state : BlobAt(n), had : Tree, before : BlobAt(n), stash : 0 .. MaxStashes]

Stashes == [id : StashIds, base : Tree, tree : Tree]

Typed ==
    /\ commits \in Seq(CommitAt(Tip)) /\ Tip \in 1 .. MaxCommits
    /\ work \in [Handles -> WorkAt(Tip)]
    /\ op \in [Handles -> OpAt(Tip)]
    /\ stashes \in SUBSET Stashes

\* An open handle is at a commit, and a commit or a checkout that is still to
\* be recorded has in the tree what it is to leave there.
HandleOK(h) ==
    /\ op[h].pc # "closed" => work[h].head \in Ids
    /\ op[h].verb \in {"commit", "checkout"} =>
          /\ op[h].pc \in {"record", "again"}
          /\ \A p \in op[h].keys : work[h].tree[p] = op[h].want[p]

GitInv == Typed /\ \A h \in Handles : HandleOK(h)

-----------------------------------------------------------------------------
(* Types *)

LEMMA Bounds ==
    /\ MaxCommits \in Nat \ {0} /\ MaxStashes \in Nat
    /\ Forked \in BOOLEAN
    /\ Absent \in Content /\ Marked \in Content
    /\ Empty \in Tree /\ NoSource \in Origins
BY AgentGitAssumption DEF AgentGitAssumption, Content, Empty, Tree, Origins

\* What named commits of a shorter history names commits of a longer one.
LEMMA Grows ==
    ASSUME NEW n \in Nat, NEW m \in Nat, n <= m
    PROVE  /\ BlobAt(n) \subseteq BlobAt(m) /\ CommitAt(n) \subseteq CommitAt(m)
           /\ WorkAt(n) \subseteq WorkAt(m) /\ OpAt(n) \subseteq OpAt(m)
<1>1. 0 .. n \subseteq 0 .. m
  OBVIOUS
<1>2. BlobAt(n) \subseteq BlobAt(m)
  BY <1>1 DEF BlobAt
<1>3. CommitAt(n) \subseteq CommitAt(m)
  BY <1>1, <1>2 DEF CommitAt
<1>4. WorkAt(n) \subseteq WorkAt(m)
  BY <1>1, <1>2 DEF WorkAt
<1>5. OpAt(n) \subseteq OpAt(m)
  BY <1>2 DEF OpAt
<1> QED BY <1>2, <1>3, <1>4, <1>5

LEMMA FreshIsBlob == FreshBlob \in BlobAt(1)
BY Bounds DEF FreshBlob, BlobAt

\* What a commit, a worktree and a verb hold, by their types.
LEMMA CommitFields ==
    ASSUME NEW n \in Nat, NEW c \in CommitAt(n)
    PROVE  /\ c.tree \in Tree /\ c.blob \in BlobAt(n) /\ c.parent \in 0 .. n
           /\ c.kind \in Kinds
BY DEF CommitAt

LEMMA WorkFields ==
    ASSUME NEW n \in Nat, NEW w \in WorkAt(n)
    PROVE  w.head \in 0 .. n /\ w.tree \in Tree /\ w.blob \in BlobAt(n)
BY DEF WorkAt

LEMMA BlobFields ==
    ASSUME NEW n \in Nat, NEW b \in BlobAt(n)
    PROVE  /\ b.head \in 0 .. n /\ b.base \in 0 .. 1 /\ b.staged \in SUBSET Paths
           /\ b.source \in Origins /\ b.unresolved \in SUBSET Paths /\ b.pre \in 0 .. n
BY DEF BlobAt

LEMMA OpFields ==
    ASSUME NEW n \in Nat, NEW o \in OpAt(n)
    PROVE  /\ o.base \in Tree /\ o.theirs \in Tree /\ o.source \in Origins
           /\ o.keys \in SUBSET Paths /\ o.want \in Tree /\ o.state \in BlobAt(n)
           /\ o.had \in Tree /\ o.before \in BlobAt(n) /\ o.stash \in 0 .. MaxStashes
           /\ o.pc \in {"closed", "idle", "settle", "land", "record", "again"}
           /\ o.verb \in {"none", "commit", "checkout", "merge", "apply"}
BY DEF OpAt

LEMMA CommitIsCommit ==
    ASSUME NEW n \in Nat, NEW kind \in Kinds, NEW tree \in Tree, NEW blob \in BlobAt(n),
           NEW parent \in 0 .. n, NEW files \in SUBSET Paths, NEW source \in Origins
    PROVE  CommitRecord(kind, tree, blob, parent, files, source) \in CommitAt(n)
BY DEF CommitRecord, CommitAt

LEMMA WorkIsWork ==
    ASSUME NEW n \in Nat, NEW head \in 0 .. n, NEW tree \in Tree, NEW blob \in BlobAt(n)
    PROVE  [head |-> head, tree |-> tree, blob |-> blob] \in WorkAt(n)
BY DEF WorkAt

LEMMA IdleIsOp ==
    ASSUME NEW n \in Nat \ {0}
    PROVE  Idle \in OpAt(n) /\ [Idle EXCEPT !.pc = "closed"] \in OpAt(n)
<1>1. FreshBlob \in BlobAt(n)
  BY FreshIsBlob, Grows
<1>2. {} \in SUBSET Paths /\ 0 \in 0 .. MaxStashes
  BY Bounds
<1> QED BY <1>1, <1>2, Bounds DEF Idle, OpAt

-----------------------------------------------------------------------------
(* Trees *)

LEMMA OursIsOneOfThem ==
    ASSUME NEW b, NEW o, NEW t
    PROVE  Ours(b, o, t) \in {o, t} /\ Ours(b, o, b) = o
BY DEF Ours

LEMMA MergedIsTree ==
    ASSUME NEW b \in Tree, NEW o \in Tree, NEW t \in Tree
    PROVE  Merged(b, o, t) \in Tree
<1>1. \A p \in Paths : o[p] \in Content /\ t[p] \in Content
  BY DEF Tree
<1>2. \A p \in Paths : Ours(b[p], o[p], t[p]) \in Content
  BY <1>1 DEF Ours
<1> QED BY <1>2, Bounds DEF Merged, Tree

LEMMA OverlaidIsTree ==
    ASSUME NEW t \in Tree, NEW over \in Tree, NEW keys \in SUBSET Paths
    PROVE  /\ Overlaid(t, over, keys) \in Tree
           /\ \A p \in keys : Overlaid(t, over, keys)[p] = over[p]
BY DEF Overlaid, Tree

\* A worktree open in this session, whose commits are typed.
Live(w) == Typed /\ w \in WorkAt(Tip) /\ w.head # 0

LEMMA Trees ==
    ASSUME Typed
    PROVE  /\ Tip \in Nat \ {0} /\ Tip <= MaxCommits /\ Ids = 1 .. Tip
           /\ \A c \in Ids : commits[c] \in CommitAt(Tip)
           /\ \A c \in Ids : commits[c].tree \in Tree /\ commits[c].blob \in BlobAt(Tip)
<1>1. Tip \in Nat \ {0} /\ Tip <= MaxCommits /\ Ids = 1 .. Tip
  BY Bounds DEF Typed, Ids, Tip
<1>2. \A c \in Ids : commits[c] \in CommitAt(Tip)
  BY <1>1 DEF Typed, Tip
<1> QED BY <1>1, <1>2, CommitFields

LEMMA HeadTreeIsTree ==
    ASSUME NEW w, Live(w)
    PROVE  w.head \in Ids /\ HeadTree(w) \in Tree /\ w.tree \in Tree /\ w.blob \in BlobAt(Tip)
<1>1. w.head \in 0 .. Tip /\ w.tree \in Tree /\ w.blob \in BlobAt(Tip)
  BY Trees, WorkFields DEF Live
<1> QED BY <1>1, Trees DEF Live, HeadTree

LEMMA RefTreeIsTree ==
    ASSUME Typed, NEW b \in BlobAt(Tip)
    PROVE  RefTree(b) \in Tree
<1>1. b.head \in 0 .. Tip /\ b.base \in 0 .. 1
  BY Trees, BlobFields
<1> QED BY <1>1, Trees, Bounds DEF RefTree

\* Content by content, what a keyed commit lands.
LEMMA LandingIs ==
    ASSUME NEW w, Live(w), NEW keys \in SUBSET Paths
    PROVE  /\ Landing(w, keys) \in Tree
           /\ \A p \in keys : Landing(w, keys)[p]
                                = Ours(HeadTree(w)[p], w.tree[p], commits[Tip].tree[p])
           /\ \A p \in keys : HeadTree(w)[p] = commits[Tip].tree[p]
                                => Landing(w, keys)[p] = w.tree[p]
           /\ \A p \in Paths \ keys : Landing(w, keys)[p] = commits[Tip].tree[p]
<1>1. HeadTree(w) \in Tree /\ w.tree \in Tree /\ commits[Tip].tree \in Tree
  BY HeadTreeIsTree, Trees DEF Live
<1>2. \A p \in Paths : /\ HeadTree(w)[p] \in Content /\ w.tree[p] \in Content
                       /\ commits[Tip].tree[p] \in Content
  BY <1>1 DEF Tree
<1>3. \A p \in Paths : Keyed(w, keys)[p] = IF p \in keys THEN w.tree[p] ELSE HeadTree(w)[p]
  BY DEF Keyed
<1>4. \A p \in Paths : Landing(w, keys)[p]
                        = Ours(HeadTree(w)[p], Keyed(w, keys)[p], commits[Tip].tree[p])
  BY DEF Landing
<1>5. \A p \in Paths : Landing(w, keys)[p] \in Content
  BY <1>2, <1>3, <1>4 DEF Ours
<1>6. Landing(w, keys) \in Tree
  BY <1>5 DEF Landing, Tree
<1> QED BY <1>3, <1>4, <1>6 DEF Ours

LEMMA LandedIs ==
    ASSUME NEW w, Live(w), Room, NEW keys \in SUBSET Paths
    PROVE  /\ Landed(w, keys) \in WorkAt(NewId)
           /\ Landed(w, keys).head = NewId /\ Landed(w, keys).blob = w.blob
           /\ \A p \in keys : Landed(w, keys).tree[p] = Landing(w, keys)[p]
<1> DEFINE tree == [p \in Paths |-> IF w.tree[p] # HeadTree(w)[p] /\ p \notin keys
                                     THEN w.tree[p] ELSE Landing(w, keys)[p]]
<1>1. w.tree \in Tree /\ Landing(w, keys) \in Tree
  BY HeadTreeIsTree, LandingIs
<1>2. tree \in Tree
  BY <1>1 DEF Tree
<1>3. w.blob \in BlobAt(NewId) /\ NewId \in 0 .. NewId /\ NewId \in Nat
  <2>1. Tip \in Nat /\ NewId \in Nat /\ Tip <= NewId /\ NewId \in 0 .. NewId
    BY Trees DEF Live, NewId
  <2> QED BY <2>1, HeadTreeIsTree, Grows
<1>4. Landed(w, keys) = [head |-> NewId, tree |-> tree, blob |-> w.blob]
  <2>1. w = [head |-> w.head, tree |-> w.tree, blob |-> w.blob]
    BY DEF Live, WorkAt
  <2>2. Landed(w, keys) = [w EXCEPT !.head = NewId, !.tree = tree]
    BY DEF Landed
  <2> HIDE DEF tree
  <2> QED BY <2>1, <2>2
<1> HIDE DEF tree
<1>5. Landed(w, keys) \in WorkAt(NewId)
  BY <1>2, <1>3, <1>4, WorkIsWork
<1>6. \A p \in keys : tree[p] = Landing(w, keys)[p]
  BY DEF tree
<1> QED BY <1>4, <1>5, <1>6

-----------------------------------------------------------------------------
(* Steps: one handle moves, and the history stays or gains a commit *)

Moves(h) ==
    /\ work' = [work EXCEPT ![h] = work'[h]]
    /\ op' = [op EXCEPT ![h] = op'[h]]

LEMMA OthersKeep ==
    ASSUME GitInv, NEW h \in Handles, Moves(h), commits' \in Seq(CommitAt(Tip')),
           Tip' \in 1 .. MaxCommits, Tip <= Tip', work'[h] \in WorkAt(Tip'),
           op'[h] \in OpAt(Tip'), stashes' \in SUBSET Stashes, HandleOK(h)'
    PROVE  GitInv'
<1> PICK m \in Nat : m = Tip'
  BY Bounds
<1>1. Tip \in Nat /\ Tip <= m
  BY Trees DEF GitInv
<1>2. work \in [Handles -> WorkAt(m)] /\ op \in [Handles -> OpAt(m)]
  BY <1>1, Grows DEF GitInv, Typed
<1>3. work' \in [Handles -> WorkAt(m)] /\ op' \in [Handles -> OpAt(m)]
  <2>1. work'[h] \in WorkAt(m) /\ op'[h] \in OpAt(m)
    OBVIOUS
  <2>2. /\ work' = [work EXCEPT ![h] = work'[h]]
        /\ op' = [op EXCEPT ![h] = op'[h]]
    BY DEF Moves
  <2> QED BY <1>2, <2>1, <2>2
<1>4. Typed'
  BY <1>3 DEF Typed
<1>5. ASSUME NEW g \in Handles
      PROVE  HandleOK(g)'
  <2>1. CASE g = h
    BY <2>1
  <2>2. CASE g # h
    <3>1. work'[g] = work[g] /\ op'[g] = op[g]
      BY <2>2, <1>2 DEF Moves
    <3>2. Ids \subseteq Ids'
      <4>1. Ids = 1 .. Tip /\ Ids' = 1 .. m
        BY DEF Ids, Tip
      <4> QED BY <4>1, <1>1
    <3>3. HandleOK(g)
      BY DEF GitInv
    <3>4. op'[g].pc # "closed" => work'[g].head \in Ids'
      BY <3>1, <3>2, <3>3 DEF HandleOK
    <3> QED BY <3>1, <3>3, <3>4 DEF HandleOK
  <2> QED BY <2>1, <2>2
<1> QED BY <1>4, <1>5 DEF GitInv

LEMMA Stays ==
    ASSUME GitInv, NEW h \in Handles, Moves(h), UNCHANGED commits, work'[h] \in WorkAt(Tip),
           op'[h] \in OpAt(Tip), stashes' \in SUBSET Stashes, HandleOK(h)'
    PROVE  GitInv'
<1>1. Typed
  BY DEF GitInv
<1>2. Tip' = Tip /\ Tip \in Nat /\ commits' = commits
  BY <1>1, Trees DEF Tip
<1>3. commits' \in Seq(CommitAt(Tip')) /\ Tip' \in 1 .. MaxCommits /\ Tip <= Tip'
  BY <1>1, <1>2 DEF Typed
<1> QED BY <1>2, <1>3, OthersKeep

LEMMA Lands ==
    ASSUME Typed, Room, NEW c \in CommitAt(NewId), commits' = Append(commits, c)
    PROVE  /\ commits' \in Seq(CommitAt(Tip')) /\ Tip' \in 1 .. MaxCommits
           /\ Tip <= Tip' /\ Tip' = NewId /\ NewId \in Nat /\ Ids' = 1 .. NewId
           /\ commits'[Tip'] = c /\ \A i \in Ids : commits'[i] = commits[i]
<1>1. Tip \in Nat \ {0} /\ Tip < MaxCommits /\ NewId = Tip + 1 /\ MaxCommits \in Nat
  BY Trees, Bounds DEF Room, NewId
<1>2. CommitAt(Tip) \subseteq CommitAt(NewId)
  BY <1>1, Grows
<1>3. commits \in Seq(CommitAt(NewId))
  BY <1>2 DEF Typed
<1>4. commits' \in Seq(CommitAt(NewId)) /\ Len(commits') = Tip + 1
  BY <1>3 DEF Tip
<1>5. commits'[NewId] = c /\ \A i \in Ids : commits'[i] = commits[i]
  BY <1>3, <1>1 DEF Tip, Ids
<1>6. Tip' = NewId /\ Ids' = 1 .. NewId
  BY <1>1, <1>4 DEF Tip, Ids
<1>7. NewId \in 1 .. MaxCommits /\ NewId \in Nat /\ Tip <= NewId
  BY <1>1
<1> QED BY <1>4, <1>5, <1>6, <1>7

LEMMA Grew ==
    ASSUME GitInv, Room, NEW h \in Handles, NEW c \in CommitAt(NewId), Moves(h),
           commits' = Append(commits, c), work'[h] \in WorkAt(NewId), op'[h] \in OpAt(NewId),
           stashes' \in SUBSET Stashes, HandleOK(h)'
    PROVE  GitInv'
<1>1. Typed
  BY DEF GitInv
<1>2. /\ commits' \in Seq(CommitAt(Tip')) /\ Tip' \in 1 .. MaxCommits /\ Tip <= Tip'
      /\ Tip' = NewId
  BY <1>1, Lands
<1> QED BY <1>2, OthersKeep

\* What an invariant says of one handle.
LEMMA OfHandle ==
    ASSUME GitInv, NEW h \in Handles
    PROVE  /\ Typed /\ Tip \in Nat \ {0} /\ Ids = 1 .. Tip
           /\ work[h] \in WorkAt(Tip) /\ op[h] \in OpAt(Tip)
           /\ work[h].head \in 0 .. Tip /\ work[h].tree \in Tree /\ work[h].blob \in BlobAt(Tip)
           /\ op[h].pc # "closed" => work[h].head \in Ids /\ Live(work[h])
           /\ stashes \in SUBSET Stashes
<1>1. Typed /\ HandleOK(h)
  BY DEF GitInv
<1>2. Tip \in Nat \ {0} /\ Ids = 1 .. Tip
  BY <1>1, Trees
<1>3. work[h] \in WorkAt(Tip) /\ op[h] \in OpAt(Tip) /\ stashes \in SUBSET Stashes
  BY <1>1 DEF Typed
<1>4. work[h].head \in 0 .. Tip /\ work[h].tree \in Tree /\ work[h].blob \in BlobAt(Tip)
  BY <1>2, <1>3, WorkFields
<1>5. op[h].pc # "closed" => work[h].head \in Ids /\ Live(work[h])
  BY <1>1, <1>2, <1>3 DEF HandleOK, Live
<1> QED BY <1>1, <1>2, <1>3, <1>4, <1>5

\* A handle whose step leaves nothing to record.
LEMMA Rests ==
    ASSUME GitInv, NEW h \in Handles, Moves(h), UNCHANGED commits, work'[h] \in WorkAt(Tip),
           op'[h] \in OpAt(Tip), stashes' \in SUBSET Stashes,
           op'[h].verb \notin {"commit", "checkout"},
           op'[h].pc = "closed" \/ work'[h].head # 0
    PROVE  GitInv'
<1>1. Tip \in Nat /\ Ids = 1 .. Tip /\ Ids' = Ids
  BY OfHandle DEF Ids
<1>2. work'[h].head \in 0 .. Tip
  BY <1>1, WorkFields
<1>3. HandleOK(h)'
  BY <1>1, <1>2 DEF HandleOK
<1> QED BY <1>3, Stays

LEMMA IdleFields == Idle.verb = "none" /\ Idle.pc = "idle"
                    /\ [Idle EXCEPT !.pc = "closed"].verb = "none"
                    /\ [Idle EXCEPT !.pc = "closed"].pc = "closed"
BY DEF Idle

LEMMA ReadyIs ==
    ASSUME GitInv, NEW h \in Handles, Ready(h)
    PROVE  /\ op[h].pc = "idle" /\ op[h].verb \notin {"commit", "checkout"}
           /\ Live(work[h]) /\ work[h].head \in Ids
BY OfHandle DEF GitInv, HandleOK, Ready

LEMMA OpenIs ==
    ASSUME Typed, NEW c \in Ids
    PROVE  /\ OpenAt(c) \in WorkAt(Tip) /\ OpenAt(c).head = c /\ OpenAt(c).head # 0
           /\ OpenAt(c).tree = commits[c].tree
<1>1. commits[c].tree \in Tree /\ commits[c].blob \in BlobAt(Tip) /\ c \in 0 .. Tip /\ c # 0
      /\ Tip \in Nat
  BY Trees
<1> QED BY <1>1, WorkIsWork DEF OpenAt

LEMMA OpenKeeps ==
    ASSUME GitInv, NEW h \in Handles, Open(h)
    PROVE  GitInv'
<1>1. Tip \in Ids /\ Typed /\ Tip \in Nat \ {0}
  BY OfHandle
<1>2. work' = [work EXCEPT ![h] = OpenAt(Tip)] /\ op' = [op EXCEPT ![h] = Idle]
      /\ commits' = commits /\ stashes' = stashes
  BY DEF Open
<1>3. work'[h] = OpenAt(Tip) /\ op'[h] = Idle /\ Moves(h)
  BY <1>1, <1>2 DEF Typed, Moves
<1> QED BY <1>1, <1>2, <1>3, OpenIs, IdleIsOp, IdleFields, Rests, OfHandle

LEMMA CrashKeeps ==
    ASSUME GitInv, NEW h \in Handles, Crash(h)
    PROVE  GitInv'
<1> DEFINE shut == [Idle EXCEPT !.pc = "closed"]
<1>1. Typed /\ Tip \in Nat \ {0}
  BY OfHandle
<1>2. work' = [work EXCEPT ![h] = Closed] /\ op' = [op EXCEPT ![h] = shut]
      /\ commits' = commits /\ stashes' = stashes
  BY DEF Crash
<1>3. work'[h] = Closed /\ op'[h] = shut /\ Moves(h)
  <2> HIDE DEF shut
  <2> QED BY <1>1, <1>2 DEF Typed, Moves
<1>4. Closed \in WorkAt(Tip)
  <2>1. FreshBlob \in BlobAt(Tip) /\ 0 \in 0 .. Tip
    BY <1>1, FreshIsBlob, Grows
  <2> QED BY <1>1, <2>1, Bounds, WorkIsWork DEF Closed
<1>5. shut \in OpAt(Tip) /\ shut.verb = "none" /\ shut.pc = "closed"
  BY <1>1, IdleIsOp, IdleFields
<1> QED BY <1>2, <1>3, <1>4, <1>5, Rests, OfHandle

\* A verb that writes the worktree of a handle at rest, and no record.
LEMMA WritesKeep ==
    ASSUME GitInv, NEW h \in Handles, Ready(h), NEW w \in WorkAt(Tip), w.head # 0,
           work' = [work EXCEPT ![h] = w], UNCHANGED <<commits, op, stashes>>
    PROVE  GitInv'
<1>1. Typed /\ op[h] \in OpAt(Tip) /\ stashes \in SUBSET Stashes
  BY OfHandle
<1>2. work'[h] = w /\ op'[h] = op[h] /\ Moves(h)
  BY <1>1 DEF Typed, Moves
<1>3. op[h].verb \notin {"commit", "checkout"}
  BY ReadyIs
<1> QED BY <1>1, <1>2, <1>3, Rests

LEMMA EditKeeps ==
    ASSUME GitInv, NEW h \in Handles, NEW p \in Paths, NEW v \in Contents \cup {Absent},
           Edit(h, p, v)
    PROVE  GitInv'
<1> DEFINE w == [work[h] EXCEPT !.tree = [@ EXCEPT ![p] = v]]
<1>1. work[h] \in WorkAt(Tip) /\ work[h].tree \in Tree /\ work[h].head # 0 /\ Typed
  BY OfHandle, ReadyIs DEF Edit
<1>2. [work[h].tree EXCEPT ![p] = v] \in Tree
  BY <1>1 DEF Tree, Content
<1>3. w \in WorkAt(Tip) /\ w.head # 0
  BY <1>1, <1>2 DEF WorkAt
<1>4. work' = [work EXCEPT ![h] = w]
  BY <1>1 DEF Edit, Typed
<1> HIDE DEF w
<1> QED BY <1>3, <1>4, WritesKeep DEF Edit

LEMMA DiscardKeeps ==
    ASSUME GitInv, NEW h \in Handles, Discard(h)
    PROVE  GitInv'
<1>1. Typed /\ work[h].head \in Ids
  BY OfHandle, ReadyIs DEF Discard
<1>2. work' = [work EXCEPT ![h] = OpenAt(work[h].head)]
  BY <1>1 DEF Discard, Typed
<1>3. OpenAt(work[h].head) \in WorkAt(Tip) /\ OpenAt(work[h].head).head # 0
  BY <1>1, OpenIs
<1> QED BY <1>2, <1>3, WritesKeep DEF Discard

\* The index.
LEMMA StagedKeeps ==
    ASSUME GitInv, NEW h \in Handles, NEW staged \in SUBSET Paths, Ready(h),
           work' = [work EXCEPT ![h].blob.staged = staged],
           UNCHANGED <<commits, op, stashes>>
    PROVE  GitInv'
<1> DEFINE w == [work[h] EXCEPT !.blob = [@ EXCEPT !.staged = staged]]
<1>1. work[h] \in WorkAt(Tip) /\ work[h].blob \in BlobAt(Tip) /\ work[h].head # 0 /\ Typed
  BY OfHandle, ReadyIs
<1>2. [work[h].blob EXCEPT !.staged = staged] \in BlobAt(Tip)
  BY <1>1 DEF BlobAt
<1>3. w \in WorkAt(Tip) /\ w.head # 0
  BY <1>1, <1>2 DEF WorkAt
<1>4. work' = [work EXCEPT ![h] = w]
  BY <1>1 DEF Typed
<1> HIDE DEF w
<1> QED BY <1>3, <1>4, WritesKeep

LEMMA IndexKeeps ==
    ASSUME GitInv, NEW h \in Handles, Index(h)
    PROVE  GitInv'
<1>1. work \in [Handles -> WorkAt(Tip)] /\ work[h].blob.staged \in SUBSET Paths
  BY OfHandle, BlobFields DEF Typed
<1>2. Ready(h) /\ UNCHANGED <<commits, op, stashes>>
  BY DEF Index, Stage, Unstage, ResetIndex
<1>3. PICK s \in SUBSET Paths : work' = [work EXCEPT ![h].blob.staged = s]
  BY <1>1 DEF Index, Stage, Unstage, ResetIndex
<1> QED BY <1>2, <1>3, StagedKeeps

\* What a keyed commit lands is a commit of the longer history.
LEMMA LandAdds ==
    ASSUME GitInv, NEW w, Live(w), Room, NEW keys \in SUBSET Paths, NEW kind \in Kinds,
           NEW parent \in 0 .. Tip, NEW files \in SUBSET Paths, Land(w, keys, kind, parent, files)
    PROVE  /\ \E c \in CommitAt(NewId) :
                 commits' = Append(commits, c) /\ c.tree = Landing(w, keys) /\ c.blob = w.blob
                 /\ c.files = files
           /\ Tip' = NewId /\ commits'[Tip'].tree = Landing(w, keys)
           /\ commits'[Tip'].blob = w.blob /\ commits'[Tip'].files = files
<1> DEFINE c == CommitRecord(kind, Landing(w, keys), w.blob, parent, files, NoSource)
<1>1. Tip \in Nat /\ NewId \in Nat /\ Tip <= NewId /\ 0 .. Tip \subseteq 0 .. NewId
  BY Trees DEF GitInv, NewId
<1>2. w.blob \in BlobAt(NewId)
  BY <1>1, HeadTreeIsTree, Grows
<1>3. Landing(w, keys) \in Tree
  BY LandingIs
<1>4. c \in CommitAt(NewId)
  BY <1>1, <1>2, <1>3, Bounds, CommitIsCommit
<1>5. c.tree = Landing(w, keys) /\ c.blob = w.blob /\ c.files = files
  BY DEF CommitRecord
<1>6. commits' = Append(commits, c)
  BY DEF Land
<1> HIDE DEF c
<1>7. Tip' = NewId /\ commits'[Tip'] = c
  BY <1>4, <1>6, Lands DEF GitInv
<1> QED BY <1>4, <1>5, <1>6, <1>7

\* A commit by a handle that has nothing to record after it.
LEMMA LandRests ==
    ASSUME GitInv, NEW h \in Handles, NEW w, Live(w), Room, NEW keys \in SUBSET Paths,
           NEW kind \in Kinds, NEW parent \in 0 .. Tip, NEW files \in SUBSET Paths,
           Land(w, keys, kind, parent, files), work' = [work EXCEPT ![h] = Landed(w, keys)],
           op' = [op EXCEPT ![h] = op'[h]], op'[h] \in OpAt(NewId),
           op'[h].verb \notin {"commit", "checkout"}, stashes' \in SUBSET Stashes
    PROVE  GitInv'
<1>1. PICK c \in CommitAt(NewId) : commits' = Append(commits, c)
  BY LandAdds
<1>2. /\ Landed(w, keys) \in WorkAt(NewId) /\ Landed(w, keys).head = NewId
  BY LandedIs
<1>3. work'[h] = Landed(w, keys) /\ Moves(h)
  BY DEF GitInv, Typed, Moves
<1>4. NewId \in Ids' /\ Typed
  <2>1. Typed /\ Tip \in Nat \ {0}
    BY OfHandle
  <2>2. Ids' = 1 .. NewId
    BY <1>1, <2>1, Lands
  <2> QED BY <2>1, <2>2 DEF NewId
<1>5. HandleOK(h)'
  BY <1>2, <1>3, <1>4 DEF HandleOK
<1> QED BY <1>1, <1>2, <1>3, <1>5, Grew

LEMMA KindFacts ==
    /\ {"auto", "commit", "apply", "merge", "restore", "checkout", "merge-record"} \subseteq Kinds
    /\ \A verb \in {"none", "commit", "checkout", "merge", "apply"} : RecordKind(verb) \in Kinds
BY DEF Kinds, AgentKinds, RecordKind

LEMMA AutocommitKeeps ==
    ASSUME GitInv, NEW h \in Handles, Autocommit(h)
    PROVE  GitInv'
<1>1. /\ Live(work[h]) /\ op[h].verb \notin {"commit", "checkout"} /\ op[h] \in OpAt(NewId)
      /\ 0 \in 0 .. Tip /\ stashes \in SUBSET Stashes
  <2>1. op[h] \in OpAt(Tip) /\ Tip \in Nat /\ NewId \in Nat /\ Tip <= NewId
    BY OfHandle DEF NewId
  <2> QED BY <2>1, ReadyIs, OfHandle, Grows DEF Autocommit
<1>2. /\ Land(work[h], Paths, "auto", 0, {}) /\ Room
      /\ work' = [work EXCEPT ![h] = Landed(work[h], Paths)]
      /\ op' = op /\ stashes' = stashes
  BY DEF Autocommit, GitInv, Typed
<1>3. op' = [op EXCEPT ![h] = op'[h]] /\ op'[h] = op[h]
  BY <1>2 DEF GitInv, Typed
<1>4. "auto" \in Kinds /\ {} \in SUBSET Paths /\ Paths \in SUBSET Paths
  BY KindFacts
<1> QED BY <1>1, <1>2, <1>3, <1>4, LandRests

\* A verb of two steps begins: nothing but its own record is written.
LEMMA OpKeeps ==
    ASSUME GitInv, NEW h \in Handles, op[h].pc # "closed", NEW o \in OpAt(Tip),
           op' = [op EXCEPT ![h] = o], UNCHANGED <<commits, work, stashes>>,
           o.verb \notin {"commit", "checkout"}
    PROVE  GitInv'
<1>1. op'[h] = o /\ work'[h] = work[h] /\ Moves(h)
  BY DEF GitInv, Typed, Moves
<1>2. work[h] \in WorkAt(Tip) /\ work[h].head # 0 /\ stashes \in SUBSET Stashes
  BY OfHandle
<1> QED BY <1>1, <1>2, Rests

LEMMA CallsKeeps ==
    ASSUME GitInv, NEW h \in Handles, NEW verb \in {"merge", "apply"}, NEW base \in Tree,
           NEW theirs \in Tree, NEW source \in Origins, NEW stash \in 0 .. MaxStashes,
           Calls(h, verb, base, theirs, source, stash)
    PROVE  GitInv'
<1> DEFINE o == [Idle EXCEPT !.pc = "settle", !.verb = verb, !.base = base,
                             !.theirs = theirs, !.source = source, !.stash = stash]
<1>1. Idle \in OpAt(Tip)
  BY IdleIsOp, OfHandle
<1>2. o \in OpAt(Tip) /\ o.verb = verb
  BY <1>1 DEF OpAt
<1>3. op' = [op EXCEPT ![h] = o] /\ UNCHANGED <<commits, work, stashes>>
  BY DEF Calls
<1> HIDE DEF o
<1> QED BY <1>2, <1>3, OpKeeps DEF Calls, Ready

LEMMA CallersKeep ==
    ASSUME GitInv, NEW h \in Handles,
           \/ \E c \in Ids : Revert(h, c)
           \/ \E s \in stashes : StashPop(h, s)
           \/ \E s \in Sources : MergeCall(h, s) \/ CherryPick(h, s)
    PROVE  GitInv'
<1>1. 0 \in 0 .. MaxStashes /\ NoSource \in Origins
  BY Bounds
<1>2. ASSUME NEW c \in Ids, Revert(h, c)
      PROVE  GitInv'
  <2>1. Typed
    BY DEF GitInv
  <2>2. commits[c].tree \in Tree /\ commits[c].parent \in 0 .. Tip /\ Tip \in Nat \ {0}
    BY <2>1, Trees, CommitFields
  <2>3. ChangeBase(c) \in Tree
    BY <2>1, <2>2, Trees, Bounds DEF ChangeBase
  <2> QED BY <1>1, <1>2, <2>2, <2>3, CallsKeeps DEF Revert
<1>3. ASSUME NEW s \in stashes, StashPop(h, s)
      PROVE  GitInv'
  <2>1. s \in Stashes
    BY OfHandle
  <2>2. s.base \in Tree /\ s.tree \in Tree /\ s.id \in Origins /\ s.id \in 0 .. MaxStashes
    BY <2>1, Bounds DEF Stashes, StashIds, Origins
  <2> QED BY <1>3, <2>2, CallsKeeps DEF StashPop
<1>4. ASSUME NEW s \in Sources, MergeCall(h, s) \/ CherryPick(h, s)
      PROVE  GitInv'
  <2>1. SourceBase(s) \in Tree /\ SourceTree(s) \in Tree /\ s \in Origins
    BY SourcesAssumption DEF SourcesAssumption, Origins
  <2> QED BY <1>1, <1>4, <2>1, CallsKeeps DEF MergeCall, CherryPick
<1> QED BY <1>2, <1>3, <1>4

LEMMA StashDropKeeps ==
    ASSUME GitInv, NEW h \in Handles, NEW s \in stashes, StashDrop(h, s)
    PROVE  GitInv'
<1>1. work[h] \in WorkAt(Tip) /\ op[h] \in OpAt(Tip) /\ work[h].head # 0
      /\ op[h].verb \notin {"commit", "checkout"} /\ stashes' \in SUBSET Stashes
  BY OfHandle, ReadyIs DEF StashDrop
<1>2. work'[h] = work[h] /\ op'[h] = op[h] /\ Moves(h)
  BY DEF StashDrop, GitInv, Typed, Moves
<1> QED BY <1>1, <1>2, Rests DEF StashDrop

\* A merge or an apply on its way to its record.
LEMMA UnderWay ==
    ASSUME GitInv, NEW h \in Handles, op[h].pc \in {"settle", "land"}
    PROVE  /\ Live(work[h]) /\ op[h].verb \notin {"commit", "checkout"}
           /\ op[h] \in OpAt(Tip) /\ op[h] \in OpAt(NewId) /\ Tip \in Nat /\ NewId \in Nat
           /\ op[h].base \in Tree /\ op[h].theirs \in Tree /\ op[h].source \in Origins
<1>1. op[h] \in OpAt(Tip) /\ Tip \in Nat /\ NewId \in Nat /\ Tip <= NewId
  BY OfHandle DEF NewId
<1>2. op[h] \in OpAt(NewId)
  BY <1>1, Grows
<1>3. Live(work[h]) /\ op[h].verb \notin {"commit", "checkout"}
  BY OfHandle DEF GitInv, HandleOK
<1> QED BY <1>1, <1>2, <1>3, OpFields

LEMMA SettleKeeps ==
    ASSUME GitInv, NEW h \in Handles, Settle(h)
    PROVE  GitInv'
<1> DEFINE o == [op[h] EXCEPT !.pc = "land"]
<1>1. /\ Live(work[h]) /\ op[h].pc = "settle" /\ stashes' = stashes
      /\ stashes \in SUBSET Stashes
  BY UnderWay, OfHandle DEF Settle
<1>2. o \in OpAt(Tip) /\ o \in OpAt(NewId) /\ o.verb \notin {"commit", "checkout"}
  BY <1>1, UnderWay DEF OpAt
<1>3. op' = [op EXCEPT ![h].pc = "land"] => op' = [op EXCEPT ![h] = o]
  BY DEF GitInv, Typed
<1>4. Idle \in OpAt(Tip) /\ Idle.verb = "none"
  BY IdleIsOp, IdleFields, OfHandle
<1> HIDE DEF o
<1>5. CASE op' = [op EXCEPT ![h].pc = "land"] /\ UNCHANGED <<commits, work>>
  BY <1>1, <1>2, <1>3, <1>5, OpKeeps
<1>6. CASE op' = [op EXCEPT ![h] = Idle] /\ UNCHANGED <<commits, work>>
  BY <1>1, <1>4, <1>6, OpKeeps
<1>7. CASE /\ Room /\ Land(work[h], Paths, "auto", 0, {})
           /\ work' = [work EXCEPT ![h] = Landed(@, Paths)]
           /\ op' = [op EXCEPT ![h].pc = "land"]
  <2>1. /\ work' = [work EXCEPT ![h] = Landed(work[h], Paths)]
        /\ op' = [op EXCEPT ![h] = op'[h]] /\ op'[h] = o
    BY <1>3, <1>7 DEF GitInv, Typed
  <2>2. "auto" \in Kinds /\ {} \in SUBSET Paths /\ Paths \in SUBSET Paths /\ 0 \in 0 .. Tip
    BY KindFacts, OfHandle
  <2> QED BY <1>1, <1>2, <1>7, <2>1, <2>2, LandRests
<1> QED BY <1>5, <1>6, <1>7 DEF Settle

LEMMA EndsKeep ==
    ASSUME GitInv, NEW h \in Handles, LandRefused(h) \/ ApplyChangesNothing(h)
    PROVE  GitInv'
<1>1. op[h].pc # "closed" /\ op' = [op EXCEPT ![h] = Idle]
      /\ UNCHANGED <<commits, work, stashes>>
  BY DEF LandRefused, ApplyChangesNothing
<1> QED BY <1>1, OpKeeps, IdleIsOp, IdleFields, OfHandle

\* A merge or an apply that has landed, or had nothing to, is to be recorded.
LEMMA RecordingIs ==
    ASSUME GitInv, NEW h \in Handles, op[h].pc = "land", NEW n \in {Tip, NewId},
           NEW blob \in BlobAt(n), NEW commit \in 0 .. n, NEW marked \in SUBSET Paths,
           Recording(h, blob, commit, marked)
    PROVE  /\ op' = [op EXCEPT ![h] = op'[h]] /\ op'[h] \in OpAt(n)
           /\ op'[h].pc = "record" /\ op'[h].verb \notin {"commit", "checkout"}
<1> DEFINE state == [blob EXCEPT !.head = commit, !.unresolved = marked,
                                 !.source = IF marked = {} THEN NoSource ELSE op[h].source,
                                 !.pre = IF marked = {} THEN 0 ELSE blob.head]
<1>1. /\ op[h].source \in Origins /\ NoSource \in Origins /\ n \in Nat /\ op[h] \in OpAt(n)
      /\ op[h].verb \notin {"commit", "checkout"}
  BY UnderWay, Bounds
<1>2. blob.head \in 0 .. n /\ 0 \in 0 .. n
  BY <1>1, BlobFields
<1>3. state \in BlobAt(n)
  BY <1>1, <1>2 DEF BlobAt
<1>4. op' = [op EXCEPT ![h].pc = "record", ![h].state = state]
  BY DEF Recording
<1> HIDE DEF state
<1> DEFINE o == [op[h] EXCEPT !.pc = "record", !.state = state]
<1>5. o \in OpAt(n) /\ o.pc = "record" /\ o.verb = op[h].verb
  BY <1>1, <1>3 DEF OpAt
<1>6. op' = [op EXCEPT ![h] = o]
  BY <1>4 DEF GitInv, Typed
<1> HIDE DEF o
<1>7. op'[h] = o
  BY <1>6 DEF GitInv, Typed
<1> QED BY <1>1, <1>5, <1>6, <1>7

LEMMA MergeLandsKeeps ==
    ASSUME GitInv, NEW h \in Handles, MergeLands(h)
    PROVE  GitInv'
<1> DEFINE tip == commits[Tip]
           tree == Merged(op[h].base, tip.tree, op[h].theirs)
           marked == Conflicts(op[h].base, tip.tree, op[h].theirs)
           c == CommitRecord("merge", tree, tip.blob, work[h].blob.head, {}, op[h].source)
           w == [head |-> NewId, tree |-> tree, blob |-> tip.blob]
<1>1. /\ op[h].pc = "land" /\ Room /\ stashes' = stashes
      /\ commits' = Append(commits, c) /\ work' = [work EXCEPT ![h] = w]
      /\ Recording(h, tip.blob, NewId, marked)
  BY DEF MergeLands
<1>2. /\ op[h].base \in Tree /\ op[h].theirs \in Tree /\ op[h].source \in Origins
      /\ Typed /\ Tip \in Ids /\ stashes \in SUBSET Stashes
      /\ NewId \in Nat /\ Tip \in Nat \ {0} /\ Tip <= NewId /\ 0 .. Tip \subseteq 0 .. NewId
      /\ NewId \in 0 .. NewId
  BY <1>1, UnderWay, OfHandle DEF NewId
<1>3. tip.tree \in Tree /\ tip.blob \in BlobAt(Tip) /\ tip.blob \in BlobAt(NewId)
  BY <1>2, Trees, Grows
<1>4. tree \in Tree /\ marked \in SUBSET Paths
  BY <1>2, <1>3, MergedIsTree DEF Conflicts
<1>5. work[h].blob.head \in 0 .. NewId
  BY <1>2, OfHandle, BlobFields
<1> HIDE DEF tip, tree, marked
<1>6. c \in CommitAt(NewId)
  BY <1>2, <1>3, <1>4, <1>5, KindFacts, CommitIsCommit
<1>7. w \in WorkAt(NewId) /\ w.head = NewId
  BY <1>2, <1>3, <1>4, WorkIsWork
<1> HIDE DEF c, w
<1>8. /\ op' = [op EXCEPT ![h] = op'[h]] /\ op'[h] \in OpAt(NewId)
      /\ op'[h].verb \notin {"commit", "checkout"}
  BY <1>1, <1>2, <1>3, <1>4, RecordingIs
<1>9. work'[h] = w /\ Moves(h)
  BY <1>1, <1>2, <1>8 DEF Typed, Moves
<1>10. NewId \in Ids'
  <2>1. Ids' = 1 .. NewId
    BY <1>1, <1>2, <1>6, Lands
  <2> QED BY <2>1, <1>2 DEF NewId
<1>11. HandleOK(h)'
  BY <1>7, <1>8, <1>9, <1>10 DEF HandleOK
<1> QED BY <1>1, <1>2, <1>6, <1>7, <1>8, <1>9, <1>11, Grew

LEMMA MergeIsNoOpKeeps ==
    ASSUME GitInv, NEW h \in Handles, MergeIsNoOp(h)
    PROVE  GitInv'
<1>1. op[h].pc = "land" /\ Recording(h, work[h].blob, work[h].head, {})
      /\ UNCHANGED <<commits, work, stashes>>
  BY DEF MergeIsNoOp
<1>2. /\ work[h] \in WorkAt(Tip) /\ work[h].head \in 0 .. Tip /\ work[h].blob \in BlobAt(Tip)
      /\ work[h].head # 0 /\ stashes \in SUBSET Stashes /\ {} \in SUBSET Paths
  BY <1>1, OfHandle
<1>3. /\ op' = [op EXCEPT ![h] = op'[h]] /\ op'[h] \in OpAt(Tip)
      /\ op'[h].verb \notin {"commit", "checkout"}
  BY <1>1, <1>2, RecordingIs
<1>4. work'[h] = work[h] /\ Moves(h)
  BY <1>1, <1>3 DEF GitInv, Typed, Moves
<1> QED BY <1>1, <1>2, <1>3, <1>4, Rests

LEMMA ApplyLandsKeeps ==
    ASSUME GitInv, NEW h \in Handles, ApplyLands(h)
    PROVE  GitInv'
<1> DEFINE merged == [p \in Paths |->
                        IF op[h].base[p] = op[h].theirs[p] THEN work[h].tree[p]
                        ELSE Merged(op[h].base, work[h].tree, op[h].theirs)[p]]
           w == Applied(h)
           marked == Conflicts(op[h].base, work[h].tree, op[h].theirs)
<1>1. /\ op[h].pc = "land" /\ Room /\ stashes' = stashes
      /\ Land(w, Paths, "apply", w.blob.head, {}) /\ work' = [work EXCEPT ![h] = Landed(w, Paths)]
      /\ Recording(h, w.blob, NewId, marked)
  BY DEF ApplyLands, GitInv, Typed
<1>2. /\ op[h].base \in Tree /\ op[h].theirs \in Tree /\ Typed /\ work[h] \in WorkAt(Tip)
      /\ work[h].head # 0 /\ work[h].tree \in Tree /\ work[h].blob \in BlobAt(Tip)
      /\ NewId \in Nat /\ Tip \in Nat \ {0} /\ Tip <= NewId /\ NewId \in 0 .. NewId
      /\ stashes \in SUBSET Stashes
  BY <1>1, UnderWay, OfHandle DEF NewId
<1>3. merged \in Tree
  BY <1>2, MergedIsTree DEF Tree
<1>4. w = [work[h] EXCEPT !.tree = merged]
  BY DEF Applied
<1> HIDE DEF merged
<1>5. Live(w) /\ w.blob = work[h].blob
  BY <1>2, <1>3, <1>4 DEF Live, WorkAt
<1>6. marked \in SUBSET Paths
  BY DEF Conflicts
<1> HIDE DEF w, marked
<1>7. w.blob \in BlobAt(NewId) /\ w.blob.head \in 0 .. Tip
  BY <1>2, <1>5, BlobFields, Grows
<1>8. /\ op' = [op EXCEPT ![h] = op'[h]] /\ op'[h] \in OpAt(NewId)
      /\ op'[h].verb \notin {"commit", "checkout"}
  BY <1>1, <1>2, <1>6, <1>7, RecordingIs
<1>9. "apply" \in Kinds /\ {} \in SUBSET Paths /\ Paths \in SUBSET Paths
  BY KindFacts
<1> QED BY <1>1, <1>2, <1>5, <1>7, <1>8, <1>9, LandRests

-----------------------------------------------------------------------------
(* commit, checkout, and the record *)

\* What a commit would make of the worktree, named as in Commit.
Reverted(w) == Modified(w) \ CommitFiles(w)
Composed(w) ==
    [w EXCEPT !.tree = PutBack(w, Reverted(w)), !.blob = CommitBlob(w, CommitFiles(w))]
Taken(w) == CommitFiles(w) \cup Reverted(w)

LEMMA ComposedIs ==
    ASSUME NEW w, Live(w)
    PROVE  /\ Live(Composed(w)) /\ Composed(w).head = w.head
           /\ HeadTree(Composed(w)) = HeadTree(w)
           /\ Composed(w).tree = PutBack(w, Reverted(w))
           /\ Composed(w).blob = CommitBlob(w, CommitFiles(w))
           /\ Reverted(w) \in SUBSET Paths /\ CommitFiles(w) \in SUBSET Paths
           /\ Taken(w) \in SUBSET Paths
           /\ \A p \in CommitFiles(w) : PutBack(w, Reverted(w))[p] = w.tree[p]
           /\ \A p \in Reverted(w) : PutBack(w, Reverted(w))[p] = RefTree(w.blob)[p]
<1>1. w \in WorkAt(Tip) /\ w.head # 0 /\ w.tree \in Tree /\ w.blob \in BlobAt(Tip)
      /\ Tip \in Nat /\ Typed
  BY HeadTreeIsTree, Trees DEF Live
<1>2. RefTree(w.blob) \in Tree
  BY <1>1, RefTreeIsTree
<1>3. CommitFiles(w) \in SUBSET Paths /\ Reverted(w) \in SUBSET Paths
  BY DEF CommitFiles, Modified, Reverted
<1>4. PutBack(w, Reverted(w)) \in Tree
  BY <1>1, <1>2 DEF PutBack, Tree
<1>5. CommitBlob(w, CommitFiles(w)) \in BlobAt(Tip)
  <2> PICK left \in SUBSET Paths : left = StillMarked(w, CommitFiles(w))
    BY <1>1, BlobFields DEF StillMarked
  <2>1. w.blob.source \in Origins /\ w.blob.pre \in 0 .. Tip /\ 0 \in 0 .. Tip
    BY <1>1, BlobFields
  <2> PICK source \in Origins : source = IF left = {} THEN NoSource ELSE w.blob.source
    BY <2>1, Bounds
  <2> PICK pre \in 0 .. Tip : pre = IF left = {} THEN 0 ELSE w.blob.pre
    BY <2>1
  <2>2. CommitBlob(w, CommitFiles(w))
          = [w.blob EXCEPT !.staged = {}, !.unresolved = left, !.source = source, !.pre = pre]
    BY DEF CommitBlob
  <2> QED BY <1>1, <2>2 DEF BlobAt
<1>6. Composed(w) \in WorkAt(Tip) /\ Composed(w).head = w.head
      /\ Composed(w).tree = PutBack(w, Reverted(w))
      /\ Composed(w).blob = CommitBlob(w, CommitFiles(w))
  BY <1>1, <1>4, <1>5 DEF Composed, WorkAt
<1>7. \A p \in CommitFiles(w) : PutBack(w, Reverted(w))[p] = w.tree[p]
  BY <1>3 DEF PutBack, Reverted
<1>8. \A p \in Reverted(w) : PutBack(w, Reverted(w))[p] = RefTree(w.blob)[p]
  BY <1>3 DEF PutBack
<1> QED BY <1>1, <1>3, <1>6, <1>7, <1>8 DEF Live, HeadTree, Taken

\* What a commit does, in those names.
LEMMA CommitIs ==
    ASSUME GitInv, NEW h \in Handles, Commit(h)
    PROVE  LET w == work[h]
               after == Landed(Composed(w), Taken(w))
               live == [p \in Paths |-> IF p \in Reverted(w) THEN w.tree[p] ELSE after.tree[p]]
               state == [Composed(w).blob EXCEPT !.head = NewId]
           IN  /\ Ready(h) /\ Room /\ CommitFiles(w) # {} /\ stashes' = stashes
               /\ Land(Composed(w), Taken(w), "commit", w.blob.head, CommitFiles(w))
               /\ work' = [work EXCEPT ![h] = [after EXCEPT !.tree = live, !.blob = state]]
               /\ op' = [op EXCEPT ![h] = [Idle EXCEPT !.pc = "record", !.verb = "commit",
                                              !.keys = Reverted(w), !.want = live,
                                              !.state = state]]
BY DEF Commit, Composed, Taken, Reverted

LEMMA CommitKeeps ==
    ASSUME GitInv, NEW h \in Handles, Commit(h)
    PROVE  GitInv'
<1> DEFINE w == work[h]
           after == Landed(Composed(w), Taken(w))
           live == [p \in Paths |-> IF p \in Reverted(w) THEN w.tree[p] ELSE after.tree[p]]
           state == [Composed(w).blob EXCEPT !.head = NewId]
           made == [after EXCEPT !.tree = live, !.blob = state]
           o == [Idle EXCEPT !.pc = "record", !.verb = "commit", !.keys = Reverted(w),
                             !.want = live, !.state = state]
<1>1. /\ Ready(h) /\ Room /\ stashes' = stashes
      /\ Land(Composed(w), Taken(w), "commit", w.blob.head, CommitFiles(w))
      /\ work' = [work EXCEPT ![h] = made] /\ op' = [op EXCEPT ![h] = o]
  BY CommitIs
<1>2. /\ Live(w) /\ w.tree \in Tree /\ w.blob.head \in 0 .. Tip /\ Typed
      /\ Tip \in Nat \ {0} /\ NewId \in Nat \ {0} /\ Tip <= NewId /\ NewId \in 0 .. NewId
      /\ stashes \in SUBSET Stashes
  BY <1>1, ReadyIs, OfHandle, BlobFields DEF NewId
<1>3. /\ Live(Composed(w)) /\ Reverted(w) \in SUBSET Paths /\ Taken(w) \in SUBSET Paths
      /\ CommitFiles(w) \in SUBSET Paths /\ Composed(w).blob \in BlobAt(NewId)
  BY <1>2, ComposedIs, HeadTreeIsTree, Grows
<1>4. after \in WorkAt(NewId) /\ after.head = NewId /\ after.tree \in Tree
  BY <1>1, <1>2, <1>3, LandedIs, WorkFields
<1> HIDE DEF after
<1>5. live \in Tree
  BY <1>2, <1>4 DEF Tree
<1> HIDE DEF live
<1>6. state \in BlobAt(NewId)
  BY <1>2, <1>3 DEF BlobAt
<1> HIDE DEF state
<1>7. made \in WorkAt(NewId) /\ made.head = NewId /\ made.tree = live
  BY <1>4, <1>5, <1>6 DEF WorkAt
<1>8. o \in OpAt(NewId) /\ o.verb = "commit" /\ o.pc = "record" /\ o.want = live
  <2>1. Idle \in OpAt(NewId)
    BY <1>2, IdleIsOp
  <2> QED BY <1>3, <1>5, <1>6, <2>1 DEF OpAt
<1> HIDE DEF made, o
<1>9. work'[h] = made /\ op'[h] = o /\ Moves(h)
  BY <1>1, <1>2 DEF Typed, Moves
<1>10. PICK c \in CommitAt(NewId) : commits' = Append(commits, c)
  BY <1>1, <1>2, <1>3, LandAdds, KindFacts
<1>11. NewId \in Ids'
  <2>1. Ids' = 1 .. NewId
    BY <1>1, <1>2, <1>10, Lands
  <2> QED BY <2>1, <1>2
<1>12. HandleOK(h)'
  BY <1>7, <1>8, <1>9, <1>11 DEF HandleOK
<1> QED BY <1>1, <1>2, <1>7, <1>8, <1>9, <1>10, <1>12, Grew

\* checkout, merge --abort and the checkout a stash ends with.
LEMMA RestoringKeeps ==
    ASSUME GitInv, NEW h \in Handles, NEW c \in Ids, Ready(h), Restoring(h, c),
           UNCHANGED commits, stashes' \in SUBSET Stashes
    PROVE  GitInv'
<1> DEFINE keys == {p \in Paths : work[h].tree[p] # commits[c].tree[p]}
           state == [work[h].blob EXCEPT !.head = c, !.staged = {}, !.source = NoSource,
                                         !.unresolved = {}, !.pre = 0]
           w == [work[h] EXCEPT !.tree = commits[c].tree, !.blob = state]
           o == [Idle EXCEPT !.pc = "record", !.verb = "checkout", !.keys = keys,
                             !.want = commits[c].tree, !.state = state, !.had = work[h].tree,
                             !.before = work[h].blob]
<1>1. /\ work[h] \in WorkAt(Tip) /\ work[h].tree \in Tree /\ work[h].blob \in BlobAt(Tip)
      /\ work[h].head # 0 /\ Typed /\ c \in 0 .. Tip /\ commits[c].tree \in Tree
      /\ Tip \in Nat \ {0} /\ 0 \in 0 .. Tip /\ NoSource \in Origins
  BY OfHandle, ReadyIs, Trees, Bounds
<1>2. keys \in SUBSET Paths
  OBVIOUS
<1>3. state \in BlobAt(Tip)
  BY <1>1 DEF BlobAt
<1>4. work' = [work EXCEPT ![h].tree = commits[c].tree, ![h].blob = state]
      /\ op' = [op EXCEPT ![h] = o]
  BY DEF Restoring
<1> HIDE DEF keys, state
<1>5. work' = [work EXCEPT ![h] = w]
  BY <1>1, <1>4 DEF Typed
<1>6. w \in WorkAt(Tip) /\ w.head # 0 /\ w.tree = commits[c].tree
  BY <1>1, <1>3 DEF WorkAt
<1>7. o \in OpAt(Tip) /\ o.verb = "checkout" /\ o.pc = "record" /\ o.want = commits[c].tree
  <2>1. Idle \in OpAt(Tip)
    BY <1>1, IdleIsOp
  <2> QED BY <1>1, <1>2, <1>3, <2>1 DEF OpAt
<1> HIDE DEF w, o
<1>8. work'[h] = w /\ op'[h] = o /\ Moves(h)
  BY <1>1, <1>4, <1>5 DEF Typed, Moves
<1>9. HandleOK(h)'
  <2>1. w.head \in Ids /\ Ids' = Ids
    BY <1>1, <1>6, WorkFields, Trees DEF Ids
  <2> QED BY <1>6, <1>7, <1>8, <2>1 DEF HandleOK
<1> QED BY <1>6, <1>7, <1>8, <1>9, Stays

LEMMA CheckoutsKeep ==
    ASSUME GitInv, NEW h \in Handles,
           \/ \E c \in Ids : Checkout(h, c)
           \/ AbortMerge(h)
           \/ \E id \in StashIds : StashPush(h, id)
    PROVE  GitInv'
<1>1. stashes \in SUBSET Stashes /\ Tip \in Nat \ {0} /\ Ids = 1 .. Tip
      /\ work[h].blob \in BlobAt(Tip) /\ work[h].tree \in Tree /\ Typed
  BY OfHandle
<1>2. CASE \E c \in Ids : Checkout(h, c)
  BY <1>1, <1>2, RestoringKeeps DEF Checkout
<1>3. CASE AbortMerge(h)
  <2>1. work[h].blob.pre \in Ids
    BY <1>1, <1>3, BlobFields DEF AbortMerge
  <2> QED BY <1>1, <1>3, <2>1, RestoringKeeps DEF AbortMerge
<1>4. ASSUME NEW id \in StashIds, StashPush(h, id)
      PROVE  GitInv'
  <2>1. work[h].blob.head \in Ids
    BY <1>1, <1>4, BlobFields DEF StashPush
  <2>2. RefTree(work[h].blob) \in Tree
    BY <1>1, RefTreeIsTree
  <2>3. [id |-> id, base |-> RefTree(work[h].blob), tree |-> work[h].tree] \in Stashes
    BY <1>1, <2>2 DEF Stashes
  <2>4. stashes' \in SUBSET Stashes
    BY <1>1, <1>4, <2>3 DEF StashPush
  <2> QED BY <1>4, <2>1, <2>4, RestoringKeeps DEF StashPush
<1> QED BY <1>2, <1>3, <1>4

\* A verb at its record, with the blob it is to leave.
LEMMA AtItsRecord ==
    ASSUME GitInv, NEW h \in Handles, op[h].pc \in {"record", "again"}
    PROVE  /\ Live(Stated(h)) /\ Stated(h).tree = work[h].tree
           /\ Stated(h).head = work[h].head /\ Stated(h).blob = op[h].state
           /\ HeadTree(Stated(h)) = HeadTree(work[h])
           /\ op[h] \in OpAt(Tip) /\ op[h].keys \in SUBSET Paths
           /\ op[h].state \in BlobAt(Tip) /\ op[h].want \in Tree /\ op[h].had \in Tree
           /\ op[h].before \in BlobAt(Tip)
           /\ op[h].verb \in {"none", "commit", "checkout", "merge", "apply"}
           /\ op[h].verb \in {"commit", "checkout"} =>
                \A p \in op[h].keys : work[h].tree[p] = op[h].want[p]
<1>1. work[h] \in WorkAt(Tip) /\ work[h].head # 0 /\ op[h] \in OpAt(Tip) /\ Tip \in Nat
      /\ Typed
  BY OfHandle
<1>2. /\ op[h].keys \in SUBSET Paths /\ op[h].state \in BlobAt(Tip) /\ op[h].want \in Tree
      /\ op[h].had \in Tree /\ op[h].before \in BlobAt(Tip)
      /\ op[h].verb \in {"none", "commit", "checkout", "merge", "apply"}
  BY <1>1, OpFields
<1>3. /\ Stated(h) \in WorkAt(Tip) /\ Stated(h).tree = work[h].tree
      /\ Stated(h).head = work[h].head /\ Stated(h).blob = op[h].state
  BY <1>1, <1>2 DEF Stated, WorkAt
<1>4. HandleOK(h)
  BY DEF GitInv
<1> QED BY <1>1, <1>2, <1>3, <1>4 DEF Live, HeadTree, HandleOK

LEMMA RecordKeeps ==
    ASSUME GitInv, NEW h \in Handles, Record(h)
    PROVE  GitInv'
<1> DEFINE w == Stated(h)
<1>1. /\ op[h].pc \in {"record", "again"} /\ Room
      /\ Land(w, op[h].keys, RecordKind(op[h].verb), 0, {})
      /\ work' = [work EXCEPT ![h] = Landed(w, op[h].keys)]
      /\ op' = [op EXCEPT ![h] = Idle] /\ stashes' \in SUBSET Stashes
  BY OfHandle DEF Record
<1>2. Live(w) /\ op[h].keys \in SUBSET Paths /\ RecordKind(op[h].verb) \in Kinds
  BY <1>1, AtItsRecord, KindFacts
<1>3. Tip \in Nat \ {0} /\ NewId \in Nat \ {0} /\ 0 \in 0 .. Tip /\ {} \in SUBSET Paths
  BY OfHandle DEF NewId
<1>4. op'[h] = Idle /\ op' = [op EXCEPT ![h] = op'[h]] /\ Idle \in OpAt(NewId)
      /\ Idle.verb = "none"
  BY <1>1, <1>3, IdleIsOp, IdleFields DEF GitInv, Typed
<1> HIDE DEF w
<1> QED BY <1>1, <1>2, <1>3, <1>4, LandRests

\* The head that won, with the verb's tree and blob over it.
LEMMA RereadIs ==
    ASSUME GitInv, NEW h \in Handles, Reread(h)
    PROVE  /\ op[h].pc = "record" /\ Moves(h) /\ UNCHANGED <<commits, stashes>>
           /\ work'[h] \in WorkAt(Tip) /\ work'[h].head \in Ids
           /\ op'[h] \in OpAt(Tip) /\ op'[h].pc = "again" /\ op'[h].verb = op[h].verb
           /\ op'[h].keys = op[h].keys /\ op'[h].want = op[h].want
           /\ \A p \in op[h].keys : work'[h].tree[p] = op[h].want[p]
<1> DEFINE tree == Overlaid(OpenAt(Tip).tree, op[h].want, op[h].keys)
           w == [OpenAt(Tip) EXCEPT !.blob = op[h].state, !.tree = tree]
           o == [op[h] EXCEPT !.pc = "again"]
<1>1. op[h].pc = "record" /\ UNCHANGED <<commits, stashes>>
  BY DEF Reread
<1>2. /\ op[h] \in OpAt(Tip) /\ op[h].keys \in SUBSET Paths /\ op[h].state \in BlobAt(Tip)
      /\ op[h].want \in Tree /\ Tip \in Ids /\ Typed
  BY <1>1, AtItsRecord, OfHandle
<1>3. OpenAt(Tip) \in WorkAt(Tip) /\ OpenAt(Tip).head = Tip /\ OpenAt(Tip).tree \in Tree
  BY <1>2, OpenIs, Trees
<1>4. tree \in Tree /\ \A p \in op[h].keys : tree[p] = op[h].want[p]
  BY <1>2, <1>3, OverlaidIsTree
<1>5. work' = [work EXCEPT ![h] = w] /\ op' = [op EXCEPT ![h] = o]
  BY <1>2 DEF Reread, Typed
<1> HIDE DEF tree
<1>6. w \in WorkAt(Tip) /\ w.head = Tip /\ w.tree = tree
  BY <1>2, <1>3, <1>4 DEF WorkAt
<1>7. /\ o \in OpAt(Tip) /\ o.pc = "again" /\ o.verb = op[h].verb /\ o.keys = op[h].keys
      /\ o.want = op[h].want
  BY <1>2 DEF OpAt
<1>8. work'[h] = w /\ op'[h] = o /\ Moves(h)
  BY <1>2, <1>5 DEF Typed, Moves
<1> HIDE DEF w
<1> QED BY <1>1, <1>2, <1>4, <1>6, <1>7, <1>8

LEMMA RereadKeeps ==
    ASSUME GitInv, NEW h \in Handles, Reread(h)
    PROVE  GitInv'
<1>1. Ids' = Ids /\ stashes' \in SUBSET Stashes
  BY RereadIs, OfHandle DEF Ids
<1>2. /\ work'[h].head \in Ids' /\ op'[h].pc = "again"
      /\ \A p \in op'[h].keys : work'[h].tree[p] = op'[h].want[p]
  <2>1. /\ op'[h].keys = op[h].keys /\ op'[h].want = op[h].want
        /\ \A p \in op[h].keys : work'[h].tree[p] = op[h].want[p]
    BY RereadIs
  <2> QED BY <1>1, <2>1, RereadIs
<1>3. HandleOK(h)'
  BY <1>2 DEF HandleOK
<1> QED BY <1>1, <1>3, RereadIs, Stays

LEMMA GiveUpIs ==
    ASSUME GitInv, NEW h \in Handles, GiveUp(h)
    PROVE  /\ op[h].pc = "again" /\ Moves(h) /\ UNCHANGED <<commits, stashes>>
           /\ work'[h] \in WorkAt(Tip) /\ work'[h].head = work[h].head /\ op'[h] = Idle
           /\ op[h].verb = "checkout" =>
                /\ work'[h].blob = op[h].before
                /\ \A p \in op[h].keys : work'[h].tree[p] = op[h].had[p]
           /\ op[h].verb # "checkout" => work'[h].tree = work[h].tree
<1> DEFINE undone == [work[h] EXCEPT !.blob = op[h].before,
                                     !.tree = Overlaid(work[h].tree, op[h].had, op[h].keys)]
           taken == [work[h] EXCEPT !.blob = commits[work[h].head].blob]
<1>1. op[h].pc = "again" /\ UNCHANGED <<commits, stashes>>
  BY DEF GiveUp
<1>2. /\ work[h] \in WorkAt(Tip) /\ work[h].tree \in Tree /\ work[h].head \in Ids /\ Typed
      /\ op[h].keys \in SUBSET Paths /\ op[h].had \in Tree /\ op[h].before \in BlobAt(Tip)
  BY <1>1, AtItsRecord, OfHandle
<1>3. /\ Overlaid(work[h].tree, op[h].had, op[h].keys) \in Tree
      /\ \A p \in op[h].keys : Overlaid(work[h].tree, op[h].had, op[h].keys)[p] = op[h].had[p]
  BY <1>2, OverlaidIsTree
<1>4. commits[work[h].head].blob \in BlobAt(Tip)
  BY <1>2, Trees
<1>5. /\ undone \in WorkAt(Tip) /\ undone.head = work[h].head /\ undone.blob = op[h].before
      /\ \A p \in op[h].keys : undone.tree[p] = op[h].had[p]
  BY <1>2, <1>3 DEF WorkAt
<1>6. taken \in WorkAt(Tip) /\ taken.head = work[h].head /\ taken.tree = work[h].tree
  BY <1>2, <1>4 DEF WorkAt
<1>7. /\ work' = [work EXCEPT ![h] = IF op[h].verb = "checkout" THEN undone ELSE taken]
      /\ op' = [op EXCEPT ![h] = Idle]
  BY <1>2 DEF GiveUp, Typed
<1> HIDE DEF undone, taken
<1>8. /\ work'[h] = IF op[h].verb = "checkout" THEN undone ELSE taken
      /\ op'[h] = Idle /\ Moves(h)
  BY <1>2, <1>7 DEF Typed, Moves
<1> QED BY <1>1, <1>5, <1>6, <1>8

LEMMA GiveUpKeeps ==
    ASSUME GitInv, NEW h \in Handles, GiveUp(h)
    PROVE  GitInv'
<1>1. work[h].head # 0 /\ Tip \in Nat \ {0} /\ stashes' \in SUBSET Stashes
  BY GiveUpIs, OfHandle
<1>2. Idle \in OpAt(Tip) /\ Idle.verb = "none"
  BY <1>1, IdleIsOp, IdleFields
<1> QED BY <1>1, <1>2, GiveUpIs, Rests

-----------------------------------------------------------------------------
(* The invariant *)

LEMMA InitIsInv == Init => GitInv
<1> SUFFICES ASSUME Init PROVE GitInv
  OBVIOUS
<1> DEFINE shut == [Idle EXCEPT !.pc = "closed"]
<1>1. PICK tree \in Tree :
        commits = <<CommitRecord(IF Forked THEN "fork" ELSE "auto", tree, FreshBlob, 0, {},
                                 NoSource)>>
  BY DEF Init, Tree, Content
<1>2. PICK c \in CommitAt(1) : commits = <<c>>
  <2>1. (IF Forked THEN "fork" ELSE "auto") \in Kinds /\ 0 \in 0 .. 1 /\ {} \in SUBSET Paths
    BY DEF Kinds, AgentKinds
  <2> QED BY <1>1, <2>1, FreshIsBlob, Bounds, CommitIsCommit
<1>3. commits \in Seq(CommitAt(1)) /\ Tip = 1
  BY <1>2 DEF Tip
<1>4. Closed \in WorkAt(1)
  <2>1. 0 \in 0 .. 1
    OBVIOUS
  <2> QED BY <2>1, FreshIsBlob, Bounds, WorkIsWork DEF Closed
<1>5. shut \in OpAt(1) /\ shut.pc = "closed" /\ shut.verb = "none"
  BY IdleIsOp, IdleFields
<1>6. work = [h \in Handles |-> Closed] /\ op = [h \in Handles |-> shut] /\ stashes = {}
  BY DEF Init
<1> HIDE DEF shut
<1>7. Typed
  BY <1>3, <1>4, <1>5, <1>6, Bounds DEF Typed
<1>8. \A h \in Handles : HandleOK(h)
  BY <1>5, <1>6 DEF HandleOK
<1> QED BY <1>7, <1>8 DEF GitInv

LEMMA StutterKeeps == GitInv /\ UNCHANGED vars => GitInv'
BY DEF vars, GitInv, Typed, HandleOK, Tip, Ids

LEMMA ContinueKeeps ==
    ASSUME GitInv, NEW h \in Handles, Continue(h)
    PROVE  GitInv'
BY SettleKeeps, EndsKeep, MergeLandsKeeps, MergeIsNoOpKeeps, ApplyLandsKeeps, RecordKeeps,
   RereadKeeps, GiveUpKeeps DEF Continue

LEMMA NextKeeps == GitInv /\ [Next]_vars => GitInv'
<1> SUFFICES ASSUME GitInv, Next PROVE GitInv'
  BY StutterKeeps
<1> PICK h \in Handles :
      \/ Open(h) \/ Crash(h) \/ Autocommit(h) \/ Discard(h) \/ Index(h) \/ Commit(h)
      \/ \E p \in Paths, v \in Contents \cup {Absent} : Edit(h, p, v)
      \/ \E c \in Ids : Checkout(h, c) \/ Revert(h, c)
      \/ \E id \in StashIds : StashPush(h, id)
      \/ \E s \in stashes : StashPop(h, s) \/ StashDrop(h, s)
      \/ \E s \in Sources : MergeCall(h, s) \/ CherryPick(h, s)
      \/ AbortMerge(h) \/ Continue(h)
  BY DEF Next
<1>1. CASE Open(h) \/ Crash(h) \/ Autocommit(h) \/ Discard(h) \/ Index(h) \/ Commit(h)
           \/ Continue(h)
  BY <1>1, OpenKeeps, CrashKeeps, AutocommitKeeps, DiscardKeeps, IndexKeeps, CommitKeeps,
     ContinueKeeps
<1>2. CASE \E p \in Paths, v \in Contents \cup {Absent} : Edit(h, p, v)
  BY <1>2, EditKeeps
<1>3. CASE \/ \E c \in Ids : Checkout(h, c)
           \/ AbortMerge(h)
           \/ \E id \in StashIds : StashPush(h, id)
  BY <1>3, CheckoutsKeep
<1>4. CASE \/ \E c \in Ids : Revert(h, c)
           \/ \E s \in stashes : StashPop(h, s)
           \/ \E s \in Sources : MergeCall(h, s) \/ CherryPick(h, s)
  BY <1>4, CallersKeep
<1>5. CASE \E s \in stashes : StashDrop(h, s)
  BY <1>5, StashDropKeeps
<1> QED BY <1>1, <1>2, <1>3, <1>4, <1>5

\* The inductive invariant of the agent's git: every blob and record names
\* commits of the session, and a verb to be recorded has its work in the tree.
THEOREM GitInvHolds == Spec => []GitInv
<1>1. Init => GitInv
  BY InitIsInv
<1>2. GitInv /\ [Next]_vars => GitInv'
  BY NextKeeps
<1> QED BY <1>1, <1>2, PTL DEF Spec

\* Every variable has its type.
THEOREM TypesHold == Spec => []TypeOK
<1>1. GitInv => TypeOK
  <2> SUFFICES ASSUME GitInv PROVE TypeOK
    OBVIOUS
  <2>1. Typed /\ Tip \in Nat /\ MaxCommits \in Nat /\ Tip <= MaxCommits
    BY Trees, Bounds DEF GitInv
  <2>2. /\ CommitAt(Tip) \subseteq CommitAt(MaxCommits) /\ WorkAt(Tip) \subseteq WorkAt(MaxCommits)
        /\ OpAt(Tip) \subseteq OpAt(MaxCommits)
    BY <2>1, Grows
  <2>3. BlobAt(MaxCommits) = Blob
    BY DEF BlobAt, Blob, Origins
  <2>4. /\ CommitAt(MaxCommits) = Commits
        /\ WorkAt(MaxCommits) = [head : 0 .. MaxCommits, tree : Tree, blob : Blob]
        /\ OpAt(MaxCommits)
             = [pc : {"closed", "idle", "settle", "land", "record", "again"},
                verb : {"none", "commit", "checkout", "merge", "apply"},
                base : Tree, theirs : Tree,
                source : Sources \cup StashIds \cup {NoSource},
                keys : SUBSET Paths, want : Tree, state : Blob, had : Tree,
                before : Blob, stash : 0 .. MaxStashes]
    BY <2>3 DEF CommitAt, Commits, WorkAt, OpAt, Origins
  <2>5. /\ commits \in Seq(CommitAt(MaxCommits)) /\ work \in [Handles -> WorkAt(MaxCommits)]
        /\ op \in [Handles -> OpAt(MaxCommits)]
    BY <2>1, <2>2 DEF Typed
  <2> QED BY <2>1, <2>4, <2>5 DEF Typed, TypeOK, Stashes
<1> QED BY <1>1, GitInvHolds, PTL

-----------------------------------------------------------------------------
(* Which step ends a verb *)

StepOf(h) ==
    \/ Open(h) \/ Crash(h) \/ Autocommit(h) \/ Discard(h) \/ Index(h) \/ Commit(h)
    \/ \E p \in Paths, v \in Contents \cup {Absent} : Edit(h, p, v)
    \/ \E c \in Ids : Checkout(h, c) \/ Revert(h, c)
    \/ \E id \in StashIds : StashPush(h, id)
    \/ \E s \in stashes : StashPop(h, s) \/ StashDrop(h, s)
    \/ \E s \in Sources : MergeCall(h, s) \/ CherryPick(h, s)
    \/ AbortMerge(h) \/ Continue(h)

\* Other handles' verbs and worktrees stand still.
LEMMA OthersStand ==
    ASSUME GitInv, NEW g \in Handles, StepOf(g), NEW h \in Handles \ {g}
    PROVE  op'[h] = op[h] /\ work'[h] = work[h]
<1>1. CASE Open(g) \/ Crash(g) \/ Autocommit(g) \/ Discard(g) \/ Commit(g)
           \/ \E p \in Paths, v \in Contents \cup {Absent} : Edit(g, p, v)
  BY <1>1 DEF Open, Crash, Autocommit, Discard, Commit, Edit, GitInv, Typed
<1>2. CASE Index(g)
  BY <1>2 DEF Index, Stage, Unstage, ResetIndex, GitInv, Typed
<1>3. ASSUME NEW c, Restoring(g, c)
      PROVE  op'[h] = op[h] /\ work'[h] = work[h]
  BY <1>3 DEF Restoring, GitInv, Typed
<1>4. CASE (\E c \in Ids : Checkout(g, c)) \/ AbortMerge(g) \/ \E id \in StashIds : StashPush(g, id)
  BY <1>3, <1>4 DEF Checkout, AbortMerge, StashPush
<1>5. ASSUME NEW verb, NEW base, NEW theirs, NEW source, NEW stash,
             Calls(g, verb, base, theirs, source, stash)
      PROVE  op'[h] = op[h] /\ work'[h] = work[h]
  BY <1>5 DEF Calls, GitInv, Typed
<1>6. CASE \/ \E c \in Ids : Revert(g, c)
           \/ \E s \in stashes : StashPop(g, s)
           \/ \E s \in Sources : MergeCall(g, s) \/ CherryPick(g, s)
  BY <1>5, <1>6 DEF Revert, StashPop, MergeCall, CherryPick
<1>7. CASE \E s \in stashes : StashDrop(g, s)
  BY <1>7 DEF StashDrop
<1>8. CASE Continue(g)
  <2>1. CASE Settle(g) \/ LandRefused(g) \/ ApplyChangesNothing(g)
    BY <2>1 DEF Settle, LandRefused, ApplyChangesNothing, GitInv, Typed
  <2>2. CASE MergeLands(g) \/ MergeIsNoOp(g) \/ ApplyLands(g)
    BY <2>2 DEF MergeLands, MergeIsNoOp, ApplyLands, Recording, GitInv, Typed
  <2>3. CASE Record(g)
    BY <2>3 DEF Record, GitInv, Typed
  <2>4. CASE Reread(g) \/ GiveUp(g)
    BY <2>4, RereadIs, GiveUpIs DEF Moves, GitInv, Typed
  <2> QED BY <1>8, <2>1, <2>2, <2>3, <2>4 DEF Continue
<1> QED BY <1>1, <1>2, <1>4, <1>6, <1>7, <1>8 DEF StepOf

\* Only a commit at rest has a commit's record before it.
LEMMA OnlyCommitLands ==
    ASSUME GitInv, Next, NEW h \in Handles, CommitLands(h)
    PROVE  Commit(h)
<1>1. Ready(h) /\ op[h].pc = "idle" /\ op'[h].pc = "record" /\ op'[h].verb = "commit"
  BY DEF CommitLands, Ready
<1> PICK g \in Handles : StepOf(g)
  BY DEF Next, StepOf
<1>2. g = h
  BY <1>1, OthersStand
<1>3. StepOf(h) /\ h \in DOMAIN op
  BY <1>2 DEF GitInv, Typed
<1>4. ~ \/ Open(h) \/ Continue(h)
  BY <1>1 DEF Open, Continue, Settle, LandRefused, MergeLands, MergeIsNoOp, ApplyLands,
     ApplyChangesNothing, Record, Reread, GiveUp
<1>5. ~ \/ Crash(h)
  BY <1>1, <1>3, IdleFields DEF Crash
<1>6. ~ \/ Autocommit(h) \/ Discard(h) \/ Index(h)
        \/ \E p \in Paths, v \in Contents \cup {Absent} : Edit(h, p, v)
        \/ \E s \in stashes : StashDrop(h, s)
  BY <1>1 DEF Autocommit, Discard, Index, Stage, Unstage, ResetIndex, Edit, StashDrop
<1>7. ASSUME NEW c, Restoring(h, c)
      PROVE  FALSE
  <2> PICK k \in OpAt(1) : k = Idle
    BY IdleIsOp
  <2>1. op'[h].verb = "checkout"
    BY <1>3, <1>7 DEF Restoring, OpAt
  <2> QED BY <1>1, <2>1
<1>8. ~ \/ \E c \in Ids : Checkout(h, c)
        \/ AbortMerge(h)
        \/ \E id \in StashIds : StashPush(h, id)
  BY <1>7 DEF Checkout, AbortMerge, StashPush
<1>9. ASSUME NEW verb, NEW base, NEW theirs, NEW source, NEW stash,
             Calls(h, verb, base, theirs, source, stash)
      PROVE  FALSE
  <2> PICK k \in OpAt(1) : k = Idle
    BY IdleIsOp
  <2>1. op'[h].pc = "settle"
    BY <1>3, <1>9 DEF Calls, OpAt
  <2> QED BY <1>1, <2>1
<1>10. ~ \/ \E c \in Ids : Revert(h, c)
         \/ \E s \in stashes : StashPop(h, s)
         \/ \E s \in Sources : MergeCall(h, s) \/ CherryPick(h, s)
  BY <1>9 DEF Revert, StashPop, MergeCall, CherryPick
<1> QED BY <1>3, <1>4, <1>5, <1>6, <1>8, <1>10 DEF StepOf

\* What may become of a commit or a checkout that is still to be recorded.
LEMMA RecordEnds ==
    ASSUME GitInv, Next, NEW h \in Handles, op[h].verb \in {"commit", "checkout"}
    PROVE  \/ Record(h) \/ Reread(h) \/ GiveUp(h)
           \/ op'[h].pc = "closed"
           \/ op'[h] = op[h] /\ work'[h] = work[h]
<1>1. op[h].pc \in {"record", "again"} /\ h \in DOMAIN op
  BY DEF GitInv, HandleOK, Typed
<1> PICK g \in Handles : StepOf(g)
  BY DEF Next, StepOf
<1>2. CASE g # h
  BY <1>2, OthersStand
<1>3. CASE g = h
  <2>1. ~ \/ Open(h) \/ Autocommit(h) \/ Discard(h) \/ Index(h) \/ Commit(h)
          \/ \E p \in Paths, v \in Contents \cup {Absent} : Edit(h, p, v)
    BY <1>1 DEF Open, Autocommit, Discard, Index, Stage, Unstage, ResetIndex, Commit, Edit, Ready
  <2>2. ~ \/ \E c \in Ids : Checkout(h, c) \/ Revert(h, c)
          \/ \E id \in StashIds : StashPush(h, id)
          \/ \E s \in stashes : StashPop(h, s) \/ StashDrop(h, s)
          \/ \E s \in Sources : MergeCall(h, s) \/ CherryPick(h, s)
          \/ AbortMerge(h)
    BY <1>1 DEF Checkout, Revert, StashPush, StashPop, StashDrop, MergeCall, CherryPick,
       AbortMerge, Calls, Ready
  <2>3. ~ \/ Settle(h) \/ LandRefused(h) \/ MergeLands(h) \/ MergeIsNoOp(h)
          \/ ApplyLands(h) \/ ApplyChangesNothing(h)
    BY <1>1 DEF Settle, LandRefused, MergeLands, MergeIsNoOp, ApplyLands, ApplyChangesNothing
  <2>4. Crash(h) => op'[h].pc = "closed"
    BY <1>1, IdleFields DEF Crash
  <2> QED BY <1>3, <2>1, <2>2, <2>3, <2>4 DEF StepOf, Continue
<1> QED BY <1>2, <1>3

-----------------------------------------------------------------------------
(* What the verbs promise *)

LEMMA RecordIs ==
    ASSUME GitInv, NEW h \in Handles, Record(h)
    PROVE  /\ work'[h].blob = op[h].state /\ commits'[Tip'].blob = op[h].state
           /\ ~Refused(work[h], op[h].keys)
           /\ \A p \in op[h].keys : work'[h].tree[p] = commits'[Tip'].tree[p]
           /\ \A p \in op[h].keys \ Moved(h) : work'[h].tree[p] = work[h].tree[p]
<1> DEFINE w == Stated(h)
           keys == op[h].keys
<1>1. /\ op[h].pc \in {"record", "again"} /\ Room /\ ~Refused(w, keys)
      /\ Land(w, keys, RecordKind(op[h].verb), 0, {})
      /\ work' = [work EXCEPT ![h] = Landed(w, keys)]
  BY DEF Record
<1>2. /\ Live(w) /\ keys \in SUBSET Paths /\ RecordKind(op[h].verb) \in Kinds
      /\ w.tree = work[h].tree /\ HeadTree(w) = HeadTree(work[h]) /\ w.blob = op[h].state
  BY <1>1, AtItsRecord, KindFacts
<1>3. 0 \in 0 .. Tip /\ {} \in SUBSET Paths
  BY OfHandle
<1>4. Refused(w, keys) = Refused(work[h], keys)
  BY <1>2 DEF Refused, Keyed
<1>5. work'[h] = Landed(w, keys)
  BY <1>1 DEF GitInv, Typed
<1> HIDE DEF w, keys
<1>6. commits'[Tip'].tree = Landing(w, keys) /\ commits'[Tip'].blob = w.blob
  BY <1>1, <1>2, <1>3, LandAdds
<1>7. /\ Landed(w, keys).blob = w.blob
      /\ \A p \in keys : Landed(w, keys).tree[p] = Landing(w, keys)[p]
  BY <1>1, <1>2, LandedIs
<1>8. \A p \in keys \ Moved(h) : Landing(w, keys)[p] = w.tree[p]
  BY <1>2, LandingIs DEF Moved
<1> QED BY <1>1, <1>2, <1>4, <1>5, <1>6, <1>7, <1>8 DEF keys

LEMMA CommitTakes ==
    ASSUME GitInv, NEW h \in Handles, Commit(h)
    PROVE  /\ commits'[Tip'].files = CommitFiles(work[h])
           /\ \A p \in Taken(work[h]) \ Moved(h) :
                commits'[Tip'].tree[p] = Composed(work[h]).tree[p]
           /\ \A p \in Paths \ Taken(work[h]) : commits'[Tip'].tree[p] = commits[Tip].tree[p]
           /\ op'[h].state.unresolved = StillMarked(work[h], CommitFiles(work[h]))
<1> DEFINE w == work[h]
           live == [p \in Paths |-> IF p \in Reverted(w) THEN w.tree[p]
                                    ELSE Landed(Composed(w), Taken(w)).tree[p]]
           state == [Composed(w).blob EXCEPT !.head = NewId]
<1>1. /\ Ready(h) /\ Room /\ Land(Composed(w), Taken(w), "commit", w.blob.head, CommitFiles(w))
      /\ op' = [op EXCEPT ![h] = [Idle EXCEPT !.pc = "record", !.verb = "commit",
                                      !.keys = Reverted(w), !.want = live, !.state = state]]
  BY CommitIs
<1>2. /\ Live(w) /\ w.blob.head \in 0 .. Tip /\ w.blob \in BlobAt(Tip) /\ Tip \in Nat
  BY <1>1, ReadyIs, OfHandle, BlobFields
<1>3. /\ Live(Composed(w)) /\ Taken(w) \in SUBSET Paths /\ CommitFiles(w) \in SUBSET Paths
      /\ HeadTree(Composed(w)) = HeadTree(w)
      /\ Composed(w).blob = CommitBlob(w, CommitFiles(w)) /\ Composed(w).blob \in BlobAt(Tip)
  BY <1>2, ComposedIs, HeadTreeIsTree
<1>4. /\ commits'[Tip'].files = CommitFiles(w)
      /\ commits'[Tip'].tree = Landing(Composed(w), Taken(w))
  BY <1>1, <1>2, <1>3, LandAdds, KindFacts
<1>5. /\ \A p \in Taken(w) \ Moved(h) :
           Landing(Composed(w), Taken(w))[p] = Composed(w).tree[p]
      /\ \A p \in Paths \ Taken(w) :
           Landing(Composed(w), Taken(w))[p] = commits[Tip].tree[p]
  BY <1>3, LandingIs DEF Moved
<1>6. state.unresolved = StillMarked(w, CommitFiles(w))
  <2>1. CommitBlob(w, CommitFiles(w)).unresolved = StillMarked(w, CommitFiles(w))
    BY <1>2 DEF CommitBlob, BlobAt
  <2>2. state.unresolved = Composed(w).blob.unresolved
    BY <1>3 DEF BlobAt
  <2> QED BY <1>3, <2>1, <2>2
<1> HIDE DEF live, state
<1>7. op'[h].state = state
  <2> PICK k \in OpAt(1) : k = Idle
    BY IdleIsOp
  <2>1. h \in DOMAIN op
    BY DEF GitInv, Typed
  <2> QED BY <1>1, <2>1 DEF OpAt
<1> QED BY <1>4, <1>5, <1>6, <1>7

\* Made on its own head, a commit holds its files as the tree had them and
\* every other modified path as the agent's head has it.
THEOREM LeftOutStaysOutHolds == Spec => LeftOutStaysOut
<1>1. ASSUME GitInv, [Next]_vars, NEW h \in Handles, CommitLands(h), work[h].head = Tip
      PROVE  LET made == commits'[Tip'] IN
             /\ \A p \in made.files : made.tree[p] = work[h].tree[p]
             /\ \A p \in Modified(work[h]) \ made.files :
                   made.tree[p] = RefTree(work[h].blob)[p]
  <2>1. Next
    BY <1>1 DEF vars, CommitLands, Ready
  <2>2. Commit(h) /\ Live(work[h])
    <3>1. Commit(h)
      BY <1>1, <2>1, OnlyCommitLands
    <3>2. Ready(h)
      BY <1>1 DEF CommitLands
    <3> QED BY <1>1, <3>1, <3>2, ReadyIs
  <2>3. Moved(h) = {}
    BY <1>1 DEF Moved, HeadTree
  <2>4. /\ commits'[Tip'].files = CommitFiles(work[h])
        /\ \A p \in Taken(work[h]) : commits'[Tip'].tree[p] = Composed(work[h]).tree[p]
    BY <1>1, <2>2, <2>3, CommitTakes
  <2> PICK w : w = work[h]
    OBVIOUS
  <2>5. /\ Composed(w).tree = PutBack(w, Reverted(w))
        /\ \A p \in CommitFiles(w) : PutBack(w, Reverted(w))[p] = w.tree[p]
        /\ \A p \in Reverted(w) : PutBack(w, Reverted(w))[p] = RefTree(w.blob)[p]
    BY <2>2, ComposedIs
  <2> QED BY <2>4, <2>5 DEF Taken, Reverted
<1>2. GitInv /\ [Next]_vars =>
        [\A h \in Handles : CommitLands(h) /\ work[h].head = Tip =>
           LET made == commits'[Tip'] IN
           /\ \A p \in made.files : made.tree[p] = work[h].tree[p]
           /\ \A p \in Modified(work[h]) \ made.files :
                 made.tree[p] = RefTree(work[h].blob)[p]]_vars
  BY <1>1
<1> QED BY <1>2, GitInvHolds, PTL DEF Spec, LeftOutStaysOut

\* Short of a crash each edit a commit left out is in the tree when its record
\* ends, or was committed by another handle whose commit took the record.
THEOREM WorkIsKeptHolds == Spec => WorkIsKept
<1>1. ASSUME GitInv, [Next]_vars, NEW h \in Handles, op[h].verb = "commit",
             op'[h].pc \in {"again", "idle"}, NEW p \in op[h].keys
      PROVE  \/ work'[h].tree[p] = op[h].want[p]
             \/ p \in Moved(h) /\ ~Refused(work[h], op[h].keys)
  <2>1. op[h].pc \in {"record", "again"} /\ work[h].tree[p] = op[h].want[p]
    BY <1>1 DEF GitInv, HandleOK
  <2>2. CASE UNCHANGED vars
    BY <2>1, <2>2 DEF vars
  <2>3. CASE Next
    <3>1. \/ Record(h) \/ Reread(h) \/ GiveUp(h)
          \/ op'[h] = op[h] /\ work'[h] = work[h]
      BY <1>1, <2>3, RecordEnds
    <3>2. CASE Record(h)
      BY <1>1, <2>1, <3>2, RecordIs
    <3>3. CASE Reread(h)
      BY <1>1, <3>3, RereadIs
    <3>4. CASE GiveUp(h)
      BY <1>1, <2>1, <3>4, GiveUpIs
    <3> QED BY <2>1, <3>1, <3>2, <3>3, <3>4
  <2> QED BY <1>1, <2>2, <2>3
<1>2. GitInv /\ [Next]_vars =>
        [\A h \in Handles : op[h].verb = "commit" /\ op'[h].pc \in {"again", "idle"} =>
           \A p \in op[h].keys :
              \/ work'[h].tree[p] = op[h].want[p]
              \/ p \in Moved(h) /\ ~Refused(work[h], op[h].keys)]_vars
  BY <1>1
<1> QED BY <1>2, GitInvHolds, PTL DEF Spec, WorkIsKept

\* Short of a crash a checkout leaves every path it touched and the index the
\* target's, or all of them as they were.
THEOREM CheckoutAllOrNothingHolds == Spec => CheckoutAllOrNothing
<1> DEFINE Whole(h) ==
             /\ work'[h].blob = op[h].state /\ commits'[Tip'].blob = op[h].state
             /\ \A p \in op[h].keys \ Moved(h) :
                   /\ work'[h].tree[p] = op[h].want[p]
                   /\ commits'[Tip'].tree[p] = op[h].want[p]
           Undone(h) ==
             /\ work'[h].blob = op[h].before
             /\ \A p \in op[h].keys : work'[h].tree[p] = op[h].had[p]
<1>1. ASSUME GitInv, [Next]_vars, NEW h \in Handles, op[h].verb = "checkout", op'[h].pc = "idle"
      PROVE  Whole(h) \/ Undone(h)
  <2>1. op[h].pc \in {"record", "again"}
        /\ \A p \in op[h].keys : work[h].tree[p] = op[h].want[p]
    BY <1>1 DEF GitInv, HandleOK
  <2>2. Next /\ op'[h] # op[h]
    BY <1>1, <2>1 DEF vars
  <2>3. Record(h) \/ Reread(h) \/ GiveUp(h)
    BY <1>1, <2>2, RecordEnds
  <2>4. ~Reread(h)
    BY <1>1, RereadIs
  <2>5. CASE Record(h)
    BY <1>1, <2>1, <2>5, RecordIs
  <2>6. CASE GiveUp(h)
    BY <1>1, <2>6, GiveUpIs
  <2> QED BY <2>3, <2>4, <2>5, <2>6
<1>2. GitInv /\ [Next]_vars =>
        [\A h \in Handles : op[h].verb = "checkout" /\ op'[h].pc = "idle" =>
           \/ /\ work'[h].blob = op[h].state /\ commits'[Tip'].blob = op[h].state
              /\ \A p \in op[h].keys \ Moved(h) :
                    /\ work'[h].tree[p] = op[h].want[p]
                    /\ commits'[Tip'].tree[p] = op[h].want[p]
           \/ /\ work'[h].blob = op[h].before
              /\ \A p \in op[h].keys : work'[h].tree[p] = op[h].had[p]]_vars
  BY <1>1
<1> QED BY <1>2, GitInvHolds, PTL DEF Spec, CheckoutAllOrNothing

\* A merge ends for a path only where its markers are gone from what a commit
\* took or put back.
THEOREM MarkersOutlastTheCommitHolds == Spec => MarkersOutlastTheCommit
<1>1. ASSUME GitInv, [Next]_vars, NEW h \in Handles, CommitLands(h),
             NEW p \in (work[h].blob.unresolved \ op'[h].state.unresolved) \ Moved(h)
      PROVE  \/ commits'[Tip'].tree[p] # Marked
             \/ p \notin Modified(work[h]) /\ work[h].tree[p] # HeadTree(work[h])[p]
  <2>1. Next
    BY <1>1 DEF vars, CommitLands, Ready
  <2>2. Commit(h) /\ Ready(h)
    BY <1>1, <2>1, OnlyCommitLands DEF CommitLands
  <2>3. p \in Paths
    BY <1>1, OfHandle, BlobFields
  <2>4. /\ p \in Taken(work[h]) => commits'[Tip'].tree[p] = Composed(work[h]).tree[p]
        /\ p \notin Taken(work[h]) => commits'[Tip'].tree[p] = HeadTree(work[h])[p]
        /\ p \in work[h].blob.unresolved \ StillMarked(work[h], CommitFiles(work[h]))
    BY <1>1, <2>2, <2>3, CommitTakes DEF Moved
  <2> PICK w : w = work[h]
    OBVIOUS
  <2>5. /\ Composed(w).tree = PutBack(w, Reverted(w))
        /\ \A q \in CommitFiles(w) : PutBack(w, Reverted(w))[q] = w.tree[q]
        /\ \A q \in Reverted(w) : PutBack(w, Reverted(w))[q] = RefTree(w.blob)[q]
    BY <1>1, <2>2, ReadyIs, ComposedIs
  <2>6. /\ p \in CommitFiles(w) => w.tree[p] # Marked
        /\ p \notin CommitFiles(w) => RefTree(w.blob)[p] # Marked
    BY <2>4 DEF StillMarked
  <2>7. p \in Modified(w) <=> p \in Taken(w)
    BY DEF Taken, Reverted, CommitFiles
  <2>8. CASE p \in Taken(w)
    BY <2>4, <2>5, <2>6, <2>8 DEF Taken, Reverted
  <2>9. CASE p \notin Taken(w)
    <3>1. w.tree[p] = RefTree(w.blob)[p] /\ p \notin CommitFiles(w)
      BY <2>3, <2>7, <2>9 DEF Modified, Taken
    <3> QED BY <2>4, <2>6, <2>7, <2>9, <3>1
  <2> QED BY <2>8, <2>9
<1>2. GitInv /\ [Next]_vars =>
        [\A h \in Handles : CommitLands(h) =>
           \A p \in (work[h].blob.unresolved \ op'[h].state.unresolved) \ Moved(h) :
              \/ commits'[Tip'].tree[p] # Marked
              \/ p \notin Modified(work[h]) /\ work[h].tree[p] # HeadTree(work[h])[p]]_vars
  BY <1>1
<1> QED BY <1>2, GitInvHolds, PTL DEF Spec, MarkersOutlastTheCommit
=============================================================================
