------------------------------ MODULE AgentGit ------------------------------
(***************************************************************************)
(* The agent's git: an index and a commit graph kept as metadata over a    *)
(* session's own history.                                                  *)
(*                                                                         *)
(* A reserved key, the blob, holds the agent's head, its staged paths and  *)
(* the merge it has outstanding.  The framework commits the whole tree and *)
(* the blob when it likes; an agent's verb makes a keyed commit of its own *)
(* and then a second one that records it, and another handle of the        *)
(* session may commit between the two.  Ignored paths, paths a view hides, *)
(* names that nest in one another and the agent's tags are left out.       *)
(***************************************************************************)
EXTENDS Integers, Sequences, FiniteSets

CONSTANTS Handles,     \* worktrees open on the one session
          Paths,       \* the files the agent can see
          Contents,    \* what a file may hold
          Absent,      \* the content of a file that is not there
          Marked,      \* text carrying the conflict markers a merge wrote
          Sources,     \* other sessions' agent commits, to merge or pick
          SourceBase(_), SourceTree(_), \* where each began, and what it is
          NoSource,
          Forked,      \* whether the session began as a fork of another
          MaxCommits,  \* bound: commits on the session
          MaxStashes   \* bound: stashes ever pushed

Content == Contents \cup {Absent, Marked}
Tree == [Paths -> Content]
Empty == [p \in Paths |-> Absent]

StashIds == 1 .. MaxStashes

ASSUME AgentGitAssumption ==
    /\ MaxCommits \in Nat \ {0} /\ MaxStashes \in Nat
    /\ Absent # Marked /\ {Absent, Marked} \cap Contents = {}
    /\ NoSource \notin Sources \cup StashIds /\ Sources \cap StashIds = {}
    /\ Forked \in BOOLEAN

\* What another session began with and came to are trees of these paths.
ASSUME SourcesAssumption == \A s \in Sources : SourceBase(s) \in Tree /\ SourceTree(s) \in Tree

VARIABLES commits,  \* the session's history: commit i + 1 follows commit i
          work,     \* each handle's worktree and the blob in it
          op,       \* each handle's verb under way
          stashes   \* the stash branches of the session

vars == <<commits, work, op, stashes>>

Ids == 1 .. Len(commits)
Tip == Len(commits)
NewId == Tip + 1
Room == Tip < MaxCommits

\* The blob: 0 is no commit.
Blob == [head : 0 .. MaxCommits, base : 0 .. 1, staged : SUBSET Paths,
         source : Sources \cup StashIds \cup {NoSource}, unresolved : SUBSET Paths,
         pre : 0 .. MaxCommits]

FreshBlob == [head |-> 0, base |-> IF Forked THEN 1 ELSE 0, staged |-> {},
              source |-> NoSource, unresolved |-> {}, pre |-> 0]

\* The verbs an agent's commit may be made by, and the rest.
AgentKinds == {"commit", "merge", "apply"}
Kinds == AgentKinds \cup {"fork", "auto", "restore", "checkout", "merge-record"}

IsAgentCommit(c) == commits[c].kind \in AgentKinds

CommitRecord(kind, tree, blob, parent, files, source) ==
    [kind |-> kind, tree |-> tree, blob |-> blob, parent |-> parent, files |-> files,
     source |-> source]

\* No verb under way.
Idle == [pc |-> "idle", verb |-> "none", base |-> Empty, theirs |-> Empty,
         source |-> NoSource, keys |-> {}, want |-> Empty, state |-> FreshBlob,
         had |-> Empty, before |-> FreshBlob, stash |-> 0]

Closed == [head |-> 0, tree |-> Empty, blob |-> FreshBlob]

\* A handle opened, or refreshed, at a commit.
OpenAt(c) == [head |-> c, tree |-> commits[c].tree, blob |-> commits[c].blob]

Init ==
    /\ \E tree \in [Paths -> Contents \cup {Absent}] :
          /\ ~Forked => tree = Empty
          /\ commits = <<CommitRecord(IF Forked THEN "fork" ELSE "auto", tree, FreshBlob, 0,
                                      {}, NoSource)>>
    /\ work = [h \in Handles |-> Closed]
    /\ op = [h \in Handles |-> [Idle EXCEPT !.pc = "closed"]]
    /\ stashes = {}

-----------------------------------------------------------------------------
(* Trees and the store's keyed commit. *)

Contested(b, o, t) == o # b /\ t # b /\ o # t

\* An ordinary commit that lost its race keeps whichever side changed.
Ours(b, o, t) == IF o = b THEN t ELSE o

\* A merge writes markers where both sides changed.
Merged(base, ours, theirs) ==
    [p \in Paths |-> IF Contested(base[p], ours[p], theirs[p]) THEN Marked
                     ELSE Ours(base[p], ours[p], theirs[p])]

Conflicts(base, ours, theirs) == {p \in Paths : Contested(base[p], ours[p], theirs[p])}

HeadTree(w) == commits[w.head].tree

Dirty(w) == w.tree # HeadTree(w) \/ w.blob # commits[w.head].blob

\* What a keyed commit of these paths would commit, and over what.
Keyed(w, keys) == [p \in Paths |-> IF p \in keys THEN w.tree[p] ELSE HeadTree(w)[p]]

Refused(w, keys) == Conflicts(HeadTree(w), Keyed(w, keys), commits[Tip].tree) # {}

Landing(w, keys) ==
    [p \in Paths |-> Ours(HeadTree(w)[p], Keyed(w, keys)[p], commits[Tip].tree[p])]

\* The blob rides on every commit, ours whole.
Land(w, keys, kind, parent, files) ==
    commits' = Append(commits,
                      CommitRecord(kind, Landing(w, keys), w.blob, parent, files, NoSource))

\* The worktree behind that commit: what it did not take stays over it.
Landed(w, keys) ==
    [w EXCEPT !.head = NewId,
              !.tree = [p \in Paths |-> IF w.tree[p] # HeadTree(w)[p] /\ p \notin keys
                                        THEN w.tree[p] ELSE Landing(w, keys)[p]]]

-----------------------------------------------------------------------------
(* The working tree against the agent's head. *)

RefTree(blob) ==
    IF blob.head # 0 THEN commits[blob.head].tree
    ELSE IF blob.base # 0 THEN commits[blob.base].tree ELSE Empty

Modified(w) == {p \in Paths : w.tree[p] # RefTree(w.blob)[p]}

\* The marked paths of the merge outstanding here.
Outstanding(w) == {p \in w.blob.unresolved : w.tree[p] = Marked}

\* What a merge, revert, cherry-pick or stash asks of the agent first.
AgentClean(w) ==
    /\ Modified(w) \cap w.blob.staged = {}
    /\ w.blob.head # 0 => Modified(w) = {}

Known(w, p) == w.tree[p] # Absent \/ RefTree(w.blob)[p] # Absent

Ready(h) == op[h].pc = "idle"

-----------------------------------------------------------------------------
(* The handle, the agent's edits, and the framework's commits. *)

Open(h) ==
    /\ op[h].pc = "closed"
    /\ work' = [work EXCEPT ![h] = OpenAt(Tip)]
    /\ op' = [op EXCEPT ![h] = Idle]
    /\ UNCHANGED <<commits, stashes>>

\* The process dies between two steps, or closes: what was not committed goes.
Crash(h) ==
    /\ op[h].pc # "closed"
    /\ work' = [work EXCEPT ![h] = Closed]
    /\ op' = [op EXCEPT ![h] = [Idle EXCEPT !.pc = "closed"]]
    /\ UNCHANGED <<commits, stashes>>

Edit(h, p, v) ==
    /\ Ready(h) /\ work[h].tree[p] # v
    /\ work' = [work EXCEPT ![h].tree[p] = v]
    /\ UNCHANGED <<commits, op, stashes>>

\* The workspace's commit after a tool call or a turn: the tree and the blob.
Autocommit(h) ==
    /\ Ready(h) /\ Dirty(work[h]) /\ Room
    /\ ~Refused(work[h], Paths)
    /\ Land(work[h], Paths, "auto", 0, {})
    /\ work' = [work EXCEPT ![h] = Landed(@, Paths)]
    /\ UNCHANGED <<op, stashes>>

\* ws.discard: the buffer goes, the blob in it too.
Discard(h) ==
    /\ Ready(h) /\ Dirty(work[h])
    /\ work' = [work EXCEPT ![h] = OpenAt(@.head)]
    /\ UNCHANGED <<commits, op, stashes>>

-----------------------------------------------------------------------------
(* The index. *)

Stage(h, p) ==
    /\ Ready(h) /\ Known(work[h], p)
    /\ p \notin work[h].blob.staged
    /\ work' = [work EXCEPT ![h].blob.staged = @ \cup {p}]
    /\ UNCHANGED <<commits, op, stashes>>

Unstage(h, p) ==
    /\ Ready(h) /\ Known(work[h], p)
    /\ p \in work[h].blob.staged
    /\ work' = [work EXCEPT ![h].blob.staged = @ \ {p}]
    /\ UNCHANGED <<commits, op, stashes>>

ResetIndex(h) ==
    /\ Ready(h) /\ work[h].blob.staged # {}
    /\ work' = [work EXCEPT ![h].blob.staged = {}]
    /\ UNCHANGED <<commits, op, stashes>>

-----------------------------------------------------------------------------
(* commit: the agent's commit first, the record of it after. *)

\* The staged paths that differ from the agent's head, or all that do.
CommitFiles(w) == IF w.blob.staged = {} THEN Modified(w) ELSE Modified(w) \cap w.blob.staged

\* Mutant: a path whose live text has lost its markers counts as resolved.
BadStillMarked(w, files) == {p \in w.blob.unresolved : w.tree[p] = Marked}

\* Judged by what the commit takes: the live text of its files, and the
\* agent's head for the rest.
StillMarked(w, files) ==
    {p \in w.blob.unresolved :
        (IF p \in files THEN w.tree[p] ELSE RefTree(w.blob)[p]) = Marked}

\* The composition closed, with the head it had.
CommitBlob(w, files) ==
    LET left == StillMarked(w, files) IN
    [w.blob EXCEPT !.staged = {}, !.unresolved = left,
                   !.source = IF left = {} THEN NoSource ELSE @,
                   !.pre = IF left = {} THEN 0 ELSE @]

\* Mutant: what was left out and already flushed stays in the tree.
BadPutBack(w, reverted) == w.tree

PutBack(w, reverted) ==
    [p \in Paths |-> IF p \in reverted THEN RefTree(w.blob)[p] ELSE w.tree[p]]

\* What the commit leaves out is put back to the agent's head while it is
\* made, and live again after.  One that the store refuses leaves the tree
\* and the blob as they were.
Commit(h) ==
    LET w == work[h]
        files == CommitFiles(w)
        reverted == Modified(w) \ files
        keys == files \cup reverted
        staged == [w EXCEPT !.tree = PutBack(w, reverted), !.blob = CommitBlob(w, files)]
        after == Landed(staged, keys)
        live == [p \in Paths |-> IF p \in reverted THEN w.tree[p] ELSE after.tree[p]]
        state == [staged.blob EXCEPT !.head = NewId]
    IN /\ Ready(h) /\ Room /\ files # {}
       /\ ~Refused(staged, keys)
       /\ Land(staged, keys, "commit", w.blob.head, files)
       /\ work' = [work EXCEPT ![h] = [after EXCEPT !.tree = live, !.blob = state]]
       /\ op' = [op EXCEPT ![h] = [Idle EXCEPT !.pc = "record", !.verb = "commit",
                                               !.keys = reverted, !.want = live,
                                               !.state = state]]
       /\ UNCHANGED stashes

-----------------------------------------------------------------------------
(* checkout, and what is restored by it. *)

\* The tree and the index become an agent commit's; nothing lands yet.
Restoring(h, c) ==
    LET w == work[h]
        keys == {p \in Paths : w.tree[p] # commits[c].tree[p]}
        state == [w.blob EXCEPT !.head = c, !.staged = {}, !.source = NoSource,
                                !.unresolved = {}, !.pre = 0]
    IN /\ work' = [work EXCEPT ![h].tree = commits[c].tree, ![h].blob = state]
       /\ op' = [op EXCEPT ![h] = [Idle EXCEPT !.pc = "record", !.verb = "checkout",
                                               !.keys = keys, !.want = commits[c].tree,
                                               !.state = state, !.had = w.tree,
                                               !.before = w.blob]]

Checkout(h, c) ==
    /\ Ready(h) /\ Outstanding(work[h]) = {}
    /\ c <= work[h].head /\ IsAgentCommit(c)
    /\ Restoring(h, c)
    /\ UNCHANGED <<commits, stashes>>

\* merge --abort: back to the head the merge landed on.
AbortMerge(h) ==
    /\ Ready(h) /\ Outstanding(work[h]) # {}
    /\ work[h].blob.pre # 0 /\ IsAgentCommit(work[h].blob.pre)
    /\ Restoring(h, work[h].blob.pre)
    /\ UNCHANGED <<commits, stashes>>

\* stash push: a branch off the agent's head holding what differs from it,
\* then a checkout of that head.
StashPush(h, id) ==
    LET w == work[h] IN
    /\ Ready(h) /\ Outstanding(w) = {}
    /\ w.blob.head # 0 /\ IsAgentCommit(w.blob.head) /\ Modified(w) # {}
    /\ \A s \in stashes : s.id < id
    /\ stashes' = stashes \cup {[id |-> id, base |-> RefTree(w.blob), tree |-> w.tree]}
    /\ Restoring(h, w.blob.head)
    /\ UNCHANGED commits

StashDrop(h, s) ==
    /\ Ready(h) /\ s \in stashes
    /\ stashes' = stashes \ {s}
    /\ UNCHANGED <<commits, work, op>>

-----------------------------------------------------------------------------
(* merge, revert, cherry-pick and stash pop. *)

\* The verb commits what is uncommitted, then calls the workspace's own.
Calls(h, verb, base, theirs, source, stash) ==
    /\ Ready(h)
    /\ op' = [op EXCEPT ![h] = [Idle EXCEPT !.pc = "settle", !.verb = verb, !.base = base,
                                            !.theirs = theirs, !.source = source,
                                            !.stash = stash]]
    /\ UNCHANGED <<commits, work, stashes>>

MergeCall(h, s) == Calls(h, "merge", SourceBase(s), SourceTree(s), s, 0)

StashPop(h, s) ==
    /\ s \in stashes /\ Outstanding(work[h]) = {}
    /\ Calls(h, "merge", s.base, s.tree, s.id, s.id)

\* A commit's change starts at its first parent in the agent's graph.
ChangeBase(c) ==
    IF commits[c].parent # 0 THEN commits[commits[c].parent].tree
    ELSE IF Forked THEN commits[1].tree ELSE Empty

Revert(h, c) ==
    /\ c <= Tip /\ IsAgentCommit(c)
    /\ Calls(h, "apply", commits[c].tree, ChangeBase(c), NoSource, 0)

CherryPick(h, s) == Calls(h, "apply", SourceBase(s), SourceTree(s), s, 0)

Settle(h) ==
    LET w == work[h] IN
    /\ op[h].pc = "settle"
    /\ \/ /\ ~Dirty(w)
          /\ op' = [op EXCEPT ![h].pc = "land"]
          /\ UNCHANGED <<commits, work>>
       \/ /\ Dirty(w) /\ Refused(w, Paths)
          /\ op' = [op EXCEPT ![h] = Idle]
          /\ UNCHANGED <<commits, work>>
       \/ /\ Dirty(w) /\ ~Refused(w, Paths) /\ Room
          /\ Land(w, Paths, "auto", 0, {})
          /\ work' = [work EXCEPT ![h] = Landed(@, Paths)]
          /\ op' = [op EXCEPT ![h].pc = "land"]
    /\ UNCHANGED stashes

MayLand(h) == AgentClean(work[h]) /\ Outstanding(work[h]) = {}

LandRefused(h) ==
    /\ op[h].pc = "land" /\ ~MayLand(h)
    /\ op' = [op EXCEPT ![h] = Idle]
    /\ UNCHANGED <<commits, work, stashes>>

\* The merge commit becomes the agent's head, the paths it marked the merge
\* outstanding.
Recording(h, blob, commit, marked) ==
    op' = [op EXCEPT ![h].pc = "record",
                     ![h].state = [blob EXCEPT !.head = commit, !.unresolved = marked,
                                      !.source = IF marked = {} THEN NoSource ELSE op[h].source,
                                      !.pre = IF marked = {} THEN 0 ELSE blob.head]]

AlreadyMerged(source) == \E c \in Ids : commits[c].kind = "merge" /\ commits[c].source = source

\* Merged into the session as it is now, whose blob it keeps.
MergeLands(h) ==
    LET tip == commits[Tip]
        tree == Merged(op[h].base, tip.tree, op[h].theirs)
    IN /\ op[h].pc = "land" /\ op[h].verb = "merge" /\ MayLand(h) /\ Room
       /\ ~AlreadyMerged(op[h].source)
       /\ commits' = Append(commits, CommitRecord("merge", tree, tip.blob, work[h].blob.head,
                                                  {}, op[h].source))
       /\ work' = [work EXCEPT ![h] = [head |-> NewId, tree |-> tree, blob |-> tip.blob]]
       /\ Recording(h, tip.blob, NewId, Conflicts(op[h].base, tip.tree, op[h].theirs))
       /\ UNCHANGED stashes

\* Nothing to bring: the handle's own head is what the merge reports.
MergeIsNoOp(h) ==
    /\ op[h].pc = "land" /\ op[h].verb = "merge" /\ MayLand(h)
    /\ AlreadyMerged(op[h].source)
    /\ Recording(h, work[h].blob, work[h].head, {})
    /\ UNCHANGED <<commits, work, stashes>>

\* Resolved against this handle's tree, then an ordinary commit.
Applied(h) ==
    [work[h] EXCEPT !.tree = [p \in Paths |->
        IF op[h].base[p] = op[h].theirs[p] THEN @[p]
        ELSE Merged(op[h].base, @, op[h].theirs)[p]]]

ApplyLands(h) ==
    LET w == Applied(h) IN
    /\ op[h].pc = "land" /\ op[h].verb = "apply" /\ MayLand(h) /\ Room
    /\ w.tree # work[h].tree /\ ~Refused(w, Paths)
    /\ Land(w, Paths, "apply", w.blob.head, {})
    /\ work' = [work EXCEPT ![h] = Landed(w, Paths)]
    /\ Recording(h, w.blob, NewId, Conflicts(op[h].base, work[h].tree, op[h].theirs))
    /\ UNCHANGED stashes

ApplyChangesNothing(h) ==
    /\ op[h].pc = "land" /\ op[h].verb = "apply" /\ MayLand(h)
    /\ Applied(h).tree = work[h].tree \/ Refused(Applied(h), Paths)
    /\ op' = [op EXCEPT ![h] = Idle]
    /\ UNCHANGED <<commits, work, stashes>>

-----------------------------------------------------------------------------
(* The record every verb ends with, and the second try it gets. *)

RecordKind(verb) == CASE verb = "commit" -> "restore"
                      [] verb = "checkout" -> "checkout"
                      [] OTHER -> "merge-record"

Stated(h) == [work[h] EXCEPT !.blob = op[h].state]

\* A pop that merged clean drops its stash.
Popped(h) == {s \in stashes : s.id = op[h].stash /\ op[h].state.unresolved = {}}

Record(h) ==
    LET w == Stated(h) IN
    /\ op[h].pc \in {"record", "again"} /\ Room
    /\ ~Refused(w, op[h].keys)
    /\ Land(w, op[h].keys, RecordKind(op[h].verb), 0, {})
    /\ work' = [work EXCEPT ![h] = Landed(w, op[h].keys)]
    /\ op' = [op EXCEPT ![h] = Idle]
    /\ stashes' = stashes \ Popped(h)

Overlaid(tree, over, keys) == [p \in Paths |-> IF p \in keys THEN over[p] ELSE tree[p]]

\* Mutant: the head that won is read and nothing put back over it.
BadReread(h) ==
    LET w == OpenAt(Tip) IN
    /\ op[h].pc = "record" /\ Refused(Stated(h), op[h].keys)
    /\ work' = [work EXCEPT ![h] = [w EXCEPT !.blob = op[h].state]]
    /\ op' = [op EXCEPT ![h].pc = "again"]
    /\ UNCHANGED <<commits, stashes>>

\* Refused: the head that won is read, and the verb's tree and blob go over it.
Reread(h) ==
    LET w == OpenAt(Tip) IN
    /\ op[h].pc = "record" /\ Refused(Stated(h), op[h].keys)
    /\ work' = [work EXCEPT ![h] = [w EXCEPT !.blob = op[h].state,
                                             !.tree = Overlaid(@, op[h].want, op[h].keys)]]
    /\ op' = [op EXCEPT ![h].pc = "again"]
    /\ UNCHANGED <<commits, stashes>>

\* Mutant: a checkout refused twice leaves the target in the tree.
BadGiveUp(h) ==
    LET w == work[h] IN
    /\ op[h].pc = "again" /\ Refused(Stated(h), op[h].keys)
    /\ work' = [work EXCEPT ![h] =
           IF op[h].verb = "checkout" THEN [w EXCEPT !.blob = op[h].before]
           ELSE [w EXCEPT !.blob = commits[w.head].blob]]
    /\ op' = [op EXCEPT ![h] = Idle]
    /\ UNCHANGED <<commits, stashes>>

\* Refused again: a checkout puts the tree and the blob back; a verb that
\* landed takes the store's blob and says so.
GiveUp(h) ==
    LET w == work[h] IN
    /\ op[h].pc = "again" /\ Refused(Stated(h), op[h].keys)
    /\ work' = [work EXCEPT ![h] =
           IF op[h].verb = "checkout"
           THEN [w EXCEPT !.blob = op[h].before, !.tree = Overlaid(@, op[h].had, op[h].keys)]
           ELSE [w EXCEPT !.blob = commits[w.head].blob]]
    /\ op' = [op EXCEPT ![h] = Idle]
    /\ UNCHANGED <<commits, stashes>>

-----------------------------------------------------------------------------

Continue(h) ==
    \/ Settle(h) \/ LandRefused(h) \/ MergeLands(h) \/ MergeIsNoOp(h) \/ ApplyLands(h)
    \/ ApplyChangesNothing(h) \/ Record(h) \/ Reread(h) \/ GiveUp(h)

Index(h) ==
    \/ \E p \in Paths : Stage(h, p) \/ Unstage(h, p)
    \/ ResetIndex(h)

Next ==
    \E h \in Handles :
        \/ Open(h) \/ Crash(h) \/ Autocommit(h) \/ Discard(h) \/ Index(h) \/ Commit(h)
        \/ \E p \in Paths, v \in Contents \cup {Absent} : Edit(h, p, v)
        \/ \E c \in Ids : Checkout(h, c) \/ Revert(h, c)
        \/ \E id \in StashIds : StashPush(h, id)
        \/ \E s \in stashes : StashPop(h, s) \/ StashDrop(h, s)
        \/ \E s \in Sources : MergeCall(h, s) \/ CherryPick(h, s)
        \/ AbortMerge(h) \/ Continue(h)

Spec == Init /\ [][Next]_vars

-----------------------------------------------------------------------------
(* What is promised. *)

Commits == [kind : Kinds, tree : Tree, blob : Blob, parent : 0 .. MaxCommits,
            files : SUBSET Paths, source : Sources \cup StashIds \cup {NoSource}]

\* Every variable has its type.
TypeOK ==
    /\ commits \in Seq(Commits) /\ Tip \in 1 .. MaxCommits
    /\ work \in [Handles -> [head : 0 .. MaxCommits, tree : Tree, blob : Blob]]
    /\ op \in [Handles -> [pc : {"closed", "idle", "settle", "land", "record", "again"},
                           verb : {"none", "commit", "checkout", "merge", "apply"},
                           base : Tree, theirs : Tree,
                           source : Sources \cup StashIds \cup {NoSource},
                           keys : SUBSET Paths, want : Tree, state : Blob, had : Tree,
                           before : Blob, stash : 0 .. MaxStashes]]
    /\ stashes \in SUBSET [id : StashIds, base : Tree, tree : Tree]

CommitLands(h) == Ready(h) /\ op'[h].pc = "record" /\ op'[h].verb = "commit"

\* What the agent left out of a commit stays out of it: made on the handle's
\* own head, it holds its files as the tree had them and every other modified
\* path as the agent's head has it, work the framework had flushed included.
LeftOutStaysOut ==
    [][\A h \in Handles : CommitLands(h) /\ work[h].head = Tip =>
          LET made == commits'[Tip'] IN
          /\ \A p \in made.files : made.tree[p] = work[h].tree[p]
          /\ \A p \in Modified(work[h]) \ made.files :
                made.tree[p] = RefTree(work[h].blob)[p]]_vars

\* Paths another handle has committed since this one read the head.
Moved(h) == {p \in Paths : commits[Tip].tree[p] # HeadTree(work[h])[p]}

\* "The working tree keeps the agent's work in progress": however the record
\* of a commit ends short of a crash, each edit it left out is in the tree;
\* where the store took the record over another handle's commit of that very
\* path, the edit or that commit.
WorkIsKept ==
    [][\A h \in Handles : op[h].verb = "commit" /\ op'[h].pc \in {"again", "idle"} =>
          \A p \in op[h].keys :
             \/ work'[h].tree[p] = op[h].want[p]
             \/ p \in Moved(h) /\ ~Refused(work[h], op[h].keys)]_vars

\* A checkout happens whole or not at all: when it ends short of a crash, every
\* path it touched and the index are the target's, in the store as in the tree,
\* but for a path another handle has committed; or all of them are what they
\* were before it.
CheckoutAllOrNothing ==
    [][\A h \in Handles : op[h].verb = "checkout" /\ op'[h].pc = "idle" =>
          \/ /\ work'[h].blob = op[h].state /\ commits'[Tip'].blob = op[h].state
             /\ \A p \in op[h].keys \ Moved(h) :
                   /\ work'[h].tree[p] = op[h].want[p]
                   /\ commits'[Tip'].tree[p] = op[h].want[p]
          \/ /\ work'[h].blob = op[h].before
             /\ \A p \in op[h].keys : work'[h].tree[p] = op[h].had[p]]_vars

\* A merge ends for a path only where its markers are gone from what was
\* committed: a commit that leaves a fixed file out still has it to finish.
\* A path another handle has committed is that handle's, and one fixed in the
\* tree alone, to the very text of the agent's head, no commit of it takes.
MarkersOutlastTheCommit ==
    [][\A h \in Handles : CommitLands(h) =>
          \A p \in (work[h].blob.unresolved \ op'[h].state.unresolved) \ Moved(h) :
             \/ commits'[Tip'].tree[p] # Marked
             \/ p \notin Modified(work[h]) /\ work[h].tree[p] # HeadTree(work[h])[p]]_vars

(* What the documentation says and the code does not do *)

\* "An agent commit's tree is exactly what the agent committed": beside its
\* files it holds what the agent's head holds.
ExactlyWhatWasCommitted ==
    [][\A h \in Handles : CommitLands(h) /\ work[h].head = Tip =>
          LET made == commits'[Tip'] IN
          \A p \in Paths \ made.files : made.tree[p] = RefTree(work[h].blob)[p]]_vars

\* The agent's head is a commit of its own graph: "the commit its last ws-git
\* commit made, or None before the first one".
HeadIsTheAgents ==
    \A h \in Handles : work[h].blob.head # 0 => IsAgentCommit(work[h].blob.head)
=============================================================================
