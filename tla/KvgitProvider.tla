--------------------------- MODULE KvgitProvider ---------------------------
(***************************************************************************)
(* The versioned store under every workspace: KvgitProvider over one kvgit *)
(* repository.  A session is a branch; a handle (a provider and its        *)
(* worktree) is a commit it last saw plus a buffer of staged writes.       *)
(* Several handles, in several threads or processes, may be open on one    *)
(* session: what keeps them apart is kvgit's compare-and-swap on the       *)
(* branch head, and what happens when it is lost differs from verb to      *)
(* verb.  The verbs that read, plan and then commit (checkout, land,       *)
(* merge) are several steps here, so another handle may commit between     *)
(* them.                                                                   *)
(*                                                                         *)
(* A tree maps every key to a value or Absent.  A file key stands for the  *)
(* file's blob together with the metadata row that rides with it.          *)
(***************************************************************************)
EXTENDS Integers, Sequences, FiniteSets

CONSTANTS
    Sessions,          \* session ids, which are branch names
    Handles,           \* provider handles
    FileKeys,          \* file blobs (each with its metadata row)
    CacheKeys,         \* __cache__/*
    ConvKeys,          \* __conversation__/* and __compaction__/*
    BookKeys,          \* the ws-git blob and the view record
    CwdKeys,           \* the cwd key
    Values,            \* contents a caller writes
    Absent,            \* the key is not in the tree
    Marked,            \* contents holding conflict markers
    NoSession,         \* a handle that is closed
    StoreScope,        \* the tag scope that belongs to no session
    CheckoutAttempts,  \* _CHECKOUT_ATTEMPTS
    LandAttempts,      \* _LAND_ATTEMPTS
    MaxCommits         \* bound: no verb starts once the store holds this many

Keys == FileKeys \cup CacheKeys \cup ConvKeys \cup BookKeys \cup CwdKeys
Contents == Values \cup {Absent, Marked}
Tree == [Keys -> Contents]
EmptyTree == [k \in Keys |-> Absent]
Scopes == Sessions \cup {StoreScope}
CommitVerbs == {"root", "commit", "commit_keys", "checkout", "apply", "land", "merge"}

ASSUME KvgitAssumption ==
    /\ NoSession \notin Sessions
    /\ StoreScope \notin Sessions
    /\ CheckoutAttempts \in Nat \ {0}
    /\ LandAttempts \in Nat \ {0}
    /\ MaxCommits \in Nat
    /\ FileKeys \cap (CacheKeys \cup ConvKeys \cup BookKeys \cup CwdKeys) = {}
    /\ CacheKeys \cap (ConvKeys \cup BookKeys \cup CwdKeys) = {}
    /\ ConvKeys \cap (BookKeys \cup CwdKeys) = {}
    /\ BookKeys \cap CwdKeys = {}

VARIABLES
    commits,   \* every commit ever made, oldest first; an id is an index
    branch,    \* branch head of each session, 0 when there is no such branch
    tags,      \* the commit named in each scope, 0 when the name is free
    swept,     \* the commits garbage collection has removed
    wt,        \* each handle's worktree: session, head, view and staged keys
    op         \* the verb each handle is in the middle of, or its outcome

vars == <<commits, branch, tags, swept, wt, op>>

-----------------------------------------------------------------------------
(* The commit graph *)

Ids == 1..Len(commits)
Held == Ids \ swept
TreeOf(c) == commits[c].tree
Past(c) == commits[c].past

\* A commit record: its first parent, everything its history reaches
\* (itself included), its tree, the verb that made it, and the head the
\* committing handle was working from.
CommitRecord(id, first, others, tree, verb, from) ==
    [first |-> first,
     past  |-> {id} \cup Past(first) \cup UNION {Past(p) : p \in others},
     tree  |-> tree, verb |-> verb, from |-> from]

NewId == Len(commits) + 1

\* Common ancestors no other common ancestor descends from: ids grow along
\* every line of history, so the largest one is such a commit.
MergeBase(a, b) ==
    CHOOSE c \in Past(a) \cap Past(b) :
        \A d \in Past(a) \cap Past(b) : d <= c

\* What garbage collection must keep: the history of every branch and tag.
Reachable(br, tg) ==
    (UNION {Past(br[s]) : s \in {x \in Sessions : br[x] # 0}})
        \cup (UNION {Past(tg[x]) : x \in {y \in Scopes : tg[y] # 0}})

\* repo.gc(min_age): the unreachable commits older than some age.  Commit 1
\* is the empty commit every new branch starts from.
Swept(br, tg, age) ==
    swept \cup {c \in Held : 1 < c /\ c <= age /\ c \notin Reachable(br, tg)}

-----------------------------------------------------------------------------
(* Three-way resolution of one key: base, ours, theirs *)

Contested(b, o, t) == o # b /\ t # b /\ o # t

\* Mutant: the last writer wins.
BadOrdinaryConflict(k, b, o, t) == FALSE

\* The rules registered on every handle for an ordinary commit that lost
\* its race.  MergeChoice.OURS keeps our side whole, a merge function is
\* consulted only where both sides changed the key.
OrdinaryConflict(k, b, o, t) == Contested(b, o, t) /\ k \notin BookKeys \cup CwdKeys

OrdinaryMerge(k, b, o, t) ==
    IF k \in BookKeys THEN o
    ELSE IF o = b THEN t
    ELSE IF Contested(b, o, t) /\ k \in CwdKeys /\ o = Absent THEN t
    ELSE o

\* merge and apply: files merge as text, every other plane keeps ours.  A
\* contested file may hold bytes no marker merge can mark (CantMark), which
\* refuses the whole merge: the contents decide.
ThreeWayMayConflict(k, b, o, t) == Contested(b, o, t) /\ k \in FileKeys

\* Mutant: the planes have a merge function instead of a whole-side policy,
\* so what only the other side added rides in.
BadThreeWayMerge(k, b, o, t) ==
    IF Contested(b, o, t) THEN (IF k \in FileKeys THEN Marked ELSE o)
    ELSE IF o = b THEN t
    ELSE o

ThreeWayMerge(k, b, o, t) ==
    IF k \in CwdKeys
    THEN IF o = b \/ (Contested(b, o, t) /\ o = Absent) THEN t ELSE o
    ELSE IF k \notin FileKeys THEN o
    ELSE IF Contested(b, o, t) THEN Marked
    ELSE IF o = b THEN t
    ELSE o

\* land: no text merge, the cwd takes theirs, and only LandedKeys move.
LandConflict(k, b, o, t) == Contested(b, o, t) /\ k \notin CwdKeys

LandMerge(k, b, o, t) ==
    IF k \in CwdKeys \/ o = b THEN t ELSE o

LandedKeys(base, theirs) ==
    {k \in FileKeys \cup CacheKeys \cup CwdKeys :
        /\ TreeOf(base)[k] # TreeOf(theirs)[k]
        /\ k \in CwdKeys => TreeOf(theirs)[k] # Absent}

-----------------------------------------------------------------------------
(* Worktrees *)

Closed == [session |-> NoSession, head |-> 0, view |-> EmptyTree, staged |-> {}]

OpenAt(s, c) == [session |-> s, head |-> c, view |-> TreeOf(c), staged |-> {}]

IsOpen(h) == wt[h].session # NoSession
Dirty(h) == wt[h].staged # {}
Tip(h) == branch[wt[h].session]

Idle == [pc |-> "idle", verb |-> "none", target |-> 0, base |-> 0, expect |-> 0,
         tries |-> 0, tip |-> 0, result |-> "none", commit |-> 0]

Ready(h) == IsOpen(h) /\ op[h].pc = "idle"
MayStart == Len(commits) < MaxCommits

\* One merge may still start at the bound.
MayMerge == Len(commits) <= MaxCommits

\* The same worktree, staging the difference between its head and a tree.
Staging(w, tree) ==
    [w EXCEPT !.view = tree, !.staged = {k \in Keys : tree[k] # TreeOf(w.head)[k]}]

\* The worktree after its head moved to a commit that is just being made,
\* with the staged keys not in that commit still staged over it.
Landed(w, id, tree, keys) ==
    [w EXCEPT !.head = id,
              !.view = [k \in Keys |-> IF k \in w.staged \ keys THEN w.view[k] ELSE tree[k]],
              !.staged = w.staged \ keys]

\* What wt.commit(keys=...) would commit: the head's tree with these staged
\* keys, three-way merged with a branch that moved.
Ours(w, keys) == [k \in Keys |-> IF k \in keys THEN w.view[k] ELSE TreeOf(w.head)[k]]

CommitConflicts(w, tip, keys) ==
    tip # w.head /\ \E k \in Keys :
        OrdinaryConflict(k, TreeOf(w.head)[k], Ours(w, keys)[k], TreeOf(tip)[k])

CommitTree(w, tip, keys) ==
    IF tip = w.head THEN Ours(w, keys)
    ELSE [k \in Keys |-> OrdinaryMerge(k, TreeOf(w.head)[k], Ours(w, keys)[k], TreeOf(tip)[k])]

\* Mutant: the commit names the handle's own head as its parent.
BadAddCommit(w, keys, verb) ==
    LET tip == branch[w.session]
    IN  /\ commits' = Append(commits,
                             CommitRecord(NewId, w.head, {}, CommitTree(w, tip, keys), verb, w.head))
        /\ branch' = [branch EXCEPT ![w.session] = NewId]

\* One commit of worktree w's staged keys on its branch.
AddCommit(w, keys, verb) ==
    LET tip == branch[w.session]
    IN  /\ commits' = Append(commits,
                             CommitRecord(NewId, tip, {}, CommitTree(w, tip, keys), verb, w.head))
        /\ branch' = [branch EXCEPT ![w.session] = NewId]

Done(h, result, c) == [op[h] EXCEPT !.pc = "done", !.result = result, !.commit = c]

-----------------------------------------------------------------------------
(* Opening, writing, committing *)

\* open(), on(): a new name starts an empty branch at the initial commit.
Open(h, s) ==
    LET head == IF branch[s] = 0 THEN 1 ELSE branch[s]
    IN  /\ ~IsOpen(h)
        /\ branch' = [branch EXCEPT ![s] = head]
        /\ wt' = [wt EXCEPT ![h] = OpenAt(s, head)]
        /\ UNCHANGED <<commits, tags, swept, op>>

Close(h) ==
    /\ Ready(h)
    /\ wt' = [wt EXCEPT ![h] = Closed]
    /\ UNCHANGED <<commits, branch, tags, swept, op>>

\* A write or a removal through the handle's fs or kv surface.
Write(h, k, v) ==
    /\ Ready(h)
    /\ wt[h].view[k] # v
    /\ wt' = [wt EXCEPT ![h].view[k] = v, ![h].staged = @ \cup {k}]
    /\ UNCHANGED <<commits, branch, tags, swept, op>>

\* commit(): everything staged; a conflicting concurrent commit refuses and
\* leaves the buffer as it was.
Commit(h) ==
    /\ Ready(h) /\ Dirty(h) /\ MayStart
    /\ ~CommitConflicts(wt[h], Tip(h), wt[h].staged)
    /\ AddCommit(wt[h], wt[h].staged, "commit")
    /\ wt' = [wt EXCEPT ![h] =
                Landed(@, NewId, CommitTree(@, Tip(h), @.staged), @.staged)]
    /\ UNCHANGED <<tags, swept, op>>

\* commit_keys(): only these keys, the rest of the buffer stays staged.
CommitKeys(h, keys) ==
    LET pending == keys \cap wt[h].staged
    IN  /\ Ready(h) /\ pending # {} /\ MayStart
        /\ ~CommitConflicts(wt[h], Tip(h), pending)
        /\ AddCommit(wt[h], pending, "commit_keys")
        /\ wt' = [wt EXCEPT ![h] = Landed(@, NewId, CommitTree(@, Tip(h), pending), pending)]
        /\ UNCHANGED <<tags, swept, op>>

\* Mutant: the buffer goes, the filesystem's caches stay.
BadDiscard(h) ==
    /\ Ready(h) /\ Dirty(h)
    /\ wt' = [wt EXCEPT ![h].staged = {}]
    /\ UNCHANGED <<commits, branch, tags, swept, op>>

Discard(h) ==
    /\ Ready(h) /\ Dirty(h)
    /\ wt' = [wt EXCEPT ![h] = OpenAt(@.session, @.head)]
    /\ UNCHANGED <<commits, branch, tags, swept, op>>

Refresh(h) ==
    /\ Ready(h) /\ (Dirty(h) \/ Tip(h) # wt[h].head)
    /\ wt' = [wt EXCEPT ![h] = OpenAt(@.session, Tip(h))]
    /\ UNCHANGED <<commits, branch, tags, swept, op>>

-----------------------------------------------------------------------------
(* checkout(): restore an earlier tree by committing it *)

\* The buffer is dropped and the difference between this handle's head and
\* the target is staged; nothing to stage ends the call at once.
CheckoutBegin(h, target) ==
    LET staging == Staging(wt[h], TreeOf(target))
        call == [Idle EXCEPT !.verb = "checkout", !.target = target, !.tip = Tip(h)]
    IN  /\ Ready(h) /\ MayStart
        /\ target \in Past(wt[h].head)
        /\ wt' = [wt EXCEPT ![h] = staging]
        /\ op' = [op EXCEPT ![h] =
                    IF staging.staged = {}
                    THEN [call EXCEPT !.pc = "done", !.result = "ok", !.commit = wt[h].head]
                    ELSE [call EXCEPT !.pc = "restoring"]]
        /\ UNCHANGED <<commits, branch, tags, swept>>

\* Mutant: one commit, taken to be the target.
BadCheckoutCommit(h) ==
    /\ op[h].pc = "restoring"
    /\ ~CommitConflicts(wt[h], Tip(h), wt[h].staged)
    /\ AddCommit(wt[h], wt[h].staged, "checkout")
    /\ wt' = [wt EXCEPT ![h] =
                Landed(@, NewId, CommitTree(@, Tip(h), @.staged), @.staged)]
    /\ op' = [op EXCEPT ![h] = Done(h, "ok", NewId)]
    /\ UNCHANGED <<tags, swept>>

\* The restore commits; where another handle's commit was merged into it,
\* the difference that is left is staged again, up to the bound.
CheckoutCommit(h) ==
    LET w == wt[h]
        tree == CommitTree(w, Tip(h), w.staged)
        again == {k \in Keys : TreeOf(op[h].target)[k] # tree[k]}
        tries == op[h].tries + 1
        clean == Landed(w, NewId, tree, w.staged)
    IN  /\ op[h].pc = "restoring"
        /\ ~CommitConflicts(w, Tip(h), w.staged)
        /\ AddCommit(w, w.staged, "checkout")
        /\ \/ /\ again = {}
              /\ wt' = [wt EXCEPT ![h] = clean]
              /\ op' = [op EXCEPT ![h] = Done(h, "ok", NewId)]
           \/ /\ again # {} /\ tries >= CheckoutAttempts
              /\ wt' = [wt EXCEPT ![h] = clean]
              /\ op' = [op EXCEPT ![h] = Done(h, "no convergence", NewId)]
           \/ /\ again # {} /\ tries < CheckoutAttempts
              /\ wt' = [wt EXCEPT ![h] =
                          [clean EXCEPT !.view = TreeOf(op[h].target), !.staged = again]]
              /\ op' = [op EXCEPT ![h].tries = tries]
        /\ UNCHANGED <<tags, swept>>

\* The other handle changed a key the restore writes, to another value:
\* kvgit's MergeConflict leaves the call, the buffer still staged.
CheckoutConflict(h) ==
    /\ op[h].pc = "restoring"
    /\ CommitConflicts(wt[h], Tip(h), wt[h].staged)
    /\ op' = [op EXCEPT ![h] = Done(h, "conflict", 0)]
    /\ UNCHANGED <<commits, branch, tags, swept, wt>>

-----------------------------------------------------------------------------
(* land(): the change from base to theirs, as one commit on the tip *)

LandBegin(h, base, theirs, expect) ==
    /\ Ready(h) /\ ~Dirty(h) /\ MayStart
    /\ {base, theirs} \subseteq Held
    /\ op' = [op EXCEPT ![h] = [Idle EXCEPT !.pc = "landing", !.verb = "land",
                !.target = theirs, !.base = base, !.expect = expect, !.tip = Tip(h)]]
    /\ UNCHANGED <<commits, branch, tags, swept, wt>>

LandPlan(base, theirs, ours) ==
    [k \in Keys |-> IF k \in LandedKeys(base, theirs)
                    THEN LandMerge(k, TreeOf(base)[k], ours[k], TreeOf(theirs)[k])
                    ELSE ours[k]]

LandRefused(base, theirs, ours) ==
    \E k \in LandedKeys(base, theirs) :
        LandConflict(k, TreeOf(base)[k], ours[k], TreeOf(theirs)[k])

\* The handle moves to the branch's tip, and the guard and the plan are
\* judged against that.
LandJudge(h) ==
    LET o == op[h]
        tip == Tip(h)
        plan == LandPlan(o.base, o.target, TreeOf(tip))
        here == OpenAt(wt[h].session, tip)
    IN  /\ o.pc = "landing"
        /\ \/ /\ ~({o.base, o.target} \subseteq Held)
              /\ wt' = [wt EXCEPT ![h] = here]
              /\ op' = [op EXCEPT ![h] = Done(h, "gone", 0)]
           \/ /\ o.expect # 0 /\ o.expect # tip
              /\ wt' = [wt EXCEPT ![h] = here]
              /\ op' = [op EXCEPT ![h] = Done(h, "head moved", 0)]
           \/ /\ o.expect \in {0, tip} /\ {o.base, o.target} \subseteq Held
              /\ LandRefused(o.base, o.target, TreeOf(tip))
              /\ wt' = [wt EXCEPT ![h] = here]
              /\ op' = [op EXCEPT ![h] = Done(h, "conflict", 0)]
           \/ /\ o.expect \in {0, tip} /\ {o.base, o.target} \subseteq Held
              /\ ~LandRefused(o.base, o.target, TreeOf(tip))
              /\ wt' = [wt EXCEPT ![h] = Staging(here, plan)]
              /\ op' = [op EXCEPT ![h] =
                          IF plan = TreeOf(tip) THEN Done(h, "nothing", tip)
                                                ELSE [@ EXCEPT !.pc = "landed"]]
        /\ UNCHANGED <<commits, branch, tags, swept>>

\* Mutant: a branch that moved is merged by the ordinary rules.
BadLandCommit(h) ==
    /\ op[h].pc = "landed"
    /\ ~CommitConflicts(wt[h], Tip(h), wt[h].staged)
    /\ AddCommit(wt[h], wt[h].staged, "land")
    /\ wt' = [wt EXCEPT ![h] =
                Landed(@, NewId, CommitTree(@, Tip(h), @.staged), @.staged)]
    /\ op' = [op EXCEPT ![h] = Done(h, "ok", NewId)]
    /\ UNCHANGED <<tags, swept>>

\* wt.commit(on_moved="raise"): a compare-and-swap that is never merged.
LandCommit(h) ==
    /\ op[h].pc = "landed"
    /\ Tip(h) = wt[h].head
    /\ AddCommit(wt[h], wt[h].staged, "land")
    /\ wt' = [wt EXCEPT ![h] = Landed(@, NewId, @.view, @.staged)]
    /\ op' = [op EXCEPT ![h] = Done(h, "ok", NewId)]
    /\ UNCHANGED <<tags, swept>>

LandMoved(h) ==
    LET tries == op[h].tries + 1
    IN  /\ op[h].pc = "landed"
        /\ Tip(h) # wt[h].head
        /\ wt' = [wt EXCEPT ![h] = OpenAt(@.session, @.head)]
        /\ op' = [op EXCEPT ![h] =
                    IF @.expect # 0 THEN Done(h, "head moved", 0)
                    ELSE IF tries >= LandAttempts THEN Done(h, "no settling", 0)
                    ELSE [@ EXCEPT !.pc = "landing", !.tries = tries]]
        /\ UNCHANGED <<commits, branch, tags, swept>>

-----------------------------------------------------------------------------
(* merge() and apply() *)

\* merge(): the source's commit is read first ...
MergeBegin(h, s) ==
    /\ Ready(h) /\ ~Dirty(h) /\ MayMerge
    /\ s # wt[h].session /\ branch[s] # 0
    /\ op' = [op EXCEPT ![h] = [Idle EXCEPT !.pc = "merging", !.verb = "merge",
                                            !.target = branch[s], !.tip = Tip(h)]]
    /\ UNCHANGED <<commits, branch, tags, swept, wt>>

\* ... and merged into the branch as it is when the commit lands.
MergeCommit(h) ==
    LET tip == Tip(h)
        src == op[h].target
        base == TreeOf(MergeBase(tip, src))
        merged == [k \in Keys |-> ThreeWayMerge(k, base[k], TreeOf(tip)[k], TreeOf(src)[k])]
        mayRefuse == \E k \in Keys :
                     ThreeWayMayConflict(k, base[k], TreeOf(tip)[k], TreeOf(src)[k])
    IN  /\ op[h].pc = "merging"
        /\ \/ /\ src \notin Held
              /\ op' = [op EXCEPT ![h] = Done(h, "gone", 0)]
              /\ UNCHANGED <<commits, branch, wt>>
           \/ /\ src \in Past(tip)
              /\ op' = [op EXCEPT ![h] = Done(h, "no op", wt[h].head)]
              /\ UNCHANGED <<commits, branch, wt>>
           \/ /\ src \in Held \ Past(tip) /\ mayRefuse
              /\ op' = [op EXCEPT ![h] = Done(h, "conflict", 0)]
              /\ UNCHANGED <<commits, branch, wt>>
           \/ /\ src \in Held \ Past(tip)
              /\ commits' = Append(commits,
                                   CommitRecord(NewId, tip, {src}, merged, "merge", wt[h].head))
              /\ branch' = [branch EXCEPT ![wt[h].session] = NewId]
              /\ wt' = [wt EXCEPT ![h] = Landed(@, NewId, merged, {})]
              /\ op' = [op EXCEPT ![h] = Done(h, "ok", NewId)]
        /\ UNCHANGED <<tags, swept>>

ApplyPlan(w, base, theirs) ==
    [k \in Keys |-> IF TreeOf(base)[k] # TreeOf(theirs)[k]
                    THEN ThreeWayMerge(k, TreeOf(base)[k], w.view[k], TreeOf(theirs)[k])
                    ELSE w.view[k]]

\* apply(): revert and cherry-pick.  Resolved against this handle's tree,
\* then an ordinary commit; one that conflicts discards the buffer, so a
\* refused apply changes nothing.
Apply(h, base, theirs) ==
    LET w == Staging(wt[h], ApplyPlan(wt[h], base, theirs))
    IN  /\ Ready(h) /\ ~Dirty(h) /\ MayStart
        /\ {base, theirs} \subseteq Held
        /\ w.staged # {}
        /\ ~CommitConflicts(w, Tip(h), w.staged)
        /\ AddCommit(w, w.staged, "apply")
        /\ wt' = [wt EXCEPT ![h] = Landed(w, NewId, CommitTree(w, Tip(h), w.staged), w.staged)]
        /\ UNCHANGED <<tags, swept, op>>

Return(h) ==
    /\ op[h].pc = "done"
    /\ op' = [op EXCEPT ![h] = Idle]
    /\ UNCHANGED <<commits, branch, tags, swept, wt>>

-----------------------------------------------------------------------------
(* Forks, tags, deletion *)

\* Mutant: the branch is created before the staged changes are committed.
BadFork(h, n) ==
    /\ Ready(h) /\ branch[n] = 0
    /\ \/ /\ ~Dirty(h)
          /\ branch' = [branch EXCEPT ![n] = wt[h].head]
          /\ UNCHANGED <<commits, wt>>
       \/ /\ Dirty(h) /\ MayStart
          /\ ~CommitConflicts(wt[h], Tip(h), wt[h].staged)
          /\ commits' = Append(commits, CommitRecord(NewId, Tip(h), {},
                            CommitTree(wt[h], Tip(h), wt[h].staged), "commit", wt[h].head))
          /\ branch' = [branch EXCEPT ![wt[h].session] = NewId, ![n] = wt[h].head]
          /\ wt' = [wt EXCEPT ![h] =
                      Landed(@, NewId, CommitTree(@, Tip(h), @.staged), @.staged)]
    /\ UNCHANGED <<tags, swept, op>>

\* fork(name): staged changes are committed first, so the fork holds them.
Fork(h, n) ==
    /\ Ready(h) /\ branch[n] = 0
    /\ \/ /\ ~Dirty(h)
          /\ branch' = [branch EXCEPT ![n] = wt[h].head]
          /\ UNCHANGED <<commits, wt>>
       \/ /\ Dirty(h) /\ MayStart
          /\ ~CommitConflicts(wt[h], Tip(h), wt[h].staged)
          /\ commits' = Append(commits, CommitRecord(NewId, Tip(h), {},
                            CommitTree(wt[h], Tip(h), wt[h].staged), "commit", wt[h].head))
          /\ branch' = [branch EXCEPT ![wt[h].session] = NewId, ![n] = NewId]
          /\ wt' = [wt EXCEPT ![h] =
                      Landed(@, NewId, CommitTree(@, Tip(h), @.staged), @.staged)]
    /\ UNCHANGED <<tags, swept, op>>

\* Mutant: nobody asks whether the store still holds the commit.
BadForkAt(h, n, c) ==
    /\ Ready(h) /\ branch[n] = 0
    /\ branch' = [branch EXCEPT ![n] = c]
    /\ UNCHANGED <<commits, tags, swept, wt, op>>

\* fork(name, at=): the earlier commit, staged changes left alone.
ForkAt(h, n, c) ==
    /\ Ready(h) /\ branch[n] = 0 /\ c \in Held
    /\ branch' = [branch EXCEPT ![n] = c]
    /\ UNCHANGED <<commits, tags, swept, wt, op>>

\* tag(): an existing name never moves.
TagAt(h, scope, c) ==
    /\ Ready(h) /\ scope \in {wt[h].session, StoreScope}
    /\ tags[scope] = 0 /\ c \in Held
    /\ tags' = [tags EXCEPT ![scope] = c]
    /\ UNCHANGED <<commits, branch, swept, wt, op>>

\* delete_tag(), then a sweep.
DeleteTag(h, scope, age) ==
    /\ Ready(h) /\ scope \in {wt[h].session, StoreScope} /\ tags[scope] # 0
    /\ tags' = [tags EXCEPT ![scope] = 0]
    /\ swept' = Swept(branch, tags', age)
    /\ UNCHANGED <<commits, branch, wt, op>>

\* delete_in(): the session's own tags and its branch, then a sweep.
Delete(s, age) ==
    /\ branch[s] # 0
    /\ \A h \in Handles : wt[h].session # s
    /\ tags' = [tags EXCEPT ![s] = 0]
    /\ branch' = [branch EXCEPT ![s] = 0]
    /\ swept' = Swept(branch', tags', age)
    /\ UNCHANGED <<commits, wt, op>>

-----------------------------------------------------------------------------

Init ==
    /\ commits = <<[first |-> 0, past |-> {1}, tree |-> EmptyTree, verb |-> "root", from |-> 0]>>
    /\ branch = [s \in Sessions |-> 0]
    /\ tags = [s \in Scopes |-> 0]
    /\ swept = {}
    /\ wt = [h \in Handles |-> Closed]
    /\ op = [h \in Handles |-> Idle]

\* What a call that has started still has to do.
Continue(h) ==
    \/ CheckoutCommit(h) \/ CheckoutConflict(h)
    \/ LandJudge(h) \/ LandCommit(h) \/ LandMoved(h)
    \/ MergeCommit(h) \/ Return(h)

Next ==
    \/ \E h \in Handles :
        \/ \E s \in Sessions : Open(h, s) \/ MergeBegin(h, s) \/ Fork(h, s)
        \/ \E k \in Keys, v \in Values \cup {Absent} : Write(h, k, v)
        \/ \E keys \in SUBSET Keys : CommitKeys(h, keys)
        \/ Close(h) \/ Commit(h) \/ Discard(h) \/ Refresh(h)
        \/ \E c \in Ids : CheckoutBegin(h, c)
        \/ \E base, theirs \in Ids : Apply(h, base, theirs)
        \/ \E base, theirs \in Ids, expect \in Ids \cup {0} : LandBegin(h, base, theirs, expect)
        \/ \E s \in Sessions, c \in Ids : ForkAt(h, s, c)
        \/ \E scope \in Scopes, c \in Ids : TagAt(h, scope, c)
        \/ \E scope \in Scopes, age \in 0..Len(commits) : DeleteTag(h, scope, age)
        \/ Continue(h)
    \/ \E s \in Sessions, age \in 0..Len(commits) : Delete(s, age)

Spec == Init /\ [][Next]_vars

-----------------------------------------------------------------------------
(* Properties *)

Outcomes == {"none", "ok", "nothing", "conflict", "no convergence", "no settling",
             "head moved", "no op", "gone"}

\* Every commit, branch, tag, worktree and call is what it should be.
TypeOK ==
    /\ commits \in Seq([first : Nat, past : SUBSET Nat, tree : Tree,
                        verb : CommitVerbs, from : Nat])
    /\ Len(commits) >= 1
    /\ branch \in [Sessions -> 0..Len(commits)]
    /\ tags \in [Scopes -> 0..Len(commits)]
    /\ swept \subseteq Ids
    /\ wt \in [Handles -> [session : Sessions \cup {NoSession}, head : 0..Len(commits),
                           view : Tree, staged : SUBSET Keys]]
    /\ op \in [Handles -> [pc : {"idle", "restoring", "landing", "landed", "merging", "done"},
                           verb : {"none", "checkout", "land", "merge"},
                           target : 0..Len(commits), base : 0..Len(commits),
                           expect : 0..Len(commits), tries : Nat, tip : 0..Len(commits),
                           result : Outcomes, commit : 0..Len(commits)]]

\* An open handle, however stale, stands on its own branch's history, and
\* its view is that commit's tree but for what it staged: no verb, refused
\* or not, leaves a worktree between two states.
HandleOnItsBranch ==
    \A h \in Handles : IsOpen(h) =>
        /\ Tip(h) # 0
        /\ wt[h].head \in Past(Tip(h))
        /\ \A k \in Keys \ wt[h].staged : wt[h].view[k] = TreeOf(wt[h].head)[k]

\* "Nothing here moves a branch head backward; only store-level admin
\* does": whatever verb moves a head, the head it leaves stays in the new
\* one's history, a checkout of an old commit included.
HeadsMoveForward ==
    [][\A s \in Sessions :
         branch[s] # 0 /\ branch'[s] # 0 => branch[s] \in commits'[branch'[s]].past]_vars

\* A commit that lost its race never overwrites a file, cache value or
\* conversation its writer had not seen: where it changes the tip, the tip
\* still held what the writer's own head held.
OverwritesOnlyWhatItSaw ==
    \A c \in Ids : commits[c].verb \in {"commit", "commit_keys", "checkout", "apply", "land"} =>
        \A k \in FileKeys \cup CacheKeys \cup ConvKeys :
            \/ TreeOf(c)[k] = TreeOf(commits[c].first)[k]
            \/ TreeOf(commits[c].first)[k] = TreeOf(commits[c].from)[k]

\* The plane policy: a merge brings files across and never another
\* session's cache, conversation or bookkeeping, additions included; a
\* revert or cherry-pick brings no cache or conversation; a land no
\* conversation or bookkeeping.
PlanesStayHome ==
    \A c \in Ids :
        LET kept == CASE commits[c].verb = "merge" -> CacheKeys \cup ConvKeys \cup BookKeys
                      [] commits[c].verb = "apply" -> CacheKeys \cup ConvKeys
                      [] commits[c].verb = "land"  -> ConvKeys \cup BookKeys
                      [] OTHER -> {}
        IN  \A k \in kept : TreeOf(c)[k] = TreeOf(commits[c].first)[k]

\* A land that reports success put the whole change on a head that had
\* changed none of it differently, and nothing but the change; one that
\* reports nothing to land judged a commit that holds the whole change.
LandsTheWholeChange ==
    \A h \in Handles : op[h].pc = "done" /\ op[h].verb = "land" =>
        LET o == op[h]
            moved == LandedKeys(o.base, o.target)
            onto == TreeOf(commits[o.commit].first)
        IN  /\ o.result \in {"ok", "nothing"} =>
                  \A k \in moved : TreeOf(o.commit)[k] = TreeOf(o.target)[k]
            /\ o.result = "ok" =>
                  /\ \A k \in Keys \ moved : TreeOf(o.commit)[k] = onto[k]
                  /\ \A k \in moved \ CwdKeys : onto[k] \in {TreeOf(o.base)[k], TreeOf(o.target)[k]}

\* With expect_head, a land goes onto exactly that head or is refused: no
\* commit slips in between the check and the compare-and-swap, and a stale
\* handle's empty plan does not skip the check.
GuardedLandOnExpectedHead ==
    \A h \in Handles : op[h].pc = "done" /\ op[h].verb = "land" /\ op[h].expect # 0 =>
        /\ op[h].result = "ok" => commits[op[h].commit].first = op[h].expect
        /\ op[h].result = "nothing" => op[h].commit = op[h].expect /\ op[h].expect >= op[h].tip

\* A refused land or merge leaves nothing staged: its plan is not left in
\* the buffer for the session's next commit to carry in.
NothingLeftStaged ==
    \A h \in Handles : op[h].pc = "done" /\ op[h].verb \in {"land", "merge"} => ~Dirty(h)

\* A land that loses its compare-and-swap plans again on the new tip: it
\* ends with the whole change on the head it was allowed to go on, or with
\* nothing of it, neither committed nor left in the buffer.
LandsAllOrNothing == LandsTheWholeChange /\ GuardedLandOnExpectedHead /\ NothingLeftStaged

\* A checkout that returns has landed the target's tree exactly, whatever
\* other handles committed while it ran.
CheckoutConverges ==
    \A h \in Handles : op[h].pc = "done" /\ op[h].verb = "checkout" /\ op[h].result = "ok" =>
        TreeOf(op[h].commit) = TreeOf(op[h].target)

\* Garbage collection never takes what a name or a writer still needs: every
\* branch head, every tag, session or store scoped, and the commit every open
\* handle stands on can be read, whatever was deleted beside them.
EveryNameResolves ==
    /\ TypeOK
    /\ \A s \in Sessions : branch[s] \notin swept
    /\ \A x \in Scopes : tags[x] \notin swept
    /\ \A h \in Handles : wt[h].head \notin swept

=============================================================================
