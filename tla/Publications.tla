---------------------------- MODULE Publications ----------------------------
(***************************************************************************)
(* A store's publications: versions of an app cut out of a session.        *)
(*                                                                         *)
(* A version is written to three places in turn: a reserved branch holding *)
(* one commit, a store tag on that commit, and a row of the registry file. *)
(* publish writes them in that order and unpublish removes the tag, then   *)
(* the branch, then the row, so a client that dies part way leaves an      *)
(* attempt that a later call adopts, clears or finishes.  Every change of  *)
(* the registry is a read, a decision and a write inside the registry      *)
(* lock; store tags made or deleted by hand take no lock, and share their  *)
(* names with the versions' own.                                           *)
(***************************************************************************)
EXTENDS Integers, Sequences, FiniteSets

CONSTANTS Clients,     \* threads or processes calling one store
          Nobody,      \* the holder of a free lock
          Names,       \* publication names
          MaxVersion,  \* bound: versions v1 .. v<MaxVersion> of each
          MaxCommits,  \* bound: commits publish may make
          Requests,    \* what publish may be asked to cut: see Request
          Sources,     \* commits of sessions, at their heads
          Files,       \* the files those commits may hold
          Tree(_),     \* the files of a source commit
          Metas, NoMeta, NoName, NoSource

Versions == 1 .. MaxVersion

Slots == Names \X Versions

\* publish(ws, name, paths=, exclude=, info=): the session's head, the files
\* the path entries cover, the ones left out, and the caller's own info.
Request == [source : Sources, paths : SUBSET Files, exclude : SUBSET Files, note : {0, 1}]

NoRequest == [source |-> NoSource, paths |-> {}, exclude |-> {}, note |-> 0]

ASSUME PublicationsAssumption ==
    /\ MaxVersion \in Nat \ {0} /\ MaxCommits \in Nat
    /\ Nobody \notin Clients /\ NoSource \notin Sources
    /\ Requests \subseteq Request

\* The info publish writes into its commit and its tag.
Info == [name : Names, version : Versions, req : Requests]

Ids == 1 .. MaxCommits

NoBranch == -1
EmptyBranch == 0

\* A store tag at one of publish's commits, or at some session's (0), and
\* whether publish wrote it, with the commit's own info, or a hand, with none.
NoTag == [at |-> -1, published |-> FALSE]
Tag == [at : -1 .. MaxCommits, published : BOOLEAN]

NoRow == [ref |-> 0, info |-> NoRequest]
Row == [ref : Ids, info : Requests]

\* One publication's record; without a row it is not in the file.
NoRecord == [rows |-> [v \in Versions |-> NoRow], current |-> 0, meta |-> NoMeta]
Record == [rows : [Versions -> Row \cup {NoRow}], current : 0 .. MaxVersion,
           meta : Metas \cup {NoMeta}]

NoRegistry == [n \in Names |-> NoRecord]

VARIABLES registry,  \* publications.json: each name's record
          branch,    \* the head of @store/pub/<name>/<version>
          tag,       \* the store tag <name>/<version>
          commits,   \* the info of each commit publish has made
          lock,      \* who holds the registry lock
          client     \* each client's call

vars == <<registry, branch, tag, commits, lock, client>>

\* A client between calls.
Idle == [pc |-> "idle", name |-> NoName, version |-> 0, req |-> NoRequest,
         current |-> FALSE, only |-> FALSE, ref |-> 0, reg |-> NoRegistry]

Calling == {"publish", "unpublish", "open", "resolve"}
InLock == {"branch", "commit", "tag", "record", "untag", "prune", "drop", "read"}

Init ==
    /\ registry = NoRegistry
    /\ branch = [s \in Slots |-> NoBranch]
    /\ tag = [s \in Slots |-> NoTag]
    /\ lock = Nobody
    /\ client = [c \in Clients |-> Idle]
    /\ commits = <<>>

-----------------------------------------------------------------------------
(* The registry file and the reserved names. *)

Held(reg, n) == {v \in Versions : reg[n].rows[v] # NoRow}

Listed(s) == registry[s[1]].rows[s[2]] # NoRow

\* v<N>, one past the highest this lineage holds.
NextVersion(versions) ==
    IF versions = {} THEN 1
    ELSE 1 + CHOOSE v \in versions : \A w \in versions : w <= v

RowOf(s) == registry[s[1]].rows[s[2]]

\* Info written by a publish of this name and version.
IsPublishAttempt(info, s) == info.name = s[1] /\ info.version = s[2]

\* A branch holding something: an empty one counts as none.
HasHead(s) == branch[s] > EmptyBranch

\* The files a version holds.
Wanted(req) == {f \in Tree(req.source) : f \in req.paths /\ f \notin req.exclude}

Slot(c) == <<client[c].name, client[c].version>>

Begin(c, call) == client' = [client EXCEPT ![c] = call]

\* The call returns or raises; whatever it held of the lock is free.
Leave(c) ==
    /\ client' = [client EXCEPT ![c] = Idle]
    /\ lock' = IF lock = c THEN Nobody ELSE lock

\* Mutant: the registry is read without the lock.
BadEnter(c, pc, v, ref) ==
    /\ lock' = c
    /\ client' = [client EXCEPT ![c].pc = pc, ![c].version = v, ![c].ref = ref,
                                ![c].reg = registry]

\* Into the lock, with the registry as the file has it now.
Enter(c, pc, v, ref) ==
    /\ lock = Nobody /\ lock' = c
    /\ client' = [client EXCEPT ![c].pc = pc, ![c].version = v, ![c].ref = ref,
                                ![c].reg = registry]

At(c, pc) == client[c].pc = pc

Step(c, from, to) == At(c, from) /\ client' = [client EXCEPT ![c].pc = to]

-----------------------------------------------------------------------------
(* publish *)

\* The preconditions hold and the session's head is read, before the lock.
\* Version 0 asks for the next number.
PublishCall(c, n, v, r, current, only) ==
    /\ At(c, "idle")
    /\ Begin(c, [Idle EXCEPT !.pc = "publish", !.name = n, !.version = v, !.req = r,
                             !.current = current, !.only = only])
    /\ UNCHANGED <<registry, branch, tag, lock, commits>>

Chosen(c) ==
    IF client[c].version = 0 THEN NextVersion(Held(registry, client[c].name))
    ELSE client[c].version

\* The attempt a stranded branch holds is this very call's: same source
\* commit, same paths, same exclusions, and no tag elsewhere under its name.
Adoptable(c, s) ==
    /\ HasHead(s)
    /\ LET landed == commits[branch[s]] IN
       /\ IsPublishAttempt(landed, s)
       /\ landed.req.source = client[c].req.source
       /\ landed.req.paths = client[c].req.paths
       /\ landed.req.exclude = client[c].req.exclude
    /\ tag[s] = NoTag \/ tag[s].at = branch[s]

MayWrite(c, s) ==
    /\ ~HasHead(s)
    /\ tag[s] = NoTag
    /\ Wanted(client[c].req) # {}
    /\ Len(commits) < MaxCommits

FreeVersion(c, s) ==
    LET held == Held(registry, s[1]) IN
    /\ ~(client[c].only /\ held # {})
    /\ s[2] \in Versions /\ s[2] \notin held

PublishRefused(c) ==
    LET s == <<client[c].name, Chosen(c)>> IN
    /\ At(c, "publish") /\ lock = Nobody
    /\ ~(FreeVersion(c, s) /\ (Adoptable(c, s) \/ MayWrite(c, s)))
    /\ Leave(c)
    /\ UNCHANGED <<registry, branch, tag, commits>>

\* What the earlier attempt did not reach is done now: its tag, its row.
PublishAdopts(c) ==
    LET s == <<client[c].name, Chosen(c)>> IN
    /\ At(c, "publish") /\ FreeVersion(c, s) /\ Adoptable(c, s)
    /\ Enter(c, IF tag[s] = NoTag THEN "tag" ELSE "record", s[2], branch[s])
    /\ UNCHANGED <<registry, branch, tag, commits>>

PublishWrites(c) ==
    LET s == <<client[c].name, Chosen(c)>> IN
    /\ At(c, "publish") /\ FreeVersion(c, s) /\ MayWrite(c, s)
    /\ Enter(c, "branch", s[2], 0)
    /\ UNCHANGED <<registry, branch, tag, commits>>

\* The worktree of a branch that does not exist creates it empty.
CreateBranch(c) ==
    /\ Step(c, "branch", "commit")
    /\ branch' = [branch EXCEPT ![Slot(c)] = IF @ = NoBranch THEN EmptyBranch ELSE @]
    /\ UNCHANGED <<registry, tag, lock, commits>>

CommitTree(c) ==
    LET info == [name |-> client[c].name, version |-> client[c].version,
                 req |-> client[c].req]
        commit == Len(commits) + 1
    IN /\ At(c, "commit")
       /\ commits' = Append(commits, info)
       /\ branch' = [branch EXCEPT ![Slot(c)] = commit]
       /\ client' = [client EXCEPT ![c].pc = "tag", ![c].ref = commit]
       /\ UNCHANGED <<registry, tag, lock>>

\* Tags never move: one made by hand since the check refuses this one.
MintTag(c) ==
    /\ Step(c, "tag", "record")
    /\ tag[Slot(c)] = NoTag
    /\ tag' = [tag EXCEPT ![Slot(c)] = [at |-> client[c].ref, published |-> TRUE]]
    /\ UNCHANGED <<registry, branch, lock, commits>>

MintRefused(c) ==
    /\ At(c, "tag") /\ tag[Slot(c)] # NoTag
    /\ Leave(c)
    /\ UNCHANGED <<registry, branch, tag, commits>>

\* Mutant: the row says what this call asked for.
BadRowFor(c) == [ref |-> client[c].ref, info |-> client[c].req]

\* The row describes the commit that is there, which an adopted one's caller
\* did not write.
RowFor(c) == [ref |-> client[c].ref, info |-> commits[client[c].ref].req]

\* Whether the new version takes the pointer: the one that opens a lineage must.
Points(c) ==
    \/ client[c].current
    \/ client[c].reg[client[c].name].current \notin Held(client[c].reg, client[c].name)

RecordVersion(c) ==
    LET n == client[c].name
        v == client[c].version
        old == client[c].reg[n]
    IN /\ At(c, "record")
       /\ registry' = [client[c].reg EXCEPT ![n] =
              [rows |-> [old.rows EXCEPT ![v] = RowFor(c)],
               current |-> IF Points(c) THEN v ELSE old.current,
               meta |-> old.meta]]
       /\ Leave(c)
       /\ UNCHANGED <<branch, tag, commits>>

-----------------------------------------------------------------------------
(* The pointer, the metadata, and unpublish. *)

\* A read, a change and a write with nothing between that others could see.
SetCurrent(c, n, v) ==
    /\ At(c, "idle") /\ lock = Nobody
    /\ v \in Held(registry, n)
    /\ registry' = [registry EXCEPT ![n].current = v]
    /\ UNCHANGED <<branch, tag, lock, client, commits>>

SetMeta(c, n, m) ==
    /\ At(c, "idle") /\ lock = Nobody
    /\ Held(registry, n) # {}
    /\ registry' = [registry EXCEPT ![n].meta = m]
    /\ UNCHANGED <<branch, tag, lock, client, commits>>

UnpublishCall(c, n, v) ==
    /\ At(c, "idle")
    /\ Begin(c, [Idle EXCEPT !.pc = "unpublish", !.name = n, !.version = v])
    /\ UNCHANGED <<registry, branch, tag, lock, commits>>

\* Mutant: a branch that was never written is nobody's attempt.
BadMayUnpublish(s) ==
    IF Listed(s)
    THEN registry[s[1]].current # s[2] \/ Held(registry, s[1]) = {s[2]}
    ELSE /\ tag[s] # NoTag \/ branch[s] # NoBranch
         /\ tag[s] # NoTag =>
               tag[s].published /\ IsPublishAttempt(commits[tag[s].at], s)
         /\ branch[s] # NoBranch =>
               HasHead(s) /\ IsPublishAttempt(commits[branch[s]], s)

\* A listed version goes unless something is served off it; an unlisted one
\* only where publish itself wrote every part of what is there.
MayUnpublish(s) ==
    IF Listed(s)
    THEN registry[s[1]].current # s[2] \/ Held(registry, s[1]) = {s[2]}
    ELSE /\ tag[s] # NoTag \/ branch[s] # NoBranch
         /\ tag[s] # NoTag =>
               tag[s].published /\ IsPublishAttempt(commits[tag[s].at], s)
         /\ HasHead(s) => IsPublishAttempt(commits[branch[s]], s)

UnpublishRefused(c) ==
    /\ At(c, "unpublish") /\ lock = Nobody
    /\ ~MayUnpublish(Slot(c))
    /\ Leave(c)
    /\ UNCHANGED <<registry, branch, tag, commits>>

UnpublishRemoves(c) ==
    /\ At(c, "unpublish")
    /\ MayUnpublish(Slot(c))
    /\ Enter(c, IF tag[Slot(c)] = NoTag THEN "prune" ELSE "untag", client[c].version, 0)
    /\ UNCHANGED <<registry, branch, tag, commits>>

RemoveTag(c) ==
    /\ Step(c, "untag", "prune")
    /\ tag[Slot(c)] # NoTag
    /\ tag' = [tag EXCEPT ![Slot(c)] = NoTag]
    /\ UNCHANGED <<registry, branch, lock, commits>>

\* Deleted by hand since it was looked up: the deletion raises.
RemoveRefused(c) ==
    /\ At(c, "untag") /\ tag[Slot(c)] = NoTag
    /\ Leave(c)
    /\ UNCHANGED <<registry, branch, tag, commits>>

RemoveBranch(c) ==
    /\ Step(c, "prune", "drop")
    /\ branch' = [branch EXCEPT ![Slot(c)] = NoBranch]
    /\ UNCHANGED <<registry, tag, lock, commits>>

\* The last row takes the record with it; a cleared attempt had no row.
DropVersion(c) ==
    LET n == client[c].name
        v == client[c].version
        old == client[c].reg[n]
        left == Held(client[c].reg, n) \ {v}
    IN /\ At(c, "drop")
       /\ registry' = [client[c].reg EXCEPT ![n] =
              IF left = {} THEN NoRecord
              ELSE [old EXCEPT !.rows[v] = NoRow,
                               !.current = IF @ = v THEN CHOOSE w \in left : \A u \in left : w <= u
                                            ELSE @]]
       /\ Leave(c)
       /\ UNCHANGED <<branch, tag, commits>>

-----------------------------------------------------------------------------
(* Reads of a version, store tags by hand, and clients that die. *)

\* Publication.open: the row is read again, whatever the caller fetched.
OpenCall(c, n, v) ==
    /\ At(c, "idle") /\ Listed(<<n, v>>)
    /\ Begin(c, [Idle EXCEPT !.pc = "open", !.name = n, !.version = v])
    /\ UNCHANGED <<registry, branch, tag, lock, commits>>

\* resolve(version.ref): the row must still name the ref's commit.
ResolveCall(c, n, v) ==
    /\ At(c, "idle") /\ Listed(<<n, v>>)
    /\ Begin(c, [Idle EXCEPT !.pc = "resolve", !.name = n, !.version = v,
                             !.ref = RowOf(<<n, v>>).ref])
    /\ UNCHANGED <<registry, branch, tag, lock, commits>>

StillPublished(c) ==
    /\ Listed(Slot(c))
    /\ At(c, "resolve") => RowOf(Slot(c)).ref = client[c].ref

ReadVersion(c) ==
    /\ At(c, "open") \/ At(c, "resolve")
    /\ StillPublished(c)
    /\ Enter(c, "read", client[c].version, RowOf(Slot(c)).ref)
    /\ UNCHANGED <<registry, branch, tag, commits>>

ReadRefused(c) ==
    /\ At(c, "open") \/ At(c, "resolve")
    /\ lock = Nobody
    /\ ~StillPublished(c)
    /\ Leave(c)
    /\ UNCHANGED <<registry, branch, tag, commits>>

\* Mutant: a branch that is not there is opened, and so created.
BadServe(c) ==
    /\ At(c, "read")
    /\ branch' = [branch EXCEPT ![Slot(c)] = IF @ = NoBranch THEN EmptyBranch ELSE @]
    /\ client' = [client EXCEPT ![c].pc = "viewing", ![c].reg = NoRegistry]
    /\ lock' = Nobody
    /\ UNCHANGED <<registry, tag, commits>>

\* The snapshot is taken only of a branch that is there, so a read mints none.
Serve(c) ==
    /\ At(c, "read")
    /\ IF branch[Slot(c)] = client[c].ref
       THEN client' = [client EXCEPT ![c].pc = "viewing", ![c].reg = NoRegistry]
       ELSE client' = [client EXCEPT ![c] = Idle]
    /\ lock' = Nobody
    /\ UNCHANGED <<registry, branch, tag, commits>>

\* tags.add of a session's commit; no lock, and any slashed name.
TagByHand(s) ==
    /\ tag[s] = NoTag
    /\ tag' = [tag EXCEPT ![s] = [at |-> 0, published |-> FALSE]]
    /\ UNCHANGED <<registry, branch, lock, client, commits>>

\* tags.add of a published version's own ref, under the lock.
TagVersion(s, from) ==
    /\ lock = Nobody /\ tag[s] = NoTag
    /\ Listed(from) /\ branch[from] # NoBranch
    /\ tag' = [tag EXCEPT ![s] = [at |-> RowOf(from).ref, published |-> FALSE]]
    /\ UNCHANGED <<registry, branch, lock, client, commits>>

\* tags.delete takes any store tag, a version's own too.
UntagByHand(s) ==
    /\ tag[s] # NoTag
    /\ tag' = [tag EXCEPT ![s] = NoTag]
    /\ UNCHANGED <<registry, branch, lock, client, commits>>

\* The view is closed, or the process dies wherever it is: the operating
\* system frees its flock and nothing it had not written is written.
Crash(c) ==
    /\ ~At(c, "idle")
    /\ Leave(c)
    /\ UNCHANGED <<registry, branch, tag, commits>>

\* The calls of publish, and everything else a client does.
Publishes(c) ==
    \E n \in Names, v \in 0 .. MaxVersion, r \in Requests, current, only \in BOOLEAN :
        PublishCall(c, n, v, r, current, only)

ClientStep(c) ==
    \/ PublishRefused(c) \/ PublishAdopts(c) \/ PublishWrites(c)
    \/ CreateBranch(c) \/ CommitTree(c) \/ MintTag(c) \/ MintRefused(c) \/ RecordVersion(c)
    \/ \E n \in Names, v \in Versions :
          SetCurrent(c, n, v) \/ UnpublishCall(c, n, v) \/ OpenCall(c, n, v) \/ ResolveCall(c, n, v)
    \/ \E n \in Names, m \in Metas : SetMeta(c, n, m)
    \/ UnpublishRefused(c) \/ UnpublishRemoves(c) \/ RemoveTag(c) \/ RemoveRefused(c)
    \/ RemoveBranch(c) \/ DropVersion(c)
    \/ ReadVersion(c) \/ ReadRefused(c) \/ Serve(c) \/ Crash(c)

HandStep ==
    \E s \in Slots : \/ TagByHand(s)
                     \/ \E from \in Slots : TagVersion(s, from)
                     \/ UntagByHand(s)

Next == HandStep \/ \E c \in Clients : Publishes(c) \/ ClientStep(c)

Spec == Init /\ [][Next]_vars
-----------------------------------------------------------------------------
(* What is promised. *)

\* Every variable has its type; only the lock's holder is inside it.
TypeOK ==
    /\ registry \in [Names -> Record]
    /\ branch \in [Slots -> -1 .. MaxCommits]
    /\ tag \in [Slots -> Tag]
    /\ commits \in Seq(Info) /\ Len(commits) <= MaxCommits
    /\ lock \in Clients \cup {Nobody}
    /\ client \in [Clients -> [pc : {"idle", "viewing"} \cup Calling \cup InLock,
                               name : Names \cup {NoName}, version : 0 .. MaxVersion,
                               req : Requests \cup {NoRequest}, current : BOOLEAN,
                               only : BOOLEAN, ref : 0 .. MaxCommits,
                               reg : [Names -> Record]]]

\* A publication always serves something it holds: its pointer names a listed
\* version, and a name with none is not in the file.
CurrentIsHeld ==
    \A n \in Names :
        IF Held(registry, n) = {} THEN registry[n] = NoRecord
        ELSE registry[n].current \in Held(registry, n)

\* A listed version is the commit its row names, whole and described as it was
\* made: the row's source, paths, exclusions and info are the commit's own, an
\* adopted one's too, the commit was made for this name and version, and the
\* reserved branch still holds it unless an unpublish has taken it.
ListedIsItsCommit == TypeOK /\ CurrentIsHeld /\
    \A s \in Slots : Listed(s) =>
        LET row == RowOf(s) IN
        /\ row.ref \in 1 .. Len(commits)
        /\ IsPublishAttempt(commits[row.ref], s)
        /\ row.info = commits[row.ref].req
        /\ branch[s] \in {row.ref, NoBranch}

\* Versions are immutable and no publication is lost to another's write: a
\* listed row changes only by leaving, and leaves only as the last step of an
\* unpublish of that very version.
RowsLeaveByUnpublish ==
    [][\A s \in Slots :
          Listed(s) /\ RowOf(s)' # RowOf(s) =>
              /\ ~Listed(s)'
              /\ \E c \in Clients : At(c, "drop") /\ Slot(c) = s]_vars

\* No crash blocks a name for good: with the lock free, whatever an unlisted
\* name holds can be cleared by unpublish, unless a hand has tagged it.
StrandedCanBeCleared ==
    \A s \in Slots :
        /\ lock = Nobody /\ ~Listed(s)
        /\ branch[s] # NoBranch \/ tag[s] # NoTag
        /\ tag[s] = NoTag \/ tag[s].published
        => MayUnpublish(s)

\* A read serves only what is published while it is served: its row is listed
\* and names the commit the view is of, and the open has created no branch.
ServesOnlyListed ==
    [][\A c \in Clients :
          At(c, "read") /\ client'[c].pc = "viewing" =>
              /\ Listed(Slot(c)) /\ RowOf(Slot(c)).ref = client[c].ref
              /\ branch[Slot(c)] = client[c].ref /\ branch' = branch]_vars

(* What the documentation says and the code does not do *)

\* unpublish takes a tag made by hand only with a version of its name that is
\* listed: an unlisted name that a hand took is left where it is.
HandTagsSpared ==
    [][\A c \in Clients : \A s \in Slots :
          At(c, "untag") /\ client'[c].pc = "prune" /\ Slot(c) = s =>
              tag[s].published \/ Listed(s)]_vars
=============================================================================
