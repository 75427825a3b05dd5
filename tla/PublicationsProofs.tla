------------------------- MODULE PublicationsProofs -------------------------
(***************************************************************************)
(* What a store's publications guarantee for any number of clients, names, *)
(* versions and commits: a listed version is its commit, a row leaves only *)
(* by its own unpublish, a read serves only what is listed, and no crash   *)
(* leaves a name that cannot be cleared.                                   *)
(***************************************************************************)
EXTENDS Publications, TLAPS

-----------------------------------------------------------------------------
(* The inductive invariant *)

\* A listed version is the commit its row names.
Rows ==
    \A s \in Slots : Listed(s) =>
        /\ RowOf(s).ref \in 1 .. Len(commits)
        /\ IsPublishAttempt(commits[RowOf(s).ref], s)
        /\ RowOf(s).info = commits[RowOf(s).ref].req
        /\ branch[s] \in {RowOf(s).ref, NoBranch}

\* Whatever publish left under a name, it made for that name and version.
Attempts ==
    \A s \in Slots :
        /\ HasHead(s) => /\ branch[s] \in 1 .. Len(commits)
                         /\ IsPublishAttempt(commits[branch[s]], s)
        /\ tag[s].published => /\ tag[s].at \in 1 .. Len(commits)
                               /\ IsPublishAttempt(commits[tag[s].at], s)

\* What a client knows at each step of its call.  In the lock it has the
\* registry the file holds; a publish has a free version and then its commit,
\* an unpublish a version nothing is served off, a read a listed row.
Inside(c) ==
    /\ lock = c <=> client[c].pc \in InLock
    /\ client[c].pc # "idle" => client[c].name \in Names
    /\ client[c].pc = "publish" => client[c].req \in Requests
    /\ client[c].pc \in {"unpublish", "open", "resolve"} => client[c].version \in Versions
    /\ client[c].pc \in InLock =>
          client[c].reg = registry /\ client[c].version \in Versions
    /\ client[c].pc \in {"branch", "commit"} =>
          /\ client[c].req \in Requests /\ Len(commits) < MaxCommits
          /\ ~Listed(Slot(c)) /\ ~HasHead(Slot(c))
    /\ client[c].pc \in {"tag", "record"} =>
          /\ ~Listed(Slot(c))
          /\ client[c].ref \in 1 .. Len(commits)
          /\ IsPublishAttempt(commits[client[c].ref], Slot(c))
          /\ branch[Slot(c)] = client[c].ref
    /\ client[c].pc \in {"untag", "prune", "drop"} =>
          \/ registry[client[c].name].current # client[c].version
          \/ Held(registry, client[c].name) \subseteq {client[c].version}
    /\ client[c].pc = "drop" => branch[Slot(c)] = NoBranch
    /\ client[c].pc = "read" =>
          Listed(Slot(c)) /\ RowOf(Slot(c)).ref = client[c].ref

PubInv ==
    /\ TypeOK /\ CurrentIsHeld /\ Rows /\ Attempts
    /\ \A c \in Clients : Inside(c)

Client ==
    [pc : {"idle", "viewing"} \cup Calling \cup InLock,
     name : Names \cup {NoName}, version : 0 .. MaxVersion,
     req : Requests \cup {NoRequest}, current : BOOLEAN,
     only : BOOLEAN, ref : 0 .. MaxCommits, reg : [Names -> Record]]

-----------------------------------------------------------------------------
(* Types *)

LEMMA RecordTypes ==
    /\ NoRow \notin Row
    /\ NoRecord \in Record /\ NoRegistry \in [Names -> Record]
    /\ Idle \in Client
    /\ NoTag \in Tag
<1>1. NoRow \notin Row
  BY DEF NoRow, Row, Ids
<1>2. NoRecord \in Record
  <2>1. [v \in Versions |-> NoRow] \in [Versions -> Row \cup {NoRow}]
    OBVIOUS
  <2>2. 0 \in 0 .. MaxVersion
    BY PublicationsAssumption DEF PublicationsAssumption
  <2> QED BY <2>1, <2>2 DEF NoRecord, Record
<1>3. NoRegistry \in [Names -> Record]
  BY <1>2 DEF NoRegistry
<1>4. Idle \in Client
  <2>1. 0 \in 0 .. MaxVersion /\ 0 \in 0 .. MaxCommits
    BY PublicationsAssumption DEF PublicationsAssumption
  <2> QED BY <2>1, <1>3 DEF Idle, Client
<1>5. NoTag \in Tag
  BY PublicationsAssumption DEF PublicationsAssumption, NoTag, Tag
<1> QED BY <1>1, <1>2, <1>3, <1>4, <1>5

LEMMA ClientTyped ==
  ASSUME TypeOK, NEW c \in Clients
  PROVE  client \in [Clients -> Client] /\ client[c] \in Client
BY DEF TypeOK, Client

\* One client's record is replaced, the others keep theirs.
LEMMA OneMoves ==
  ASSUME TypeOK, NEW c \in Clients, NEW r \in Client, client' = [client EXCEPT ![c] = r]
  PROVE  /\ client' \in [Clients -> Client] /\ client'[c] = r
         /\ \A d \in Clients \ {c} : client'[d] = client[d]
BY ClientTyped

\* A call that leaves is idle again, and the lock is not its.
LEMMA Leaving ==
  ASSUME TypeOK, NEW c \in Clients, Leave(c)
  PROVE  /\ client' \in [Clients -> Client] /\ client'[c] = Idle
         /\ \A d \in Clients \ {c} : client'[d] = client[d]
         /\ lock' = (IF lock = c THEN Nobody ELSE lock)
         /\ lock' \in Clients \cup {Nobody} /\ lock' # c
<1>1. Nobody # c /\ lock \in Clients \cup {Nobody}
  BY PublicationsAssumption DEF PublicationsAssumption, TypeOK
<1>2. client' = [client EXCEPT ![c] = Idle] /\ lock' = (IF lock = c THEN Nobody ELSE lock)
  BY DEF Leave
<1> QED BY <1>1, <1>2, RecordTypes, OneMoves

\* A step of a call moves its pc alone.
LEMMA Stepping ==
  ASSUME TypeOK, NEW c \in Clients, NEW to \in {"viewing"} \cup InLock,
         client' = [client EXCEPT ![c].pc = to]
  PROVE  /\ client' \in [Clients -> Client]
         /\ client'[c] = [client[c] EXCEPT !.pc = to]
         /\ client'[c].pc = to /\ client'[c].name = client[c].name
         /\ client'[c].version = client[c].version /\ client'[c].req = client[c].req
         /\ client'[c].ref = client[c].ref /\ client'[c].reg = client[c].reg
         /\ \A d \in Clients \ {c} : client'[d] = client[d]
<1> DEFINE r == [client[c] EXCEPT !.pc = to]
<1>1. client \in [Clients -> Client] /\ client[c] \in Client
  BY ClientTyped
<1>2. r \in Client
  BY <1>1 DEF Client
<1>3. client'[c] = r
  BY <1>1
<1>4. /\ r.pc = to /\ r.name = client[c].name /\ r.version = client[c].version
      /\ r.req = client[c].req /\ r.ref = client[c].ref /\ r.reg = client[c].reg
  BY <1>1 DEF Client
<1> HIDE DEF r
<1>5. client' = [client EXCEPT ![c] = r]
  BY <1>1, <1>3
<1>6. client' \in [Clients -> Client] /\ \A d \in Clients \ {c} : client'[d] = client[d]
  BY <1>1, <1>2, <1>5
<1> QED BY <1>3, <1>4, <1>6 DEF r

\* A call that enters the lock has it alone, with the registry as it is.
LEMMA Entering ==
  ASSUME TypeOK, NEW c \in Clients, NEW pc \in InLock, NEW v \in Versions,
         NEW ref \in 0 .. MaxCommits, Enter(c, pc, v, ref)
  PROVE  /\ client' \in [Clients -> Client]
         /\ client'[c].pc = pc /\ client'[c].name = client[c].name
         /\ client'[c].version = v /\ client'[c].req = client[c].req
         /\ client'[c].ref = ref /\ client'[c].reg = registry
         /\ \A d \in Clients \ {c} : client'[d] = client[d]
         /\ lock = Nobody /\ lock' = c
<1> DEFINE r == [client[c] EXCEPT !.pc = pc, !.version = v, !.ref = ref, !.reg = registry]
<1>1. client \in [Clients -> Client] /\ client[c] \in Client /\ registry \in [Names -> Record]
  BY ClientTyped DEF TypeOK
<1>2. v \in 0 .. MaxVersion
  BY PublicationsAssumption DEF PublicationsAssumption, Versions
<1>3. r \in Client
  BY <1>1, <1>2 DEF Client
<1>4. client' = [client EXCEPT ![c] = r] /\ lock = Nobody /\ lock' = c
  BY <1>1 DEF Enter
<1>5. /\ r.pc = pc /\ r.name = client[c].name /\ r.version = v /\ r.req = client[c].req
      /\ r.ref = ref /\ r.reg = registry
  BY <1>1 DEF Client
<1> HIDE DEF r
<1> QED BY <1>3, <1>4, <1>5, OneMoves

LEMMA SlotTyped ==
  ASSUME TypeOK, NEW c \in Clients, client[c].name \in Names, client[c].version \in Versions
  PROVE  /\ Slot(c) \in Slots /\ Slot(c)[1] = client[c].name /\ Slot(c)[2] = client[c].version
         /\ branch[Slot(c)] \in -1 .. MaxCommits /\ tag[Slot(c)] \in Tag
BY DEF TypeOK, Slot, Slots

-----------------------------------------------------------------------------
(* What one client's step leaves of the others *)

\* A client in the lock is the only one that changes what the lock guards, so
\* a step of another client, or of none, leaves what it knows true.
LEMMA Undisturbed ==
  ASSUME PubInv, NEW d \in Clients, client'[d] = client[d],
         lock' = d <=> lock = d,
         lock = d => UNCHANGED <<registry, branch, commits>>
  PROVE  Inside(d)'
<1>1. Inside(d)
  BY DEF PubInv
<1>2. CASE lock = d
  BY <1>1, <1>2 DEF Inside, Listed, HasHead, Slot, RowOf, Held, IsPublishAttempt
<1>3. CASE lock # d
  BY <1>1, <1>3 DEF Inside, InLock
<1> QED BY <1>2, <1>3

\* The step of one client, with the files and the branches as they were.
LEMMA CallStep ==
  ASSUME PubInv, NEW c \in Clients,
         UNCHANGED <<registry, branch, tag, commits>>,
         client' \in [Clients -> Client],
         \A d \in Clients \ {c} : client'[d] = client[d],
         lock' \in {lock, c, Nobody}, lock \notin {c, Nobody} => lock' = lock,
         Inside(c)'
  PROVE  PubInv'
<1>1. lock' \in Clients \cup {Nobody}
  BY DEF PubInv, TypeOK
<1>2. TypeOK'
  BY <1>1 DEF PubInv, TypeOK, Client
<1>3. CurrentIsHeld'
  BY DEF PubInv, CurrentIsHeld, Held
<1>4. Rows'
  BY DEF PubInv, Rows, Listed, RowOf, IsPublishAttempt
<1>5. Attempts'
  BY DEF PubInv, Attempts, HasHead, IsPublishAttempt
<1>6. ASSUME NEW d \in Clients PROVE Inside(d)'
  <2>1. CASE d = c
    BY <2>1
  <2>2. CASE d # c
    <3>1. lock' = d <=> lock = d
      BY <2>2, PublicationsAssumption DEF PublicationsAssumption
    <3> QED BY <3>1, <2>2, Undisturbed
  <2> QED BY <2>1, <2>2
<1> QED BY <1>2, <1>3, <1>4, <1>5, <1>6 DEF PubInv

\* A call that only leaves.
LEMMA LeavingKeeps ==
  ASSUME PubInv, NEW c \in Clients, Leave(c), UNCHANGED <<registry, branch, tag, commits>>
  PROVE  PubInv'
<1>1. TypeOK /\ Nobody # c
  BY PublicationsAssumption DEF PubInv, PublicationsAssumption
<1>2. /\ client' \in [Clients -> Client] /\ client'[c] = Idle
      /\ \A d \in Clients \ {c} : client'[d] = client[d]
      /\ lock' = (IF lock = c THEN Nobody ELSE lock) /\ lock' # c
  BY <1>1, Leaving
<1>3. Inside(c)'
  BY <1>2 DEF Inside, Idle, InLock
<1> QED BY <1>1, <1>2, <1>3, CallStep

\* A call that only begins, outside the lock.
LEMMA BeginningKeeps ==
  ASSUME PubInv, NEW c \in Clients, At(c, "idle"), NEW call \in Client,
         call.pc \in Calling, call.name \in Names,
         call.pc = "publish" => call.req \in Requests,
         call.pc # "publish" => call.version \in Versions,
         Begin(c, call), UNCHANGED <<registry, branch, tag, lock, commits>>
  PROVE  PubInv'
<1>1. TypeOK /\ Inside(c)
  BY DEF PubInv
<1>2. /\ client' \in [Clients -> Client] /\ client'[c] = call
      /\ \A d \in Clients \ {c} : client'[d] = client[d]
  BY <1>1, OneMoves DEF Begin
<1>3. lock # c
  BY <1>1 DEF Inside, At, InLock
<1>4. Inside(c)'
  BY <1>2, <1>3 DEF Inside, InLock, Calling
<1> QED BY <1>2, <1>4, CallStep

\* Every call that begins keeps the invariant.
LEMMA CallsKeep ==
  ASSUME PubInv, NEW c \in Clients, NEW n \in Names
  PROVE  /\ \A v \in 0 .. MaxVersion, r \in Requests, current, only \in BOOLEAN :
               PublishCall(c, n, v, r, current, only) => PubInv'
         /\ \A v \in Versions :
               UnpublishCall(c, n, v) \/ OpenCall(c, n, v) \/ ResolveCall(c, n, v) => PubInv'
<1>1. Versions \subseteq 0 .. MaxVersion
  BY PublicationsAssumption DEF PublicationsAssumption, Versions
<1>2. ASSUME NEW v \in 0 .. MaxVersion, NEW r \in Requests, NEW current \in BOOLEAN,
             NEW only \in BOOLEAN, PublishCall(c, n, v, r, current, only)
      PROVE  PubInv'
  <2> DEFINE call == [Idle EXCEPT !.pc = "publish", !.name = n, !.version = v, !.req = r,
                                  !.current = current, !.only = only]
  <2>1. Begin(c, call) /\ At(c, "idle") /\ UNCHANGED <<registry, branch, tag, lock, commits>>
    BY <1>2 DEF PublishCall
  <2>2. call \in Client /\ call.pc = "publish" /\ call.name = n /\ call.req = r
    BY RecordTypes DEF Client, Calling
  <2> HIDE DEF call
  <2> QED BY <2>1, <2>2, BeginningKeeps DEF Calling
<1>3. ASSUME NEW v \in Versions, UnpublishCall(c, n, v) PROVE PubInv'
  <2> DEFINE call == [Idle EXCEPT !.pc = "unpublish", !.name = n, !.version = v]
  <2>1. Begin(c, call) /\ At(c, "idle") /\ UNCHANGED <<registry, branch, tag, lock, commits>>
    BY <1>3 DEF UnpublishCall
  <2>2. call \in Client /\ call.pc = "unpublish" /\ call.name = n /\ call.version = v
    BY <1>1, RecordTypes DEF Client, Calling
  <2> HIDE DEF call
  <2> QED BY <2>1, <2>2, BeginningKeeps DEF Calling
<1>4. ASSUME NEW v \in Versions, OpenCall(c, n, v) PROVE PubInv'
  <2> DEFINE call == [Idle EXCEPT !.pc = "open", !.name = n, !.version = v]
  <2>1. Begin(c, call) /\ At(c, "idle") /\ UNCHANGED <<registry, branch, tag, lock, commits>>
    BY <1>4 DEF OpenCall
  <2>2. call \in Client /\ call.pc = "open" /\ call.name = n /\ call.version = v
    BY <1>1, RecordTypes DEF Client, Calling
  <2> HIDE DEF call
  <2> QED BY <2>1, <2>2, BeginningKeeps DEF Calling
<1>5. ASSUME NEW v \in Versions, ResolveCall(c, n, v) PROVE PubInv'
  <2> DEFINE ref == RowOf(<<n, v>>).ref
             call == [Idle EXCEPT !.pc = "resolve", !.name = n, !.version = v, !.ref = ref]
  <2>1. Begin(c, call) /\ At(c, "idle") /\ UNCHANGED <<registry, branch, tag, lock, commits>>
    BY <1>5 DEF ResolveCall
  <2>2. ref \in 0 .. MaxCommits
    <3>1. RowOf(<<n, v>>) \in Row
      BY <1>5 DEF ResolveCall, PubInv, TypeOK, Record, RowOf, Listed
    <3> QED BY <3>1, PublicationsAssumption DEF PublicationsAssumption, Row, Ids
  <2> HIDE DEF ref
  <2>3. call \in Client /\ call.pc = "resolve" /\ call.name = n /\ call.version = v
    BY <1>1, <2>2, RecordTypes DEF Client, Calling
  <2> HIDE DEF call
  <2> QED BY <2>1, <2>3, BeginningKeeps DEF Calling
<1> QED BY <1>2, <1>3, <1>4, <1>5

-----------------------------------------------------------------------------
(* publish *)

\* A free version has no row, under the name the call was given.
LEMMA FreeIsUnlisted ==
  ASSUME PubInv, NEW c \in Clients, At(c, "publish"), FreeVersion(c, <<client[c].name, Chosen(c)>>)
  PROVE  /\ client[c].name \in Names /\ Chosen(c) \in Versions
         /\ <<client[c].name, Chosen(c)>> \in Slots /\ ~Listed(<<client[c].name, Chosen(c)>>)
         /\ client[c].req \in Requests
<1>1. Inside(c)
  BY DEF PubInv
<1>2. client[c].name \in Names /\ client[c].req \in Requests
  BY <1>1 DEF Inside, At
<1>3. Chosen(c) \in Versions /\ Chosen(c) \notin Held(registry, client[c].name)
  BY DEF FreeVersion
<1> QED BY <1>2, <1>3 DEF Slots, Listed, Held

LEMMA AdoptsKeeps ==
  ASSUME PubInv, NEW c \in Clients, PublishAdopts(c)
  PROVE  PubInv'
<1> DEFINE s == <<client[c].name, Chosen(c)>>
           pc == IF tag[s] = NoTag THEN "tag" ELSE "record"
<1>1. TypeOK /\ Attempts /\ At(c, "publish") /\ FreeVersion(c, s) /\ HasHead(s)
      /\ Enter(c, pc, s[2], branch[s]) /\ UNCHANGED <<registry, branch, tag, commits>>
  BY DEF PublishAdopts, Adoptable, PubInv
<1>2. /\ client[c].name \in Names /\ s[2] \in Versions /\ s \in Slots /\ ~Listed(s)
      /\ s[1] = client[c].name
  BY <1>1, FreeIsUnlisted
<1>3. /\ branch[s] \in 1 .. Len(commits) /\ IsPublishAttempt(commits[branch[s]], s)
      /\ branch[s] \in 0 .. MaxCommits
  BY <1>1, <1>2, PublicationsAssumption
     DEF Attempts, TypeOK, HasHead, EmptyBranch, PublicationsAssumption
<1>4. pc \in InLock /\ pc \in {"tag", "record"}
  BY DEF InLock
<1> HIDE DEF pc
<1>5. /\ client' \in [Clients -> Client]
      /\ client'[c].pc = pc /\ client'[c].name = client[c].name
      /\ client'[c].version = s[2] /\ client'[c].ref = branch[s]
      /\ client'[c].reg = registry
      /\ \A d \in Clients \ {c} : client'[d] = client[d]
      /\ lock = Nobody /\ lock' = c
  BY <1>1, <1>2, <1>3, <1>4, Entering
<1>6. Slot(c)' = s
  BY <1>5, <1>2 DEF Slot
<1>7. Inside(c)'
  BY <1>1, <1>2, <1>3, <1>4, <1>5, <1>6 DEF Inside, InLock, Listed, IsPublishAttempt
<1> QED BY <1>1, <1>5, <1>7, CallStep

LEMMA WritesKeeps ==
  ASSUME PubInv, NEW c \in Clients, PublishWrites(c)
  PROVE  PubInv'
<1> DEFINE s == <<client[c].name, Chosen(c)>>
<1>1. TypeOK /\ At(c, "publish") /\ FreeVersion(c, s) /\ MayWrite(c, s)
      /\ Enter(c, "branch", s[2], 0) /\ UNCHANGED <<registry, branch, tag, commits>>
  BY DEF PublishWrites, PubInv
<1>2. /\ client[c].name \in Names /\ s[2] \in Versions /\ s \in Slots /\ ~Listed(s)
      /\ s[1] = client[c].name /\ client[c].req \in Requests
  BY <1>1, FreeIsUnlisted
<1>3. "branch" \in InLock /\ 0 \in 0 .. MaxCommits
  BY PublicationsAssumption DEF PublicationsAssumption, InLock
<1>4. /\ client' \in [Clients -> Client]
      /\ client'[c].pc = "branch" /\ client'[c].name = client[c].name
      /\ client'[c].version = s[2] /\ client'[c].req = client[c].req
      /\ client'[c].reg = registry
      /\ \A d \in Clients \ {c} : client'[d] = client[d]
      /\ lock = Nobody /\ lock' = c
  BY <1>1, <1>2, <1>3, Entering
<1>5. Slot(c)' = s
  BY <1>4, <1>2 DEF Slot
<1>6. Inside(c)'
  BY <1>1, <1>2, <1>4, <1>5 DEF Inside, InLock, Listed, MayWrite, HasHead
<1> QED BY <1>1, <1>4, <1>6, CallStep

\* The lock's holder, or a client while nobody holds it, changes what it guards.
LEMMA GuardedStep ==
  ASSUME PubInv, NEW c \in Clients, lock \in {c, Nobody}, lock' \in {c, Nobody},
         \A d \in Clients \ {c} : client'[d] = client[d],
         Inside(c)'
  PROVE  \A d \in Clients : Inside(d)'
<1>1. ASSUME NEW d \in Clients \ {c} PROVE Inside(d)'
  <2>1. lock # d /\ lock' # d
    BY PublicationsAssumption DEF PublicationsAssumption
  <2> QED BY <2>1, Undisturbed
<1> QED BY <1>1

\* A publish that has the lock works on its own slot, which has no row.
LEMMA PublishSlot ==
  ASSUME PubInv, NEW c \in Clients, client[c].pc \in {"branch", "commit", "tag", "record"}
  PROVE  /\ TypeOK /\ Inside(c) /\ lock = c
         /\ client[c].name \in Names /\ client[c].version \in Versions
         /\ Slot(c) \in Slots /\ ~Listed(Slot(c)) /\ client[c].reg = registry
<1>1. TypeOK /\ Inside(c)
  BY DEF PubInv
<1>2. /\ lock = c /\ client[c].name \in Names /\ client[c].version \in Versions
      /\ client[c].reg = registry /\ ~Listed(Slot(c))
  BY <1>1 DEF Inside, InLock
<1> QED BY <1>1, <1>2, SlotTyped

LEMMA CreateBranchKeeps ==
  ASSUME PubInv, NEW c \in Clients, CreateBranch(c)
  PROVE  PubInv'
<1>0. PICK s : s = Slot(c)
  OBVIOUS
<1>1. /\ client[c].pc = "branch" /\ client' = [client EXCEPT ![c].pc = "commit"]
      /\ branch' = [branch EXCEPT ![s] = IF @ = NoBranch THEN EmptyBranch ELSE @]
      /\ UNCHANGED <<registry, tag, lock, commits>>
  BY <1>0 DEF CreateBranch, Step, At
<1>2. /\ TypeOK /\ Inside(c) /\ lock = c /\ s \in Slots /\ ~Listed(s)
      /\ client[c].reg = registry
  BY <1>0, <1>1, PublishSlot
<1>3. /\ client' \in [Clients -> Client]
      /\ client'[c].pc = "commit" /\ client'[c].name = client[c].name
      /\ client'[c].version = client[c].version /\ client'[c].req = client[c].req
      /\ client'[c].reg = client[c].reg
      /\ \A d \in Clients \ {c} : client'[d] = client[d]
  BY <1>1, <1>2, Stepping DEF InLock
<1>4. /\ branch \in [Slots -> -1 .. MaxCommits] /\ ~HasHead(s)
  BY <1>0, <1>1, <1>2 DEF Inside, TypeOK
<1>5. /\ branch' \in [Slots -> -1 .. MaxCommits]
      /\ ~HasHead(s)' /\ \A z \in Slots \ {s} : branch'[z] = branch[z]
  BY <1>1, <1>2, <1>4, PublicationsAssumption
     DEF PublicationsAssumption, HasHead, NoBranch, EmptyBranch
<1>6. TypeOK'
  BY <1>1, <1>2, <1>3, <1>5 DEF TypeOK, Client
<1>7. CurrentIsHeld'
  BY <1>1 DEF PubInv, CurrentIsHeld, Held
<1>8. Rows'
  BY <1>1, <1>2, <1>5 DEF PubInv, Rows, Listed, RowOf, IsPublishAttempt
<1>9. Attempts'
  BY <1>1, <1>2, <1>5 DEF PubInv, Attempts, HasHead, IsPublishAttempt
<1>10. Inside(c)'
  <2>1. Slot(c)' = s
    BY <1>0, <1>3 DEF Slot
  <2> QED BY <1>1, <1>2, <1>3, <1>5, <2>1 DEF Inside, InLock, Listed
<1> QED BY <1>1, <1>2, <1>3, <1>6, <1>7, <1>8, <1>9, <1>10, GuardedStep DEF PubInv

LEMMA CommitTreeKeeps ==
  ASSUME PubInv, NEW c \in Clients, CommitTree(c)
  PROVE  PubInv'
<1>0. PICK s : s = Slot(c)
  OBVIOUS
<1> DEFINE info == [name |-> client[c].name, version |-> client[c].version,
                    req |-> client[c].req]
           commit == Len(commits) + 1
<1>1. /\ client[c].pc = "commit"
      /\ client' = [client EXCEPT ![c].pc = "tag", ![c].ref = commit]
      /\ branch' = [branch EXCEPT ![s] = commit] /\ commits' = Append(commits, info)
      /\ UNCHANGED <<registry, tag, lock>>
  BY <1>0 DEF CommitTree, At
<1>2. /\ TypeOK /\ Inside(c) /\ lock = c /\ s \in Slots /\ ~Listed(s)
      /\ client[c].reg = registry /\ client[c].name \in Names
      /\ client[c].version \in Versions
  BY <1>0, <1>1, PublishSlot
<1>3. client[c].req \in Requests /\ Len(commits) < MaxCommits
  BY <1>1, <1>2 DEF Inside
<1>4. info \in Info /\ commits \in Seq(Info)
  BY <1>2, <1>3 DEF Info, TypeOK
<1>5. /\ commits' \in Seq(Info) /\ Len(commits') = commit /\ commits'[commit] = info
      /\ \A i \in 1 .. Len(commits) : commits'[i] = commits[i]
      /\ Len(commits) \in Nat
  <2> HIDE DEF info
  <2> QED BY <1>1, <1>4
<1>6. commit \in 1 .. MaxCommits
  BY <1>3, <1>5, PublicationsAssumption DEF PublicationsAssumption
<1>7. /\ client' \in [Clients -> Client]
      /\ client'[c].pc = "tag" /\ client'[c].name = client[c].name
      /\ client'[c].version = client[c].version /\ client'[c].ref = commit
      /\ client'[c].reg = client[c].reg
      /\ \A d \in Clients \ {c} : client'[d] = client[d]
  <2> DEFINE r == [client[c] EXCEPT !.pc = "tag", !.ref = commit]
  <2>1. client \in [Clients -> Client] /\ client[c] \in Client
    BY <1>2, ClientTyped
  <2>2. commit \in 0 .. MaxCommits
    BY <1>6
  <2> HIDE DEF commit
  <2>3. r \in Client
    BY <2>1, <2>2 DEF Client, InLock
  <2>4. client' = [client EXCEPT ![c] = r]
    BY <1>1, <2>1
  <2>5. /\ r.pc = "tag" /\ r.name = client[c].name /\ r.version = client[c].version
        /\ r.ref = commit /\ r.reg = client[c].reg
    BY <2>1 DEF Client
  <2> HIDE DEF r
  <2> QED BY <1>2, <2>3, <2>4, <2>5, OneMoves
<1>8. /\ branch' \in [Slots -> -1 .. MaxCommits]
      /\ branch'[s] = commit /\ \A z \in Slots \ {s} : branch'[z] = branch[z]
  <2>1. commit \in -1 .. MaxCommits
    BY <1>6
  <2>2. branch \in [Slots -> -1 .. MaxCommits]
    BY <1>2 DEF TypeOK
  <2> HIDE DEF commit
  <2> QED BY <1>1, <1>2, <2>1, <2>2
<1>9. IsPublishAttempt(info, s)
  BY <1>0 DEF IsPublishAttempt, Slot
<1> HIDE DEF info, commit
<1>10. TypeOK'
  BY <1>1, <1>2, <1>5, <1>6, <1>7, <1>8 DEF TypeOK, Client
<1>11. CurrentIsHeld'
  BY <1>1 DEF PubInv, CurrentIsHeld, Held
<1>12. Rows'
  <2> SUFFICES ASSUME NEW z \in Slots, Listed(z)'
               PROVE  /\ RowOf(z)'.ref \in 1 .. Len(commits')
                      /\ IsPublishAttempt(commits'[RowOf(z)'.ref], z)
                      /\ RowOf(z)'.info = commits'[RowOf(z)'.ref].req
                      /\ branch'[z] \in {RowOf(z)'.ref, NoBranch}
    BY DEF Rows, IsPublishAttempt
  <2>1. Listed(z) /\ RowOf(z)' = RowOf(z) /\ z # s
    BY <1>1, <1>2 DEF Listed, RowOf
  <2>2. /\ RowOf(z).ref \in 1 .. Len(commits)
        /\ IsPublishAttempt(commits[RowOf(z).ref], z)
        /\ RowOf(z).info = commits[RowOf(z).ref].req
        /\ branch[z] \in {RowOf(z).ref, NoBranch}
    BY <2>1 DEF PubInv, Rows
  <2>3. RowOf(z).ref \in 1 .. Len(commits')
    BY <1>5, <2>2 DEF commit
  <2> QED BY <1>5, <1>8, <2>1, <2>2, <2>3
<1>13. Attempts'
  <2> SUFFICES ASSUME NEW z \in Slots
               PROVE  /\ HasHead(z)' => /\ branch'[z] \in 1 .. Len(commits')
                                        /\ IsPublishAttempt(commits'[branch'[z]], z)
                      /\ tag[z].published => /\ tag[z].at \in 1 .. Len(commits')
                                             /\ IsPublishAttempt(commits'[tag[z].at], z)
    BY <1>1 DEF Attempts, IsPublishAttempt
  <2>1. 1 .. Len(commits) \subseteq 1 .. Len(commits') /\ commit \in 1 .. Len(commits')
    BY <1>5 DEF commit
  <2>2. Attempts
    BY DEF PubInv
  <2>3. tag[z].published => /\ tag[z].at \in 1 .. Len(commits')
                            /\ IsPublishAttempt(commits'[tag[z].at], z)
    BY <1>5, <2>1, <2>2 DEF Attempts
  <2>4. CASE z = s
    BY <1>5, <1>8, <1>9, <2>1, <2>3, <2>4
  <2>5. CASE z # s
    BY <1>5, <1>8, <2>1, <2>2, <2>3, <2>5 DEF Attempts, HasHead
  <2> QED BY <2>4, <2>5
<1>14. Inside(c)'
  <2>1. Slot(c)' = s
    BY <1>0, <1>7 DEF Slot
  <2>2. commit \in 1 .. Len(commits') /\ IsPublishAttempt(commits'[commit], s)
    BY <1>5, <1>9 DEF commit
  <2>3. ~Listed(s)'
    BY <1>1, <1>2 DEF Listed
  <2>4. /\ lock' = c /\ client'[c].pc = "tag" /\ client'[c].name \in Names
        /\ client'[c].version \in Versions /\ client'[c].reg = registry'
        /\ client'[c].ref = commit /\ branch'[Slot(c)'] = commit
    BY <1>1, <1>2, <1>7, <1>8, <2>1
  <2> QED BY <2>1, <2>2, <2>3, <2>4 DEF Inside, InLock, IsPublishAttempt
<1> QED BY <1>1, <1>2, <1>7, <1>10, <1>11, <1>12, <1>13, <1>14, GuardedStep DEF PubInv

\* A tag is made or removed, and only publish's own says what it is of.
LEMMA TagStep ==
  ASSUME PubInv, NEW s \in Slots, NEW t \in Tag, tag' = [tag EXCEPT ![s] = t],
         t.published => /\ t.at \in 1 .. Len(commits)
                        /\ IsPublishAttempt(commits[t.at], s),
         UNCHANGED <<registry, branch, commits>>
  PROVE  tag' \in [Slots -> Tag] /\ CurrentIsHeld' /\ Rows' /\ Attempts'
<1>1. /\ tag' \in [Slots -> Tag] /\ tag'[s] = t
      /\ \A z \in Slots \ {s} : tag'[z] = tag[z]
  BY DEF PubInv, TypeOK
<1>2. CurrentIsHeld'
  BY DEF PubInv, CurrentIsHeld, Held
<1>3. Rows'
  BY DEF PubInv, Rows, Listed, RowOf, IsPublishAttempt
<1>4. Attempts'
  BY <1>1 DEF PubInv, Attempts, HasHead, IsPublishAttempt
<1> QED BY <1>1, <1>2, <1>3, <1>4

LEMMA MintTagKeeps ==
  ASSUME PubInv, NEW c \in Clients, MintTag(c)
  PROVE  PubInv'
<1>0. PICK s : s = Slot(c)
  OBVIOUS
<1> DEFINE t == [at |-> client[c].ref, published |-> TRUE]
<1>1. /\ client[c].pc = "tag" /\ client' = [client EXCEPT ![c].pc = "record"]
      /\ tag' = [tag EXCEPT ![s] = t] /\ UNCHANGED <<registry, branch, lock, commits>>
  BY <1>0 DEF MintTag, Step, At
<1>2. /\ TypeOK /\ Inside(c) /\ lock = c /\ s \in Slots /\ ~Listed(s)
      /\ client[c].reg = registry
  BY <1>0, <1>1, PublishSlot
<1>3. /\ client[c].ref \in 1 .. Len(commits) /\ IsPublishAttempt(commits[client[c].ref], s)
      /\ branch[s] = client[c].ref
  BY <1>0, <1>1, <1>2 DEF Inside
<1>4. t \in Tag /\ t.at = client[c].ref
  BY <1>2, <1>3, PublicationsAssumption DEF PublicationsAssumption, TypeOK, Tag
<1> HIDE DEF t
<1>5. tag' \in [Slots -> Tag] /\ CurrentIsHeld' /\ Rows' /\ Attempts'
  BY <1>1, <1>2, <1>3, <1>4, TagStep
<1>6. /\ client' \in [Clients -> Client]
      /\ client'[c].pc = "record" /\ client'[c].name = client[c].name
      /\ client'[c].version = client[c].version /\ client'[c].ref = client[c].ref
      /\ client'[c].reg = client[c].reg
      /\ \A d \in Clients \ {c} : client'[d] = client[d]
  BY <1>1, <1>2, Stepping DEF InLock
<1>7. TypeOK'
  BY <1>1, <1>2, <1>5, <1>6 DEF TypeOK, Client
<1>8. Inside(c)'
  <2>1. Slot(c)' = s
    BY <1>0, <1>6 DEF Slot
  <2> QED BY <1>1, <1>2, <1>3, <1>6, <2>1 DEF Inside, InLock, Listed, IsPublishAttempt
<1> QED BY <1>1, <1>2, <1>5, <1>6, <1>7, <1>8, GuardedStep DEF PubInv

\* The registry is written whole, by a client that has the lock or none has it,
\* with only one name's record changed.
LEMMA RecordStep ==
  ASSUME PubInv, NEW n \in Names, NEW r \in Record, registry' = [registry EXCEPT ![n] = r],
         IF \A v \in Versions : r.rows[v] = NoRow THEN r = NoRecord
         ELSE r.current \in Versions /\ r.rows[r.current] # NoRow,
         \A v \in Versions : r.rows[v] \in {registry[n].rows[v], NoRow} \/
             /\ r.rows[v].ref \in 1 .. Len(commits)
             /\ IsPublishAttempt(commits[r.rows[v].ref], <<n, v>>)
             /\ r.rows[v].info = commits[r.rows[v].ref].req
             /\ branch[<<n, v>>] = r.rows[v].ref,
         UNCHANGED <<branch, tag, commits>>
  PROVE  registry' \in [Names -> Record] /\ CurrentIsHeld' /\ Rows' /\ Attempts'
<1>1. /\ registry' \in [Names -> Record] /\ registry'[n] = r
      /\ \A m \in Names \ {n} : registry'[m] = registry[m]
  BY DEF PubInv, TypeOK
<1>2. CurrentIsHeld'
  <2> SUFFICES ASSUME NEW m \in Names
               PROVE  IF Held(registry', m) = {} THEN registry'[m] = NoRecord
                      ELSE registry'[m].current \in Held(registry', m)
    BY DEF CurrentIsHeld, Held
  <2>1. CASE m = n
    BY <1>1, <2>1 DEF Held
  <2>2. CASE m # n
    BY <1>1, <2>2 DEF PubInv, CurrentIsHeld, Held
  <2> QED BY <2>1, <2>2
<1>3. Rows'
  <2> SUFFICES ASSUME NEW s \in Slots, Listed(s)'
               PROVE  /\ RowOf(s)'.ref \in 1 .. Len(commits)
                      /\ IsPublishAttempt(commits[RowOf(s)'.ref], s)
                      /\ RowOf(s)'.info = commits[RowOf(s)'.ref].req
                      /\ branch[s] \in {RowOf(s)'.ref, NoBranch}
    BY DEF Rows, IsPublishAttempt
  <2>1. s[1] \in Names /\ s[2] \in Versions /\ s = <<s[1], s[2]>>
    BY DEF Slots
  <2>2. Rows /\ RowOf(s)' = registry'[s[1]].rows[s[2]] /\ RowOf(s)' # NoRow
    BY DEF PubInv, RowOf, Listed
  <2>3. CASE RowOf(s)' = RowOf(s)
    BY <2>2, <2>3 DEF Rows, Listed, RowOf
  <2>4. CASE RowOf(s)' # RowOf(s)
    <3>1. s[1] = n /\ RowOf(s)' = r.rows[s[2]]
      BY <1>1, <2>1, <2>2, <2>4 DEF RowOf
    <3>2. r.rows[s[2]] \notin {registry[n].rows[s[2]], NoRow}
      BY <2>2, <2>4, <3>1 DEF RowOf
    <3> QED BY <2>1, <3>1, <3>2
  <2> QED BY <2>3, <2>4
<1>4. Attempts'
  BY DEF PubInv, Attempts, HasHead, IsPublishAttempt
<1> QED BY <1>1, <1>2, <1>3, <1>4

LEMMA RecordVersionKeeps ==
  ASSUME PubInv, NEW c \in Clients, RecordVersion(c)
  PROVE  PubInv'
<1>0. PICK n, v : n = client[c].name /\ v = client[c].version
  OBVIOUS
<1> DEFINE old == registry[n]
           row == RowFor(c)
           r == [rows |-> [old.rows EXCEPT ![v] = row],
                 current |-> IF Points(c) THEN v ELSE old.current, meta |-> old.meta]
<1>1. /\ TypeOK /\ CurrentIsHeld /\ Inside(c) /\ client[c].pc = "record" /\ lock = c
      /\ n \in Names /\ v \in Versions /\ <<n, v>> \in Slots
      /\ Slot(c) = <<n, v>> /\ client[c].reg = registry
  BY <1>0, PublishSlot DEF RecordVersion, At, PubInv, Slot
<1>2. registry' = [registry EXCEPT ![n] = r] /\ Leave(c) /\ UNCHANGED <<branch, tag, commits>>
  BY <1>0, <1>1 DEF RecordVersion
<1>3. /\ client[c].ref \in 1 .. Len(commits)
      /\ IsPublishAttempt(commits[client[c].ref], <<n, v>>)
      /\ branch[<<n, v>>] = client[c].ref
  BY <1>1 DEF Inside
<1>4. /\ row \in Row /\ row.ref = client[c].ref /\ row.info = commits[row.ref].req
      /\ row # NoRow
  <2>1. commits[client[c].ref].req \in Requests /\ client[c].ref \in Ids
    <3>1. commits \in Seq(Info) /\ Len(commits) <= MaxCommits
      BY <1>1 DEF TypeOK
    <3>2. commits[client[c].ref] \in Info
      BY <1>3, <3>1
    <3>3. client[c].ref \in 1 .. MaxCommits
      BY <1>3, <3>1, PublicationsAssumption DEF PublicationsAssumption
    <3> QED BY <3>2, <3>3 DEF Info, Ids
  <2>2. row = [ref |-> client[c].ref, info |-> commits[client[c].ref].req]
    BY DEF RowFor
  <2>3. row \in Row
    BY <2>1, <2>2 DEF Row
  <2> QED BY <2>2, <2>3, RecordTypes
<1>5. /\ old \in Record /\ old.rows \in [Versions -> Row \cup {NoRow}]
      /\ old.current \in 0 .. MaxVersion /\ old.meta \in Metas \cup {NoMeta}
  BY <1>1 DEF TypeOK, Record
<1>6. Points(c) <=> client[c].current \/ old.current \notin Held(registry, n)
  BY <1>0, <1>1 DEF Points
<1> HIDE DEF row, old
<1>7. /\ [old.rows EXCEPT ![v] = row] \in [Versions -> Row \cup {NoRow}]
      /\ [old.rows EXCEPT ![v] = row][v] = row
      /\ \A w \in Versions \ {v} : [old.rows EXCEPT ![v] = row][w] = old.rows[w]
  BY <1>1, <1>4, <1>5
<1>8. v \in 0 .. MaxVersion
  BY <1>1, PublicationsAssumption DEF PublicationsAssumption, Versions
<1>9. /\ r \in Record /\ r.rows[v] = row /\ \A w \in Versions \ {v} : r.rows[w] = old.rows[w]
      /\ r.current = IF Points(c) THEN v ELSE old.current
  BY <1>5, <1>7, <1>8 DEF Record
<1> HIDE DEF r
<1>10. r.current \in Versions /\ r.rows[r.current] # NoRow
  <2>1. CASE Points(c)
    BY <1>1, <1>4, <1>9, <2>1
  <2>2. CASE ~Points(c)
    <3>1. old.current \in Versions /\ old.rows[old.current] # NoRow
      BY <1>6, <2>2 DEF Held, old
    <3> QED BY <1>4, <1>9, <2>2, <3>1
  <2> QED BY <2>1, <2>2
<1>11. \A w \in Versions : r.rows[w] \in {registry[n].rows[w], NoRow} \/
             /\ r.rows[w].ref \in 1 .. Len(commits)
             /\ IsPublishAttempt(commits[r.rows[w].ref], <<n, w>>)
             /\ r.rows[w].info = commits[r.rows[w].ref].req
             /\ branch[<<n, w>>] = r.rows[w].ref
  BY <1>3, <1>4, <1>9 DEF old
<1>12. registry' \in [Names -> Record] /\ CurrentIsHeld' /\ Rows' /\ Attempts'
  <2>1. ~ \A w \in Versions : r.rows[w] = NoRow
    BY <1>10
  <2>2. r \in Record
    BY <1>9
  <2> QED BY <1>1, <1>2, <1>10, <1>11, <2>1, <2>2, RecordStep
<1>13. /\ client' \in [Clients -> Client] /\ client'[c] = Idle
       /\ \A d \in Clients \ {c} : client'[d] = client[d] /\ lock' = Nobody
  BY <1>1, <1>2, Leaving
<1>14. TypeOK'
  BY <1>1, <1>2, <1>12, <1>13, Leaving DEF TypeOK, Client
<1>15. Inside(c)'
  BY <1>13, <1>2, <1>1, Leaving DEF Inside, Idle, InLock
<1> QED BY <1>1, <1>2, <1>12, <1>13, <1>14, <1>15, GuardedStep, Leaving DEF PubInv

-----------------------------------------------------------------------------
(* The pointer, the metadata, and unpublish *)

\* A step that holds no lock, changes no client and keeps the branches.
LEMMA NobodyInside ==
  ASSUME PubInv, UNCHANGED <<client, lock>>,
         lock = Nobody \/ UNCHANGED <<registry, branch, commits>>
  PROVE  \A d \in Clients : Inside(d)'
<1> SUFFICES ASSUME NEW d \in Clients PROVE Inside(d)'
  OBVIOUS
<1>1. lock = d => UNCHANGED <<registry, branch, commits>>
  BY PublicationsAssumption DEF PublicationsAssumption
<1> QED BY <1>1, Undisturbed

LEMMA SetsKeep ==
  ASSUME PubInv, NEW c \in Clients, NEW n \in Names
  PROVE  /\ \A v \in Versions : SetCurrent(c, n, v) => PubInv'
         /\ \A m \in Metas : SetMeta(c, n, m) => PubInv'
<1> DEFINE old == registry[n]
<1>1. TypeOK /\ CurrentIsHeld /\ registry \in [Names -> Record] /\ old \in Record
  BY DEF PubInv, TypeOK
<1>2. ASSUME NEW r \in Record, registry' = [registry EXCEPT ![n] = r], lock = Nobody,
             r.rows = old.rows, r.current \in Held(registry, n),
             UNCHANGED <<branch, tag, lock, client, commits>>
      PROVE  PubInv'
  <2>1. r.current \in Versions /\ r.rows[r.current] # NoRow
    BY <1>2 DEF Held
  <2>2. ~ \A w \in Versions : r.rows[w] = NoRow
    BY <2>1
  <2>3. \A w \in Versions : r.rows[w] \in {registry[n].rows[w], NoRow}
    BY <1>2
  <2>4. registry' \in [Names -> Record] /\ CurrentIsHeld' /\ Rows' /\ Attempts'
    BY <1>2, <2>1, <2>2, <2>3, RecordStep
  <2>5. TypeOK'
    BY <1>1, <1>2, <2>4 DEF TypeOK
  <2> QED BY <1>2, <2>4, <2>5, NobodyInside DEF PubInv
<1>3. ASSUME NEW v \in Versions, SetCurrent(c, n, v) PROVE PubInv'
  <2> DEFINE r == [old EXCEPT !.current = v]
  <2>1. /\ v \in Held(registry, n) /\ lock = Nobody
        /\ registry' = [registry EXCEPT ![n].current = v]
        /\ UNCHANGED <<branch, tag, lock, client, commits>>
    BY <1>3 DEF SetCurrent
  <2>2. v \in 0 .. MaxVersion
    BY PublicationsAssumption DEF PublicationsAssumption, Versions
  <2>3. registry' = [registry EXCEPT ![n] = r]
    BY <1>1, <2>1
  <2> HIDE DEF old
  <2>4. r \in Record /\ r.rows = old.rows /\ r.current = v
    BY <1>1, <2>2 DEF Record
  <2> HIDE DEF r
  <2> QED BY <1>2, <2>1, <2>3, <2>4
<1>4. ASSUME NEW m \in Metas, SetMeta(c, n, m) PROVE PubInv'
  <2> DEFINE r == [old EXCEPT !.meta = m]
  <2>1. /\ Held(registry, n) # {} /\ lock = Nobody
        /\ registry' = [registry EXCEPT ![n].meta = m]
        /\ UNCHANGED <<branch, tag, lock, client, commits>>
    BY <1>4 DEF SetMeta
  <2>2. registry' = [registry EXCEPT ![n] = r]
    BY <1>1, <2>1
  <2>3. old.current \in Held(registry, n)
    BY <1>1, <2>1 DEF CurrentIsHeld
  <2> HIDE DEF old
  <2>4. r \in Record /\ r.rows = old.rows /\ r.current = old.current
    BY <1>1 DEF Record
  <2> HIDE DEF r
  <2> QED BY <1>2, <2>1, <2>2, <2>3, <2>4
<1> QED BY <1>3, <1>4

\* An unpublish goes on only where nothing is served off its version.
LEMMA UnpublishRemovesKeeps ==
  ASSUME PubInv, NEW c \in Clients, UnpublishRemoves(c)
  PROVE  PubInv'
<1>0. PICK s, pc : s = Slot(c) /\ pc = (IF tag[s] = NoTag THEN "prune" ELSE "untag")
  OBVIOUS
<1>1. /\ client[c].pc = "unpublish" /\ MayUnpublish(s)
      /\ Enter(c, pc, client[c].version, 0) /\ UNCHANGED <<registry, branch, tag, commits>>
  BY <1>0 DEF UnpublishRemoves, At
<1>2. TypeOK /\ Inside(c) /\ client[c].name \in Names /\ client[c].version \in Versions
  BY <1>1 DEF PubInv, Inside
<1>3. s = <<client[c].name, client[c].version>> /\ 0 \in 0 .. MaxCommits /\ pc \in InLock
      /\ pc \in {"prune", "untag"}
  BY <1>0, PublicationsAssumption DEF PublicationsAssumption, Slot, InLock
<1>4. /\ client' \in [Clients -> Client]
      /\ client'[c].pc = pc /\ client'[c].name = client[c].name
      /\ client'[c].version = client[c].version /\ client'[c].reg = registry
      /\ \A d \in Clients \ {c} : client'[d] = client[d]
      /\ lock = Nobody /\ lock' = c
  BY <1>1, <1>2, <1>3, Entering
<1>5. \/ registry[client[c].name].current # client[c].version
      \/ Held(registry, client[c].name) \subseteq {client[c].version}
  <2>1. CASE Listed(s)
    BY <1>1, <1>3, <2>1 DEF MayUnpublish
  <2>2. CASE ~Listed(s)
    <3>1. client[c].version \notin Held(registry, client[c].name)
      BY <1>3, <2>2 DEF Listed, Held
    <3>2. CurrentIsHeld
      BY DEF PubInv
    <3> QED BY <1>2, <3>1, <3>2 DEF CurrentIsHeld
  <2> QED BY <2>1, <2>2
<1>6. Inside(c)'
  BY <1>1, <1>2, <1>3, <1>4, <1>5 DEF Inside, InLock, Held
<1> QED BY <1>1, <1>4, <1>6, CallStep

\* An unpublish that has the lock works on a version nothing is served off.
LEMMA UnpublishSlot ==
  ASSUME PubInv, NEW c \in Clients, client[c].pc \in {"untag", "prune", "drop"}
  PROVE  /\ TypeOK /\ Inside(c) /\ lock = c
         /\ client[c].name \in Names /\ client[c].version \in Versions
         /\ Slot(c) \in Slots /\ client[c].reg = registry
         /\ \/ registry[client[c].name].current # client[c].version
            \/ Held(registry, client[c].name) \subseteq {client[c].version}
<1>1. TypeOK /\ Inside(c)
  BY DEF PubInv
<1>2. /\ lock = c /\ client[c].name \in Names /\ client[c].version \in Versions
      /\ client[c].reg = registry
      /\ \/ registry[client[c].name].current # client[c].version
         \/ Held(registry, client[c].name) \subseteq {client[c].version}
  BY <1>1 DEF Inside, InLock
<1> QED BY <1>1, <1>2, SlotTyped

LEMMA RemoveTagKeeps ==
  ASSUME PubInv, NEW c \in Clients, RemoveTag(c)
  PROVE  PubInv'
<1>0. PICK s : s = Slot(c)
  OBVIOUS
<1>1. /\ client[c].pc = "untag" /\ client' = [client EXCEPT ![c].pc = "prune"]
      /\ tag' = [tag EXCEPT ![s] = NoTag] /\ UNCHANGED <<registry, branch, lock, commits>>
  BY <1>0 DEF RemoveTag, Step, At
<1>2. /\ TypeOK /\ Inside(c) /\ lock = c /\ s \in Slots /\ client[c].reg = registry
      /\ client[c].name \in Names /\ client[c].version \in Versions
      /\ \/ registry[client[c].name].current # client[c].version
         \/ Held(registry, client[c].name) \subseteq {client[c].version}
  BY <1>0, <1>1, UnpublishSlot
<1>3. NoTag \in Tag /\ ~NoTag.published
  BY RecordTypes DEF NoTag
<1>4. tag' \in [Slots -> Tag] /\ CurrentIsHeld' /\ Rows' /\ Attempts'
  BY <1>1, <1>2, <1>3, TagStep
<1>5. /\ client' \in [Clients -> Client]
      /\ client'[c].pc = "prune" /\ client'[c].name = client[c].name
      /\ client'[c].version = client[c].version /\ client'[c].reg = client[c].reg
      /\ \A d \in Clients \ {c} : client'[d] = client[d]
  BY <1>1, <1>2, Stepping DEF InLock
<1>6. TypeOK'
  BY <1>1, <1>2, <1>4, <1>5 DEF TypeOK, Client
<1>7. Inside(c)'
  BY <1>1, <1>2, <1>5 DEF Inside, InLock, Held
<1> QED BY <1>1, <1>2, <1>4, <1>5, <1>6, <1>7, GuardedStep DEF PubInv

LEMMA RemoveBranchKeeps ==
  ASSUME PubInv, NEW c \in Clients, RemoveBranch(c)
  PROVE  PubInv'
<1>0. PICK s : s = Slot(c)
  OBVIOUS
<1>1. /\ client[c].pc = "prune" /\ client' = [client EXCEPT ![c].pc = "drop"]
      /\ branch' = [branch EXCEPT ![s] = NoBranch]
      /\ UNCHANGED <<registry, tag, lock, commits>>
  BY <1>0 DEF RemoveBranch, Step, At
<1>2. /\ TypeOK /\ Inside(c) /\ lock = c /\ s \in Slots /\ client[c].reg = registry
      /\ client[c].name \in Names /\ client[c].version \in Versions
      /\ \/ registry[client[c].name].current # client[c].version
         \/ Held(registry, client[c].name) \subseteq {client[c].version}
  BY <1>0, <1>1, UnpublishSlot
<1>3. branch \in [Slots -> -1 .. MaxCommits]
  BY <1>2 DEF TypeOK
<1>4. /\ branch' \in [Slots -> -1 .. MaxCommits] /\ branch'[s] = NoBranch
      /\ \A z \in Slots \ {s} : branch'[z] = branch[z]
  BY <1>1, <1>2, <1>3, PublicationsAssumption DEF PublicationsAssumption, NoBranch
<1>5. /\ client' \in [Clients -> Client]
      /\ client'[c].pc = "drop" /\ client'[c].name = client[c].name
      /\ client'[c].version = client[c].version /\ client'[c].reg = client[c].reg
      /\ \A d \in Clients \ {c} : client'[d] = client[d]
  BY <1>1, <1>2, Stepping DEF InLock
<1>6. TypeOK'
  BY <1>1, <1>2, <1>4, <1>5 DEF TypeOK, Client
<1>7. CurrentIsHeld'
  BY <1>1 DEF PubInv, CurrentIsHeld, Held
<1>8. Rows'
  BY <1>1, <1>4 DEF PubInv, Rows, Listed, RowOf, IsPublishAttempt
<1>9. Attempts'
  BY <1>1, <1>4 DEF PubInv, Attempts, HasHead, IsPublishAttempt, NoBranch, EmptyBranch
<1>10. Inside(c)'
  <2>1. Slot(c)' = s
    BY <1>0, <1>5 DEF Slot
  <2> QED BY <1>1, <1>2, <1>4, <1>5, <2>1 DEF Inside, InLock, Held
<1> QED BY <1>1, <1>2, <1>5, <1>6, <1>7, <1>8, <1>9, <1>10, GuardedStep DEF PubInv

LEMMA DropVersionKeeps ==
  ASSUME PubInv, NEW c \in Clients, DropVersion(c)
  PROVE  PubInv'
<1>0. PICK n, v : n = client[c].name /\ v = client[c].version
  OBVIOUS
<1> DEFINE old == registry[n]
           left == Held(registry, n) \ {v}
           next == IF left = {} THEN NoRecord
                   ELSE [old EXCEPT !.rows[v] = NoRow,
                               !.current = IF @ = v THEN CHOOSE w \in left : \A u \in left : w <= u
                                           ELSE @]
<1>1. /\ TypeOK /\ CurrentIsHeld /\ Inside(c) /\ client[c].pc = "drop" /\ lock = c
      /\ n \in Names /\ v \in Versions /\ client[c].reg = registry
      /\ registry[n].current # v \/ left = {}
  BY <1>0, UnpublishSlot DEF DropVersion, At, PubInv
<1>2. registry' = [registry EXCEPT ![n] = next] /\ Leave(c) /\ UNCHANGED <<branch, tag, commits>>
  BY <1>0, <1>1 DEF DropVersion
<1>3. /\ old \in Record /\ old.rows \in [Versions -> Row \cup {NoRow}]
  BY <1>1 DEF TypeOK, Record
<1>4. /\ next \in Record
      /\ next.rows[v] = NoRow
      /\ \A w \in Versions \ {v} : next.rows[w] \in {old.rows[w], NoRow}
      /\ IF \A w \in Versions : next.rows[w] = NoRow THEN next = NoRecord
         ELSE next.current \in Versions /\ next.rows[next.current] # NoRow
  <2>1. CASE left = {}
    BY <1>1, <2>1, RecordTypes DEF NoRecord
  <2>2. CASE left # {}
    <3> DEFINE rows == [old.rows EXCEPT ![v] = NoRow]
    <3>1. old.current # v /\ old.current \in left
      BY <1>1, <2>2 DEF CurrentIsHeld
    <3>2. next = [old EXCEPT !.rows = rows]
      BY <1>3, <2>2, <3>1 DEF Record
    <3>3. /\ rows \in [Versions -> Row \cup {NoRow}] /\ rows[v] = NoRow
          /\ \A w \in Versions \ {v} : rows[w] = old.rows[w]
      BY <1>1, <1>3
    <3>4. old.current \in Versions /\ old.rows[old.current] # NoRow /\ old.current # v
      BY <3>1 DEF Held
    <3> HIDE DEF rows, old, next
    <3>5. next \in Record /\ next.rows = rows /\ next.current = old.current
      BY <1>3, <3>2, <3>3 DEF Record
    <3> QED BY <3>3, <3>4, <3>5
  <2> QED BY <2>1, <2>2
<1>5. \A w \in Versions : next.rows[w] \in {registry[n].rows[w], NoRow}
  BY <1>4
<1> HIDE DEF next
<1>6. registry' \in [Names -> Record] /\ CurrentIsHeld' /\ Rows' /\ Attempts'
  BY <1>1, <1>2, <1>4, <1>5, RecordStep
<1>7. /\ client' \in [Clients -> Client] /\ client'[c] = Idle
      /\ \A d \in Clients \ {c} : client'[d] = client[d] /\ lock' = Nobody
      /\ lock' # c /\ lock' \in Clients \cup {Nobody}
  BY <1>1, <1>2, Leaving
<1>8. TypeOK'
  BY <1>1, <1>2, <1>6, <1>7 DEF TypeOK, Client
<1>9. Inside(c)'
  BY <1>7 DEF Inside, Idle, InLock
<1> QED BY <1>1, <1>2, <1>6, <1>7, <1>8, <1>9, GuardedStep, Leaving DEF PubInv

-----------------------------------------------------------------------------
(* Reads, and tags by hand *)

LEMMA ReadVersionKeeps ==
  ASSUME PubInv, NEW c \in Clients, ReadVersion(c)
  PROVE  PubInv'
<1>0. PICK s, ref : s = Slot(c) /\ ref = RowOf(s).ref
  OBVIOUS
<1>1. /\ client[c].pc \in {"open", "resolve"} /\ Listed(s)
      /\ Enter(c, "read", client[c].version, ref)
      /\ UNCHANGED <<registry, branch, tag, commits>>
  BY <1>0 DEF ReadVersion, At, StillPublished
<1>2. TypeOK /\ Inside(c) /\ client[c].name \in Names /\ client[c].version \in Versions
  BY <1>1 DEF PubInv, Inside
<1>3. s = <<client[c].name, client[c].version>> /\ "read" \in InLock
  BY <1>0 DEF Slot, InLock
<1>4. ref \in 0 .. MaxCommits
  <2>1. RowOf(s) \in Row
    BY <1>1, <1>2, <1>3 DEF TypeOK, Record, RowOf, Listed
  <2> QED BY <1>0, <2>1, PublicationsAssumption DEF PublicationsAssumption, Row, Ids
<1>5. /\ client' \in [Clients -> Client]
      /\ client'[c].pc = "read" /\ client'[c].name = client[c].name
      /\ client'[c].version = client[c].version /\ client'[c].reg = registry
      /\ client'[c].ref = ref
      /\ \A d \in Clients \ {c} : client'[d] = client[d]
      /\ lock = Nobody /\ lock' = c
  BY <1>1, <1>2, <1>3, <1>4, Entering
<1>6. Inside(c)'
  <2>1. Slot(c)' = s
    BY <1>3, <1>5 DEF Slot
  <2> QED BY <1>0, <1>1, <1>2, <1>5, <2>1 DEF Inside, InLock, Listed, RowOf
<1> QED BY <1>1, <1>5, <1>6, CallStep

LEMMA ServeKeeps ==
  ASSUME PubInv, NEW c \in Clients, Serve(c)
  PROVE  PubInv'
<1>1. TypeOK /\ Inside(c) /\ client[c].pc = "read" /\ lock = c /\ lock' = Nobody
      /\ client[c].name \in Names /\ Nobody # c
      /\ UNCHANGED <<registry, branch, tag, commits>>
  BY PublicationsAssumption DEF PublicationsAssumption, Serve, At, PubInv, Inside, InLock
<1>2. CASE branch[Slot(c)] = client[c].ref
  <2> DEFINE r == [client[c] EXCEPT !.pc = "viewing", !.reg = NoRegistry]
  <2>1. client \in [Clients -> Client] /\ client[c] \in Client
    BY <1>1, ClientTyped
  <2>2. client' = [client EXCEPT ![c] = r]
    BY <1>2, <2>1 DEF Serve
  <2>3. r \in Client /\ r.pc = "viewing" /\ r.name = client[c].name
    BY <2>1, RecordTypes DEF Client
  <2> HIDE DEF r
  <2>4. /\ client' \in [Clients -> Client] /\ client'[c] = r
        /\ \A d \in Clients \ {c} : client'[d] = client[d]
    BY <1>1, <2>2, <2>3, OneMoves
  <2>5. Inside(c)'
    BY <1>1, <2>3, <2>4 DEF Inside, InLock
  <2> QED BY <1>1, <2>4, <2>5, CallStep
<1>3. CASE branch[Slot(c)] # client[c].ref
  <2>1. client' = [client EXCEPT ![c] = Idle]
    BY <1>3 DEF Serve
  <2>2. /\ client' \in [Clients -> Client] /\ client'[c] = Idle
        /\ \A d \in Clients \ {c} : client'[d] = client[d]
    BY <1>1, <2>1, RecordTypes, OneMoves
  <2>3. Inside(c)'
    BY <1>1, <2>2 DEF Inside, InLock, Idle
  <2> QED BY <1>1, <2>2, <2>3, CallStep
<1> QED BY <1>2, <1>3

\* Tags by hand, locked or not, name nothing publish has written.
LEMMA HandsKeep ==
  ASSUME PubInv, NEW s \in Slots
  PROVE  /\ TagByHand(s) => PubInv'
         /\ \A from \in Slots : TagVersion(s, from) => PubInv'
         /\ UntagByHand(s) => PubInv'
<1>1. TypeOK /\ NoTag \in Tag /\ ~NoTag.published
  BY RecordTypes DEF PubInv, NoTag
<1>2. ASSUME NEW t \in Tag, ~t.published, tag' = [tag EXCEPT ![s] = t],
             UNCHANGED <<registry, branch, lock, client, commits>>
      PROVE  PubInv'
  <2>1. tag' \in [Slots -> Tag] /\ CurrentIsHeld' /\ Rows' /\ Attempts'
    BY <1>2, TagStep
  <2>2. TypeOK'
    BY <1>1, <1>2, <2>1 DEF TypeOK
  <2> QED BY <1>2, <2>1, <2>2, NobodyInside DEF PubInv
<1>3. ASSUME NEW at \in 0 .. MaxCommits
      PROVE  /\ [at |-> at, published |-> FALSE] \in Tag
             /\ ~[at |-> at, published |-> FALSE].published
  BY PublicationsAssumption DEF PublicationsAssumption, Tag
<1>4. ASSUME TagByHand(s) PROVE PubInv'
  <2>1. 0 \in 0 .. MaxCommits
    BY PublicationsAssumption DEF PublicationsAssumption
  <2> QED BY <1>2, <1>3, <1>4, <2>1 DEF TagByHand
<1>5. ASSUME NEW from \in Slots, TagVersion(s, from) PROVE PubInv'
  <2>1. RowOf(from).ref \in 0 .. MaxCommits
    <3>1. RowOf(from) \in Row
      BY <1>1, <1>5 DEF TypeOK, Record, RowOf, Listed, TagVersion, Slots
    <3> QED BY <3>1, PublicationsAssumption DEF PublicationsAssumption, Row, Ids
  <2> QED BY <1>2, <1>3, <1>5, <2>1 DEF TagVersion
<1>6. ASSUME UntagByHand(s) PROVE PubInv'
  BY <1>1, <1>2, <1>6 DEF UntagByHand
<1> QED BY <1>4, <1>5, <1>6

-----------------------------------------------------------------------------
(* The invariant *)

LEMMA InitHolds == Init => PubInv
<1> SUFFICES ASSUME Init PROVE PubInv
  OBVIOUS
<1>1. TypeOK
  <2>1. branch \in [Slots -> -1 .. MaxCommits]
    BY PublicationsAssumption DEF PublicationsAssumption, Init, NoBranch
  <2>2. commits \in Seq(Info) /\ Len(commits) <= MaxCommits
    BY PublicationsAssumption DEF PublicationsAssumption, Init
  <2>3. client \in [Clients -> Client] /\ tag \in [Slots -> Tag]
        /\ registry \in [Names -> Record]
    BY RecordTypes DEF Init
  <2> QED BY <2>1, <2>2, <2>3 DEF TypeOK, Client, Init
<1>2. \A n \in Names : registry[n] = NoRecord /\ Held(registry, n) = {}
  BY DEF Init, NoRegistry, NoRecord, Held
<1>3. CurrentIsHeld
  BY <1>2 DEF CurrentIsHeld
<1>4. Rows
  BY <1>2 DEF Rows, Listed, Held, Slots
<1>5. Attempts
  BY DEF Init, Attempts, HasHead, NoBranch, EmptyBranch, NoTag
<1>6. \A c \in Clients : Inside(c)
  BY PublicationsAssumption DEF PublicationsAssumption, Init, Inside, Idle, InLock
<1> QED BY <1>1, <1>3, <1>4, <1>5, <1>6 DEF PubInv

LEMMA StepKeeps == PubInv /\ [Next]_vars => PubInv'
<1> SUFFICES ASSUME PubInv, [Next]_vars PROVE PubInv'
  OBVIOUS
<1>1. CASE UNCHANGED vars
  <2>1. TypeOK' /\ CurrentIsHeld' /\ Rows' /\ Attempts'
    BY <1>1 DEF vars, PubInv, TypeOK, CurrentIsHeld, Held, Rows, Listed, RowOf,
                IsPublishAttempt, Attempts, HasHead
  <2> QED BY <1>1, <2>1, NobodyInside DEF vars, PubInv
<1>2. CASE HandStep
  BY <1>2, HandsKeep DEF HandStep
<1>3. ASSUME NEW c \in Clients, Publishes(c) PROVE PubInv'
  BY <1>3, CallsKeep DEF Publishes
<1>4. ASSUME NEW c \in Clients, ClientStep(c) PROVE PubInv'
  <2>1. CASE PublishRefused(c) \/ MintRefused(c) \/ UnpublishRefused(c) \/ RemoveRefused(c)
             \/ ReadRefused(c) \/ Crash(c)
    BY <2>1, LeavingKeeps DEF PublishRefused, MintRefused, UnpublishRefused, RemoveRefused,
                              ReadRefused, Crash
  <2>2. CASE PublishAdopts(c) \/ PublishWrites(c) \/ CreateBranch(c) \/ CommitTree(c)
             \/ MintTag(c) \/ RecordVersion(c)
    BY <2>2, AdoptsKeeps, WritesKeeps, CreateBranchKeeps, CommitTreeKeeps, MintTagKeeps,
       RecordVersionKeeps
  <2>3. CASE UnpublishRemoves(c) \/ RemoveTag(c) \/ RemoveBranch(c) \/ DropVersion(c)
    BY <2>3, UnpublishRemovesKeeps, RemoveTagKeeps, RemoveBranchKeeps, DropVersionKeeps
  <2>4. CASE ReadVersion(c) \/ Serve(c)
    BY <2>4, ReadVersionKeeps, ServeKeeps
  <2>5. CASE \E n \in Names, v \in Versions :
               SetCurrent(c, n, v) \/ UnpublishCall(c, n, v) \/ OpenCall(c, n, v)
                 \/ ResolveCall(c, n, v)
    BY <2>5, SetsKeep, CallsKeep
  <2>6. CASE \E n \in Names, m \in Metas : SetMeta(c, n, m)
    BY <2>6, SetsKeep
  <2> QED BY <1>4, <2>1, <2>2, <2>3, <2>4, <2>5, <2>6 DEF ClientStep
<1> QED BY <1>1, <1>2, <1>3, <1>4 DEF Next

\* The inductive invariant holds in every state of every store.
THEOREM PubInvHolds == Spec => []PubInv
<1>1. Init => PubInv
  BY InitHolds
<1>2. PubInv /\ [Next]_vars => PubInv'
  BY StepKeeps
<1> QED BY <1>1, <1>2, PTL DEF Spec

-----------------------------------------------------------------------------
(* The properties *)

\* Every listed version is the very commit its row names, made for that name
\* and version and described as it was made, whoever adopted, crashed or
\* raced (publish, unpublish).
THEOREM ListedIsItsCommitHolds == Spec => []ListedIsItsCommit
<1>1. PubInv => ListedIsItsCommit
  BY DEF PubInv, Rows, ListedIsItsCommit
<1> QED BY <1>1, PubInvHolds, PTL

\* Whatever a crash strands under an unlisted name, unpublish can clear, unless
\* a hand has tagged it (_unpublish's check of an attempt).
THEOREM StrandedCanBeClearedHolds == Spec => []StrandedCanBeCleared
<1>1. PubInv => StrandedCanBeCleared
  <2> SUFFICES ASSUME PubInv, NEW s \in Slots, lock = Nobody, ~Listed(s),
                      branch[s] # NoBranch \/ tag[s] # NoTag,
                      tag[s] = NoTag \/ tag[s].published
               PROVE  MayUnpublish(s)
    BY DEF StrandedCanBeCleared
  <2>1. /\ HasHead(s) => IsPublishAttempt(commits[branch[s]], s)
        /\ tag[s].published => IsPublishAttempt(commits[tag[s].at], s)
    BY DEF PubInv, Attempts
  <2> QED BY <2>1 DEF MayUnpublish
<1> QED BY <1>1, PubInvHolds, PTL

\* A row changes only by leaving, and leaves only as the last step of an
\* unpublish of its own version: no write of the registry loses another's row.
THEOREM RowsLeaveByUnpublishHolds == Spec => RowsLeaveByUnpublish
<1> DEFINE Leaves == \A s \in Slots :
             Listed(s) /\ RowOf(s)' # RowOf(s) =>
                 /\ ~Listed(s)'
                 /\ \E c \in Clients : At(c, "drop") /\ Slot(c) = s
<1>1. PubInv /\ [Next]_vars => [Leaves]_vars
  <2> SUFFICES ASSUME PubInv, Next, NEW s \in Slots, Listed(s), RowOf(s)' # RowOf(s)
               PROVE  ~Listed(s)' /\ \E c \in Clients : At(c, "drop") /\ Slot(c) = s
    OBVIOUS
  <2>1. registry' # registry /\ s[1] \in Names /\ s[2] \in Versions
        /\ s = <<s[1], s[2]>> /\ registry \in [Names -> Record]
    BY DEF RowOf, Slots, PubInv, TypeOK
  <2>2. PICK c \in Clients :
          \/ RecordVersion(c) \/ DropVersion(c)
          \/ \E n \in Names, v \in Versions : SetCurrent(c, n, v)
          \/ \E n \in Names, m \in Metas : SetMeta(c, n, m)
    BY <2>1 DEF Next, HandStep, TagByHand, TagVersion, UntagByHand, Publishes, PublishCall,
       ClientStep, PublishRefused, PublishAdopts, PublishWrites, CreateBranch, CommitTree,
       MintTag, MintRefused, UnpublishCall, OpenCall, ResolveCall, UnpublishRefused,
       UnpublishRemoves, RemoveTag, RemoveRefused, RemoveBranch, ReadVersion, ReadRefused,
       Serve, Crash
  <2>3. CASE RecordVersion(c)
    <3>1. /\ Slot(c) = <<client[c].name, client[c].version>> /\ ~Listed(Slot(c))
          /\ client[c].reg = registry /\ client[c].name \in Names
          /\ client[c].version \in Versions
      BY <2>3, PublishSlot DEF RecordVersion, At, Slot
    <3>2. s[1] = client[c].name => s[2] # client[c].version
      BY <2>1, <3>1
    <3>3. registry[client[c].name] \in Record
      BY <2>1, <3>1
    <3> QED BY <2>1, <2>3, <3>1, <3>2, <3>3 DEF RecordVersion, RowOf, Record
  <2>4. CASE DropVersion(c)
    <3> DEFINE n == client[c].name
               v == client[c].version
    <3>1. /\ Slot(c) = <<n, v>> /\ client[c].reg = registry /\ n \in Names /\ v \in Versions
          /\ registry[n].current # v \/ Held(registry, n) \subseteq {v}
          /\ At(c, "drop") /\ registry[n] \in Record
      BY <2>1, <2>4, UnpublishSlot DEF DropVersion, At, Slot
    <3>2. /\ registry' = [registry EXCEPT ![n] = registry'[n]]
          /\ registry'[n].rows[v] = NoRow
          /\ \A w \in Versions \ {v} :
                registry'[n].rows[w] = registry[n].rows[w] \/ registry'[n].rows[w] = NoRow
          /\ \A w \in Versions \ {v} :
                registry[n].rows[w] # NoRow => registry'[n].rows[w] = registry[n].rows[w]
      <4> DEFINE left == Held(registry, n) \ {v}
                 low == CHOOSE w \in left : \A u \in left : w <= u
                 next == IF left = {} THEN NoRecord
                         ELSE [registry[n] EXCEPT !.rows[v] = NoRow,
                                                  !.current = IF @ = v THEN low ELSE @]
      <4>1. registry' = [registry EXCEPT ![n] = next]
        BY <2>4, <3>1 DEF DropVersion
      <4>2. registry'[n] = next
        BY <2>1, <3>1, <4>1
      <4>3. CASE left = {}
        <5>1. \A w \in Versions : next.rows[w] = NoRow
          BY <4>3 DEF NoRecord
        <5>2. \A w \in Versions \ {v} : registry[n].rows[w] = NoRow
          BY <4>3 DEF Held
        <5> HIDE DEF next
        <5> QED BY <3>1, <4>1, <4>2, <5>1, <5>2
      <4>4. CASE left # {}
        <5> HIDE DEF left, low
        <5>1. next = [registry[n] EXCEPT !.rows[v] = NoRow,
                                         !.current = IF @ = v THEN low ELSE @]
          BY <4>4
        <5>2. next.rows = [registry[n].rows EXCEPT ![v] = NoRow]
          BY <3>1, <5>1 DEF Record
        <5> HIDE DEF next
        <5> QED BY <3>1, <4>1, <4>2, <5>2 DEF Record
      <4> QED BY <4>3, <4>4
    <3>3. s[1] = n /\ s[2] = v
      BY <2>1, <3>1, <3>2 DEF RowOf, Listed
    <3> QED BY <2>1, <3>1, <3>2, <3>3 DEF Listed
  <2>5. CASE \E n \in Names, v \in Versions : SetCurrent(c, n, v)
    BY <2>1, <2>5 DEF SetCurrent, RowOf, Record
  <2>6. CASE \E n \in Names, m \in Metas : SetMeta(c, n, m)
    BY <2>1, <2>6 DEF SetMeta, RowOf, Record
  <2> QED BY <2>2, <2>3, <2>4, <2>5, <2>6
<1> QED BY <1>1, PubInvHolds, PTL DEF Spec, RowsLeaveByUnpublish

\* A client's step replaces its own record and no other client's.
LEMMA OnlyIts ==
  ASSUME TypeOK, NEW d \in Clients, Publishes(d) \/ ClientStep(d), NEW c \in Clients \ {d}
  PROVE  client'[c] = client[c]
BY DEF TypeOK, Publishes, PublishCall, ClientStep, PublishRefused, PublishAdopts, PublishWrites,
       CreateBranch, CommitTree, MintTag, MintRefused, RecordVersion, SetCurrent, SetMeta,
       UnpublishCall, OpenCall, ResolveCall, UnpublishRefused, UnpublishRemoves, RemoveTag,
       RemoveRefused, RemoveBranch, DropVersion, ReadVersion, ReadRefused, Serve, Crash,
       Begin, Leave, Enter, Step

\* A view is opened only of a row that is listed while it is opened, at the
\* commit the branch still has, and opening creates no branch (_open).
THEOREM ServesOnlyListedHolds == Spec => ServesOnlyListed
<1> DEFINE Serves == \A c \in Clients :
             At(c, "read") /\ client'[c].pc = "viewing" =>
                 /\ Listed(Slot(c)) /\ RowOf(Slot(c)).ref = client[c].ref
                 /\ branch[Slot(c)] = client[c].ref /\ branch' = branch
<1>1. PubInv /\ [Next]_vars => [Serves]_vars
  <2> SUFFICES ASSUME PubInv, Next, NEW c \in Clients, At(c, "read"),
                      client'[c].pc = "viewing"
               PROVE  /\ Listed(Slot(c)) /\ RowOf(Slot(c)).ref = client[c].ref
                      /\ branch[Slot(c)] = client[c].ref /\ branch' = branch
    OBVIOUS
  <2>1. /\ TypeOK /\ client[c].pc = "read" /\ client'[c] # client[c]
        /\ Listed(Slot(c)) /\ RowOf(Slot(c)).ref = client[c].ref
    BY DEF PubInv, Inside, At
  <2>2. Serve(c) \/ Crash(c)
    <3>1. client' # client
      BY <2>1
    <3>2. PICK d \in Clients : Publishes(d) \/ ClientStep(d)
      BY <3>1 DEF Next, HandStep, TagByHand, TagVersion, UntagByHand
    <3>3. d = c
      BY <2>1, <3>2, OnlyIts
    <3> QED BY <2>1, <3>1, <3>2, <3>3
         DEF Publishes, PublishCall, ClientStep, PublishRefused, PublishAdopts, PublishWrites,
             CreateBranch, CommitTree, MintTag, MintRefused, RecordVersion, SetCurrent, SetMeta,
             UnpublishCall, OpenCall, ResolveCall, UnpublishRefused, UnpublishRemoves, RemoveTag,
             RemoveRefused, RemoveBranch, DropVersion, ReadVersion, ReadRefused, At, Step
  <2>3. ~Crash(c)
    BY <2>1, Leaving DEF Crash, Idle
  <2>4. branch[Slot(c)] = client[c].ref /\ branch' = branch
    <3>1. client'[c] # Idle
      BY DEF Idle
    <3>2. client \in [Clients -> Client]
      BY <2>1, ClientTyped
    <3> QED BY <2>2, <2>3, <3>1, <3>2 DEF Serve
  <2> QED BY <2>1, <2>4
<1> QED BY <1>1, PubInvHolds, PTL DEF Spec, ServesOnlyListed
=============================================================================
