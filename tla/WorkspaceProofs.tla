--------------------------- MODULE WorkspaceProofs ---------------------------
(***************************************************************************)
(* What a workspace keeps for any paths, view, mounts, scripts and bounds, *)
(* along the turns TidyNext admits: between calls the guest's tree is the  *)
(* session's, a parked machine is the commit it is parked under, a call    *)
(* keeps what was staged before it, and settles what it staged itself.     *)
(***************************************************************************)
EXTENDS Workspace, TLAPS

-----------------------------------------------------------------------------
(* The inductive invariant *)

Calls ==
    [pc : {"sync", "run", "harvest", "settle"}, script : Scripts, at : Nat \ {0},
     id : 1..MaxIds, dirty : BOOLEAN, retried : BOOLEAN, mid : BOOLEAN,
     landed : BOOLEAN, torn : BOOLEAN, lost : BOOLEAN]

Typed ==
    /\ mode \in OpenedAs
    /\ commits \in Seq(States) /\ Len(commits) \in 1..MaxCommits
    /\ work \in States /\ view \in SUBSET Paths
    /\ attached \in BOOLEAN /\ open \in BOOLEAN /\ stale \in BOOLEAN
    /\ pending \in BOOLEAN /\ unsure \in BOOLEAN
    /\ guest \in Machines \cup {NoMachine}
    /\ parked \in ParkedMachines \cup {NoMachine}
    /\ call \in Calls \cup {Idle}
    /\ ids \in 1..MaxIds /\ faults \in 0..MaxFaults

\* The script is in the guest.
InGuest == {"run", "harvest"}

\* What a call finds: a verb's failed harvest is settled by its own call, with
\* the guest flagged; and until a verb stages something, nothing of a call that
\* found nothing staged is in the tree.
Calling ==
    /\ ~open => /\ call = Idle /\ guest = NoMachine /\ work = Tip
                /\ ~attached /\ ~stale /\ ~pending
    /\ pending => /\ call.pc \in {"run", "harvest", "settle"}
                  /\ call.script.tool = "terminal"
                  /\ stale /\ guest # NoMachine /\ guest.alive
    /\ call.pc \in InGuest => guest # NoMachine
    /\ call.pc = "sync" => ~call.mid /\ (call.dirty \/ work.tree = Tip.tree)
    /\ call.pc \in InGuest =>
          /\ guest.alive \/ ~call.mid
          /\ \/ stale \/ call.mid \/ call.dirty
             \/ work.tree = Tip.tree

\* The guest's baseline is what the session is shown, and between scripts one that
\* is not flagged holds its baseline.
Copied ==
    guest # NoMachine =>
        /\ (call.pc \notin InGuest /\ ~stale) \/ ~guest.alive => guest.base = guest.tree
        /\ guest.alive /\ ~stale /\ ~unsure => guest.base = Shown

\* Since it was opened at the commit a machine is parked under, a workspace has
\* come to show only paths that commit has no file at.
Grown ==
    /\ Tip.rec \subseteq view
    /\ \A p \in view \ Tip.rec : Tip.tree[p] = <<>>
    /\ \A p \in Paths \ view : work.tree[p] = Tip.tree[p]

Parking ==
    /\ mode.pooled => ~attached
    /\ parked # NoMachine =>
          /\ mode.pooled /\ parked.tag \in 0..Len(commits)
          /\ ParkedIsItsCommit
          /\ open /\ parked.tag = Len(commits) => Grown

WorkInv == Typed /\ Calling /\ Copied /\ Parking

-----------------------------------------------------------------------------
(* Trees, and what a session is shown of one *)

LEMMA Bounds ==
    /\ MaxIds \in Nat \ {0} /\ MaxCommits \in Nat \ {0} /\ MaxFaults \in Nat
    /\ \A p \in Paths : <<>> \in Contents
    /\ \A i \in 1..MaxIds : <<i>> \in Contents
BY WorkspaceAssumption DEF WorkspaceAssumption, Contents

LEMMA TreeFacts ==
    ASSUME NEW t \in Trees, NEW p \in Paths
    PROVE  /\ t[p] \in Contents
           /\ \A c \in Contents : [t EXCEPT ![p] = c] \in Trees
           /\ \A i \in 1..MaxIds : Append(t[p], i) \in Contents
BY DEF Trees, Contents

LEMMA NoFilesIsATree == NoFiles \in Trees
BY Bounds DEF NoFiles, Trees

LEMMA ShownIsATree ==
    ASSUME NEW t \in Trees, NEW seen, NEW over
    PROVE  ShownOf(t, seen, over) \in Trees
BY Bounds, TreeFacts DEF ShownOf, Trees

\* What is shown depends on the files at the paths that show one.
LEMMA SameIsShown ==
    ASSUME NEW t, NEW u, NEW seen, NEW more, NEW over,
           \A p \in Paths : p \in seen /\ p \in more => t[p] = u[p],
           \A p \in Paths : p \in seen /\ p \notin more => t[p] = <<>>,
           \A p \in Paths : p \notin seen /\ p \in more => u[p] = <<>>
    PROVE  ShownOf(t, seen, over) = ShownOf(u, more, over)
BY DEF ShownOf

LEMMA HoldingIsAMachine ==
    ASSUME NEW t \in Trees
    PROVE  /\ Holding(t) \in Machines
           /\ Holding(t).alive /\ Holding(t).tree = t /\ Holding(t).base = t
BY DEF Holding, Machines

LEMMA DeadIsAMachine == Dead \in Machines /\ ~Dead.alive /\ Dead.base = Dead.tree
BY NoFilesIsATree DEF Dead, Machines

-----------------------------------------------------------------------------
(* The log of commits *)

Longer(log) ==
    /\ log \in Seq(States) /\ Len(log) \in 1..MaxCommits
    /\ Len(log) > Len(commits)
    /\ \A i \in 1..Len(commits) : log[i] = commits[i]

LEMMA TipIsAState == Typed => Tip \in States /\ \A i \in 1..Len(commits) : commits[i] \in States
BY DEF Typed, Tip

\* A commit of what is not committed makes the log longer.
LEMMA CommitMakesTheTip ==
    ASSUME Typed, MayCommit, NEW w \in States
    PROVE  \/ w = Tip /\ CommitOf(w) = commits
           \/ w # Tip /\ Longer(CommitOf(w)) /\ CommitOf(w)[Len(CommitOf(w))] = w
<1> USE Bounds
<1>1. CASE w = Tip
  BY <1>1 DEF CommitOf
<1>2. CASE w # Tip
  <2> DEFINE log == Append(commits, w)
  <2>1. CommitOf(w) = log
    BY <1>2 DEF CommitOf
  <2>2. /\ log \in Seq(States) /\ Len(log) = Len(commits) + 1 /\ log[Len(log)] = w
        /\ \A i \in 1..Len(commits) : log[i] = commits[i]
    BY DEF Typed
  <2>3. Len(log) \in 1..MaxCommits
    BY <2>2 DEF MayCommit, Typed
  <2> QED BY <1>2, <2>1, <2>2, <2>3 DEF Longer, Typed
<1> QED BY <1>1, <1>2

-----------------------------------------------------------------------------
(* Staging *)

\* What a step may do to what is staged while the commits stay as they are:
\* show more, where there was no file, and put a file back.
Grows ==
    /\ view \subseteq view' /\ view' \in SUBSET Paths
    /\ \A p \in view' \ view : work.tree[p] = <<>>
    /\ \A p \in Paths \ view' : work'.tree[p] \in {work.tree[p], Tip.tree[p]}

LEMMA StagedFacts ==
    ASSUME Typed, NEW paths \in SUBSET Paths, NEW c \in Trees
    PROVE  /\ Staged(work, paths, c) \in States
           /\ Staged(work, paths, c).tree
                = [p \in Paths |-> IF p \in paths THEN c[p] ELSE work.tree[p]]
<1>1. PICK w \in States : w = work
  BY DEF Typed
<1>2. [p \in Paths |-> IF p \in paths THEN c[p] ELSE w.tree[p]] \in Trees
  BY <1>1, TreeFacts DEF States, Trees
<1>3. (IF paths \subseteq view THEN w.rec ELSE view \cup paths) \in SUBSET Paths
  BY <1>1 DEF States, Typed
<1> QED BY <1>1, <1>2, <1>3 DEF Staged, States

\* Staging what the view does not keep from the session only grows the view.
LEMMA StagingGrows ==
    ASSUME Typed, NEW paths \in SUBSET Paths, NEW c \in Trees,
           \A p \in paths : ~Kept(p),
           work' = Staged(work, paths, c), view' = view \cup paths
    PROVE  work' \in States /\ Grows
<1>1. /\ work' \in States
      /\ work'.tree = [p \in Paths |-> IF p \in paths THEN c[p] ELSE work.tree[p]]
  BY StagedFacts
<1>2. \A p \in view' \ view : work.tree[p] = <<>>
  BY DEF Kept
<1>3. \A p \in Paths \ view' : work'.tree[p] = work.tree[p]
  BY <1>1
<1> QED BY <1>1, <1>2, <1>3 DEF Grows, Typed

LEMMA DroppingGrows ==
    ASSUME Typed, work' \in {work, Tip}, view' = view
    PROVE  work' \in States /\ Grows
BY TipIsAState DEF Typed, Grows

-----------------------------------------------------------------------------
(* What keeps the parts of the invariant *)

\* The log and what is staged above it, after a step that keeps the workspace
\* open.
Logged ==
    \/ commits' = commits /\ Grows
    \/ Longer(commits')

LEMMA ParkingKept ==
    ASSUME Typed, Parking, mode' = mode, mode.pooled => ~attached',
           parked' \in {parked, NoMachine}, open' => open,
           open' => Logged,
           commits' = commits \/ Longer(commits')
    PROVE  Parking'
<1>1. CASE parked' = NoMachine
  BY <1>1 DEF Parking
<1>2. CASE parked' = parked /\ parked # NoMachine
  <2>1. /\ mode.pooled /\ parked.tag \in 0..Len(commits) /\ ParkedIsItsCommit
        /\ open /\ parked.tag = Len(commits) => Grown
    BY <1>2 DEF Parking
  <2>2. parked.tag \in 0..Len(commits')
    BY <2>1 DEF Longer, Typed
  <2>3. parked.tag # 0 => commits'[parked.tag] = commits[parked.tag]
    BY <2>1 DEF Longer, Typed
  <2>4. ParkedIsItsCommit'
    BY <1>2, <2>1, <2>3 DEF ParkedIsItsCommit, ShownOf
  <2>5. ASSUME open', parked.tag = Len(commits') PROVE Grown'
    <3>1. commits' = commits /\ Grows
      BY <2>1, <2>5 DEF Logged, Longer, Typed
    <3>2. Grown /\ Tip' = Tip
      BY <2>1, <2>5, <3>1 DEF Tip
    <3>3. /\ Tip.rec \subseteq view'
          /\ \A p \in view' \ Tip.rec : Tip.tree[p] = <<>>
          /\ \A p \in Paths \ view' : work'.tree[p] = Tip.tree[p]
      <4>1. ASSUME NEW p \in view' \ view PROVE Tip.tree[p] = <<>>
        BY <3>1, <3>2, <4>1 DEF Grows, Grown
      <4>2. ASSUME NEW p \in Paths \ view' PROVE work'.tree[p] = Tip.tree[p]
        BY <3>1, <3>2 DEF Grows, Grown
      <4> QED BY <3>1, <3>2, <4>1, <4>2 DEF Grows, Grown
    <3> QED BY <3>2, <3>3 DEF Grown
  <2> QED BY <1>2, <2>1, <2>2, <2>4, <2>5 DEF Parking
<1> QED BY <1>1, <1>2 DEF Parking

LEMMA CopiedKept ==
    ASSUME Typed, Copied, UNCHANGED <<guest, unsure>>,
           call'.pc \in InGuest <=> call.pc \in InGuest,
           stale' \/ (stale' = stale /\ Shown' = Shown)
    PROVE  Copied'
BY DEF Copied

\* A machine that has just been given the tree holds what is shown.
LEMMA CopiedAfresh ==
    ASSUME NEW t \in Trees, guest' = Holding(t), stale' \/ t = Shown'
    PROVE  Copied'
BY HoldingIsAMachine DEF Copied

\* A boot gives the machine what the session is shown, resumed or not.
LEMMA BootShows ==
    ASSUME Typed, Parking, open, BootOk
    PROVE  /\ guest' = Holding(Shown) /\ Shown \in Trees /\ guest' \in Machines
           /\ parked' \in {parked, NoMachine} /\ ~unsure'
<1>1. Shown \in Trees
  BY ShownIsATree DEF Shown, Typed, States
<1>2. ASSUME Resumable PROVE parked.tree = Shown
  <2>1. parked # NoMachine /\ parked.tag = Len(commits) /\ work = Tip
    BY <1>2, Bounds DEF Resumable, Identity, Dirty, Typed
  <2>2. ~attached /\ ParkedIsItsCommit /\ Grown
    BY <2>1 DEF Parking
  <2>3. parked.tree = ShownOf(Tip.tree, Tip.rec, FALSE)
    <3>1. parked.tag # 0
      BY <2>1, Bounds DEF Typed
    <3>2. commits[parked.tag] = Tip
      BY <2>1 DEF Tip
    <3> QED BY <2>1, <2>2, <3>1, <3>2 DEF ParkedIsItsCommit
  <2>4. ShownOf(Tip.tree, Tip.rec, FALSE) = ShownOf(Tip.tree, view, FALSE)
    BY <2>2 DEF Grown, ShownOf
  <2> QED BY <2>1, <2>2, <2>3, <2>4 DEF Shown, Typed
<1>3. guest' = Holding(Shown)
  BY <1>2 DEF BootOk
<1> QED BY <1>1, <1>3, HoldingIsAMachine DEF BootOk

LEMMA FailedBoot ==
    ASSUME Typed, BootFails
    PROVE  /\ guest' \in Machines \cup {NoMachine} /\ parked' = parked
           /\ guest' = NoMachine \/ (~guest'.alive /\ guest'.base = guest'.tree)
           /\ faults' \in 0..MaxFaults /\ unsure' \in BOOLEAN
BY DeadIsAMachine, Bounds DEF BootFails, Fault, Typed

-----------------------------------------------------------------------------
(* The host's steps *)

\* A step of the host, between calls, with the machine flagged for a push when
\* what the session is shown may have changed.
HostChange ==
    /\ HostTurn /\ Untouched
    /\ work' \in States /\ view' \in SUBSET Paths
    /\ attached' \in BOOLEAN /\ stale' \in BOOLEAN /\ ids' \in 1..MaxIds
    /\ mode.pooled => ~attached'
    /\ stale' \/ (stale' = stale /\ Shown' = Shown)
    /\ Logged

LEMMA HostChangeKeeps ==
    ASSUME WorkInv, HostChange
    PROVE  WorkInv'
<1> USE DEF WorkInv
<1>1. open /\ call.pc = "idle" /\ UNCHANGED <<mode, open, pending, guest, unsure, parked, call, faults>>
  BY DEF HostChange, HostTurn, Untouched
<1>2. commits' = commits \/ Longer(commits')
  BY DEF HostChange, Logged
<1>3. commits' \in Seq(States) /\ Len(commits') \in 1..MaxCommits
  BY <1>2 DEF Longer, Typed
<1>4. Typed'
  BY <1>1, <1>3 DEF HostChange, Typed
<1>5. Calling'
  BY <1>1 DEF Calling, InGuest
<1>6. Copied'
  BY <1>1, CopiedKept DEF HostChange
<1>7. Parking'
  BY <1>1, <1>2, ParkingKept DEF HostChange
<1> QED BY <1>4, <1>5, <1>6, <1>7

LEMMA MaybeCommitLogs ==
    ASSUME Typed, MayCommit, work' \in States, Grows, MaybeCommit(work')
    PROVE  Logged
BY CommitMakesTheTip DEF MaybeCommit, Logged

LEMMA NextIdIsNew ==
    ASSUME Typed, Named
    PROVE  ids' \in 1..MaxIds /\ \A t \in Trees, p \in Paths : [t EXCEPT ![p] = <<ids'>>] \in Trees
<1>1. ids' \in 1..MaxIds
  BY Bounds DEF Named, Typed
<1> QED BY <1>1, Bounds, TreeFacts

LEMMA FilesWriteKeeps ==
    ASSUME WorkInv, NEW p \in Paths, FilesWrite(p) \/ RawWrite(p)
    PROVE  WorkInv'
<1> USE DEF WorkInv
<1>1. Typed /\ HostTurn /\ Untouched /\ ~Kept(p) /\ Named /\ attached' = attached
  BY DEF FilesWrite, RawWrite, MayWrite
<1> DEFINE tree == [work.tree EXCEPT ![p] = <<ids'>>]
<1>2. ids' \in 1..MaxIds /\ tree \in Trees
  BY <1>1, NextIdIsNew DEF Typed, States
<1>3. work' = Staged(work, {p}, tree) /\ view' = view \cup {p} /\ stale' = TRUE
  BY DEF FilesWrite, RawWrite
<1> HIDE DEF tree
<1>4. work' \in States /\ Grows
  BY <1>1, <1>2, <1>3, StagingGrows
<1>5. Logged
  BY <1>1, <1>4, MaybeCommitLogs DEF FilesWrite, RawWrite, Logged
<1>6. HostChange
  BY <1>1, <1>2, <1>3, <1>4, <1>5 DEF HostChange, Typed, Parking, Grows
<1> QED BY <1>6, HostChangeKeeps

LEMMA FilesRemoveKeeps ==
    ASSUME WorkInv, NEW p \in Paths, FilesRemove(p)
    PROVE  WorkInv'
<1> USE DEF WorkInv
<1>1. Typed /\ HostTurn /\ Untouched /\ UNCHANGED <<view, attached, ids>> /\ stale' = TRUE
  BY DEF FilesRemove
<1>2. p \in view
  BY DEF FilesRemove, Shown, ShownOf, ReadOnly
<1>3. PICK w \in States : w = work
  BY DEF Typed
<1>4. [w.tree EXCEPT ![p] = <<>>] \in Trees
  BY <1>3, TreeFacts, Bounds DEF States
<1>5. /\ work' \in States
      /\ \A q \in Paths \ view : work'.tree[q] = work.tree[q]
  BY <1>2, <1>3, <1>4 DEF FilesRemove, States, Trees
<1>6. Grows
  BY <1>1, <1>5 DEF Grows, Typed
<1>7. Logged
  BY <1>1, <1>5, <1>6, MaybeCommitLogs DEF FilesRemove
<1>8. HostChange
  BY <1>1, <1>5, <1>7 DEF HostChange, Typed, Parking
<1> QED BY <1>8, HostChangeKeeps

LEMMA CacheWriteKeeps ==
    ASSUME WorkInv, CacheWrite
    PROVE  WorkInv'
<1> USE DEF WorkInv
<1>1. /\ Typed /\ HostTurn /\ Untouched /\ UNCHANGED <<commits, view, attached, stale>>
      /\ ids' \in 1..MaxIds
  BY NextIdIsNew DEF CacheWrite
<1>2. work' \in States /\ work'.tree = work.tree
  <2>1. PICK w \in States : w = work
    BY <1>1 DEF Typed
  <2>2. PICK i \in 0..MaxIds : i = ids'
    BY <1>1, Bounds
  <2>3. work' = [w EXCEPT !.cache = i]
    BY <2>1, <2>2 DEF CacheWrite
  <2> QED BY <2>1, <2>2, <2>3 DEF States
<1>3. Shown' = Shown
  BY <1>1, <1>2 DEF Shown, ShownOf
<1>4. Grows
  BY <1>1, <1>2 DEF Grows, Typed
<1>5. HostChange
  BY <1>1, <1>2, <1>3, <1>4 DEF HostChange, Logged, Typed, Parking
<1> QED BY <1>5, HostChangeKeeps

LEMMA CommitKeeps ==
    ASSUME WorkInv, Commit
    PROVE  WorkInv'
<1> USE DEF WorkInv
<1>1. /\ Typed /\ HostTurn /\ Untouched /\ UNCHANGED <<work, view, attached, stale, ids>>
      /\ MayCommit /\ work \in States /\ work # Tip
  BY DEF Commit, Typed, Dirty
<1>2. Logged
  BY <1>1, CommitMakesTheTip DEF Commit, Logged
<1>3. Shown' = Shown
  BY <1>1 DEF Shown, ShownOf
<1>4. HostChange
  BY <1>1, <1>2, <1>3 DEF HostChange, Typed, Parking
<1> QED BY <1>4, HostChangeKeeps

LEMMA CheckoutKeeps ==
    ASSUME WorkInv, NEW c \in 1..Len(commits), Checkout(c)
    PROVE  WorkInv'
<1> USE DEF WorkInv
<1>1. /\ Typed /\ HostTurn /\ Untouched /\ UNCHANGED <<view, attached, ids>>
      /\ MayCommit /\ stale' = TRUE /\ commits' = CommitOf(work') /\ work' \in States
  BY TipIsAState DEF Checkout
<1>2. Logged
  <2>1. CASE work' = Tip
    BY <1>1, <2>1, CommitMakesTheTip, DroppingGrows DEF Logged
  <2>2. CASE work' # Tip
    BY <1>1, <2>2, CommitMakesTheTip DEF Logged
  <2> QED BY <2>1, <2>2
<1>3. HostChange
  BY <1>1, <1>2 DEF HostChange, Typed, Parking
<1> QED BY <1>3, HostChangeKeeps

LEMMA TakeKeeps ==
    ASSUME WorkInv, NEW c \in 1..Len(commits), NEW p \in Paths, Take(c, p)
    PROVE  WorkInv'
<1> USE DEF WorkInv
<1>1. /\ Typed /\ HostTurn /\ Untouched /\ UNCHANGED <<attached, ids>> /\ stale' = TRUE
      /\ ~Kept(p) /\ commits[c].tree \in Trees
      /\ work' = Staged(work, {p}, commits[c].tree) /\ view' = view \cup {p}
  BY TipIsAState DEF Take, MayWrite, States
<1>2. work' \in States /\ Grows
  <2>1. PICK t \in Trees : t = commits[c].tree
    BY <1>1
  <2>2. Typed /\ {p} \in SUBSET Paths /\ \A q \in {p} : ~Kept(q)
    BY <1>1
  <2>3. work' = Staged(work, {p}, t) /\ view' = view \cup {p}
    BY <1>1, <2>1
  <2> QED BY <2>2, <2>3, StagingGrows
<1>3. Logged
  BY <1>1, <1>2, MaybeCommitLogs DEF Take
<1>4. HostChange
  BY <1>1, <1>2, <1>3 DEF HostChange, Typed, Parking, Grows
<1> QED BY <1>4, HostChangeKeeps

LEMMA DiscardKeeps ==
    ASSUME WorkInv, Discard
    PROVE  WorkInv'
<1> USE DEF WorkInv
<1>1. /\ Typed /\ HostTurn /\ Untouched /\ UNCHANGED <<commits, view, attached, ids>>
      /\ stale' = TRUE /\ work' = Tip
  BY DEF Discard
<1>2. work' \in States /\ Grows
  BY <1>1, DroppingGrows
<1>3. HostChange
  BY <1>1, <1>2 DEF HostChange, Typed, Parking, Logged
<1> QED BY <1>3, HostChangeKeeps

LEMMA MergeKeeps ==
    ASSUME WorkInv, NEW p \in Paths, NEW conflicted \in BOOLEAN, Merge(p, conflicted)
    PROVE  WorkInv'
<1> USE DEF WorkInv
<1> DEFINE merged == [work EXCEPT !.tree[p] = <<ids'>>]
           shown == conflicted /\ p \notin view
<1>1. /\ Typed /\ HostTurn /\ Untouched /\ UNCHANGED attached /\ stale' = TRUE
      /\ ids' \in 1..MaxIds /\ Len(commits) + 1 < MaxCommits
  BY NextIdIsNew DEF Merge
<1>2. PICK w \in States : w = work
  BY <1>1 DEF Typed
<1>3. merged \in States /\ [merged EXCEPT !.rec = view \cup {p}] \in States
  <2>1. [w.tree EXCEPT ![p] = <<ids'>>] \in Trees
    BY <1>1, <1>2, NextIdIsNew DEF Merge, States
  <2>2. view \cup {p} \in SUBSET Paths
    BY <1>1 DEF Typed
  <2> QED BY <1>2, <2>1, <2>2 DEF States
<1>4. /\ work' = IF shown THEN [merged EXCEPT !.rec = view \cup {p}] ELSE merged
      /\ view' = IF shown THEN view \cup {p} ELSE view
      /\ commits' = IF shown THEN commits \o <<merged, work'>> ELSE Append(commits, merged)
  BY DEF Merge
<1> HIDE DEF merged
<1>5. work' \in States /\ view' \in SUBSET Paths
  BY <1>1, <1>3, <1>4 DEF Typed
<1>6. Longer(commits')
  <2>1. CASE shown
    BY <1>1, <1>3, <1>4, <1>5, <2>1, Bounds DEF Longer, Typed
  <2>2. CASE ~shown
    BY <1>1, <1>3, <1>4, <1>5, <2>2, Bounds DEF Longer, Typed
  <2> QED BY <2>1, <2>2
<1>7. HostChange
  BY <1>1, <1>5, <1>6 DEF HostChange, Typed, Parking, Logged
<1> QED BY <1>7, HostChangeKeeps

LEMMA AttachingKeeps ==
    ASSUME WorkInv, Detach \/ (Attach /\ ~mode.pooled)
    PROVE  WorkInv'
<1> USE DEF WorkInv
<1>1. /\ Typed /\ HostTurn /\ Untouched /\ UNCHANGED <<commits, work, view, ids>>
      /\ stale' = TRUE /\ attached' \in BOOLEAN /\ (mode.pooled => ~attached')
  BY DEF Detach, Attach
<1>2. Grows
  BY <1>1 DEF Grows, Typed
<1>3. HostChange
  BY <1>1, <1>2 DEF HostChange, Logged, Typed
<1> QED BY <1>3, HostChangeKeeps

LEMMA WarmKeeps ==
    ASSUME WorkInv, Warm
    PROVE  WorkInv'
<1> USE DEF WorkInv
<1>1. /\ Typed /\ Parking /\ open /\ BootOk /\ call.pc = "idle" /\ Shown' = Shown
      /\ UNCHANGED <<mode, commits, work, view, attached, open, stale, pending, call, ids, faults>>
  BY DEF Warm, HostTurn, Shown, ShownOf
<1>2. /\ guest' = Holding(Shown) /\ Shown \in Trees /\ guest' \in Machines
      /\ parked' \in {parked, NoMachine} /\ unsure' = FALSE
  BY <1>1, BootShows DEF BootOk
<1>3. Typed'
  BY <1>1, <1>2 DEF Typed
<1>4. Calling'
  BY <1>1 DEF Calling, InGuest
<1>5. Copied'
  BY <1>1, <1>2, CopiedAfresh
<1>6. Grows
  BY <1>1 DEF Grows, Typed
<1>7. Parking'
  BY <1>1, <1>2, <1>6, ParkingKept DEF Logged, Parking
<1> QED BY <1>3, <1>4, <1>5, <1>7

LEMMA DiesKeeps ==
    ASSUME WorkInv, Dies, ~call.mid, ~pending
    PROVE  WorkInv'
<1> USE DEF WorkInv
<1>1. /\ Typed /\ guest' = Dead /\ guest # NoMachine /\ faults' \in 0..MaxFaults
      /\ UNCHANGED <<mode, commits, work, view, attached, open, stale, pending, unsure, parked,
                     call, ids>>
  BY Bounds DEF Dies, Fault, Typed
<1>2. Typed'
  BY <1>1, DeadIsAMachine DEF Typed
<1>3. Calling'
  <2>1. Tip' = Tip
    BY <1>1 DEF Tip
  <2>2. guest' # NoMachine
    BY <1>1, DeadIsAMachine, MachineAssumption
  <2> QED BY <1>1, <2>1, <2>2 DEF Calling
<1>4. Copied'
  BY <1>1, DeadIsAMachine DEF Copied
<1>5. Grows
  BY <1>1 DEF Grows, Typed
<1>6. Parking'
  BY <1>1, <1>5, ParkingKept DEF Logged, Parking
<1> QED BY <1>2, <1>3, <1>4, <1>6

LEMMA CrashKeeps ==
    ASSUME WorkInv, Crash
    PROVE  WorkInv'
<1> USE DEF WorkInv
<1>1. /\ Typed /\ Tip' = Tip /\ call' = Idle /\ work' = Tip /\ guest' = NoMachine
      /\ open' = FALSE /\ attached' = FALSE /\ stale' = FALSE /\ pending' = FALSE
      /\ unsure' = FALSE
      /\ UNCHANGED <<mode, commits, view, parked, ids, faults>>
  BY DEF Crash, Tip
<1>2. Typed'
  BY <1>1, TipIsAState DEF Typed
<1>3. Calling'
  BY <1>1 DEF Calling, InGuest, Idle
<1>4. Copied'
  BY <1>1 DEF Copied
<1>5. Parking'
  BY <1>1, ParkingKept
<1> QED BY <1>2, <1>3, <1>4, <1>5

LEMMA OpenKeeps ==
    ASSUME WorkInv, Open
    PROVE  WorkInv'
<1> USE DEF WorkInv
<1>1. /\ Typed /\ Tip' = Tip /\ open' = TRUE /\ view' = Tip.rec
      /\ call = Idle /\ guest = NoMachine /\ work = Tip /\ ~attached /\ ~stale /\ ~pending
      /\ UNCHANGED <<mode, commits, work, attached, stale, pending, guest, unsure, parked, call,
                     ids, faults>>
  BY DEF Open, Tip, Calling
<1>2. Typed'
  BY <1>1, TipIsAState DEF Typed, States
<1>3. Calling'
  BY <1>1 DEF Calling, InGuest, Idle
<1>4. Copied'
  BY <1>1 DEF Copied
<1>5. Grown'
  BY <1>1 DEF Grown
<1>6. ParkedIsItsCommit'
  BY <1>1 DEF Parking, ParkedIsItsCommit, ShownOf
<1>7. Parking'
  BY <1>1, <1>5, <1>6 DEF Parking
<1> QED BY <1>2, <1>3, <1>4, <1>7

\* A machine is parked under a commit only with what that commit shows.
LEMMA CloseKeeps ==
    ASSUME WorkInv, Close, mode.pooled => view = work.rec
    PROVE  WorkInv'
<1> USE DEF WorkInv
<1>1. PICK s \in SyncedAtClose :
         /\ parked' = ParkedAs(s)
         /\ faults' = IF s.unsure /\ ~unsure THEN faults + 1 ELSE faults
  BY DEF Close
<1>2. /\ Typed /\ Tip' = Tip /\ call = Idle /\ call' = Idle /\ work' = Tip
      /\ guest' = NoMachine /\ open' = FALSE /\ attached' = FALSE /\ stale' = FALSE
      /\ pending' = FALSE /\ unsure' = FALSE
      /\ UNCHANGED <<mode, commits, view, ids>>
  BY DEF Close, HostTurn, Gone, Tip, Typed, Calls
<1>3. Shown \in Trees
  BY ShownIsATree DEF Shown, Typed, States
<1>4. /\ s.machine \in Machines \cup {NoMachine} /\ s.unsure \in BOOLEAN
      /\ faults' \in 0..MaxFaults
      /\ s.machine # NoMachine /\ s.machine.alive /\ ~s.unsure => s.machine.tree = Shown
  <2>1. CASE stale /\ guest # NoMachine /\ s = [machine |-> Holding(Shown), unsure |-> FALSE]
    BY <1>1, <1>3, <2>1, HoldingIsAMachine DEF Typed
  <2>2. CASE faults < MaxFaults /\ s = [machine |-> guest, unsure |-> TRUE]
    BY <1>1, <2>2, Bounds DEF Typed
  <2>3. CASE ~(stale /\ guest # NoMachine) /\ s = [machine |-> guest, unsure |-> unsure]
    <3>1. call.pc \notin InGuest
      BY <1>2 DEF Idle, InGuest
    <3> QED BY <1>1, <2>3, <3>1 DEF Copied, Typed
  <2> QED BY <2>1, <2>2, <2>3 DEF SyncedAtClose
<1>5. CASE parked' = parked
  <2>1. Typed'
    BY <1>2, <1>4, <1>5, TipIsAState DEF Typed
  <2>2. Parking'
    BY <1>2, <1>5, ParkingKept
  <2> QED BY <1>2, <2>1, <2>2 DEF Calling, Copied, InGuest, Idle
<1>6. CASE /\ s.machine # NoMachine /\ mode.pooled /\ s.machine.alive
           /\ parked' = [tag |-> IF s.unsure THEN 0 ELSE Identity, tree |-> s.machine.tree]
  <2>1. Identity \in 0..Len(commits) /\ Len(commits) \in 1..MaxCommits
    BY Bounds DEF Identity, Typed
  <2>2. s.machine.tree \in Trees
    BY <1>4, <1>6 DEF Machines
  <2>3. parked' \in ParkedMachines
    BY <1>2, <1>6, <2>1, <2>2, Bounds DEF ParkedMachines
  <2>7. Typed'
    BY <1>2, <1>4, <2>3, TipIsAState DEF Typed
  <2>4. ASSUME parked'.tag # 0
        PROVE  parked'.tree = ShownOf(commits[parked'.tag].tree, commits[parked'.tag].rec, FALSE)
    <3>1. ~s.unsure /\ work = Tip /\ parked'.tag = Len(commits)
      BY <1>6, <2>4 DEF Identity, Dirty
    <3>2. parked'.tree = Shown
      BY <1>4, <1>6, <3>1
    <3>3. ~attached /\ view = Tip.rec
      BY <1>6, <3>1 DEF Parking
    <3> QED BY <1>2, <3>1, <3>2, <3>3 DEF Shown, Tip, Typed
  <2>5. ParkedIsItsCommit'
    BY <1>2, <2>4 DEF ParkedIsItsCommit, ShownOf
  <2>6. Parking'
    BY <1>2, <1>6, <2>1, <2>5 DEF Parking
  <2> QED BY <1>2, <2>6, <2>7 DEF Calling, Copied, InGuest, Idle
<1> QED BY <1>1, <1>5, <1>6 DEF ParkedAs

-----------------------------------------------------------------------------
(* The steps of a call *)

LEMMA StillParked ==
    ASSUME Typed, Parking, UNCHANGED <<mode, commits, work, view, attached, open>>,
           parked' \in {parked, NoMachine}
    PROVE  Parking' /\ Shown' = Shown /\ Tip' = Tip
<1>1. Grows
  BY DEF Grows, Typed
<1>2. Parking'
  BY <1>1, ParkingKept DEF Logged, Parking
<1> QED BY <1>2 DEF Shown, ShownOf, Tip

\* Of a call under way, what its next step needs of it.
LEMMA CallFacts ==
    ASSUME Typed, call.pc # "idle"
    PROVE  /\ call \in Calls
           /\ \A pc \in {"sync", "run", "harvest", "settle"}, n \in Nat \ {0},
                 b, d, e, f \in BOOLEAN :
                 [call EXCEPT !.pc = pc, !.at = n, !.retried = b, !.mid = d,
                              !.landed = e, !.torn = f] \in Calls
           /\ Advance \in Calls /\ Advance.pc = call.pc
           /\ Advance = [call EXCEPT !.at = call.at + 1]
<1>1. call \in Calls
  BY DEF Typed, Idle
<1>2. call.at + 1 \in Nat \ {0}
  BY <1>1 DEF Calls
<1> QED BY <1>1, <1>2 DEF Calls, Advance

LEMMA CallToolKeeps ==
    ASSUME WorkInv, NEW s \in Scripts, CallTool(s)
    PROVE  WorkInv'
<1> USE DEF WorkInv
<1>1. /\ Typed /\ Parking /\ call.pc = "idle" /\ open /\ ids' \in 1..MaxIds
      /\ call' = [Idle EXCEPT !.pc = "sync", !.script = s, !.at = 1, !.id = ids', !.dirty = Dirty]
      /\ UNCHANGED <<mode, commits, work, view, attached, open, stale, pending, guest, unsure,
                     parked, faults>>
  BY NextIdIsNew DEF CallTool
<1>2. Parking' /\ Shown' = Shown /\ Tip' = Tip
  BY <1>1, StillParked
<1>3. /\ call' \in Calls /\ call'.pc = "sync" /\ ~call'.mid
      /\ call'.dirty \/ work = Tip
  <2>1. PICK d \in BOOLEAN : d = Dirty
    BY DEF Dirty
  <2>2. PICK i \in 1..MaxIds : i = ids'
    BY <1>1
  <2> DEFINE begun == [pc |-> "sync", script |-> s, at |-> 1, id |-> i, dirty |-> d,
                       retried |-> FALSE, mid |-> FALSE, landed |-> FALSE, torn |-> FALSE,
                       lost |-> FALSE]
  <2>3. call' = begun
    BY <1>1, <2>1, <2>2 DEF Idle
  <2>4. begun \in Calls
    BY DEF Calls
  <2>5. begun.pc = "sync" /\ begun.mid = FALSE /\ begun.dirty = d
    OBVIOUS
  <2> QED BY <2>1, <2>3, <2>4, <2>5 DEF Dirty
<1>4. Typed'
  BY <1>1, <1>3 DEF Typed
<1>5. Calling'
  BY <1>1, <1>2, <1>3 DEF Calling, InGuest
<1>6. Copied'
  BY <1>1, <1>2, <1>3, CopiedKept DEF InGuest
<1> QED BY <1>2, <1>4, <1>5, <1>6

\* A call that raises with no verb's failed harvest behind it, and the machine
\* as it was, gone, or out of reach of a push.
LEMMA RaiseKeeps ==
    ASSUME WorkInv, Raise, ~pending, call.pc # "idle",
           UNCHANGED <<mode, commits, work, view, attached, open, pending, parked, ids>>,
           stale' \in BOOLEAN, unsure' \in BOOLEAN, faults' \in 0..MaxFaults,
           \/ guest' = guest /\ call.pc = "sync" /\ (stale' \/ (stale' = stale /\ unsure' = unsure))
           \/ guest' = NoMachine
           \/ guest' \in Machines /\ ~guest'.alive /\ guest'.base = guest'.tree
    PROVE  WorkInv'
<1> USE DEF WorkInv
<1>1. call' = Idle /\ Idle.pc \notin InGuest /\ Idle.pc = "idle" /\ open
  BY DEF Raise, Idle, InGuest, Calling
<1>2. Parking' /\ Shown' = Shown /\ Tip' = Tip
  BY StillParked
<1>3. Typed'
  BY <1>1 DEF Typed
<1>4. Calling'
  BY <1>1 DEF Calling
<1>5. Copied'
  BY <1>1, <1>2 DEF Copied, InGuest
<1> QED BY <1>2, <1>3, <1>4, <1>5

\* A machine that has just been given what the session is shown runs the script.
LEMMA AfreshKeeps ==
    ASSUME WorkInv, call.pc \in {"sync", "run"},
           UNCHANGED <<mode, commits, work, view, attached, open, pending, ids, faults>>,
           guest' = Holding(Shown), parked' \in {parked, NoMachine}, ~pending,
           unsure' \in BOOLEAN, stale' \in BOOLEAN,
           call' \in Calls, call'.pc = "run", call'.mid = call.mid, call'.dirty = call.dirty,
           stale' = stale \/ call.pc = "sync",
           ~call.mid
    PROVE  WorkInv'
<1> USE DEF WorkInv
<1>1. Parking' /\ Shown' = Shown /\ Tip' = Tip
  BY StillParked
<1>2. Shown \in Trees /\ open
  BY ShownIsATree DEF Shown, Typed, States, Calling, Idle
<1>3. guest' \in Machines /\ guest'.alive
  BY <1>2, HoldingIsAMachine
<1>4. Typed'
  BY <1>3 DEF Typed
<1>5. Calling'
  BY <1>1, <1>2, <1>3, MachineAssumption DEF Calling, InGuest
<1>6. Copied'
  BY <1>1, <1>2, CopiedAfresh
<1> QED BY <1>1, <1>4, <1>5, <1>6

LEMMA SyncKeeps ==
    ASSUME WorkInv, Sync
    PROVE  WorkInv'
<1> USE DEF WorkInv
<1>1. /\ Typed /\ Parking /\ call.pc = "sync" /\ ~call.mid /\ ~pending /\ open
      /\ UNCHANGED <<mode, commits, work, view, attached, open, pending, ids>>
  BY DEF Sync, Calling, Idle
<1>2. /\ call \in Calls /\ [call EXCEPT !.pc = "run"] \in Calls
      /\ [call EXCEPT !.pc = "run"].pc = "run"
      /\ [call EXCEPT !.pc = "run"].mid = call.mid
      /\ [call EXCEPT !.pc = "run"].dirty = call.dirty
  <2>1. PICK k \in Calls : k = call
    BY <1>1, CallFacts
  <2> QED BY <2>1 DEF Calls
<1>3. CASE NeedsBoot /\ BootOk /\ stale' = FALSE /\ call' = [call EXCEPT !.pc = "run"]
           /\ UNCHANGED faults
  <2>1. guest' = Holding(Shown) /\ parked' \in {parked, NoMachine} /\ unsure' = FALSE
    BY <1>1, <1>3, BootShows DEF BootOk
  <2> QED BY <1>1, <1>2, <1>3, <2>1, AfreshKeeps
<1>4. CASE BootFails /\ stale' = NeedsPush /\ Raise
  <2>1. stale' \in BOOLEAN
    BY <1>1, <1>4 DEF NeedsPush, Typed
  <2> QED BY <1>1, <1>4, <2>1, FailedBoot, RaiseKeeps
<1>5. CASE /\ guest' = Holding(Shown) /\ unsure' = FALSE /\ stale' = FALSE
           /\ call' = [call EXCEPT !.pc = "run"] /\ UNCHANGED <<parked, faults>>
  BY <1>1, <1>2, <1>5, AfreshKeeps
<1>6. CASE /\ NeedsPush /\ Fault /\ unsure' = TRUE /\ Raise
           /\ UNCHANGED <<guest, parked, stale>>
  <2>1. stale /\ faults' \in 0..MaxFaults
    BY <1>1, <1>6, Bounds DEF NeedsPush, Fault, Typed
  <2> QED BY <1>1, <1>6, <2>1, RaiseKeeps
<1>7. CASE /\ ~NeedsBoot /\ ~NeedsPush /\ call' = [call EXCEPT !.pc = "run"]
           /\ UNCHANGED <<guest, unsure, parked, stale, faults>>
  <2>1. guest # NoMachine /\ ~stale
    BY <1>1, <1>7 DEF NeedsBoot, NeedsPush, Typed
  <2>2. Parking' /\ Shown' = Shown /\ Tip' = Tip
    BY <1>1, <1>7, StillParked
  <2>3. Typed'
    BY <1>1, <1>2, <1>7 DEF Typed
  <2>4. Calling'
    BY <1>1, <1>2, <1>7, <2>1, <2>2 DEF Calling, InGuest
  <2>5. Copied'
    BY <1>1, <1>2, <1>7, <2>1, <2>2 DEF Copied, InGuest
  <2> QED BY <2>2, <2>3, <2>4, <2>5
<1> QED BY <1>3, <1>4, <1>5, <1>6, <1>7 DEF Sync

LEMMA StepFacts ==
    ASSUME Typed, call.pc = "run", call.at <= Len(call.script.steps)
    PROVE  Step \in StepType /\ (Step.do = "verb" => call.script.tool = "terminal")
<1>1. PICK k \in Calls : k = call
  BY CallFacts
<1>2. k.script \in Scripts /\ k.at \in Nat \ {0}
  BY <1>1 DEF Calls
<1>3. /\ k.script.steps \in Seq(StepType)
      /\ \A i \in DOMAIN k.script.steps : k.script.steps[i].do = "verb" => k.script.tool = "terminal"
  BY <1>2, ScriptsAssumption DEF ScriptsAssumption
<1>4. k.at \in DOMAIN k.script.steps
  BY <1>1, <1>2, <1>3
<1> QED BY <1>1, <1>3, <1>4 DEF Step

LEMMA RunningFacts ==
    ASSUME WorkInv, call.pc \in InGuest
    PROVE  /\ guest \in Machines /\ guest.tree \in Trees /\ guest.base \in Trees
           /\ open /\ call \in Calls
BY CallFacts DEF WorkInv, Typed, Calling, Machines, InGuest, Idle

\* What the script's machine holds changes, and what of it is staged; a verb that
\* staged something, or flagged the machine, is remembered.
LEMMA ScriptStepKeeps ==
    ASSUME WorkInv, Running, NEW mid \in BOOLEAN, call' = [Advance EXCEPT !.mid = mid],
           UNCHANGED <<mode, attached, open, unsure, parked, ids>>,
           guest' \in Machines, guest'.alive, faults' \in 0..MaxFaults,
           pending' \in BOOLEAN, stale' \in BOOLEAN, work' \in States, view' \in SUBSET Paths,
           Logged,
           stale => stale', call.mid => mid,
           pending' => stale' /\ call.script.tool = "terminal",
           stale' \/ mid \/ (work'.tree = work.tree /\ commits' = commits),
           ~stale' /\ ~unsure /\ guest.base = Shown => guest'.base = Shown'
    PROVE  WorkInv'
<1> USE DEF WorkInv
<1>1. PICK k \in Calls : k = call /\ k.pc = "run"
  BY CallFacts DEF Running
<1>2. /\ call' \in Calls /\ call'.pc = "run" /\ call'.mid = mid
      /\ call'.dirty = call.dirty /\ call'.script = call.script
  <2>1. [k EXCEPT !.at = k.at + 1] \in Calls
    BY DEF Calls
  <2>2. call' = [[k EXCEPT !.at = k.at + 1] EXCEPT !.mid = mid]
    BY <1>1, CallFacts DEF Advance
  <2> QED BY <1>1, <2>1, <2>2 DEF Calls
<1>3. commits' = commits \/ Longer(commits')
  BY DEF Logged
<1>4. commits' \in Seq(States) /\ Len(commits') \in 1..MaxCommits
  BY <1>3 DEF Longer, Typed
<1>5. Typed'
  BY <1>2, <1>4 DEF Typed
<1>6. guest' # NoMachine /\ guest # NoMachine /\ guest.alive /\ open
  BY <1>1, MachineAssumption, RunningFacts DEF Running, InGuest
<1>7. Calling'
  <2>1. commits' = commits => Tip' = Tip
    BY DEF Tip
  <2>2. stale' \/ mid \/ call.dirty \/ work'.tree = Tip'.tree
    BY <1>1, <2>1 DEF Calling, InGuest
  <2> QED BY <1>1, <1>2, <1>6, <2>2 DEF Calling, InGuest
<1>8. Copied'
  BY <1>1, <1>2, <1>6 DEF Copied, InGuest
<1>9. Parking'
  BY <1>3, <1>6, ParkingKept DEF Parking
<1> QED BY <1>5, <1>7, <1>8, <1>9

LEMMA GuestWritesKeeps ==
    ASSUME WorkInv, GuestWrites
    PROVE  WorkInv'
<1> USE DEF WorkInv
<1>1. /\ Typed /\ Parking /\ Running /\ Step \in StepType /\ call' = Advance
      /\ UNCHANGED <<mode, commits, work, view, attached, open, stale, pending, unsure, parked,
                     ids, faults>>
  BY StepFacts DEF GuestWrites, Running
<1>2. PICK g \in Machines : g = guest
  BY <1>1, RunningFacts DEF Running, InGuest
<1>3. guest' \in Machines /\ guest'.alive = g.alive /\ guest'.base = g.base
  <2>1. PICK p \in Paths : p = Step.path
    BY <1>1 DEF StepType
  <2>2. PICK i \in 1..MaxIds : i = call.id
    <3>1. PICK c \in Calls : c = call
      BY <1>1, CallFacts DEF Running
    <3>2. c.id \in 1..MaxIds
      BY DEF Calls
    <3> QED BY <3>1, <3>2
  <2>3. [g.tree EXCEPT ![p] = Append(g.tree[p], i)] \in Trees /\ [g.tree EXCEPT ![p] = <<>>] \in Trees
    BY Bounds, TreeFacts DEF Machines
  <2>4. \/ guest' = [g EXCEPT !.tree = [g.tree EXCEPT ![p] = Append(g.tree[p], i)]]
        \/ guest' = [g EXCEPT !.tree = [g.tree EXCEPT ![p] = <<>>]]
        \/ guest' = g
    <3>1. CASE Step.do = "append"
      BY <1>2, <2>1, <2>2, <3>1 DEF GuestWrites
    <3>2. CASE Step.do = "remove"
      BY <1>2, <2>1, <2>2, <3>2 DEF GuestWrites
    <3>3. CASE Step.do = "cache"
      BY <1>2, <2>1, <2>2, <3>3 DEF GuestWrites
    <3> QED BY <3>1, <3>2, <3>3 DEF GuestWrites
  <2> QED BY <2>3, <2>4 DEF Machines
<1>4. PICK mid \in BOOLEAN : mid = call.mid
  BY <1>1, CallFacts DEF Running, Calls
<1>5. call' = [Advance EXCEPT !.mid = mid]
  <2>1. PICK k \in Calls : k = Advance
    BY <1>1, CallFacts DEF Running
  <2>2. k.mid = mid
    <3>1. PICK c \in Calls : c = call
      BY <1>1, CallFacts DEF Running
    <3> QED BY <1>4, <2>1, <3>1 DEF Advance, Calls
  <2> QED BY <1>1, <2>1, <2>2 DEF Calls
<1>6. Logged /\ Shown' = Shown
  BY <1>1 DEF Logged, Grows, Typed, Shown, ShownOf
<1>7. /\ work' \in States /\ view' \in SUBSET Paths /\ faults' \in 0..MaxFaults
      /\ pending' \in BOOLEAN /\ stale' \in BOOLEAN /\ guest'.alive
      /\ pending' => stale' /\ call.script.tool = "terminal"
  BY <1>1, <1>2, <1>3 DEF Typed, Calling, Running
<1> QED BY <1>1, <1>2, <1>3, <1>4, <1>5, <1>6, <1>7, ScriptStepKeeps

LEMMA LandsFacts ==
    ASSUME Typed, guest \in Machines
    PROVE  /\ Changed \in SUBSET Paths /\ Lands \in SUBSET Paths
           /\ \A p \in Lands : ~Kept(p)
           /\ ~Refused => Lands = Changed /\ Lands \cap ReadOnly = {}
           /\ ~WhollyRefused => \A p \in Changed : ~Kept(p)
BY DEF Changed, Lands, WhollyRefused, Refused

\* The harvest is the guest's new baseline.
LEMMA RebaseFacts ==
    ASSUME guest \in Machines, Rebase
    PROVE  /\ guest' \in Machines /\ guest'.alive = guest.alive
           /\ guest'.tree = guest.tree /\ guest'.base = guest.tree
<1>1. PICK g \in Machines : g = guest
  OBVIOUS
<1>2. guest' = [g EXCEPT !.base = g.tree]
  BY <1>1 DEF Rebase
<1> QED BY <1>1, <1>2 DEF Machines

\* Once everything a script wrote has landed, the session is shown its tree.
LEMMA LandedIsShown ==
    ASSUME Typed, guest \in Machines, ~Refused, guest.base = Shown, attached' = attached,
           view' = view \cup Lands,
           work'.tree = [p \in Paths |-> IF p \in Lands THEN guest.tree[p] ELSE work.tree[p]]
    PROVE  Shown' = guest.tree
<1>1. PICK t \in Trees : t = guest.tree
  BY DEF Machines
<1>2. t = [p \in Paths |-> t[p]]
  BY DEF Trees
<1>3. ASSUME NEW p \in Paths
      PROVE  t[p] = IF attached /\ p \in Attachable THEN <<1>>
                    ELSE IF p \in view \cup Lands THEN work'.tree[p] ELSE <<>>
  <2>1. Shown[p] = IF attached /\ p \in Attachable THEN <<1>>
                   ELSE IF p \in view THEN work.tree[p] ELSE <<>>
    BY DEF Shown, ShownOf
  <2>2. CASE p \in Lands
    <3>1. ~(attached /\ p \in Attachable)
      BY <2>2, LandsFacts DEF ReadOnly
    <3> QED BY <1>1, <2>2, <3>1
  <2>3. CASE p \notin Lands
    <3>1. t[p] = Shown[p]
      BY <1>1, <2>3, LandsFacts DEF Changed
    <3> QED BY <2>1, <2>3, <3>1
  <2> QED BY <2>2, <2>3
<1>4. Shown' = [p \in Paths |-> IF attached /\ p \in Attachable THEN <<1>>
                                ELSE IF p \in view \cup Lands THEN work'.tree[p] ELSE <<>>]
  BY DEF Shown, ShownOf
<1> QED BY <1>1, <1>2, <1>3, <1>4

LEMMA AbsorbFacts ==
    ASSUME Typed, guest \in Machines, NEW paths \in SUBSET Lands, Absorb(paths)
    PROVE  /\ guest' \in Machines /\ guest'.alive = guest.alive
           /\ guest'.tree = guest.tree /\ guest'.base = guest.tree
           /\ work' \in States /\ Grows /\ view' \in SUBSET Paths /\ view' = view \cup paths
           /\ work'.tree = [p \in Paths |-> IF p \in paths THEN guest.tree[p] ELSE work.tree[p]]
<1>1. guest.tree \in Trees
  BY DEF Machines
<1>2. PICK t \in Trees : t = guest.tree
  BY <1>1
<1>3. paths \in SUBSET Paths /\ \A p \in paths : ~Kept(p)
  BY LandsFacts
<1>4. work' = Staged(work, paths, t) /\ view' = view \cup paths
  BY <1>2 DEF Absorb
<1>5. work' \in States /\ Grows
  BY <1>3, <1>4, StagingGrows
<1>6. work'.tree = [p \in Paths |-> IF p \in paths THEN t[p] ELSE work.tree[p]]
  BY <1>3, <1>4, StagedFacts
<1>7. Rebase
  BY DEF Absorb
<1> QED BY <1>2, <1>4, <1>5, <1>6, <1>7, RebaseFacts DEF Grows

LEMMA VerbRefusedKeeps ==
    ASSUME WorkInv, VerbRefused
    PROVE  WorkInv'
<1> USE DEF WorkInv
<1>1. /\ Typed /\ Running /\ call.script.tool = "terminal" /\ Absorb(Lands) /\ stale' = TRUE
      /\ call' = [Advance EXCEPT !.mid = (Advance.mid \/ Lands # {})]
      /\ UNCHANGED <<mode, commits, attached, open, pending, unsure, parked, ids, faults>>
  BY StepFacts DEF VerbRefused, Running
<1>2. guest \in Machines
  BY <1>1, RunningFacts DEF Running, InGuest
<1>3. PICK mid \in BOOLEAN : mid = (Advance.mid \/ Lands # {})
  OBVIOUS
<1>4. Advance.mid = call.mid
  <2>1. PICK k \in Calls : k = call
    BY <1>1, CallFacts DEF Running
  <2> QED BY <2>1 DEF Advance, Calls
<1>5. /\ guest' \in Machines /\ guest'.alive = guest.alive /\ work' \in States /\ Grows
      /\ view' \in SUBSET Paths
  BY <1>1, <1>2, AbsorbFacts
<1>6. Logged
  BY <1>1, <1>5 DEF Logged
<1>7. call' = [Advance EXCEPT !.mid = mid] /\ (call.mid => mid)
  BY <1>1, <1>3, <1>4
<1> QED BY <1>1, <1>3, <1>5, <1>6, <1>7, ScriptStepKeeps DEF Typed, Running

LEMMA VerbSyncFailsKeeps ==
    ASSUME WorkInv, VerbSyncFails
    PROVE  WorkInv'
<1> USE DEF WorkInv
<1>1. PICK some \in SUBSET Lands : Absorb(some)
  BY DEF VerbSyncFails
<1>2. /\ Typed /\ Running /\ call.script.tool = "terminal"
      /\ stale' = TRUE /\ pending' = TRUE /\ call' = [Advance EXCEPT !.mid = TRUE]
      /\ faults' \in 0..MaxFaults
      /\ UNCHANGED <<mode, commits, attached, open, unsure, parked, ids>>
  BY StepFacts, Bounds DEF VerbSyncFails, Running, Fault, Typed
<1>3. guest \in Machines
  BY <1>2, RunningFacts DEF Running, InGuest
<1>4. PICK mid \in BOOLEAN : mid = TRUE
  OBVIOUS
<1>5. /\ guest' \in Machines /\ guest'.alive = guest.alive /\ work' \in States /\ Grows
      /\ view' \in SUBSET Paths
  BY <1>1, <1>2, <1>3, AbsorbFacts
<1>6. Logged
  BY <1>2, <1>5 DEF Logged
<1> QED BY <1>2, <1>4, <1>5, <1>6, ScriptStepKeeps DEF Running

LEMMA VerbKeeps ==
    ASSUME WorkInv, Verb
    PROVE  WorkInv'
<1> USE DEF WorkInv
<1> DEFINE rewrites == Rewrites
           paths == IF rewrites THEN Lands \cup {Step.path} ELSE Lands
<1>1. /\ Typed /\ Running /\ Step \in StepType /\ call.script.tool = "terminal" /\ ~Refused
      /\ Rebase /\ VerbRuns(Lands)
      /\ view' = view \cup Lands \cup (IF rewrites THEN {Step.path} ELSE {})
      /\ call' = [Advance EXCEPT !.mid = (Advance.mid \/ Lands # {} \/ Step.verb = "commit"
                                           \/ rewrites)]
      /\ UNCHANGED <<mode, attached, open, pending, unsure, parked, ids, faults>>
  BY StepFacts DEF Verb, Running
<1>2. guest \in Machines /\ Step.path \in Paths
  BY <1>1, RunningFacts DEF Running, InGuest, StepType
<1>3. PICK t \in Trees : t = guest.tree
  BY <1>2, RunningFacts, <1>1 DEF Running, InGuest
<1>4. PICK i \in 1..MaxIds : i = call.id
  <2>1. PICK c \in Calls : c = call
    BY <1>1, CallFacts DEF Running
  <2>2. c.id \in 1..MaxIds
    BY DEF Calls
  <2> QED BY <2>1, <2>2
<1>5. PICK mid \in BOOLEAN :
         mid = (Advance.mid \/ Lands # {} \/ Step.verb = "commit" \/ rewrites)
  OBVIOUS
<1>6. call' = [Advance EXCEPT !.mid = mid] /\ (call.mid => mid)
  <2>1. PICK k \in Calls : k = call
    BY <1>1, CallFacts DEF Running
  <2>2. Advance.mid = call.mid
    BY <2>1 DEF Advance, Calls
  <2> QED BY <1>1, <1>5, <2>2
<1>7. /\ guest' \in Machines /\ guest'.alive = guest.alive /\ guest'.base = guest.tree
  BY <1>1, <1>2, RebaseFacts
<1>8. PICK c \in Trees : /\ work' = Staged(work, paths, c)
                         /\ ~rewrites => c = t
  <2>1. CASE rewrites
    <3>1. work' = Staged(work, paths, [t EXCEPT ![Step.path] = <<i>>])
      BY <1>1, <1>3, <1>4, <2>1 DEF VerbRuns, Rewrites
    <3> QED BY <1>2, <2>1, <3>1, TreeFacts, Bounds
  <2>2. CASE ~rewrites
    BY <1>1, <1>3, <2>2 DEF VerbRuns
  <2> QED BY <2>1, <2>2
<1>9. paths \in SUBSET Paths /\ (\A p \in paths : ~Kept(p)) /\ view' = view \cup paths
  BY <1>1, <1>2, LandsFacts DEF VerbRuns, Rewrites
<1> HIDE DEF paths
<1>10. work' \in States /\ Grows /\ view' \in SUBSET Paths
  BY <1>1, <1>8, <1>9, StagingGrows DEF Grows
<1>11. work'.tree = [p \in Paths |-> IF p \in paths THEN c[p] ELSE work.tree[p]]
  BY <1>1, <1>8, <1>9, StagedFacts
<1>12. Logged /\ stale' \in BOOLEAN /\ (stale => stale') /\ (rewrites => stale')
  <2>1. CASE Step.verb # "commit" /\ ~rewrites
    BY <1>1, <1>10, <2>1 DEF VerbRuns, Logged, Typed
  <2>2. CASE Step.verb = "commit"
    <3>1. MayCommit /\ commits' = CommitOf(work') /\ stale' = stale
      BY <1>1, <2>2 DEF VerbRuns, Rewrites
    <3>2. commits' = commits \/ Longer(commits')
      BY <1>1, <1>10, <3>1, CommitMakesTheTip
    <3>3. ~rewrites
      BY <2>2 DEF Rewrites
    <3> QED BY <1>1, <1>10, <2>2, <3>1, <3>2, <3>3 DEF Logged, Typed
  <2>3. CASE rewrites
    BY <1>1, <1>10, <2>3 DEF VerbRuns, Rewrites, Logged, Typed
  <2> QED BY <1>1, <2>1, <2>2, <2>3 DEF VerbRuns
<1>13. stale' \/ mid \/ (work'.tree = work.tree /\ commits' = commits)
  <2>1. CASE Step.verb # "commit" /\ ~rewrites /\ Lands = {}
    <3>1. commits' = commits /\ paths = {}
      BY <1>1, <2>1 DEF VerbRuns, paths
    <3>2. PICK u \in Trees : u = work.tree
      BY <1>1 DEF Typed, States
    <3> QED BY <1>11, <3>1, <3>2 DEF Trees
  <2> QED BY <1>5, <2>1
<1>14. ~stale' /\ ~unsure /\ guest.base = Shown => guest'.base = Shown'
  <2> SUFFICES ASSUME ~stale', guest.base = Shown PROVE guest'.base = Shown'
    OBVIOUS
  <2>1. ~rewrites /\ paths = Lands /\ c = guest.tree
    BY <1>3, <1>8, <1>12 DEF paths
  <2> QED BY <1>1, <1>2, <1>7, <1>9, <1>11, <2>1, LandedIsShown
<1>15. faults' \in 0..MaxFaults /\ pending' \in BOOLEAN
       /\ (pending' => stale' /\ call.script.tool = "terminal")
  BY <1>1, <1>12 DEF Typed, Calling
<1> QED BY <1>1, <1>6, <1>7, <1>10, <1>12, <1>13, <1>14, <1>15, ScriptStepKeeps DEF Running

LEMMA RunLostKeeps ==
    ASSUME WorkInv, RunLost
    PROVE  WorkInv'
<1> USE DEF WorkInv
<1>1. /\ Typed /\ Parking /\ call.pc = "run" /\ ~guest.alive /\ guest # NoMachine
      /\ ~call.mid /\ ~pending /\ guest \in Machines /\ guest.base = guest.tree /\ open
      /\ UNCHANGED <<mode, commits, work, view, attached, open, stale, pending, ids>>
  BY RunningFacts DEF RunLost, Calling, Copied, InGuest
<1>2. CASE /\ BootOk /\ UNCHANGED faults
           /\ call' = [call EXCEPT !.at = 1, !.retried = TRUE]
  <2>1. PICK k \in Calls : k = call
    BY <1>1, CallFacts
  <2>2. call' \in Calls /\ call'.pc = "run" /\ call'.mid = call.mid /\ call'.dirty = call.dirty
    <3>1. PICK n \in Nat \ {0} : n = 1
      OBVIOUS
    <3> PICK b \in BOOLEAN : b = TRUE
      OBVIOUS
    <3>2. [k EXCEPT !.at = n, !.retried = b] \in Calls
      BY DEF Calls
    <3>3. call' = [k EXCEPT !.at = n, !.retried = b]
      BY <1>2, <2>1, <3>1
    <3>4. call'.pc = k.pc /\ call'.mid = k.mid /\ call'.dirty = k.dirty
      BY <3>3 DEF Calls
    <3> QED BY <1>1, <2>1, <3>2, <3>3, <3>4
  <2>3. guest' = Holding(Shown) /\ parked' \in {parked, NoMachine} /\ unsure' = FALSE
    BY <1>1, <1>2, BootShows DEF BootOk
  <2>4. stale' \in BOOLEAN
    BY <1>1 DEF Typed
  <2> QED BY <1>1, <1>2, <2>2, <2>3, <2>4, AfreshKeeps
<1>3. CASE BootFails /\ Raise
  <2>1. stale' \in BOOLEAN
    BY <1>1 DEF Typed
  <2> QED BY <1>1, <1>3, <2>1, FailedBoot, RaiseKeeps
<1>4. CASE Raise /\ UNCHANGED <<guest, unsure, parked, faults>>
  <2>1. stale' \in BOOLEAN /\ unsure' \in BOOLEAN /\ faults' \in 0..MaxFaults
    BY <1>1, <1>4 DEF Typed
  <2> QED BY <1>1, <1>4, <2>1, RaiseKeeps
<1> QED BY <1>2, <1>3, <1>4 DEF RunLost

LEMMA RunEndsKeeps ==
    ASSUME WorkInv, RunEnds
    PROVE  WorkInv'
<1> USE DEF WorkInv
<1>1. /\ Typed /\ Parking /\ Running /\ call' = [call EXCEPT !.pc = "harvest"]
      /\ UNCHANGED <<mode, commits, view, attached, open, stale, pending, guest, unsure, parked,
                     ids, faults>>
  BY DEF RunEnds
<1>2. PICK k \in Calls : k = call /\ k.pc = "run"
  BY <1>1, CallFacts DEF Running
<1>3. /\ call' \in Calls /\ call'.pc = "harvest" /\ call'.mid = call.mid
      /\ call'.dirty = call.dirty /\ call'.script = call.script
  BY <1>1, <1>2 DEF Calls
<1>4. PICK i \in 0..MaxIds : i = call.id
  <2>1. k.id \in 0..MaxIds
    BY Bounds DEF Calls
  <2> QED BY <1>2, <2>1
<1>5. work' \in States /\ work'.tree = work.tree
  <2>1. PICK w \in States : w = work
    BY <1>1 DEF Typed
  <2>2. work' = [w EXCEPT !.cache = i] \/ work' = w
    BY <1>4, <2>1 DEF RunEnds
  <2> QED BY <2>1, <2>2 DEF States
<1>6. Grows /\ Shown' = Shown /\ Tip' = Tip
  BY <1>1, <1>5 DEF Grows, Typed, Shown, ShownOf, Tip
<1>7. Typed'
  BY <1>1, <1>3, <1>5 DEF Typed
<1>8. Calling'
  BY <1>1, <1>2, <1>3, <1>5, <1>6, RunningFacts DEF Calling, InGuest
<1>9. Copied'
  BY <1>1, <1>2, <1>3, <1>6, CopiedKept DEF InGuest
<1>10. Parking'
  BY <1>1, <1>6, ParkingKept DEF Logged, Parking
<1> QED BY <1>7, <1>8, <1>9, <1>10

\* A write-back refused to a frozen session leaves the machine flagged.
LEMMA WriteBackRefusedKeeps ==
    ASSUME WorkInv, WriteBackRefused
    PROVE  WorkInv'
<1> USE DEF WorkInv
<1>1. /\ Typed /\ Parking /\ Running /\ Caching /\ call' = Idle /\ stale' = TRUE
      /\ UNCHANGED <<mode, commits, work, view, attached, open, pending, guest, unsure, parked,
                     ids, faults>>
  BY DEF WriteBackRefused
<1>2. ~pending
  <2>1. PICK k \in Calls : k = call
    BY <1>1, CallFacts DEF Running
  <2>2. k.script \in Scripts
    BY DEF Calls
  <2>3. k.script.tool = "run_python"
    BY <1>1, <2>1, <2>2, ScriptsAssumption DEF ScriptsAssumption, Caching
  <2> QED BY <2>1, <2>3 DEF Calling
<1>3. open /\ Idle.pc = "idle"
  BY <1>1, RunningFacts DEF Running, InGuest, Idle
<1>4. Parking' /\ Shown' = Shown /\ Tip' = Tip
  BY <1>1, StillParked
<1>5. Typed'
  BY <1>1 DEF Typed
<1>6. Calling'
  BY <1>1, <1>2, <1>3 DEF Calling, InGuest
<1>7. Copied'
  BY <1>1, <1>3 DEF Copied, InGuest
<1> QED BY <1>4, <1>5, <1>6, <1>7

\* A harvest is over, or lost: the call is to be settled.
LEMMA ToSettleKeeps ==
    ASSUME WorkInv, call.pc = "harvest", NEW landed \in BOOLEAN, NEW torn \in BOOLEAN,
           NEW lost \in BOOLEAN,
           call' = [call EXCEPT !.pc = "settle", !.landed = landed, !.torn = torn,
                                !.lost = lost],
           UNCHANGED <<mode, commits, attached, open, pending, ids>>,
           guest' \in Machines, guest'.base = guest'.tree, pending => guest'.alive,
           parked' \in {parked, NoMachine}, unsure' \in BOOLEAN, stale' \in BOOLEAN,
           faults' \in 0..MaxFaults, work' \in States, Grows, stale => stale',
           ~stale' /\ ~unsure' /\ guest'.alive => guest'.base = Shown'
    PROVE  WorkInv'
<1> USE DEF WorkInv
<1>1. PICK k \in Calls : k = call
  BY CallFacts
<1>2. call' \in Calls /\ call'.pc = "settle" /\ call'.script = call.script
  BY <1>1 DEF Calls
<1>3. guest' # NoMachine /\ open /\ view' \in SUBSET Paths
  BY MachineAssumption, RunningFacts DEF InGuest, Grows
<1>4. Typed'
  BY <1>2, <1>3 DEF Typed
<1>5. Calling'
  BY <1>2, <1>3 DEF Calling, InGuest
<1>6. Copied'
  BY DEF Copied
<1>7. Parking'
  BY <1>3, ParkingKept DEF Logged, Parking
<1> QED BY <1>4, <1>5, <1>6, <1>7

LEMMA HarvestKeeps ==
    ASSUME WorkInv, Harvest
    PROVE  WorkInv'
<1> USE DEF WorkInv
<1>1. /\ Typed /\ call.pc = "harvest" /\ guest.alive /\ guest \in Machines /\ Absorb(Lands)
      /\ stale' = (stale \/ Refused)
      /\ call' = [call EXCEPT !.pc = "settle", !.landed = (Lands # {}), !.torn = Refused]
      /\ UNCHANGED <<mode, commits, attached, open, pending, unsure, parked, ids, faults>>
  BY RunningFacts DEF Harvest, InGuest
<1>2. PICK landed \in BOOLEAN : landed = (Lands # {})
  OBVIOUS
<1>3. PICK torn \in BOOLEAN : torn = Refused
  BY DEF Refused
<1>4. PICK lost \in BOOLEAN :
         call' = [call EXCEPT !.pc = "settle", !.landed = landed, !.torn = torn, !.lost = lost]
  <2>1. PICK k \in Calls : k = call
    BY <1>1, CallFacts
  <2>2. [k EXCEPT !.pc = "settle", !.landed = landed, !.torn = torn] =
           [k EXCEPT !.pc = "settle", !.landed = landed, !.torn = torn, !.lost = k.lost]
    BY DEF Calls
  <2> QED BY <1>1, <1>2, <1>3, <2>1, <2>2 DEF Calls
<1>5. /\ guest' \in Machines /\ guest'.alive /\ guest'.base = guest.tree
      /\ guest'.base = guest'.tree /\ work' \in States /\ Grows
      /\ view' = view \cup Lands
      /\ work'.tree = [p \in Paths |-> IF p \in Lands THEN guest.tree[p] ELSE work.tree[p]]
  BY <1>1, AbsorbFacts
<1>6. ASSUME ~stale', ~unsure' PROVE guest'.base = Shown'
  <2>1. ~Refused /\ guest.base = Shown
    BY <1>1, <1>6, MachineAssumption DEF Copied
  <2> QED BY <1>1, <1>5, <2>1, LandedIsShown
<1>7. stale' \in BOOLEAN /\ unsure' \in BOOLEAN /\ faults' \in 0..MaxFaults /\ (stale => stale')
  BY <1>1, <1>3 DEF Typed
<1> QED BY <1>1, <1>4, <1>5, <1>6, <1>7, ToSettleKeeps

LEMMA HarvestLostKeeps ==
    ASSUME WorkInv, HarvestLost
    PROVE  WorkInv'
<1> USE DEF WorkInv
<1>1. /\ Typed /\ Parking /\ open /\ call.pc = "harvest" /\ ~guest.alive
      /\ ~call.mid /\ ~pending
      /\ UNCHANGED <<mode, commits, view, attached, open, stale, pending, ids>>
  BY RunningFacts DEF HarvestLost, Calling, InGuest
<1>2. CASE /\ BootOk /\ work' = Unwound /\ UNCHANGED faults
           /\ call' = [call EXCEPT !.pc = "settle", !.torn = TRUE, !.lost = TRUE]
  <2>1. /\ guest' = Holding(Shown) /\ guest' \in Machines /\ parked' \in {parked, NoMachine}
        /\ guest'.base = Shown /\ guest'.tree = Shown /\ unsure' = FALSE
    BY <1>1, <1>2, BootShows, HoldingIsAMachine DEF BootOk
  <2>2. work' \in {work, Tip}
    BY <1>2 DEF Unwound
  <2>3. work' \in States /\ Grows
    BY <1>1, <2>2, DroppingGrows
  <2>4. ASSUME ~stale PROVE Shown' = Shown
    <3>1. work'.tree = work.tree
      BY <1>1, <1>2, <2>4 DEF Calling, InGuest, Unwound
    <3> QED BY <1>1, <3>1 DEF Shown, ShownOf
  <2>5. PICK landed \in BOOLEAN, torn \in BOOLEAN :
           call' = [call EXCEPT !.pc = "settle", !.landed = landed, !.torn = torn,
                                !.lost = torn]
    <3>1. PICK k \in Calls : k = call
      BY <1>1, CallFacts
    <3>2. PICK torn \in BOOLEAN : torn = TRUE
      OBVIOUS
    <3>3. k.landed \in BOOLEAN /\ k = [k EXCEPT !.landed = k.landed]
      BY DEF Calls
    <3>4. call' = [k EXCEPT !.pc = "settle", !.landed = k.landed, !.torn = torn, !.lost = torn]
      BY <1>2, <3>1, <3>2, <3>3 DEF Calls
    <3> QED BY <3>1, <3>3, <3>4
  <2>6. stale' \in BOOLEAN /\ faults' \in 0..MaxFaults
    BY <1>1, <1>2 DEF Typed
  <2> QED BY <1>1, <2>1, <2>3, <2>4, <2>5, <2>6, ToSettleKeeps
<1>3. CASE BootFails /\ Raise /\ UNCHANGED work
  <2>1. stale' \in BOOLEAN
    BY <1>1 DEF Typed
  <2> QED BY <1>1, <1>3, <2>1, FailedBoot, RaiseKeeps
<1> QED BY <1>2, <1>3 DEF HarvestLost

\* The call is over.
LEMMA SettledKeeps ==
    ASSUME WorkInv, call.pc = "settle", call' = Idle, pending' = FALSE,
           UNCHANGED <<mode, attached, open, guest, unsure, parked, ids, faults>>,
           stale' \in BOOLEAN, stale' \/ (stale' = stale /\ Shown' = Shown),
           work' \in States, view' \in SUBSET Paths, Logged
    PROVE  WorkInv'
<1> USE DEF WorkInv
<1>1. Idle.pc \notin InGuest /\ call.pc \notin InGuest /\ open /\ Idle.pc = "idle"
  BY DEF Idle, InGuest, Calling
<1>2. commits' = commits \/ Longer(commits')
  BY DEF Logged
<1>3. commits' \in Seq(States) /\ Len(commits') \in 1..MaxCommits
  BY <1>2 DEF Longer, Typed
<1>4. Typed'
  BY <1>3 DEF Typed
<1>5. Calling'
  BY <1>1 DEF Calling
<1>6. Copied'
  BY <1>1, CopiedKept
<1>7. Parking'
  BY <1>1, <1>2, ParkingKept DEF Parking
<1> QED BY <1>4, <1>5, <1>6, <1>7

LEMMA SettleTornKeeps ==
    ASSUME WorkInv, SettleTorn
    PROVE  WorkInv'
<1> USE DEF WorkInv
<1>1. /\ Typed /\ call.pc = "settle" /\ MayCommit /\ call' = Idle
      /\ work' \in {work, Tip} /\ (~pending => work' = work)
      /\ MaybeCommit(work') \/ commits' = commits
      /\ UNCHANGED <<mode, view, attached, open, stale, guest, unsure, parked, ids, faults>>
  BY DEF SettleTorn, SyncFailed, Unwound
<1>2. pending' = FALSE
  BY DEF SettleTorn, SyncFailed, Calling
<1>3. work' \in States /\ Grows
  BY <1>1, DroppingGrows
<1>4. Logged
  BY <1>1, <1>3, MaybeCommitLogs DEF Logged
<1>5. stale' \/ Shown' = Shown
  <2>1. CASE pending
    BY <1>1, <2>1 DEF Calling
  <2>2. CASE ~pending
    BY <1>1, <2>2 DEF Shown, ShownOf
  <2> QED BY <2>1, <2>2
<1> QED BY <1>1, <1>2, <1>3, <1>4, <1>5, SettledKeeps DEF Typed

LEMMA SettleKeeps ==
    ASSUME WorkInv, Settle
    PROVE  WorkInv'
<1> USE DEF WorkInv
<1>1. /\ Typed /\ call.pc = "settle" /\ MayCommit /\ call' = Idle /\ MaybeCommit(work')
      /\ stale' = (stale \/ Materializes)
      /\ UNCHANGED <<mode, attached, open, guest, unsure, parked, ids, faults>>
      /\ pending' = FALSE
  BY DEF Settle, SyncFailed, Calling, Typed
<1>2. CASE Materializes
  <2>1. PICK i \in 1..MaxIds : i = call.id
    <3>1. PICK c \in Calls : c = call
      BY <1>1, CallFacts
    <3>2. c.id \in 1..MaxIds
      BY DEF Calls
    <3> QED BY <3>1, <3>2
  <2>2. PICK t \in Trees : t = [work.tree EXCEPT ![Artifact] = <<i>>]
    BY <1>1, TreeFacts, Bounds, WorkspaceAssumption DEF WorkspaceAssumption, Typed, States
  <2>3. /\ work' = Staged(work, {Artifact}, t) /\ view' = view \cup {Artifact}
        /\ {Artifact} \in SUBSET Paths /\ \A p \in {Artifact} : ~Kept(p)
    BY <1>2, <2>1, <2>2, WorkspaceAssumption DEF WorkspaceAssumption, Settle, WithArtifact, Materializes
  <2>4. work' \in States /\ Grows
    BY <1>1, <2>3, StagingGrows
  <2>5. Logged
    BY <1>1, <2>4, MaybeCommitLogs
  <2> QED BY <1>1, <1>2, <2>4, <2>5, SettledKeeps DEF Grows
<1>3. CASE ~Materializes
  <2>1. UNCHANGED <<work, view, stale>>
    BY <1>1, <1>3 DEF Settle, Typed
  <2>2. work' \in States /\ Grows /\ Shown' = Shown
    BY <1>1, <2>1, DroppingGrows DEF Shown, ShownOf
  <2>3. Logged
    BY <1>1, <2>2, MaybeCommitLogs
  <2> QED BY <1>1, <2>1, <2>2, <2>3, SettledKeeps DEF Grows, Typed
<1> QED BY <1>2, <1>3

-----------------------------------------------------------------------------
(* The theorems *)

LEMMA InitWorkInv == Init => WorkInv
<1> SUFFICES ASSUME Init PROVE WorkInv
  OBVIOUS
<1>1. PICK given \in SUBSET Hidden :
         work = [tree |-> [p \in Paths |-> IF p \in given \cup Mounts THEN <<1>> ELSE <<>>],
                 cache |-> 0, rec |-> IF mode.narrow THEN Seen ELSE Whole]
  BY DEF Init
<1>2. work \in States
  <2>1. [p \in Paths |-> IF p \in given \cup Mounts THEN <<1>> ELSE <<>>] \in Trees
    BY Bounds DEF Trees
  <2>2. (IF mode.narrow THEN Seen ELSE Whole) \in SUBSET Paths /\ 0 \in 0..MaxIds
    BY Bounds DEF Seen, Whole
  <2> QED BY <1>1, <2>1, <2>2 DEF States
<1>3. commits = <<work>>
  BY DEF Init
<1>4. commits \in Seq(States) /\ Len(commits) \in 1..MaxCommits
  BY <1>2, <1>3, Bounds
<1>5. view \in SUBSET Paths
  BY <1>2 DEF Init, States
<1>6. Typed
  <2>1. /\ mode \in OpenedAs /\ attached = FALSE /\ open = TRUE /\ stale = FALSE
        /\ pending = FALSE /\ guest = NoMachine /\ unsure = FALSE /\ parked = NoMachine
        /\ call = Idle /\ ids = 1 /\ faults = 0
    BY DEF Init
  <2>2. ids \in 1..MaxIds /\ faults \in 0..MaxFaults
    BY <2>1, Bounds
  <2> QED BY <1>2, <1>4, <1>5, <2>1, <2>2 DEF Typed
<1>7. Calling /\ Copied /\ Parking
  BY DEF Init, Calling, Copied, Parking, InGuest, Idle
<1> QED BY <1>6, <1>7 DEF WorkInv

LEMMA NextWorkInv ==
    ASSUME WorkInv, [TidyNext]_vars
    PROVE  WorkInv'
<1>1. CASE CallStep
  <2>1. ASSUME NEW s \in Scripts, CallTool(s) PROVE WorkInv'
    BY <2>1, CallToolKeeps
  <2> QED BY <1>1, <2>1, SyncKeeps, GuestWritesKeeps, VerbKeeps, VerbRefusedKeeps,
             VerbSyncFailsKeeps, RunLostKeeps, RunEndsKeeps, WriteBackRefusedKeeps,
             HarvestKeeps, HarvestLostKeeps, SettleTornKeeps, SettleKeeps DEF CallStep
<1>2. CASE HostStep
  <2>1. ASSUME NEW p \in Paths, FilesWrite(p) \/ FilesRemove(p) \/ RawWrite(p) PROVE WorkInv'
    BY <2>1, FilesWriteKeeps, FilesRemoveKeeps
  <2>2. ASSUME NEW c \in 1..Len(commits), Checkout(c) PROVE WorkInv'
    BY <2>2, CheckoutKeeps
  <2>3. ASSUME NEW c \in 1..Len(commits), NEW p \in Paths, Take(c, p) PROVE WorkInv'
    BY <2>3, TakeKeeps
  <2>4. ASSUME NEW p \in Paths, NEW conflicted \in BOOLEAN, Merge(p, conflicted) PROVE WorkInv'
    BY <2>4, MergeKeeps
  <2> QED BY <1>2, <2>1, <2>2, <2>3, <2>4, CacheWriteKeeps, CommitKeeps, DiscardKeeps,
             AttachingKeeps, WarmKeeps, CrashKeeps, OpenKeeps DEF HostStep
<1>3. CASE Dies /\ ~call.mid /\ ~pending
  BY <1>3, DiesKeeps
<1>4. CASE Attach /\ ~mode.pooled
  BY <1>4, AttachingKeeps
<1>5. CASE Close /\ (mode.pooled => view = work.rec)
  BY <1>5, CloseKeeps
<1>6. CASE UNCHANGED vars
  BY <1>6 DEF vars, WorkInv, Typed, Calling, Copied, Parking, Grown, ParkedIsItsCommit, ShownOf,
              Shown, Tip
<1> QED BY <1>1, <1>2, <1>3, <1>4, <1>5, <1>6 DEF TidyNext

\* Along the turns TidyNext admits, the invariant is inductive: a staged write
\* shows a path only where the session kept no file, so nothing comes to be shown
\* that a parked machine lacks, and what a script wrote is shown once it lands.
THEOREM WorkInvHolds == TidySpec => []WorkInv
<1>1. Init => WorkInv
  BY InitWorkInv
<1>2. WorkInv /\ [TidyNext]_vars => WorkInv'
  BY NextWorkInv
<1> QED BY <1>1, <1>2, PTL DEF TidySpec

LEMMA WorkInvIsTyped == WorkInv => TypeOK
<1> SUFFICES ASSUME WorkInv PROVE TypeOK
  OBVIOUS
<1>1. Typed
  BY DEF WorkInv
<1>2. Len(commits) \in 1..(MaxCommits + 1)
  BY <1>1, Bounds DEF Typed
<1>3. /\ call.pc \in {"idle", "sync", "run", "harvest", "settle"}
      /\ call.script \in Scripts \cup {NoScript} /\ call.id \in 0..MaxIds
  <2>1. CASE call = Idle
    BY <2>1, Bounds DEF Idle
  <2>2. CASE call \in Calls
    BY <2>2, Bounds DEF Calls
  <2> QED BY <1>1, <2>1, <2>2 DEF Typed
<1> QED BY <1>1, <1>2, <1>3 DEF Typed, TypeOK

\* Between calls an unflagged machine holds exactly the files the session is
\* shown, for any scripts: nothing an undone call wrote stays in the guest, and
\* nothing the host wrote since is missing from it.
THEOREM GuestIsTheWorkspaceHolds == TidySpec => []GuestIsTheWorkspace
<1>1. WorkInv => GuestIsTheWorkspace
  BY WorkInvIsTyped DEF WorkInv, Copied, InGuest, GuestIsTheWorkspace
<1> QED BY <1>1, WorkInvHolds, PTL

\* A machine parked under a commit holds what a session opened at it is shown.
THEOREM ParkedIsItsCommitHolds == TidySpec => []ParkedIsItsCommit
<1>1. WorkInv => ParkedIsItsCommit
  BY DEF WorkInv, Parking, ParkedIsItsCommit
<1> QED BY <1>1, WorkInvHolds, PTL

-----------------------------------------------------------------------------
(* What a script wrote *)

\* A file the guest has changed has a write of the call in it, or is gone.
Scripted ==
    call.pc \in InGuest /\ guest.alive
        => \A p \in Changed : guest.tree[p] = <<>> \/ Wrote(call.id, guest.tree[p])

\* A machine that has nothing to harvest.
LEMMA NothingChanged ==
    ASSUME call'.pc \in InGuest /\ guest'.alive => guest'.tree = guest'.base
    PROVE  Scripted'
BY DEF Scripted, Changed

LEMMA GuestWritesScripted ==
    ASSUME WorkInv, Scripted, GuestWrites
    PROVE  Scripted'
<1>1. /\ Typed /\ Running /\ Step \in StepType /\ call' = Advance
      /\ call.at <= Len(call.script.steps) /\ Step.do \in {"append", "remove", "cache"}
  BY StepFacts DEF GuestWrites, Running, WorkInv
<1>2. PICK k \in Calls : k = call
  BY <1>1, CallFacts DEF Running
<1>3. PICK g \in Machines : g = guest
  BY <1>1, RunningFacts DEF Running, InGuest
<1>4. /\ k.at \in Nat \ {0} /\ k.id \in 1..MaxIds /\ k.script.steps \in Seq(StepType)
      /\ k.at \in DOMAIN k.script.steps
  BY <1>1, <1>2, ScriptsAssumption DEF ScriptsAssumption, Calls
<1>5. call'.id = k.id /\ call'.pc = "run"
  BY <1>1, <1>2 DEF Advance, Calls, Running
<1>6. PICK s \in StepType : s = k.script.steps[k.at] /\ s = Step
  BY <1>1, <1>2, <1>4 DEF Step
<1>8. ASSUME NEW p \in Paths, p # s.path \/ s.do = "cache" PROVE guest'.tree[p] = g.tree[p]
  <2>1. g.tree \in Trees
    BY DEF Machines
  <2>2. CASE s.do = "append"
    BY <1>3, <1>6, <1>8, <2>1, <2>2 DEF GuestWrites, Machines, Trees
  <2>3. CASE s.do = "remove"
    BY <1>3, <1>6, <1>8, <2>1, <2>3 DEF GuestWrites, Machines, Trees
  <2>4. CASE s.do = "cache"
    BY <1>3, <1>6, <2>4 DEF GuestWrites
  <2> QED BY <1>1, <1>6, <2>2, <2>3, <2>4
<1>9. guest'.base = g.base
  <2>1. CASE s.do = "append"
    BY <1>3, <1>6, <2>1 DEF GuestWrites, Machines
  <2>2. CASE s.do = "remove"
    BY <1>3, <1>6, <2>2 DEF GuestWrites, Machines
  <2>3. CASE s.do = "cache"
    BY <1>3, <1>6, <2>3 DEF GuestWrites
  <2> QED BY <1>1, <1>6, <2>1, <2>2, <2>3
<1>10. ASSUME NEW p \in Changed'
       PROVE  guest'.tree[p] = <<>> \/ Wrote(k.id, guest'.tree[p])
  <2>1. CASE p = s.path /\ s.do # "cache"
    <3>1. g.tree \in Trees /\ g.tree[p] \in Seq(1..MaxIds) /\ p \in Paths
      BY <2>1 DEF Machines, Trees, Contents, StepType
    <3>2. guest'.tree[p] = <<>> \/ guest'.tree[p] = Append(g.tree[p], k.id)
      <4>1. CASE s.do = "append"
        BY <1>2, <1>3, <1>6, <2>1, <3>1, <4>1 DEF GuestWrites, Machines, Trees
      <4>2. CASE s.do = "remove"
        BY <1>3, <1>6, <2>1, <3>1, <4>2 DEF GuestWrites, Machines, Trees
      <4> QED BY <1>1, <1>6, <2>1, <4>1, <4>2
    <3>3. PICK c \in Seq(1..MaxIds) : c = g.tree[p]
      BY <3>1
    <3>4. Append(c, k.id)[Len(c) + 1] = k.id /\ Len(c) + 1 \in DOMAIN Append(c, k.id)
      BY <1>4
    <3> QED BY <3>2, <3>3, <3>4 DEF Wrote
  <2>2. CASE p # s.path \/ s.do = "cache"
    <3>1. guest'.tree[p] = guest.tree[p] /\ p \in Changed
      BY <1>3, <1>8, <1>9, <2>2 DEF Changed
    <3> QED BY <1>1, <1>2, <3>1 DEF Scripted, Running, InGuest
  <2> QED BY <2>1, <2>2
<1> QED BY <1>5, <1>10 DEF Scripted

\* A verb harvests first, whatever becomes of it.
LEMMA VerbScripted ==
    ASSUME WorkInv, Scripted, Verb \/ VerbRefused \/ VerbSyncFails
    PROVE  Scripted'
<1>1. Running /\ Rebase
  BY DEF Verb, VerbRefused, VerbSyncFails, Absorb
<1>2. guest'.tree = guest'.base
  BY <1>1, RunningFacts, RebaseFacts DEF Running, InGuest
<1> QED BY <1>2, NothingChanged

\* A step that leaves the call's progress as it is and brings no change into the
\* guest.
LEMMA SameProgress ==
    ASSUME Scripted, call'.id = call.id,
           \/ guest' = guest /\ (call'.pc \in InGuest => call.pc \in InGuest)
           \/ guest'.tree = guest'.base
           \/ call'.pc \notin InGuest
    PROVE  Scripted'
BY DEF Scripted, Changed

LEMMA NoProgress ==
    ASSUME call' = Idle
    PROVE  Scripted'
BY DEF Scripted, Idle, InGuest

LEMMA SyncScripted ==
    ASSUME WorkInv, Scripted, Sync
    PROVE  Scripted'
<1>1. Typed /\ Copied /\ Parking /\ call.pc = "sync" /\ open
  BY DEF Sync, WorkInv, Calling, Idle
<1>2. CASE call' = Idle
  BY <1>2, NoProgress
<1>3. CASE call' = [call EXCEPT !.pc = "run"]
  <2>1. PICK k \in Calls : k = call
    BY <1>1, CallFacts
  <2>2. call'.id = call.id
    BY <1>3, <2>1 DEF Calls
  <2>3. guest'.tree = guest'.base
    <3>1. call' # Idle
      BY <1>3, <2>1 DEF Idle, Calls
    <3>2. CASE BootOk
      BY <1>1, <3>2, BootShows, HoldingIsAMachine
    <3>3. CASE guest' = Holding(Shown)
      BY <3>3 DEF Holding
    <3>4. CASE ~NeedsBoot /\ ~NeedsPush /\ guest' = guest
      BY <1>1, <3>4 DEF NeedsBoot, NeedsPush, Copied, InGuest
    <3> QED BY <3>1, <3>2, <3>3, <3>4 DEF Sync, Raise
  <2> QED BY <2>2, <2>3, SameProgress
<1> QED BY <1>2, <1>3 DEF Sync, Raise

LEMMA RunLostScripted ==
    ASSUME WorkInv, Scripted, RunLost
    PROVE  Scripted'
<1>1. Typed /\ Parking /\ open
  BY RunningFacts DEF RunLost, WorkInv, InGuest
<1>2. CASE call' = Idle
  BY <1>2, NoProgress
<1>3. CASE BootOk /\ call' = [call EXCEPT !.at = 1, !.retried = TRUE]
  <2>1. guest'.tree = guest'.base
    BY <1>1, <1>3, BootShows, HoldingIsAMachine
  <2> QED BY <2>1, NothingChanged
<1> QED BY <1>2, <1>3 DEF RunLost, Raise

LEMMA EndScripted ==
    ASSUME WorkInv, Scripted,
           RunEnds \/ WriteBackRefused \/ Harvest \/ HarvestLost \/ SettleTorn \/ Settle
    PROVE  Scripted'
<1>1. Typed /\ call.pc # "idle"
  BY DEF RunEnds, WriteBackRefused, Harvest, HarvestLost, SettleTorn, Settle, Running, WorkInv
<1>2. PICK k \in Calls : k = call
  BY <1>1, CallFacts
<1>3. CASE RunEnds
  <2>1. call'.id = call.id
    BY <1>2, <1>3 DEF RunEnds, Calls
  <2> QED BY <1>3, <2>1, SameProgress DEF RunEnds, Running, InGuest
<1>4. CASE Harvest
  <2>1. call'.id = call.id /\ call'.pc = "settle"
    BY <1>2, <1>4 DEF Harvest, Calls
  <2> QED BY <2>1, SameProgress DEF InGuest
<1>5. CASE HarvestLost /\ call' # Idle
  <2>1. call'.id = call.id /\ call'.pc = "settle"
    BY <1>2, <1>5 DEF HarvestLost, Calls, Raise
  <2> QED BY <2>1, SameProgress DEF InGuest
<1>6. CASE call' = Idle
  BY <1>6, NoProgress
<1> QED BY <1>3, <1>4, <1>5, <1>6 DEF WriteBackRefused, SettleTorn, Settle

LEMMA NextScripted ==
    ASSUME WorkInv, Scripted, [TidyNext]_vars
    PROVE  Scripted'
<1>1. ASSUME call' = call, call.pc = "idle" PROVE Scripted'
  <2>1. call = Idle
    BY <1>1 DEF WorkInv, Typed, Calls
  <2> QED BY <1>1, <2>1, NoProgress
<1>2. CASE CallStep
  <2>1. ASSUME NEW s \in Scripts, CallTool(s) PROVE Scripted'
    <3>1. call'.pc = "sync"
      BY <2>1 DEF CallTool, Idle
    <3> QED BY <3>1, NothingChanged DEF InGuest
  <2> QED BY <1>2, <2>1, SyncScripted, GuestWritesScripted, VerbScripted, RunLostScripted,
             EndScripted DEF CallStep
<1>3. CASE HostStep
  <2>1. ASSUME ~Crash, ~Open PROVE call' = call /\ call.pc = "idle"
    BY <1>3, <2>1 DEF HostStep, FilesWrite, FilesRemove, RawWrite, Checkout, Take, Merge,
       CacheWrite, Commit, Discard, Detach, Warm, HostTurn, Untouched
  <2>2. CASE Crash
    BY <2>2, NoProgress DEF Crash
  <2>3. CASE Open
    BY <2>3, <1>1 DEF Open, WorkInv, Calling, Idle
  <2> QED BY <1>1, <2>1, <2>2, <2>3
<1>4. CASE Dies
  BY <1>4, SameProgress DEF Dies, Dead
<1>5. CASE Attach
  BY <1>1, <1>5 DEF Attach, HostTurn, Untouched
<1>6. CASE Close
  BY <1>1, <1>6 DEF Close, HostTurn, Gone
<1>7. CASE UNCHANGED vars
  BY <1>7 DEF vars, Scripted, Changed
<1> QED BY <1>2, <1>3, <1>4, <1>5, <1>6, <1>7 DEF TidyNext

LEMMA StagedAt ==
    ASSUME NEW w \in States, NEW paths, NEW c, NEW p \in Paths
    PROVE  Staged(w, paths, c).tree[p] = IF p \in paths THEN c[p] ELSE w.tree[p]
BY DEF Staged, States

\* What a call lands on a file is a write of its own or the file's removal, so
\* whatever the script does, a file that earlier work had staged does not come to
\* be what was committed before.
THEOREM EarlierWorkIsKeptHolds == TidySpec => EarlierWorkIsKept
<1> DEFINE Kind(p) == work.tree[p] # Tip.tree[p] /\ Tip.tree[p] # <<>>
                         /\ ~Wrote(call.id, Tip.tree[p]) => work'.tree[p] # Tip.tree[p]
           Keeping == (call.pc # "idle" /\ open' /\ call.dirty /\ commits' = commits) =>
                         \A p \in Paths : Kind(p)
<1>1. ASSUME WorkInv, Scripted, [TidyNext]_vars PROVE Keeping
  <2> SUFFICES ASSUME WorkInv, Scripted, [TidyNext]_vars, call.pc # "idle", open', call.dirty,
                      commits' = commits, NEW p \in Paths, work.tree[p] # Tip.tree[p],
                      Tip.tree[p] # <<>>, ~Wrote(call.id, Tip.tree[p])
               PROVE  work'.tree[p] # Tip.tree[p]
    BY <1>1
  <2>1. Typed /\ work \in States /\ call \in Calls
    BY CallFacts DEF WorkInv, Typed
  <2>2. ASSUME NEW paths \in SUBSET Lands, Absorb(paths), call.pc \in InGuest, guest.alive
        PROVE  work'.tree[p] # Tip.tree[p]
    <3>1. /\ guest \in Machines
          /\ work'.tree[p] = IF p \in paths THEN guest.tree[p] ELSE work.tree[p]
      <4>1. guest \in Machines
        BY <2>2, RunningFacts
      <4>2. work'.tree = [q \in Paths |-> IF q \in paths THEN guest.tree[q] ELSE work.tree[q]]
        BY <2>1, <2>2, <4>1, AbsorbFacts
      <4> QED BY <4>1, <4>2
    <3>2. p \in paths => guest.tree[p] = <<>> \/ Wrote(call.id, guest.tree[p])
      BY <2>2 DEF Lands, Scripted
    <3> QED BY <3>1, <3>2
  <2>3. ASSUME Verb PROVE work'.tree[p] # Tip.tree[p]
    <3>1. /\ guest \in Machines /\ guest.alive /\ call.pc = "run" /\ Lands \subseteq Paths
          /\ Step \in StepType /\ guest.tree \in Trees
      BY <2>1, <2>3, RunningFacts, LandsFacts, StepFacts DEF Verb, Running, InGuest
    <3>2. p \in Lands => guest.tree[p] = <<>> \/ Wrote(call.id, guest.tree[p])
      BY <3>1 DEF Lands, Scripted, InGuest
    <3>3. CASE ~Rewrites
      <4>1. work' = Staged(work, Lands, guest.tree)
        BY <2>3, <3>3 DEF Verb, VerbRuns
      <4>2. work'.tree[p] = IF p \in Lands THEN guest.tree[p] ELSE work.tree[p]
        BY <2>1, <4>1, StagedAt
      <4> QED BY <3>2, <4>2
    <3>4. CASE Rewrites
      <4>1. PICK i \in 1..MaxIds, q \in Paths : i = call.id /\ q = Step.path
        BY <2>1, <3>1 DEF Calls, StepType
      <4>2. PICK t \in Trees : t = [guest.tree EXCEPT ![q] = <<i>>]
        BY <3>1, TreeFacts, Bounds
      <4>3. work' = Staged(work, Lands \cup {q}, t)
        BY <2>3, <3>4, <4>1, <4>2 DEF Verb, VerbRuns, Rewrites
      <4>4. work'.tree[p] = IF p \in Lands \cup {q} THEN t[p] ELSE work.tree[p]
        BY <2>1, <4>3, StagedAt
      <4>5. t[p] = IF p = q THEN <<i>> ELSE guest.tree[p]
        BY <3>1, <4>2 DEF Trees
      <4>6. Wrote(i, <<i>>)
        BY DEF Wrote
      <4> QED BY <3>2, <4>1, <4>4, <4>5, <4>6
    <3> QED BY <3>3, <3>4
  <2>4. ASSUME Settle PROVE work'.tree[p] # Tip.tree[p]
    <3>1. CASE Materializes
      <4>1. PICK i \in 1..MaxIds : i = call.id
        BY <2>1 DEF Calls
      <4>2. work.tree \in Trees /\ Artifact \in Paths
        BY <2>1, WorkspaceAssumption DEF States, WorkspaceAssumption
      <4>3. PICK t \in Trees : t = [work.tree EXCEPT ![Artifact] = <<i>>]
        BY <4>2, TreeFacts, Bounds
      <4>4. work' = Staged(work, {Artifact}, t)
        BY <2>4, <3>1, <4>1, <4>3 DEF Settle, WithArtifact
      <4>5. work'.tree[p] = IF p = Artifact THEN t[p] ELSE work.tree[p]
        BY <2>1, <4>4, StagedAt
      <4>6. p = Artifact => t[p] = <<i>>
        BY <4>2, <4>3 DEF Trees
      <4>7. Wrote(i, <<i>>)
        BY DEF Wrote
      <4> QED BY <4>1, <4>5, <4>6, <4>7
    <3> QED BY <2>4, <3>1 DEF Settle
  <2>5. ASSUME RunEnds PROVE work'.tree = work.tree
    BY <2>1, <2>5 DEF RunEnds, States
  <2>6. CASE CallStep
    <3>1. CASE Harvest \/ VerbRefused
      BY <2>2, <3>1 DEF Harvest, VerbRefused, Running, InGuest
    <3>2. CASE VerbSyncFails
      BY <2>2, <3>2 DEF VerbSyncFails, Running, InGuest
    <3>3. CASE HarvestLost \/ SettleTorn
      BY <3>3 DEF HarvestLost, SettleTorn, Unwound
    <3>4. ASSUME ~Harvest, ~VerbRefused, ~VerbSyncFails, ~HarvestLost, ~SettleTorn, ~Verb,
                 ~Settle, ~RunEnds
          PROVE  work' = work
      BY <2>6, <3>4 DEF CallStep, CallTool, Sync, GuestWrites, RunLost, WriteBackRefused
    <3> QED BY <2>3, <2>4, <2>5, <3>1, <3>2, <3>3, <3>4
  <2>7. CASE HostStep
    BY <2>7 DEF HostStep, FilesWrite, FilesRemove, RawWrite, Checkout, Take, Merge, CacheWrite,
       Commit, Discard, Detach, Warm, Crash, Open, HostTurn, WorkInv, Calling, Idle
  <2>8. CASE Dies \/ UNCHANGED vars
    BY <2>8 DEF Dies, vars
  <2>9. CASE Attach \/ Close
    BY <2>9 DEF Attach, Close, HostTurn
  <2> QED BY <2>6, <2>7, <2>8, <2>9 DEF TidyNext
<1>2. Init => Scripted
  <2>1. Init => call.pc = "idle"
    BY DEF Init, Idle
  <2> QED BY <2>1 DEF Scripted, InGuest
<1>3. WorkInv /\ Scripted /\ [TidyNext]_vars => Scripted'
  BY NextScripted
<1>4. WorkInv /\ Scripted /\ [TidyNext]_vars => [Keeping]_vars
  BY <1>1
<1>5. TidySpec => [](WorkInv /\ Scripted)
  BY <1>2, <1>3, WorkInvHolds, PTL DEF TidySpec
<1> QED BY <1>4, <1>5, PTL DEF TidySpec, EarlierWorkIsKept

-----------------------------------------------------------------------------
(* How a call settles, along every turn of events *)

Snapshot(w) ==
    /\ w = [tree |-> w.tree, cache |-> w.cache, rec |-> w.rec]
    /\ w.tree = [p \in Paths |-> w.tree[p]]

IsLog(log) == \E S : log \in Seq(S) /\ Len(log) > 0 /\ \A w \in S : Snapshot(w)

Fields == {"pc", "script", "at", "id", "dirty", "retried", "mid", "landed", "torn", "lost"}

\* What is committed, what is staged and the call have their shapes.
Shaped ==
    /\ IsLog(commits) /\ Snapshot(work) /\ DOMAIN call = Fields
    /\ ~open => call.pc = "idle"

\* Of a call that found nothing staged: until it stages something nothing is
\* staged, and a lost harvest is unwound.
Clean ==
    ~call.dirty =>
        /\ call.pc = "sync" => ~call.mid /\ work = Tip
        /\ call.pc \in {"sync"} \cup InGuest => ~call.lost
        /\ call.pc \in InGuest /\ ~StagedEarly => work = Tip
        /\ call.pc = "settle" /\ call.torn /\ ~call.landed /\ (call.lost \/ ~StagedEarly)
              => work = Tip

LEMMA LogFacts ==
    ASSUME NEW log, IsLog(log), NEW w, Snapshot(w)
    PROVE  /\ \A i \in 1..Len(log) : Snapshot(log[i])
           /\ Len(log) \in 1..Len(log)
           /\ IsLog(Append(log, w))
           /\ Append(log, w)[Len(Append(log, w))] = w
<1>1. PICK S : log \in Seq(S) /\ Len(log) > 0 /\ \A v \in S : Snapshot(v)
  BY DEF IsLog
<1>2. \A i \in 1..Len(log) : log[i] \in S
  BY <1>1
<1>3. \E T : T = S \cup {w}
  OBVIOUS
<1>4. PICK T : T = S \cup {w}
  BY <1>3
<1>5. log \in Seq(T) /\ w \in T /\ \A v \in T : Snapshot(v)
  <2>1. S \subseteq T
    BY <1>4
  <2>2. log \in Seq(T)
    BY <1>1, <2>1
  <2> QED BY <1>1, <1>4, <2>2
<1>6. /\ Append(log, w) \in Seq(T) /\ Len(Append(log, w)) = Len(log) + 1
      /\ Append(log, w)[Len(log) + 1] = w /\ Len(log) \in Nat
  BY <1>5
<1> QED BY <1>1, <1>2, <1>5, <1>6 DEF IsLog

LEMMA CommitShaped ==
    ASSUME IsLog(commits), NEW w, Snapshot(w)
    PROVE  IsLog(CommitOf(w)) /\ CommitOf(w)[Len(CommitOf(w))] = w
BY LogFacts DEF CommitOf, Tip

LEMMA TipShaped == Shaped => Snapshot(Tip)
BY LogFacts DEF Shaped, Tip

LEMMA TwoFields ==
    ASSUME NEW t, NEW n, NEW r, NEW u, NEW q, NEW w, w = [tree |-> t, cache |-> n, rec |-> r]
    PROVE  [w EXCEPT !.tree = u, !.rec = q] = [tree |-> u, cache |-> n, rec |-> q]
<1>1. PICK v : v = [w EXCEPT !.tree = u]
  OBVIOUS
<1>2. v = [tree |-> u, cache |-> n, rec |-> r]
  BY <1>1
<1>3. [v EXCEPT !.rec = q] = [tree |-> u, cache |-> n, rec |-> q]
  BY <1>2
<1> QED BY <1>1, <1>3, Zenon

LEMMA StagedShaped ==
    ASSUME NEW w, Snapshot(w), NEW paths, NEW c
    PROVE  /\ Snapshot(Staged(w, paths, c))
           /\ Staged(w, {}, c) = w
<1>0. PICK t, n, r : w = [tree |-> t, cache |-> n, rec |-> r] /\ t = [p \in Paths |-> t[p]]
  BY DEF Snapshot
<1>1. w = [tree |-> t, cache |-> n, rec |-> r] /\ w.tree = t /\ w.rec = r
  BY <1>0
<1>2. PICK u, q : /\ u = [p \in Paths |-> IF p \in paths THEN c[p] ELSE t[p]]
                  /\ q = IF paths \subseteq view THEN r ELSE view \cup paths
  OBVIOUS
<1>3. u = [p \in Paths |-> u[p]]
  BY <1>2
<1>4. Staged(w, paths, c) = [w EXCEPT !.tree = u, !.rec = q]
  BY <1>1, <1>2 DEF Staged
<1>5. [w EXCEPT !.tree = u, !.rec = q] = [tree |-> u, cache |-> n, rec |-> q]
  <2>1. PICK v : v = [w EXCEPT !.tree = u]
    OBVIOUS
  <2>2. v = [tree |-> u, cache |-> n, rec |-> r]
    BY <1>1, <2>1
  <2>3. [v EXCEPT !.rec = q] = [tree |-> u, cache |-> n, rec |-> q]
    BY <2>2
  <2> QED BY <2>1, <2>3, Zenon
<1>6. Snapshot([tree |-> u, cache |-> n, rec |-> q])
  BY <1>3 DEF Snapshot
<1>7. Staged(w, {}, c) = [w EXCEPT !.tree = t, !.rec = r]
  <2>1. [p \in Paths |-> IF p \in {} THEN c[p] ELSE w.tree[p]] = t
    BY <1>0, <1>1
  <2> QED BY <1>1, <2>1 DEF Staged
<1>8. [w EXCEPT !.tree = t, !.rec = r] = w
  BY <1>1, TwoFields, Zenon
<1> QED BY <1>4, <1>5, <1>6, <1>7, <1>8

LEMMA ExceptShaped ==
    ASSUME NEW w, Snapshot(w), NEW x, NEW p
    PROVE  /\ Snapshot([w EXCEPT !.cache = x])
           /\ Snapshot([w EXCEPT !.rec = x])
           /\ Snapshot([w EXCEPT !.tree[p] = x])
<1>1. PICK t, n, r : w = [tree |-> t, cache |-> n, rec |-> r] /\ t = [q \in Paths |-> t[q]]
  BY DEF Snapshot
<1>2. PICK u : u = [t EXCEPT ![p] = x]
  OBVIOUS
<1>3. u = [q \in Paths |-> u[q]]
  BY <1>1, <1>2
<1>4. /\ [w EXCEPT !.cache = x] = [tree |-> t, cache |-> x, rec |-> r]
      /\ [w EXCEPT !.rec = x] = [tree |-> t, cache |-> n, rec |-> x]
      /\ [w EXCEPT !.tree[p] = x] = [tree |-> u, cache |-> n, rec |-> r]
  BY <1>1, <1>2
<1> QED BY <1>1, <1>3, <1>4 DEF Snapshot

LEMMA InitShaped == Init => Shaped
<1> SUFFICES ASSUME Init PROVE Shaped
  OBVIOUS
<1>1. PICK given \in SUBSET Hidden :
         /\ work = [tree |-> [p \in Paths |-> IF p \in given \cup Mounts THEN <<1>> ELSE <<>>],
                    cache |-> 0, rec |-> IF mode.narrow THEN Seen ELSE Whole]
         /\ commits = <<work>>
  BY DEF Init
<1>2. PICK u, r : /\ u = [p \in Paths |-> IF p \in given \cup Mounts THEN <<1>> ELSE <<>>]
                  /\ work = [tree |-> u, cache |-> 0, rec |-> r]
  BY <1>1
<1>3. Snapshot(work)
  BY <1>2 DEF Snapshot
<1>4. commits \in Seq({work}) /\ Len(commits) = 1
  BY <1>1
<1>5. IsLog(commits)
  BY <1>3, <1>4 DEF IsLog
<1>6. DOMAIN call = Fields
  BY DEF Init, Idle, Fields
<1> QED BY <1>3, <1>5, <1>6 DEF Init, Shaped

\* A step of a call changes what is staged by staging or dropping, and commits no
\* more than that.
LEMMA CallShaped ==
    ASSUME Shaped, CallStep \/ HarvestFails
    PROVE  Shaped'
<1>1. DOMAIN call' = Fields
  <2>1. DOMAIN Idle = Fields
    BY DEF Idle, Fields
  <2>2. ASSUME NEW s \in Scripts, CallTool(s) PROVE DOMAIN call' = Fields
    BY <2>1, <2>2 DEF CallTool
  <2> QED BY <2>1, <2>2 DEF Shaped, CallStep, Sync, GuestWrites, Verb, VerbRefused, VerbSyncFails,
       RunLost, RunEnds, WriteBackRefused, Harvest, HarvestFails, HarvestLost, SettleTorn, Settle,
       Raise, Advance
<1>2. Snapshot(work')
  <2>1. CASE Verb \/ VerbRefused \/ VerbSyncFails \/ Harvest \/ HarvestFails
    BY <2>1, StagedShaped DEF Shaped, Verb, VerbRuns, VerbRefused, VerbSyncFails, Harvest,
       HarvestFails, Absorb
  <2>2. CASE RunEnds
    BY <2>2, ExceptShaped DEF Shaped, RunEnds
  <2>3. CASE HarvestLost \/ SettleTorn
    BY <2>3, TipShaped DEF Shaped, HarvestLost, SettleTorn, Unwound
  <2>4. CASE Settle
    BY <2>4, StagedShaped DEF Shaped, Settle, WithArtifact
  <2>5. ASSUME ~Verb, ~VerbRefused, ~VerbSyncFails, ~Harvest, ~HarvestFails, ~RunEnds,
               ~HarvestLost, ~SettleTorn, ~Settle
        PROVE  work' = work
    BY <2>5 DEF CallStep, CallTool, Sync, GuestWrites, RunLost, WriteBackRefused
  <2> QED BY <2>1, <2>2, <2>3, <2>4, <2>5 DEF Shaped
<1>3. commits' = commits \/ commits' = CommitOf(work')
  BY DEF CallStep, CallTool, Sync, GuestWrites, Verb, VerbRuns, VerbRefused, VerbSyncFails,
         RunLost, RunEnds, WriteBackRefused, Harvest, HarvestFails, HarvestLost, SettleTorn,
         Settle, MaybeCommit
<1>4. open' = open /\ open
  <2>1. open' = open
    BY DEF CallStep, CallTool, Sync, GuestWrites, Verb, VerbRefused, VerbSyncFails,
           RunLost, RunEnds, WriteBackRefused, Harvest, HarvestFails, HarvestLost, SettleTorn,
           Settle
  <2>2. open \/ call.pc # "idle"
    BY DEF CallStep, CallTool, Sync, GuestWrites, Verb, VerbRefused, VerbSyncFails,
           RunLost, RunEnds, WriteBackRefused, Harvest, HarvestFails, HarvestLost, SettleTorn,
           Settle, Running
  <2> QED BY <2>1, <2>2 DEF Shaped
<1> QED BY <1>1, <1>2, <1>3, <1>4, CommitShaped DEF Shaped

LEMMA MergeShaped ==
    ASSUME Shaped, NEW p \in Paths, NEW conflicted \in BOOLEAN, Merge(p, conflicted)
    PROVE  Snapshot(work') /\ IsLog(commits')
<1> DEFINE merged == [work EXCEPT !.tree[p] = <<ids'>>]
           shown == conflicted /\ p \notin view
<1>1. Snapshot(merged)
  BY ExceptShaped DEF Shaped
<1>2. /\ work' = IF shown THEN [merged EXCEPT !.rec = view \cup {p}] ELSE merged
      /\ commits' = IF shown THEN commits \o <<merged, work'>> ELSE Append(commits, merged)
  BY DEF Merge
<1> HIDE DEF merged, shown
<1>3. Snapshot(work')
  BY <1>1, <1>2, ExceptShaped
<1>4. IsLog(Append(commits, merged)) /\ IsLog(Append(Append(commits, merged), work'))
  BY <1>1, <1>3, LogFacts DEF Shaped
<1>5. commits \o <<merged, work'>> = Append(Append(commits, merged), work')
  <2>1. PICK S : commits \in Seq(S)
    BY DEF Shaped, IsLog
  <2>2. PICK T, v : T = S \cup {merged, v} /\ v = work'
    OBVIOUS
  <2>3. commits \in Seq(T) /\ merged \in T /\ v \in T
    BY <2>1, <2>2
  <2>4. commits \o <<merged, v>> = Append(Append(commits, merged), v)
    BY <2>3
  <2> QED BY <2>2, <2>4
<1> QED BY <1>2, <1>3, <1>4, <1>5

\* A call is not under way while the host takes its turns.
LEMMA HostBetweenCalls ==
    ASSUME HostStep \/ Attach \/ Close
    PROVE  \/ call'.pc = "idle" /\ ~open'
           \/ UNCHANGED call /\ (call.pc = "idle" \/ ~open)
<1>1. ASSUME NEW p \in Paths, FilesWrite(p) \/ FilesRemove(p) \/ RawWrite(p)
      PROVE  UNCHANGED call /\ call.pc = "idle"
  BY <1>1 DEF FilesWrite, FilesRemove, RawWrite, HostTurn, Untouched
<1>2. ASSUME NEW c \in 1..Len(commits), NEW p, Checkout(c) \/ Take(c, p)
      PROVE  UNCHANGED call /\ call.pc = "idle"
  BY <1>2 DEF Checkout, Take, HostTurn, Untouched
<1>3. ASSUME NEW p \in Paths, NEW conflicted \in BOOLEAN, Merge(p, conflicted)
      PROVE  UNCHANGED call /\ call.pc = "idle"
  BY <1>3 DEF Merge, HostTurn, Untouched
<1>4. CASE CacheWrite \/ Commit \/ Discard \/ Detach \/ Warm \/ Attach \/ Close
  BY <1>4 DEF CacheWrite, Commit, Discard, Detach, Warm, Attach, Close, Gone, HostTurn, Untouched
<1>5. CASE Crash \/ Open
  BY <1>5 DEF Crash, Open, Idle
<1> QED BY <1>1, <1>2, <1>3, <1>4, <1>5 DEF HostStep

LEMMA NextShaped ==
    ASSUME Shaped, [Next]_vars
    PROVE  Shaped'
<1>1. ASSUME Snapshot(work'), commits' = commits \/ commits' = CommitOf(work')
             \/ commits' = CommitOf(work),
             call' \in {call, Idle}, ~open' => call'.pc = "idle"
      PROVE  Shaped'
  <2>1. DOMAIN Idle = Fields
    BY DEF Idle, Fields
  <2> QED BY <1>1, <2>1, CommitShaped DEF Shaped
<1>2. CASE HostStep
  <2>7. ~open' => call'.pc = "idle"
    BY <1>2, HostBetweenCalls DEF Shaped
  <2>1. ASSUME NEW p \in Paths, FilesWrite(p) \/ FilesRemove(p) \/ RawWrite(p) PROVE Shaped'
    <3>1. Snapshot(work')
      <4>1. CASE FilesWrite(p) \/ RawWrite(p)
        <5>1. PICK c : work' = Staged(work, {p}, c)
          BY <4>1 DEF FilesWrite, RawWrite
        <5> QED BY <5>1, StagedShaped DEF Shaped
      <4>2. CASE FilesRemove(p)
        BY <4>2, ExceptShaped DEF Shaped, FilesRemove
      <4> QED BY <2>1, <4>1, <4>2
    <3> QED BY <1>1, <2>1, <2>7, <3>1 DEF FilesWrite, FilesRemove, RawWrite, Untouched, MaybeCommit
  <2>2. ASSUME NEW c \in 1..Len(commits), NEW p \in Paths, Checkout(c) \/ Take(c, p) PROVE Shaped'
    <3>1. Snapshot(commits[c])
      BY <2>2, LogFacts DEF Shaped
    <3>2. Snapshot(work')
      BY <2>2, <3>1, StagedShaped DEF Shaped, Checkout, Take
    <3> QED BY <1>1, <2>2, <2>7, <3>2 DEF Checkout, Take, Untouched, MaybeCommit
  <2>3. ASSUME NEW p \in Paths, NEW conflicted \in BOOLEAN, Merge(p, conflicted) PROVE Shaped'
    BY <2>3, <2>7, MergeShaped DEF Merge, Untouched, Shaped
  <2>4. CASE CacheWrite
    <3>1. Snapshot(work')
      BY <2>4, ExceptShaped DEF Shaped, CacheWrite
    <3> QED BY <1>1, <2>4, <2>7, <3>1 DEF CacheWrite, Untouched
  <2>5. CASE Commit \/ Discard \/ Detach \/ Warm \/ Crash \/ Open
    <3>1. /\ work' \in {work, Tip} /\ call' \in {call, Idle}
          /\ commits' \in {commits, CommitOf(work)}
      BY <2>5 DEF Commit, Discard, Detach, Warm, Crash, Open, Untouched
    <3> QED BY <1>1, <2>7, <3>1, TipShaped DEF Shaped
  <2>6. PICK p \in Paths : TRUE
    BY WorkspaceAssumption DEF WorkspaceAssumption
  <2> QED BY <1>2, <2>1, <2>2, <2>3, <2>4, <2>5, <2>6 DEF HostStep
<1>3. CASE Dies \/ Attach \/ Close \/ UNCHANGED vars
  <2>1. work' \in {work, Tip} /\ call' = call /\ commits' = commits
    BY <1>3 DEF Dies, Attach, Close, Gone, Untouched, vars
  <2>2. ~open' => call'.pc = "idle"
    BY <1>3, HostBetweenCalls DEF Shaped, Dies, vars
  <2> QED BY <1>1, <2>1, <2>2, TipShaped DEF Shaped
<1> QED BY <1>2, <1>3, CallShaped DEF Next

\* The clean parts of a step that leaves what is staged, and what the call did, as
\* they were.
LEMMA CleanStays ==
    ASSUME Clean, work' = work, commits' = commits,
           call'.pc = call.pc \/ (call.pc = "sync" /\ call'.pc = "run"),
           call'.mid = call.mid, call'.dirty = call.dirty, call'.script = call.script,
           call'.torn = call.torn, call'.landed = call.landed, call'.lost = call.lost
    PROVE  Clean'
BY DEF Clean, StagedEarly, Caching, InGuest, Tip

LEMMA SameCaching == call'.script = call.script => (Caching' <=> Caching)
BY DEF Caching

LEMMA CleanAfter ==
    ASSUME \/ call'.pc = "idle" \/ call'.dirty
           \/ call'.mid /\ call'.pc = "run" /\ ~call'.lost
    PROVE  Clean'
BY DEF Clean, StagedEarly, InGuest

\* The fields of the call a step of its script leaves.
LEMMA AdvanceFacts ==
    ASSUME Shaped, NEW m, NEW on, on = [Advance EXCEPT !.mid = m] \/ (on = Advance /\ m = call.mid)
    PROVE  /\ on.pc = call.pc /\ on.mid = m /\ on.dirty = call.dirty
           /\ on.script = call.script /\ on.torn = call.torn
           /\ on.landed = call.landed /\ on.lost = call.lost
<1>1. DOMAIN call = Fields
  BY DEF Shaped
<1>2. PICK a : a = call.at + 1
  OBVIOUS
<1>3. Advance = [call EXCEPT !.at = a]
  BY <1>2 DEF Advance
<1>4. PICK v : v = Advance
  OBVIOUS
<1>5. /\ DOMAIN v = Fields /\ v.pc = call.pc /\ v.mid = call.mid /\ v.dirty = call.dirty
      /\ v.script = call.script /\ v.torn = call.torn
      /\ v.landed = call.landed /\ v.lost = call.lost
  BY <1>1, <1>3, <1>4 DEF Fields
<1>6. on = [v EXCEPT !.mid = m] \/ (on = v /\ m = call.mid)
  BY <1>4, Zenon
<1> QED BY <1>5, <1>6 DEF Fields

LEMMA RunClean ==
    ASSUME Shaped, Clean, GuestWrites \/ Verb \/ VerbRefused \/ VerbSyncFails
    PROVE  Clean'
<1>1. Running /\ call.pc = "run" /\ Snapshot(work)
  BY DEF GuestWrites, Verb, VerbRefused, VerbSyncFails, Running, Shaped
<1>2. ASSUME NEW m, call' = [Advance EXCEPT !.mid = m] \/ (call' = Advance /\ m = call.mid)
      PROVE  /\ call'.pc = call.pc /\ call'.mid = m /\ call'.dirty = call.dirty
             /\ call'.script = call.script /\ call'.torn = call.torn
             /\ call'.landed = call.landed /\ call'.lost = call.lost
  BY <1>2, AdvanceFacts
<1>3. ASSUME NEW m, call' = [Advance EXCEPT !.mid = m], m = TRUE PROVE Clean'
  <2>1. ~call.dirty => ~call.lost
    BY <1>1 DEF Clean, InGuest
  <2> QED BY <1>1, <1>2, <1>3, <2>1, CleanAfter
<1>4. ASSUME NEW m, call' = [Advance EXCEPT !.mid = m] \/ (call' = Advance /\ m = call.mid),
             m = call.mid, work' = work, commits' = commits
      PROVE  Clean'
  BY <1>2, <1>4, CleanStays
<1>5. CASE GuestWrites
  BY <1>4, <1>5 DEF GuestWrites
<1>6. CASE Verb
  <2>1. PICK m : m = (Advance.mid \/ Lands # {} \/ Step.verb = "commit" \/ Rewrites)
    OBVIOUS
  <2>2. call' = [Advance EXCEPT !.mid = m] /\ Advance.mid = call.mid
    BY <1>6, <2>1, AdvanceFacts, Zenon DEF Verb
  <2>3. CASE Lands # {} \/ Step.verb = "commit" \/ Rewrites
    BY <1>3, <2>1, <2>2, <2>3
  <2>4. CASE ~(Lands # {} \/ Step.verb = "commit" \/ Rewrites)
    <3>1. work' = work /\ commits' = commits
      BY <1>1, <1>6, <2>4, StagedShaped DEF Verb, VerbRuns
    <3>2. CASE call.mid = TRUE
      BY <1>3, <2>1, <2>2, <3>2
    <3>3. CASE call.mid # TRUE
      <4>1. CASE call.mid
        <5>1. m = TRUE
          BY <2>1, <2>2, <4>1
        <5> QED BY <1>3, <2>2, <5>1
      <4>2. CASE ~call.mid /\ m = FALSE
        <5>1. /\ call'.pc = call.pc /\ ~call'.mid /\ call'.dirty = call.dirty
              /\ call'.script = call.script
          BY <1>2, <2>2, <4>2
        <5>2. call'.lost = call.lost
          BY <1>2, <2>2, <4>2
        <5> QED BY <1>1, <3>1, <4>2, <5>1, <5>2, SameCaching DEF Clean, StagedEarly, InGuest, Tip
      <4> QED BY <2>1, <2>2, <2>4, <4>1, <4>2
    <3> QED BY <3>2, <3>3
  <2> QED BY <2>3, <2>4
<1>7. CASE VerbRefused
  <2>1. PICK m : m = (Advance.mid \/ Lands # {})
    OBVIOUS
  <2>2. call' = [Advance EXCEPT !.mid = m] /\ Advance.mid = call.mid
    BY <1>7, <2>1, AdvanceFacts, Zenon DEF VerbRefused
  <2>3. CASE Lands # {} \/ call.mid
    BY <1>3, <2>1, <2>2, <2>3
  <2>4. CASE Lands = {} /\ ~call.mid
    <3>1. work' = work /\ commits' = commits
      BY <1>1, <1>7, <2>4, StagedShaped DEF VerbRefused, Absorb
    <3>2. m = FALSE
      BY <2>1, <2>2, <2>4
    <3>3. /\ call'.pc = call.pc /\ ~call'.mid /\ call'.dirty = call.dirty
          /\ call'.script = call.script /\ call'.lost = call.lost
      BY <1>2, <2>2, <3>2
    <3> QED BY <1>1, <2>4, <3>1, <3>3, SameCaching DEF Clean, StagedEarly, InGuest, Tip
  <2> QED BY <2>3, <2>4
<1>8. CASE VerbSyncFails
  BY <1>3, <1>8 DEF VerbSyncFails
<1> QED BY <1>5, <1>6, <1>7, <1>8

LEMMA EndClean ==
    ASSUME Shaped, Clean, RunEnds \/ Harvest \/ HarvestLost
    PROVE  Clean'
<1>1. DOMAIN call = Fields /\ Snapshot(work)
  BY DEF Shaped
<1>2. CASE RunEnds
  <2>1. /\ call'.pc = "harvest" /\ call'.mid = call.mid /\ call'.dirty = call.dirty
        /\ call'.script = call.script /\ call'.lost = call.lost /\ call.pc = "run"
    BY <1>1, <1>2 DEF RunEnds, Running, Fields
  <2>2. (~Caching => work' = work) /\ commits' = commits
    BY <1>2 DEF RunEnds
  <2> QED BY <2>1, <2>2, SameCaching DEF Clean, StagedEarly, InGuest, Tip
<1>3. CASE Harvest
  <2>1. /\ call'.pc = "settle" /\ call'.dirty = call.dirty /\ call'.mid = call.mid
        /\ call'.script = call.script /\ call'.landed = (Lands # {})
        /\ call'.lost = call.lost /\ call.pc = "harvest"
    BY <1>1, <1>3 DEF Harvest, Fields
  <2>2. commits' = commits /\ (Lands = {} => work' = work)
    BY <1>1, <1>3, StagedShaped DEF Harvest, Absorb
  <2> QED BY <2>1, <2>2, SameCaching DEF Clean, StagedEarly, InGuest, Tip
<1>4. CASE HarvestLost
  <2>1. CASE call' = Idle
    BY <2>1, CleanAfter DEF Idle
  <2>2. CASE work' = Unwound /\ call' = [call EXCEPT !.pc = "settle", !.torn = TRUE, !.lost = TRUE]
    <3>1. call'.pc = "settle" /\ call'.dirty = call.dirty /\ commits' = commits
      BY <1>1, <1>4, <2>2 DEF HarvestLost, Fields
    <3> QED BY <2>2, <3>1 DEF Clean, InGuest, Unwound, Tip
  <2> QED BY <1>4, <2>1, <2>2 DEF HarvestLost, Raise
<1> QED BY <1>2, <1>3, <1>4

LEMMA NextClean ==
    ASSUME Shaped, Clean, [Next]_vars
    PROVE  Clean'
<1>1. CASE CallStep
  <2>1. ASSUME NEW s \in Scripts, CallTool(s) PROVE Clean'
    <3>1. /\ call'.pc = "sync" /\ ~call'.mid /\ ~call'.lost /\ call'.dirty = Dirty
          /\ work' = work /\ commits' = commits
      BY <2>1 DEF CallTool, Idle
    <3> QED BY <3>1 DEF Clean, Dirty, InGuest, Tip
  <2>2. ASSUME call' = Idle PROVE Clean'
    BY <2>2, CleanAfter DEF Idle
  <2>3. CASE Sync /\ call' # Idle
    <3>1. /\ call' = [call EXCEPT !.pc = "run"] /\ call.pc = "sync" /\ DOMAIN call = Fields
          /\ work' = work /\ commits' = commits
      BY <2>3 DEF Sync, Raise, Shaped
    <3>2. /\ call'.pc = "run" /\ call'.mid = call.mid /\ call'.dirty = call.dirty
          /\ call'.script = call.script /\ call'.torn = call.torn
          /\ call'.landed = call.landed /\ call'.lost = call.lost
      BY <3>1 DEF Fields
    <3> QED BY <3>1, <3>2, CleanStays
  <2>4. CASE RunLost /\ call' # Idle
    <3>1. /\ call' = [call EXCEPT !.at = 1, !.retried = TRUE] /\ DOMAIN call = Fields
          /\ work' = work /\ commits' = commits
      BY <2>4 DEF RunLost, Raise, Shaped
    <3>2. /\ call'.pc = call.pc /\ call'.mid = call.mid /\ call'.dirty = call.dirty
          /\ call'.script = call.script /\ call'.torn = call.torn
          /\ call'.landed = call.landed /\ call'.lost = call.lost
      BY <3>1 DEF Fields
    <3> QED BY <3>1, <3>2, CleanStays
  <2> QED BY <1>1, <2>1, <2>2, <2>3, <2>4, RunClean, EndClean
             DEF CallStep, WriteBackRefused, SettleTorn, Settle
<1>2. CASE HarvestFails
  BY <1>2, CleanAfter DEF HarvestFails, Raise, Idle
<1>3. CASE HostStep \/ Attach \/ Close
  BY <1>3, HostBetweenCalls, CleanAfter DEF Shaped
<1>4. CASE Dies \/ UNCHANGED vars
  BY <1>4, CleanStays DEF Dies, vars
<1> QED BY <1>1, <1>2, <1>3, <1>4 DEF Next

\* A call on an autocommit workspace that found nothing staged leaves nothing
\* staged, but for what a call that raised, or was refused whole, had staged
\* before that, and for a harvest that failed as it was staged.
THEOREM EachCallSettlesHolds == Spec => EachCallSettles
<1> DEFINE Settling == (call.pc # "idle" /\ call'.pc = "idle" /\ open' /\ mode.auto /\ ~call.dirty)
                          => \/ work' = Tip'
                             \/ StagedEarly /\ LeavesEarly /\ work' = work
                             \/ HarvestRaises
<1>1. ASSUME Shaped, Clean, [Next]_vars PROVE Settling
  <2> SUFFICES ASSUME Shaped, Clean, [Next]_vars, call.pc # "idle", call'.pc = "idle", open',
                      mode.auto, ~call.dirty, ~(StagedEarly /\ LeavesEarly /\ work' = work),
                      ~HarvestRaises
               PROVE  work' = Tip'
    BY <1>1
  <2>1. DOMAIN call = Fields /\ Snapshot(work) /\ Snapshot(Tip) /\ IsLog(commits)
    BY TipShaped DEF Shaped
  <2>2. ASSUME Snapshot(work'), commits' = CommitOf(work') PROVE work' = Tip'
    BY <2>1, <2>2, CommitShaped DEF Tip
  <2>3. ASSUME work' = work, commits' = commits, work = Tip PROVE work' = Tip'
    BY <2>3 DEF Tip
  <2>4. CASE Sync \/ RunLost \/ WriteBackRefused
    <3>1. /\ work' = work /\ commits' = commits /\ call.pc \in {"sync", "run"}
      BY <2>4 DEF Sync, RunLost, WriteBackRefused, Running
    <3>2. work = Tip
      BY <3>1 DEF Clean, LeavesEarly, InGuest
    <3> QED BY <2>3, <3>1, <3>2
  <2>5. CASE HarvestLost
    <3>1. call' = Idle
      <4>1. ASSUME call' = [call EXCEPT !.pc = "settle", !.torn = TRUE, !.lost = TRUE]
            PROVE  call'.pc = "settle"
        BY <2>1, <4>1 DEF Fields
      <4> QED BY <2>5, <4>1, Zenon DEF HarvestLost, Raise
    <3>2. call.pc = "harvest" /\ commits' = commits /\ (work' = work \/ work' = Tip)
      BY <2>5 DEF HarvestLost, Unwound
    <3>3. CASE work' = work
      <4>1. work = Tip
        BY <3>2, <3>3 DEF Clean, LeavesEarly, InGuest
      <4> QED BY <2>3, <3>2, <3>3, <4>1
    <3> QED BY <3>2, <3>3 DEF Tip
  <2>6. CASE Settle
    <3>1. Snapshot(work') /\ commits' = CommitOf(work')
      BY <2>1, <2>6, StagedShaped DEF Settle, WithArtifact, MaybeCommit
    <3> QED BY <2>2, <3>1
  <2>7. CASE SettleTorn
    <3>1. CASE call.landed
      <4>1. Snapshot(work') /\ commits' = CommitOf(work')
        BY <2>1, <2>7, <3>1 DEF SettleTorn, Unwound, MaybeCommit
      <4> QED BY <2>2, <4>1
    <3>2. CASE ~call.landed /\ SyncFailed
      BY <2>7, <3>2 DEF SettleTorn, Unwound, Tip
    <3>3. CASE ~call.landed /\ ~SyncFailed
      <4>1. work' = work /\ commits' = commits /\ call.torn /\ call.pc = "settle"
        BY <2>7, <3>3 DEF SettleTorn
      <4>2. work = Tip
        BY <3>3, <4>1 DEF Clean, LeavesEarly
      <4> QED BY <2>3, <4>1, <4>2
    <3> QED BY <3>1, <3>2, <3>3
  <2>8. ASSUME GuestWrites \/ Verb \/ VerbRefused \/ VerbSyncFails PROVE FALSE
    <3>1. PICK m : call' = [Advance EXCEPT !.mid = m] \/ (call' = Advance /\ m = call.mid)
      BY <2>8, Zenon DEF GuestWrites, Verb, VerbRefused, VerbSyncFails
    <3>2. call'.pc = call.pc
      BY <3>1, AdvanceFacts
    <3> QED BY <3>2
  <2>9. ASSUME RunEnds \/ Harvest PROVE FALSE
    <3>1. CASE RunEnds
      <4>1. call'.pc = "harvest"
        BY <2>1, <3>1 DEF RunEnds, Fields
      <4> QED BY <4>1
    <3>2. CASE Harvest
      <4>1. call'.pc = "settle"
        BY <2>1, <3>2 DEF Harvest, Fields
      <4> QED BY <4>1
    <3> QED BY <2>9, <3>1, <3>2
  <2>10. ASSUME HarvestFails PROVE FALSE
    BY <2>10 DEF HarvestFails, HarvestRaises
  <2>11. ASSUME NEW s \in Scripts, CallTool(s) PROVE FALSE
    BY <2>11 DEF CallTool
  <2>12. ASSUME HostStep \/ Attach \/ Close \/ Dies \/ UNCHANGED vars PROVE FALSE
    BY <2>12, HostBetweenCalls DEF Shaped, Dies, vars
  <2> QED BY <2>4, <2>5, <2>6, <2>7, <2>8, <2>9, <2>10, <2>11, <2>12 DEF Next, CallStep
<1>2. Init => Shaped /\ Clean
  <2>1. Init => call.pc = "idle"
    BY DEF Init, Idle
  <2> QED BY <2>1, InitShaped DEF Clean, InGuest
<1>3. Shaped /\ Clean /\ [Next]_vars => Shaped' /\ Clean'
  BY NextShaped, NextClean
<1>4. Shaped /\ Clean /\ [Next]_vars => [Settling]_vars
  BY <1>1
<1>5. Spec => [](Shaped /\ Clean)
  BY <1>2, <1>3, PTL DEF Spec
<1> QED BY <1>4, <1>5, PTL DEF Spec, EachCallSettles
=============================================================================
