----------------------------- MODULE MCAgentGit -----------------------------
(* Small instances of AgentGit for TLC: one handle on which the agent works *)
(* and, on the other, a process of the framework's own that edits a file    *)
(* and commits it.                                                          *)
EXTENDS AgentGit, TLC

CONSTANTS mine, other, p, q, v1, v2, peer

\* A session that edited one file since it was forked from where this one began.
MCSourceBase(s) == [x \in Paths |-> IF x = p THEN v1 ELSE Absent]
MCSourceTree(s) == [x \in Paths |-> Absent]

\* Two sessions share the tree this one began with.
RaceInit == Init /\ commits[1].tree = MCSourceBase(peer)

\* The other handle edits the file both may change, and commits it before it
\* edits again.
OtherNext(h) ==
    \/ Autocommit(h)
    \/ Ready(h) /\ ~Dirty(work[h]) /\ \E v \in {v1, v2} : Edit(h, p, v)

\* The verbs whose record another handle's commit may refuse.
RecordedNext(h) ==
    \/ Commit(h) \/ Continue(h) \/ Stage(h, q) \/ Edit(h, p, v2) \/ Edit(h, q, v1)
    \/ \E c \in Ids : Checkout(h, c)

AgentNext(h) ==
    \/ RecordedNext(h) \/ Autocommit(h) \/ Discard(h) \/ AbortMerge(h) \/ Edit(h, p, v1)
    \/ Unstage(h, q)  \/ ResetIndex(h)
    \/ \E c \in Ids : Revert(h, c)
    \/ \E id \in StashIds : StashPush(h, id)
    \/ \E s \in stashes : StashPop(h, s) \/ StashDrop(h, s)
    \/ \E s \in Sources : MergeCall(h, s) \/ CherryPick(h, s)

\* A run with the other handle open from the start, and one without it.
Beside == op[other].pc # "closed"

RaceNext ==
    \/ Open(mine)
    \/ Tip = 1 /\ op[mine].pc = "closed" /\ Open(other)
    \/ /\ Beside
       /\ \/ OtherNext(other) \/ RecordedNext(mine)
          \/ Autocommit(mine) \/ MergeCall(mine, peer)
          \/ op[mine].pc \in {"record", "again"} /\ Crash(mine)
    \/ ~Beside /\ AgentNext(mine)

RaceSpec == RaceInit /\ [][RaceNext]_vars
=============================================================================
