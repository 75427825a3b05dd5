----------------------------- MODULE SessionLog -----------------------------
(***************************************************************************)
(* What a session promises its readers, with no branch, buffer, race or    *)
(* merge in sight: a session is a log of trees, newest last, that grows by *)
(* one tree per step and is otherwise only created, branched off another   *)
(* log, or deleted.  This is what history() shows and what makes an undo   *)
(* redo-able.                                                              *)
(***************************************************************************)
EXTENDS Sequences

CONSTANTS Sessions, Tree, Empty

VARIABLES log,    \* each session's trees, <<>> when there is no such session
          saved   \* every log some session has had, which a fork may name

vars == <<log, saved>>

Init == log = [s \in Sessions |-> <<>>] /\ saved = {<<Empty>>}

Create(s) ==
    /\ log[s] = <<>>
    /\ log' = [log EXCEPT ![s] = <<Empty>>]
    /\ UNCHANGED saved

\* What a log becomes when one tree is recorded on it.
Longer(l) == {Append(l, t) : t \in Tree}

Record(s) ==
    /\ log[s] # <<>>
    /\ log'[s] \in Longer(log[s])
    /\ log' = [log EXCEPT ![s] = log'[s]]
    /\ saved' = saved \cup {log'[s]}

Branch(n, l) ==
    /\ log[n] = <<>> /\ l \in saved
    /\ log' = [log EXCEPT ![n] = l]
    /\ UNCHANGED saved

\* A fork of a session with uncommitted work records it and branches there.
RecordAndBranch(s, n) ==
    /\ log[s] # <<>> /\ log[n] = <<>>
    /\ log'[s] \in Longer(log[s])
    /\ log' = [log EXCEPT ![s] = log'[s], ![n] = log'[s]]
    /\ saved' = saved \cup {log'[s]}

Delete(s) ==
    /\ log' = [log EXCEPT ![s] = <<>>]
    /\ UNCHANGED saved

\* Every step changes a log: saved only remembers.
Next ==
    /\ log' # log
    /\ \E s \in Sessions :
        \/ Create(s) \/ Delete(s) \/ Record(s)
        \/ \E l \in saved : Branch(s, l)
        \/ \E n \in Sessions : RecordAndBranch(s, n)

Spec == Init /\ [][Next]_vars
=============================================================================
