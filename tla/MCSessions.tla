----------------------------- MODULE MCSessions -----------------------------
(* Small instances of Sessions for TLC: each next-state relation below is a *)
(* part of Next, so every run stays small enough to be exhaustive.          *)
EXTENDS Sessions, TLC

Symmetry == Permutations(Names) \cup Permutations(Callers)

\* Everything but waiting: asks, cancels, reads, keeps, sweeps and the close.
RaceNext ==
    \/ \E c \in Callers :
        \/ CallStep(c) \/ Take(c)
        \/ \E n \in Names : \/ AskFork(c, n) \/ ResumeCheck(c, n) \/ CancelMark(c, n)
                            \/ Result(c, n) \/ Keep(c, n)
    \/ \E r \in Runs : RunStep(r)
    \/ \E n \in Names : Idle(n)
    \/ Sweep \/ SweepFails \/ CloseBegin \/ CloseEnd

RaceSpec == Init /\ [][RaceNext]_vars

\* What can end a wait, hold a branch or collect an answer: all but keeps
\* and sweeps.
EndNext ==
    \/ \E c \in Callers :
        \/ CallStep(c) \/ Wait(c) \/ Take(c)
        \/ \E n \in Names : \/ AskFork(c, n) \/ ResumeCheck(c, n)
                            \/ CancelMark(c, n) \/ Result(c, n)
    \/ \E r \in Runs : RunStep(r)
    \/ CloseBegin \/ CloseEnd

EndSpec == Init /\ [][EndNext]_vars /\ Fairness
=============================================================================
