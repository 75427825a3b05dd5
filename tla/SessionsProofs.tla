--------------------------- MODULE SessionsProofs ---------------------------
(***************************************************************************)
(* What Sessions guarantees for every number of children, callers, workers *)
(* and runs.  First that its tables keep their types: tokens stay within   *)
(* MaxRuns because every ask under way has one left for its run (Budget).  *)
(* Then, with runs on worker threads, the safety properties that the runs  *)
(* check on small instances.                                               *)
(***************************************************************************)
EXTENDS Sessions, TLAPS, FiniteSetTheorems

-----------------------------------------------------------------------------
(* The inductive strengthening of the types *)

\* An ask under way has a token left for its run.
Budget == token + Cardinality(AskingCallers) <= MaxRuns

-----------------------------------------------------------------------------
(* Types *)

LEMMA AskingIsFinite == IsFiniteSet(AskingCallers) /\ Cardinality(AskingCallers) \in Nat
<1>1. IsFiniteSet(AskingCallers)
  BY SessionsAssumption, FS_Subset, SMT DEF AskingCallers, SessionsAssumption
<1> QED BY <1>1, FS_CardinalityType

\* A step that begins no ask and gives out no token keeps the budget.
LEMMA BudgetKept ==
  ASSUME Budget, token' = token, \A c \in Callers : Asking(c)' <=> Asking(c)
  PROVE  Budget'
<1>1. AskingCallers' = AskingCallers
  BY DEF AskingCallers
<1> QED BY <1>1 DEF Budget

\* A caller that begins an ask takes one place.
LEMMA BudgetTaken ==
  ASSUME NEW c \in Callers, MayAsk, token \in Nat, token' = token, ~Asking(c),
         \A d \in Callers : Asking(d)' <=> Asking(d) \/ d = c
  PROVE  Budget'
<1>1. AskingCallers' = AskingCallers \cup {c}
  BY DEF AskingCallers
<1>2. Cardinality(AskingCallers \cup {c}) = Cardinality(AskingCallers) + 1
  BY AskingIsFinite, FS_AddElement, c \notin AskingCallers DEF AskingCallers
<1> QED BY <1>1, <1>2, AskingIsFinite, SessionsAssumption DEF Budget, MayAsk, SessionsAssumption

\* A caller whose ask ends gives its place back, and there was one.
LEMMA BudgetReturned ==
  ASSUME NEW c \in Callers, Budget, token \in Nat, token' \in {token, token + 1}, Asking(c),
         \A d \in Callers : Asking(d)' <=> Asking(d) /\ d # c
  PROVE  Budget' /\ token < MaxRuns
<1>0. c \in AskingCallers
  BY DEF AskingCallers
<1>1. AskingCallers' = AskingCallers \ {c}
  BY DEF AskingCallers
<1>2. Cardinality(AskingCallers \ {c}) = Cardinality(AskingCallers) - 1
  BY <1>0, AskingIsFinite, FS_RemoveElement
<1>3. Cardinality(AskingCallers \ {c}) \in Nat
  BY AskingIsFinite, FS_RemoveElement, FS_CardinalityType
<1> QED BY <1>1, <1>2, <1>3, AskingIsFinite, SessionsAssumption DEF Budget, SessionsAssumption

\* Every call and every run that names a child names one, and so do futures.
Named ==
    /\ \A c \in Callers :
        /\ caller[c].pc \notin {"idle", "waiting", "asleep"} => caller[c].name \in Names
        /\ caller[c].pc \in {"joining", "cancelling", "stopping", "bitten"} =>
            caller[c].run # 0
    /\ \A r \in Runs : run[r].pc # "none" => run[r].name \in Names /\ r <= token

TInv == TypeOK /\ Budget /\ Named

CallPoints == {"idle", "forked", "checked", "reopened", "joining", "cancelling", "stopping",
               "bitten", "waiting", "asleep"}

LEMMA AtFields ==
  ASSUME NEW pc, NEW n, NEW r
  PROVE  At(pc, n, r).pc = pc /\ At(pc, n, r).name = n /\ At(pc, n, r).run = r
BY DEF At

LEMMA AtIsCall ==
  ASSUME NEW pc \in CallPoints, NEW n \in Names \cup {NoName}, NEW last \in Nat,
         NEW r \in 0..last
  PROVE  At(pc, n, r) \in Calls(last)
BY DEF At, Calls, CallPoints

LEMMA RestIsCall ==
  ASSUME NEW last \in Nat
  PROVE  AtRest \in Calls(last)
BY AtIsCall DEF AtRest, CallPoints

LEMMA InitTypes == Init => TInv
<1> SUFFICES ASSUME Init PROVE TInv
  OBVIOUS
<1>1. TablesOK /\ HistoryOK
  BY SessionsAssumption DEF SessionsAssumption, Init, TablesOK, HistoryOK, Statuses
<1>2. caller \in [Callers -> Calls(token)]
  BY SessionsAssumption, AtIsCall DEF Init, AtRest, CallPoints
<1>3. run \in [Runs -> RunStates]
  BY DEF Init, RunStates
<1>4. AskingCallers = {}
  BY AtFields DEF Init, AskingCallers, Asking, AtRest
<1>5. Budget
  BY <1>4, FS_EmptySet, SessionsAssumption DEF Init, Budget, SessionsAssumption
<1>6. Named
  BY AtFields DEF Init, Named, AtRest
<1> QED BY <1>1, <1>2, <1>3, <1>5, <1>6 DEF Init, TInv, TypeOK

LEMMA StepTypes ==
  ASSUME TInv, Next
  PROVE  TInv'
<1>0. token \in Nat /\ MaxRuns \in Nat
  BY SessionsAssumption DEF TInv, TypeOK, TablesOK, SessionsAssumption
<1>1. TablesOK
  BY DEF TInv, TypeOK
<1>2. HistoryOK
  BY DEF TInv, TypeOK
<1>3. run \in [Runs -> RunStates]
  BY DEF TInv, TypeOK
<1>4. caller \in [Callers -> Calls(token)]
  BY DEF TInv, TypeOK
<1>5. stopping \subseteq Runs /\ resolved \subseteq Runs /\ committed \subseteq Runs
  BY DEF TInv, TypeOK
<1>6. /\ branch \in [Names -> {"none", "child", "empty"}]
      /\ closing \in {"open", "closing", "closed"}
  BY DEF TInv, TypeOK
<1>7. Budget
  BY DEF TInv
<1>8. Named
  BY DEF TInv
<1>9. \A c \in Callers :
        /\ caller[c].name \in Names \cup {NoName} /\ caller[c].run \in 0..token
        /\ caller[c].pc \in {"joining", "cancelling", "stopping", "bitten"} =>
            caller[c].run \in Runs
  BY <1>0, <1>1, <1>4, <1>8 DEF Calls, Named, Runs, TablesOK
<1>10. ASSUME NEW c \in Callers, NEW n \in Names, AskFork(c, n)
      PROVE  TInv'
  <2>1. caller' \in [Callers -> Calls(token')]
    BY <1>10, <1>0, <1>4, <1>9, AtIsCall, SMTT(20) DEF AskFork, tables, CallPoints
  <2>2. branch' \in [Names -> {"none", "child", "empty"}]
       /\ closing' \in {"open", "closing", "closed"}
    BY <1>10, <1>6, <1>0, SMTT(20) DEF AskFork
  <2>3. Budget'
    BY <1>10, <1>0, <1>4, <1>7, BudgetTaken, AtFields DEF AskFork, tables, Asking, AtRest, Calls
  <2>4. Named'
    BY <1>10, <1>0, <1>1, <1>3, <1>4, <1>8, AtFields, SMTT(20) DEF AskFork, tables, runVars,
       AtRest, Named, Calls, RunStates, TablesOK, Runs
  <2> QED BY <1>10, <2>1, <2>2, <2>3, <2>4, <1>1, <1>2, <1>3, <1>5 DEF AskFork, TInv, TypeOK,
     TablesOK, HistoryOK, tables, runVars, history
<1>11. ASSUME NEW c \in Callers, NEW n \in Names, ResumeCheck(c, n)
      PROVE  TInv'
  <2>1. caller' \in [Callers -> Calls(token')]
    BY <1>11, <1>0, <1>4, <1>9, AtIsCall, SMTT(20) DEF ResumeCheck, tables, CallPoints
  <2>2. Budget'
    BY <1>11, <1>0, <1>4, <1>7, BudgetTaken, AtFields DEF ResumeCheck, tables, Asking, AtRest,
       Calls
  <2>3. Named'
    BY <1>11, <1>0, <1>1, <1>3, <1>4, <1>8, AtFields, SMTT(20) DEF ResumeCheck, tables, runVars,
       AtRest, Named, Calls, RunStates, TablesOK, Runs
  <2> QED BY <1>11, <2>1, <2>2, <2>3, <1>1, <1>2, <1>3, <1>5, <1>6 DEF ResumeCheck, TInv,
     TypeOK, TablesOK, HistoryOK, tables, runVars, history
<1>12. ASSUME NEW c \in Callers, NEW n \in Names, CancelMark(c, n)
      PROVE  TInv'
  <2>1. TablesOK'
    BY <1>12, <1>1, <1>0, <1>8, <1>4, SMTT(20) DEF CancelMark, TablesOK, Statuses, Named
  <2>2. HistoryOK'
    <3>1. busy[n] \in 0..token
      BY <1>1 DEF TablesOK
    <3>2. token' = token /\ disowned' = disowned \cup ({busy[n]} \ {0})
      BY <1>12 DEF CancelMark
    <3> QED BY <1>12, <1>2, <3>1, <3>2 DEF CancelMark, HistoryOK
  <2>3. caller' \in [Callers -> Calls(token')]
    <3>1. Notified(caller) \in [Callers -> Calls(token)]
      BY <1>4 DEF Notified, Calls
    <3>2. future[n] \in 0..token
      BY <1>1 DEF TablesOK
    <3>3. \A pc \in CallPoints : At(pc, n, future[n]) \in Calls(token)
      BY <3>2, <1>0, AtIsCall
    <3>4. AtRest \in Calls(token)
      BY <1>0, RestIsCall
    <3> QED BY <1>12, <3>1, <3>3, <3>4, SMT DEF CancelMark, CallPoints
  <2>4. Budget'
    BY <1>12, <1>0, <1>4, <1>7, BudgetKept, AtFields DEF CancelMark, Notified, Asking, AtRest,
       Calls
  <2>5. Named'
    BY <1>12, <1>0, <1>1, <1>3, <1>4, <1>8, AtFields, SMTT(20) DEF CancelMark, Notified,
       runVars, AtRest, Named, Calls, RunStates, TablesOK, Runs
  <2> QED BY <1>12, <2>1, <2>2, <2>3, <2>4, <2>5, <1>3, <1>5, <1>6 DEF CancelMark, TInv, TypeOK,
     tables, runVars, history
<1>13. ASSUME NEW c \in Callers, NEW n \in Names, Result(c, n)
      PROVE  TInv'
  <2>1. TablesOK'
    BY <1>13, <1>1, <1>0, SMTT(20) DEF Result, TablesOK, Statuses
  <2>2. HistoryOK'
    BY <1>13, <1>2, <1>0, <1>1, <1>9, SMTT(20) DEF Result, Collect, HistoryOK, TablesOK, Runs
  <2>3. Budget'
    BY <1>13, <1>0, <1>4, <1>7, BudgetKept, AtFields DEF Result, Asking, AtRest, Calls
  <2>4. Named'
    BY <1>13, <1>0, <1>1, <1>3, <1>4, <1>8, AtFields, SMTT(20) DEF Result, runVars, AtRest,
       Named, Calls, RunStates, TablesOK, Runs
  <2> QED BY <1>13, <2>1, <2>2, <2>3, <2>4, <1>3, <1>5, <1>4, <1>6 DEF Result, TInv, TypeOK,
     tables, runVars, history
<1>14. ASSUME NEW c \in Callers, NEW n \in Names, Keep(c, n)
      PROVE  TInv'
  <2>1. TablesOK'
    BY <1>14, <1>1, <1>0, SMTT(20) DEF Keep, TablesOK, Statuses
  <2>2. HistoryOK'
    BY <1>14, <1>2, <1>0, SMTT(20) DEF Keep, HistoryOK
  <2>3. Budget'
    BY <1>14, <1>0, <1>4, <1>7, BudgetKept, AtFields DEF Keep, Asking, AtRest, Calls
  <2>4. Named'
    BY <1>14, <1>0, <1>1, <1>3, <1>4, <1>8, AtFields, SMTT(20) DEF Keep, runVars, AtRest, Named,
       Calls, RunStates, TablesOK, Runs
  <2> QED BY <1>14, <2>1, <2>2, <2>3, <2>4, <1>3, <1>5, <1>4, <1>6 DEF Keep, TInv, TypeOK,
     tables, runVars, history
<1>15. ASSUME NEW c \in Callers, Take(c)
      PROVE  TInv'
  <2>1. TablesOK'
    BY <1>15, <1>1, <1>0, SMTT(20) DEF Take, TablesOK, Statuses
  <2>2. HistoryOK'
    BY <1>15, <1>2, <1>0, SMTT(20) DEF Take, Collect, HistoryOK
  <2>3. Budget'
    BY <1>15, <1>0, <1>4, <1>7, BudgetKept, AtFields DEF Take, Asking, AtRest, Calls
  <2>4. Named'
    BY <1>15, <1>0, <1>1, <1>3, <1>4, <1>8, AtFields, SMTT(20) DEF Take, runVars, AtRest, Named,
       Calls, RunStates, TablesOK, Runs
  <2> QED BY <1>15, <2>1, <2>2, <2>3, <2>4, <1>3, <1>5, <1>4, <1>6 DEF Take, TInv, TypeOK,
     tables, runVars, history
<1>16. ASSUME NEW c \in Callers, Wait(c)
      PROVE  TInv'
  <2>1. caller' \in [Callers -> Calls(token')]
    <3>1. At("waiting", NoName, 0) \in Calls(token)
      BY <1>0, AtIsCall DEF CallPoints
    <3> QED BY <1>16, <1>4, <3>1, SMT DEF Wait, tables
  <2>2. Budget'
    BY <1>16, <1>0, <1>4, <1>7, BudgetKept, AtFields DEF Wait, tables, Asking, AtRest, Calls
  <2>3. Named'
    BY <1>16, <1>0, <1>1, <1>3, <1>4, <1>8, AtFields, SMTT(20) DEF Wait, tables, runVars,
       AtRest, Named, Calls, RunStates, TablesOK, Runs
  <2> QED BY <1>16, <2>1, <2>2, <2>3, <1>1, <1>2, <1>3, <1>5, <1>6 DEF Wait, TInv, TypeOK,
     TablesOK, HistoryOK, tables, runVars, history
<1>17. ASSUME NEW c \in Callers, ResumeOpen(c)
      PROVE  TInv'
  <2>1. caller' \in [Callers -> Calls(token')]
    BY <1>17, <1>4, SMTT(20) DEF ResumeOpen, Calls, tables
  <2>2. branch' \in [Names -> {"none", "child", "empty"}]
       /\ closing' \in {"open", "closing", "closed"}
    BY <1>17, <1>6, <1>0, <1>8, <1>4, SMTT(20) DEF ResumeOpen, Named
  <2>3. Budget'
    BY <1>17, <1>0, <1>4, <1>7, BudgetKept, AtFields DEF ResumeOpen, tables, Asking, AtRest,
       Calls
  <2>4. Named'
    BY <1>17, <1>0, <1>1, <1>3, <1>4, <1>8, AtFields, SMTT(20) DEF ResumeOpen, tables, runVars,
       AtRest, Named, Calls, RunStates, TablesOK, Runs
  <2> QED BY <1>17, <2>1, <2>2, <2>3, <2>4, <1>1, <1>2, <1>3, <1>5 DEF ResumeOpen, TInv, TypeOK,
     TablesOK, HistoryOK, tables, runVars, history
<1>18. ASSUME NEW c \in Callers, SubmitRefused(c)
      PROVE  TInv'
  <2>1. Budget' /\ token < MaxRuns
    BY <1>18, <1>0, <1>4, <1>7, BudgetReturned, AtFields DEF SubmitRefused, tables, Asking,
       AtRest
  <2>2. caller' \in [Callers -> Calls(token')]
    BY <1>18, <1>0, <1>4, <2>1, RestIsCall, SMTT(20) DEF SubmitRefused, tables
  <2>3. Named'
    BY <1>18, <1>0, <1>1, <1>3, <1>4, <1>8, <2>1, AtFields, SMTT(20) DEF SubmitRefused, tables,
       runVars, AtRest, Named, Calls, RunStates, TablesOK, Runs
  <2> QED BY <1>18, <2>1, <2>2, <2>3, <1>1, <1>2, <1>3, <1>5, <1>6 DEF SubmitRefused, TInv,
     TypeOK, TablesOK, HistoryOK, tables, runVars, history
<1>19. ASSUME NEW c \in Callers, NEW w \in BOOLEAN, Submit(c, w)
      PROVE  TInv'
  <2>1. Budget' /\ token < MaxRuns
    BY <1>19, <1>0, <1>4, <1>7, BudgetReturned, AtFields DEF Submit, TakeToken, Asking, AtRest
  <2>2. TablesOK'
    BY <1>19, <1>1, <1>0, <2>1, <1>8, <1>4, SMTT(20) DEF Submit, TakeToken, Forgotten, Runs,
       TablesOK, Statuses, Named
  <2>3. HistoryOK'
    BY <1>19, <1>2, <1>0, <2>1, <1>8, <1>4, SMTT(20) DEF Submit, TakeToken, HistoryOK, Named
  <2>4. run' \in [Runs -> RunStates]
    <3>1. caller[c].name \in Names
      BY <1>19, <1>8 DEF Submit, Named
    <3>2. [name |-> caller[c].name, pc |-> "queued"] \in RunStates
      BY <3>1 DEF RunStates
    <3>3. run' = [run EXCEPT ![token + 1] = [name |-> caller[c].name, pc |-> "queued"]]
      BY <1>19 DEF Submit
    <3> QED BY <1>3, <3>2, <3>3
  <2>5. caller' \in [Callers -> Calls(token')]
    <3>1. token' = token + 1
      BY <1>19 DEF Submit, TakeToken
    <3>2. At("joining", caller[c].name, token + 1) \in Calls(token')
      BY <3>1, <1>0, <1>9, AtIsCall DEF CallPoints
    <3>3. AtRest \in Calls(token')
      BY <3>1, <1>0, RestIsCall
    <3>4. Calls(token) \subseteq Calls(token')
      BY <3>1, <1>0 DEF Calls
    <3> QED BY <1>19, <1>4, <3>2, <3>3, <3>4, SMT DEF Submit
  <2>6. branch' \in [Names -> {"none", "child", "empty"}]
       /\ closing' \in {"open", "closing", "closed"}
    BY <1>19, <1>6, <1>0, <2>1, <1>8, <1>4, SMTT(20) DEF Submit, Named
  <2>7. Named'
    <3>1. /\ token' = token + 1 /\ token + 1 \in Runs
          /\ caller[c].name \in Names
      BY <1>19, <1>0, <1>8, <2>1 DEF Submit, TakeToken, Named, Runs
    <3>2. /\ caller'[c] = At("joining", caller[c].name, token + 1) \/ caller'[c] = AtRest
          /\ \A d \in Callers \ {c} : caller'[d] = caller[d]
      BY <1>19, <1>4 DEF Submit
    <3>3. \A d \in Callers :
            /\ caller'[d].pc \notin {"idle", "waiting", "asleep"} => caller'[d].name \in Names
            /\ caller'[d].pc \in {"joining", "cancelling", "stopping", "bitten"} =>
                caller'[d].run # 0
      BY <3>1, <3>2, <1>0, <1>8, AtFields DEF AtRest, Named
    <3>4. /\ run'[token + 1].name = caller[c].name
          /\ \A r \in Runs \ {token + 1} : run'[r] = run[r]
      BY <1>19, <3>1, <1>3 DEF Submit
    <3>5. \A r \in Runs : run'[r].pc # "none" => run'[r].name \in Names /\ r <= token'
      BY <3>1, <3>4, <1>0, <1>8 DEF Named, Runs
    <3> QED BY <3>3, <3>5 DEF Named
  <2> QED BY <1>19, <2>1, <2>2, <2>3, <2>4, <2>5, <2>6, <2>7, <1>5 DEF Submit, TInv, TypeOK,
     tables, runVars, history
<1>20. ASSUME NEW c \in Callers, CancelTask(c)
      PROVE  TInv'
  <2>1. stopping' \subseteq Runs /\ resolved' \subseteq Runs /\ committed' \subseteq Runs
    BY <1>20, <1>5, <1>9, SMTT(20) DEF CancelTask
  <2>2. caller' \in [Callers -> Calls(token')]
    BY <1>20, <1>0, <1>4, RestIsCall, SMTT(20) DEF CancelTask, tables
  <2>3. Budget'
    BY <1>20, <1>0, <1>4, <1>7, BudgetKept, AtFields DEF CancelTask, tables, Asking, AtRest,
       Calls
  <2>4. Named'
    BY <1>20, <1>0, <1>1, <1>3, <1>4, <1>8, AtFields, SMTT(20) DEF CancelTask, tables, AtRest,
       Named, Calls, RunStates, TablesOK, Runs
  <2> QED BY <1>20, <2>1, <2>2, <2>3, <2>4, <1>1, <1>2, <1>3, <1>6 DEF CancelTask, TInv, TypeOK,
     TablesOK, HistoryOK, tables, runVars, history
<1>21. ASSUME NEW c \in Callers, CancelFuture(c)
      PROVE  TInv'
  <2>1. run' \in [Runs -> RunStates]
    BY <1>21, <1>3, <1>9, SMTT(20) DEF CancelFuture, RunStates
  <2>2. stopping' \subseteq Runs /\ resolved' \subseteq Runs /\ committed' \subseteq Runs
    BY <1>21, <1>5, <1>9, SMTT(20) DEF CancelFuture
  <2>3. caller' \in [Callers -> Calls(token')]
    BY <1>21, <1>4, SMTT(20) DEF CancelFuture, Calls, tables
  <2>4. Budget'
    BY <1>21, <1>0, <1>4, <1>7, BudgetKept, AtFields DEF CancelFuture, tables, Asking, AtRest,
       Calls
  <2>5. Named'
    BY <1>21, <1>0, <1>1, <1>3, <1>4, <1>8, AtFields, SMTT(20) DEF CancelFuture, tables, AtRest,
       Named, Calls, RunStates, TablesOK, Runs
  <2> QED BY <1>21, <2>1, <2>2, <2>3, <2>4, <2>5, <1>1, <1>2, <1>6 DEF CancelFuture, TInv,
     TypeOK, TablesOK, HistoryOK, tables, runVars, history
<1>22. ASSUME NEW c \in Callers, CancelAsyncFuture(c)
      PROVE  TInv'
  <2>1. stopping' \subseteq Runs /\ resolved' \subseteq Runs /\ committed' \subseteq Runs
    BY <1>22, <1>5, <1>9, SMTT(20) DEF CancelAsyncFuture
  <2>2. caller' \in [Callers -> Calls(token')]
    BY <1>22, <1>4, SMTT(20) DEF CancelAsyncFuture, Calls, tables
  <2>3. Budget'
    BY <1>22, <1>0, <1>4, <1>7, BudgetKept, AtFields DEF CancelAsyncFuture, tables, Asking,
       AtRest, Calls
  <2>4. Named'
    BY <1>22, <1>0, <1>1, <1>3, <1>4, <1>8, AtFields, SMTT(20) DEF CancelAsyncFuture, tables,
       AtRest, Named, Calls, RunStates, TablesOK, Runs
  <2> QED BY <1>22, <2>1, <2>2, <2>3, <2>4, <1>1, <1>2, <1>3, <1>6 DEF CancelAsyncFuture, TInv,
     TypeOK, TablesOK, HistoryOK, tables, runVars, history
<1>23. ASSUME NEW c \in Callers, CancelTooLate(c)
      PROVE  TInv'
  <2>1. caller' \in [Callers -> Calls(token')]
    BY <1>23, <1>0, <1>4, RestIsCall, SMTT(20) DEF CancelTooLate, tables
  <2>2. Budget'
    BY <1>23, <1>0, <1>4, <1>7, BudgetKept, AtFields DEF CancelTooLate, tables, Asking, AtRest,
       Calls
  <2>3. Named'
    BY <1>23, <1>0, <1>1, <1>3, <1>4, <1>8, AtFields, SMTT(20) DEF CancelTooLate, tables,
       runVars, AtRest, Named, Calls, RunStates, TablesOK, Runs
  <2> QED BY <1>23, <2>1, <2>2, <2>3, <1>1, <1>2, <1>3, <1>5, <1>6 DEF CancelTooLate, TInv,
     TypeOK, TablesOK, HistoryOK, tables, runVars, history
<1>24. ASSUME NEW c \in Callers, CancelRelease(c)
      PROVE  TInv'
  <2>1. TablesOK'
    BY <1>24, <1>1, <1>0, <1>8, <1>4, SMTT(20) DEF CancelRelease, Released, TablesOK, Statuses,
       Named
  <2>2. caller' \in [Callers -> Calls(token')]
    BY <1>24, <1>0, <1>4, RestIsCall, SMTT(20) DEF CancelRelease
  <2>3. Budget'
    BY <1>24, <1>0, <1>4, <1>7, BudgetKept, AtFields DEF CancelRelease, Asking, AtRest, Calls
  <2>4. Named'
    BY <1>24, <1>0, <1>1, <1>3, <1>4, <1>8, AtFields, SMTT(20) DEF CancelRelease, runVars,
       AtRest, Named, Calls, RunStates, TablesOK, Runs
  <2> QED BY <1>24, <2>1, <2>2, <2>3, <2>4, <1>2, <1>3, <1>5, <1>6 DEF CancelRelease, TInv,
     TypeOK, HistoryOK, tables, runVars, history
<1>25. ASSUME NEW c \in Callers, Join(c)
      PROVE  TInv'
  <2>1. TablesOK'
    BY <1>25, <1>1, <1>0, <1>8, <1>4, SMTT(20) DEF Join, TablesOK, Statuses, Named
  <2>2. HistoryOK'
    <3>1. \A r \in Runs : Collect(r, "read") \in {"no", "read", "taken", "again"}
      BY <1>2 DEF Collect, HistoryOK
    <3> DEFINE q == answer[caller[c].name]
    <3>2. q # 0 => q \in Runs
      BY <1>0, <1>1, <1>4, <1>8, <1>25 DEF Join, Named, TablesOK, Runs
    <3>3. \/ collected' = collected
          \/ q # 0 /\ collected' = [collected EXCEPT ![q] = Collect(q, "read")]
      BY <1>25, Zenon DEF Join
    <3>4. collected' \in [Runs -> {"no", "read", "taken", "again"}]
      <4> HIDE DEF q
      <4> QED BY <1>2, <3>1, <3>2, <3>3 DEF HistoryOK
    <3> QED BY <1>25, <1>2, <3>4 DEF Join, HistoryOK
  <2>3. caller' \in [Callers -> Calls(token')]
    BY <1>25, <1>0, <1>4, RestIsCall, SMTT(20) DEF Join
  <2>4. Budget'
    BY <1>25, <1>0, <1>4, <1>7, BudgetKept, AtFields DEF Join, Asking, AtRest, Calls
  <2>5. Named'
    BY <1>25, <1>0, <1>1, <1>3, <1>4, <1>8, AtFields, SMTT(20) DEF Join, runVars, AtRest, Named,
       Calls, RunStates, TablesOK, Runs
  <2> QED BY <1>25, <2>1, <2>2, <2>3, <2>4, <2>5, <1>3, <1>5, <1>6 DEF Join, TInv, TypeOK,
     tables, runVars, history
<1>26. ASSUME NEW c \in Callers, WaitLook(c)
      PROVE  TInv'
  <2>1. caller' \in [Callers -> Calls(token')]
    <3>1. [caller[c] EXCEPT !.pc = "asleep"] \in Calls(token)
      BY <1>4 DEF Calls
    <3>2. AtRest \in Calls(token)
      BY <1>0, RestIsCall
    <3> QED BY <1>26, <1>4, <3>1, <3>2, SMT DEF WaitLook, tables
  <2>2. Budget'
    BY <1>26, <1>0, <1>4, <1>7, BudgetKept, AtFields DEF WaitLook, tables, Asking, AtRest, Calls
  <2>3. Named'
    BY <1>26, <1>0, <1>1, <1>3, <1>4, <1>8, AtFields, SMTT(20) DEF WaitLook, tables, runVars,
       AtRest, Named, Calls, RunStates, TablesOK, Runs
  <2> QED BY <1>26, <2>1, <2>2, <2>3, <1>1, <1>2, <1>3, <1>5, <1>6 DEF WaitLook, TInv, TypeOK,
     TablesOK, HistoryOK, tables, runVars, history
<1>27. ASSUME NEW r \in Runs, Start(r)
      PROVE  TInv'
  <2>1. run' \in [Runs -> RunStates]
    BY <1>27, <1>3, <1>0, SMTT(20) DEF Start, RunStates
  <2>2. Budget'
    BY <1>27, <1>0, <1>4, <1>7, BudgetKept, AtFields DEF Start, tables, Asking, AtRest, Calls
  <2>3. Named'
    BY <1>27, <1>0, <1>1, <1>3, <1>4, <1>8, AtFields, SMTT(20) DEF Start, tables, AtRest, Named,
       Calls, RunStates, TablesOK, Runs
  <2> QED BY <1>27, <2>1, <2>2, <2>3, <1>1, <1>2, <1>5, <1>4, <1>6 DEF Start, TInv, TypeOK,
     TablesOK, HistoryOK, tables, runVars, history
<1>28. ASSUME NEW r \in Runs, Finish(r)
      PROVE  TInv'
  <2>1. run' \in [Runs -> RunStates]
    BY <1>28, <1>3, <1>0, SMTT(20) DEF Finish, RunStates
  <2>2. stopping' \subseteq Runs /\ resolved' \subseteq Runs /\ committed' \subseteq Runs
    BY <1>28, <1>5, <1>0, SMTT(20) DEF Finish, runVars
  <2>3. Budget'
    BY <1>28, <1>0, <1>4, <1>7, BudgetKept, AtFields DEF Finish, tables, Asking, AtRest, Calls
  <2>4. Named'
    BY <1>28, <1>0, <1>1, <1>3, <1>4, <1>8, AtFields, SMTT(20) DEF Finish, tables, AtRest,
       Named, Calls, RunStates, TablesOK, Runs
  <2> QED BY <1>28, <2>1, <2>2, <2>3, <2>4, <1>1, <1>2, <1>4, <1>6 DEF Finish, TInv, TypeOK,
     TablesOK, HistoryOK, tables, runVars, history
<1>29. ASSUME NEW r \in Runs, Land(r)
      PROVE  TInv'
  <2>1. TablesOK'
    BY <1>29, <1>1, <1>0, <1>8, <1>4, SMTT(20) DEF Land, TablesOK, Statuses, Named
  <2>2. run' \in [Runs -> RunStates]
    BY <1>29, <1>3, <1>0, <1>8, <1>4, SMTT(20) DEF Land, RunStates, Named
  <2>3. Budget'
    BY <1>29, <1>0, <1>4, <1>7, BudgetKept, AtFields DEF Land, Asking, AtRest, Calls
  <2>4. Named'
    BY <1>29, <1>0, <1>1, <1>3, <1>4, <1>8, AtFields, SMTT(20) DEF Land, AtRest, Named, Calls,
       RunStates, TablesOK, Runs
  <2> QED BY <1>29, <2>1, <2>2, <2>3, <2>4, <1>2, <1>5, <1>4, <1>6 DEF Land, TInv, TypeOK,
     HistoryOK, tables, runVars, history
<1>30. ASSUME NEW r \in Runs, NEW b \in BOOLEAN, Describe(r, b)
      PROVE  TInv'
  <2>1. run' \in [Runs -> RunStates]
    BY <1>30, <1>3, <1>0, SMTT(20) DEF Describe, RunStates
  <2>2. stopping' \subseteq Runs /\ resolved' \subseteq Runs /\ committed' \subseteq Runs
    BY <1>30, <1>5, <1>0, SMTT(20) DEF Describe, runVars
  <2>3. Budget'
    BY <1>30, <1>0, <1>4, <1>7, BudgetKept, AtFields DEF Describe, tables, Asking, AtRest, Calls
  <2>4. Named'
    BY <1>30, <1>0, <1>1, <1>3, <1>4, <1>8, AtFields, SMTT(20) DEF Describe, tables, AtRest,
       Named, Calls, RunStates, TablesOK, Runs
  <2> QED BY <1>30, <2>1, <2>2, <2>3, <2>4, <1>1, <1>2, <1>4, <1>6 DEF Describe, TInv, TypeOK,
     TablesOK, HistoryOK, tables, runVars, history
<1>31. ASSUME NEW r \in Runs, NEW s \in {"answered", "failed"}, Record(r, s)
      PROVE  TInv'
  <2>1. TablesOK'
    BY <1>31, <1>1, <1>0, <1>8, <1>4, SMTT(20) DEF Record, Released, Runs, TablesOK, Statuses,
       Named
  <2>2. run' \in [Runs -> RunStates]
    BY <1>31, <1>3, <1>0, <1>8, <1>4, SMTT(20) DEF Record, RunStates, Named
  <2>3. caller' \in [Callers -> Calls(token')]
    BY <1>31, <1>4, <1>0, <1>8, SMTT(20) DEF Record, Notified, Calls, CallPoints, Named
  <2>4. Budget'
    BY <1>31, <1>0, <1>4, <1>7, BudgetKept, AtFields DEF Record, Notified, Asking, AtRest, Calls
  <2>5. Named'
    BY <1>31, <1>0, <1>1, <1>3, <1>4, <1>8, AtFields, SMTT(20) DEF Record, Notified, AtRest,
       Named, Calls, RunStates, TablesOK, Runs
  <2> QED BY <1>31, <2>1, <2>2, <2>3, <2>4, <2>5, <1>2, <1>5, <1>6 DEF Record, TInv, TypeOK,
     HistoryOK, tables, runVars, history
<1>32. ASSUME NEW r \in Runs, RecordCancelled(r)
      PROVE  TInv'
  <2>1. run' \in [Runs -> RunStates]
    BY <1>32, <1>3, <1>0, <1>8, <1>4, SMTT(20) DEF RecordCancelled, RunStates, Named
  <2>2. Budget'
    BY <1>32, <1>0, <1>4, <1>7, BudgetKept, AtFields DEF RecordCancelled, tables, Asking,
       AtRest, Calls
  <2>3. Named'
    BY <1>32, <1>0, <1>1, <1>3, <1>4, <1>8, AtFields, SMTT(20) DEF RecordCancelled, tables,
       AtRest, Named, Calls, RunStates, TablesOK, Runs
  <2> QED BY <1>32, <2>1, <2>2, <2>3, <1>1, <1>2, <1>5, <1>4, <1>6 DEF RecordCancelled, TInv,
     TypeOK, TablesOK, HistoryOK, tables, runVars, history
<1>33. ASSUME NEW r \in Runs, Announce(r)
      PROVE  TInv'
  <2>1. TablesOK'
    BY <1>33, <1>1, <1>0, <1>8, <1>4, SMTT(20) DEF Announce, TablesOK, Statuses, Named
  <2>2. HistoryOK'
    BY <1>33, <1>2, <1>0, <1>8, <1>4, SMTT(20) DEF Announce, HistoryOK, Named
  <2>3. run' \in [Runs -> RunStates]
    BY <1>33, <1>3, <1>0, <1>8, <1>4, SMTT(20) DEF Announce, RunStates, Named
  <2>4. Budget'
    BY <1>33, <1>0, <1>4, <1>7, BudgetKept, AtFields DEF Announce, Asking, AtRest, Calls
  <2>5. Named'
    BY <1>33, <1>0, <1>1, <1>3, <1>4, <1>8, AtFields, SMTT(20) DEF Announce, AtRest, Named,
       Calls, RunStates, TablesOK, Runs
  <2> QED BY <1>33, <2>1, <2>2, <2>3, <2>4, <2>5, <1>5, <1>4, <1>6 DEF Announce, TInv, TypeOK,
     tables, runVars, history
<1>34. ASSUME NEW r \in Runs, Exit(r)
      PROVE  TInv'
  <2>1. TablesOK'
    BY <1>34, <1>1, <1>0, <1>8, <1>4, SMTT(20) DEF Exit, Released, TablesOK, Statuses, Named
  <2>2. run' \in [Runs -> RunStates]
    BY <1>34, <1>3, <1>0, <1>8, <1>4, SMTT(20) DEF Exit, RunStates, Named
  <2>3. stopping' \subseteq Runs /\ resolved' \subseteq Runs /\ committed' \subseteq Runs
    BY <1>34, <1>5, <1>0, <1>8, <1>4, SMTT(20) DEF Exit, runVars, Named
  <2>4. Budget'
    BY <1>34, <1>0, <1>4, <1>7, BudgetKept, AtFields DEF Exit, Asking, AtRest, Calls
  <2>5. Named'
    BY <1>34, <1>0, <1>1, <1>3, <1>4, <1>8, AtFields, SMTT(20) DEF Exit, AtRest, Named, Calls,
       RunStates, TablesOK, Runs
  <2> QED BY <1>34, <2>1, <2>2, <2>3, <2>4, <2>5, <1>2, <1>4, <1>6 DEF Exit, TInv, TypeOK,
     HistoryOK, tables, runVars, history
<1>35. ASSUME NEW r \in Runs, StoppedWhileLanding(r)
      PROVE  TInv'
  <2>1. TablesOK'
    BY <1>35, <1>1, <1>0, <1>8, <1>4, SMTT(20) DEF StoppedWhileLanding, Released, TablesOK,
       Statuses, Named
  <2>2. stopping' \subseteq Runs /\ resolved' \subseteq Runs /\ committed' \subseteq Runs
    BY <1>35, <1>5, <1>0, <1>8, <1>4, SMTT(20) DEF StoppedWhileLanding, runVars, Named
  <2>3. Budget'
    BY <1>35, <1>0, <1>4, <1>7, BudgetKept, AtFields DEF StoppedWhileLanding, Asking, AtRest,
       Calls
  <2>4. Named'
    BY <1>35, <1>0, <1>1, <1>3, <1>4, <1>8, AtFields, SMTT(20) DEF StoppedWhileLanding, AtRest,
       Named, Calls, RunStates, TablesOK, Runs
  <2> QED BY <1>35, <2>1, <2>2, <2>3, <2>4, <1>2, <1>3, <1>4, <1>6 DEF StoppedWhileLanding,
     TInv, TypeOK, HistoryOK, tables, runVars, history
<1>36. ASSUME NEW n \in Names, Idle(n)
      PROVE  TInv'
  <2>1. TablesOK'
    BY <1>36, <1>1, <1>0, SMTT(20) DEF Idle, TablesOK, Statuses
  <2>2. Budget'
    BY <1>36, <1>0, <1>4, <1>7, BudgetKept, AtFields DEF Idle, Asking, AtRest, Calls
  <2>3. Named'
    BY <1>36, <1>0, <1>1, <1>3, <1>4, <1>8, AtFields, SMTT(20) DEF Idle, runVars, AtRest, Named,
       Calls, RunStates, TablesOK, Runs
  <2> QED BY <1>36, <2>1, <2>2, <2>3, <1>2, <1>3, <1>5, <1>4, <1>6 DEF Idle, TInv, TypeOK,
     HistoryOK, tables, runVars, history
<1>37. ASSUME Sweep
      PROVE  TInv'
  <2>1. TablesOK'
    BY <1>37, <1>1, <1>0, SMTT(20) DEF Sweep, TablesOK, Statuses
  <2>2. branch' \in [Names -> {"none", "child", "empty"}]
       /\ closing' \in {"open", "closing", "closed"}
    BY <1>37, <1>6, <1>0, SMTT(20) DEF Sweep
  <2>3. Budget'
    BY <1>37, <1>0, <1>4, <1>7, BudgetKept, AtFields DEF Sweep, Asking, AtRest, Calls
  <2>4. Named'
    BY <1>37, <1>0, <1>1, <1>3, <1>4, <1>8, AtFields, SMTT(20) DEF Sweep, runVars, AtRest,
       Named, Calls, RunStates, TablesOK, Runs
  <2> QED BY <1>37, <2>1, <2>2, <2>3, <2>4, <1>2, <1>3, <1>5, <1>4 DEF Sweep, TInv, TypeOK,
     HistoryOK, tables, runVars, history
<1>38. ASSUME CloseBegin
      PROVE  TInv'
  <2>1. caller' \in [Callers -> Calls(token')]
    BY <1>38, <1>4, <1>0, SMTT(20) DEF CloseBegin, Notified, tables, Calls, CallPoints
  <2>2. branch' \in [Names -> {"none", "child", "empty"}]
       /\ closing' \in {"open", "closing", "closed"}
    BY <1>38, <1>6, <1>0, SMTT(20) DEF CloseBegin
  <2>3. Budget'
    BY <1>38, <1>0, <1>4, <1>7, BudgetKept, AtFields DEF CloseBegin, Notified, tables, Asking,
       AtRest, Calls
  <2>4. Named'
    BY <1>38, <1>0, <1>1, <1>3, <1>4, <1>8, AtFields, SMTT(20) DEF CloseBegin, Notified, tables,
       runVars, AtRest, Named, Calls, RunStates, TablesOK, Runs
  <2> QED BY <1>38, <2>1, <2>2, <2>3, <2>4, <1>1, <1>2, <1>3, <1>5 DEF CloseBegin, TInv, TypeOK,
     TablesOK, HistoryOK, tables, runVars, history
<1>39. ASSUME CloseEnd
      PROVE  TInv'
  <2>1. TablesOK'
    BY <1>39, <1>1, <1>0, SMTT(20) DEF CloseEnd, TablesOK, Statuses
  <2>2. branch' \in [Names -> {"none", "child", "empty"}]
       /\ closing' \in {"open", "closing", "closed"}
    BY <1>39, <1>6, <1>0, SMTT(20) DEF CloseEnd
  <2>3. Budget'
    BY <1>39, <1>0, <1>4, <1>7, BudgetKept, AtFields DEF CloseEnd, Asking, AtRest, Calls
  <2>4. Named'
    BY <1>39, <1>0, <1>1, <1>3, <1>4, <1>8, AtFields, SMTT(20) DEF CloseEnd, runVars, AtRest,
       Named, Calls, RunStates, TablesOK, Runs
  <2> QED BY <1>39, <2>1, <2>2, <2>3, <2>4, <1>2, <1>3, <1>5, <1>4 DEF CloseEnd, TInv, TypeOK,
     HistoryOK, tables, runVars, history
<1>40. ASSUME NEW c \in Callers, SubmitUnscheduled(c)
      PROVE  TInv'
  <2>1. Budget' /\ token < MaxRuns
    BY <1>40, <1>0, <1>4, <1>7, BudgetReturned, AtFields DEF SubmitUnscheduled, TakeToken,
       Asking, AtRest
  <2>2. token' = token + 1 /\ caller[c].name \in Names
    BY <1>40, <1>8 DEF SubmitUnscheduled, TakeToken, Named
  <2>3. TablesOK'
    BY <1>40, <1>1, <1>0, <2>1, <2>2, SMTT(20) DEF SubmitUnscheduled, Forgotten, Runs, TablesOK,
       Statuses
  <2>4. HistoryOK'
    BY <1>40, <1>2, <1>0, <2>2, SMTT(20) DEF SubmitUnscheduled, HistoryOK
  <2>5. caller' \in [Callers -> Calls(token')]
    <3>1. AtRest \in Calls(token')
      BY <2>2, <1>0, RestIsCall
    <3>2. Calls(token) \subseteq Calls(token')
      BY <2>2, <1>0 DEF Calls
    <3> QED BY <1>40, <1>4, <3>1, <3>2, SMT DEF SubmitUnscheduled
  <2>6. Named'
    BY <1>40, <1>0, <1>4, <1>8, <2>1, <2>2, AtFields, SMTT(20) DEF SubmitUnscheduled, runVars,
       AtRest, Named, Calls, Runs
  <2> QED BY <1>40, <2>1, <2>3, <2>4, <2>5, <2>6, <1>3, <1>5, <1>6 DEF SubmitUnscheduled, TInv,
     TypeOK, runVars
<1>41. ASSUME SweepFails
      PROVE  TInv'
  <2>1. branch' \in [Names -> {"none", "child", "empty"}]
    BY <1>41, <1>6 DEF SweepFails
  <2>2. Budget'
    BY <1>41, <1>0, <1>4, <1>7, BudgetKept, AtFields DEF SweepFails, tables, Asking
  <2> QED BY <1>41, <2>1, <2>2, <1>1, <1>2, <1>3, <1>4, <1>5, <1>6, <1>8 DEF SweepFails, TInv,
     TypeOK, TablesOK, HistoryOK, Named, tables, runVars, history
<1> QED BY <1>10, <1>11, <1>12, <1>13, <1>14, <1>15, <1>16, <1>17, <1>18, <1>19, <1>20, <1>21,
   <1>22, <1>23, <1>24, <1>25, <1>26, <1>27, <1>28, <1>29, <1>30, <1>31, <1>32, <1>33, <1>34,
   <1>35, <1>36, <1>37, <1>38, <1>39, <1>40, <1>41 DEF Next, CallBegin, CallStep, RunStep

LEMMA TypesKept == TInv /\ [Next]_vars => TInv'
<1> SUFFICES ASSUME TInv, UNCHANGED vars PROVE TInv'
  BY StepTypes
<1>1. Budget'
  BY BudgetKept DEF vars, tables, Asking, TInv
<1> QED BY <1>1 DEF vars, tables, runVars, history, TInv, TypeOK, TablesOK, HistoryOK, Named

\* The tables, the runs and the callers keep their types whatever calls,
\* runs, sweeps and closing interleave, on threads and on an event loop.
THEOREM TypesHold == Spec => []TypeOK
<1>1. TInv => TypeOK
  BY DEF TInv
<1> QED BY <1>1, InitTypes, TypesKept, PTL DEF Spec

-----------------------------------------------------------------------------
(* Retention *)

\* Every promise is still in the row: a resume takes it over (KeptStill).
Promises == promised \subseteq kept

LEMMA PromisesKept == ASSUME Promises, [Next]_vars PROVE Promises'
<1>1. CASE UNCHANGED vars
  BY <1>1 DEF vars, tables, history, Promises
<1>2. ASSUME NEW c \in Callers, NEW wait \in BOOLEAN, Submit(c, wait) PROVE Promises'
  BY <1>2 DEF Submit, KeptStill, Promises
<1>8. ASSUME NEW c \in Callers, SubmitUnscheduled(c) PROVE Promises'
  BY <1>8 DEF SubmitUnscheduled, KeptStill, Promises
<1>3. ASSUME NEW c \in Callers, NEW n \in Names, Keep(c, n) PROVE Promises'
  BY <1>3 DEF Keep, Promises
<1>4. ASSUME NEW c \in Callers, CallBegin(c) PROVE Promises'
  BY <1>3, <1>4 DEF CallBegin, AskFork, ResumeCheck, CancelMark, Result, Take, Wait, tables,
     history, Promises
<1>5. ASSUME NEW c \in Callers, CallStep(c) PROVE Promises'
  BY <1>2, <1>5, <1>8 DEF CallStep, ResumeOpen, SubmitRefused, CancelTask, CancelFuture,
     CancelAsyncFuture, CancelTooLate, CancelRelease, Join, WaitLook, tables, history, Promises
<1>6. ASSUME NEW r \in Runs, RunStep(r) PROVE Promises'
  BY <1>6 DEF RunStep, Start, Finish, Land, Describe, Record, RecordCancelled, Announce, Exit,
     StoppedWhileLanding, tables, history, Promises
<1>7. ASSUME (\E n \in Names : Idle(n)) \/ Sweep \/ SweepFails \/ CloseBegin \/ CloseEnd
      PROVE  Promises'
  BY <1>7 DEF Idle, Sweep, SweepFails, CloseBegin, CloseEnd, tables, history, Promises
<1> QED BY <1>1, <1>4, <1>5, <1>6, <1>7 DEF Next

\* keep() exempts a branch from sweep() for good: a later resume, cancel or
\* failure of its child does not put it back.
THEOREM KeptIsNeverSweptHolds == Spec => KeptIsNeverSwept
<1>1. Init => Promises
  BY DEF Init, Promises
<1>2. Promises /\ [Next]_vars => Promises'
  BY PromisesKept
<1>3. ASSUME TypeOK, Promises, Next, NEW n \in promised \cap promised', branch'[n] = "none"
      PROVE  branch[n] = "none"
  <2>1. n \in Names /\ n \in kept /\ branch \in [Names -> {"none", "child", "empty"}]
    BY <1>3 DEF TypeOK, HistoryOK, Promises
  <2>2. ASSUME Sweep \/ SweepFails PROVE branch[n] = "none"
    BY <2>1, <2>2, <1>3 DEF Sweep, SweepFails, Idlers
  <2>3. ASSUME NEW c \in Callers, NEW m \in Names, AskFork(c, m) PROVE branch[n] = "none"
    BY <2>1, <2>3, <1>3 DEF AskFork
  <2>4. ASSUME NEW c \in Callers, ResumeOpen(c) PROVE branch[n] = "none"
    BY <2>1, <2>4, <1>3 DEF ResumeOpen
  <2>5. ASSUME NEW c \in Callers, CallBegin(c) PROVE branch[n] = "none"
    BY <1>3, <2>3, <2>5 DEF CallBegin, ResumeCheck, CancelMark, Result, Keep, Take, Wait
  <2>6. ASSUME NEW c \in Callers, CallStep(c) PROVE branch[n] = "none"
    BY <1>3, <2>4, <2>6 DEF CallStep, Submit, SubmitUnscheduled, SubmitRefused,
       CancelTask, CancelFuture, CancelAsyncFuture, CancelTooLate, CancelRelease, Join, WaitLook
  <2>7. ASSUME NEW r \in Runs, RunStep(r) PROVE branch[n] = "none"
    BY <1>3, <2>7 DEF RunStep, Start, Finish, Land, Describe, Record, RecordCancelled, Announce,
       Exit, StoppedWhileLanding
  <2>8. ASSUME (\E m \in Names : Idle(m)) \/ CloseBegin \/ CloseEnd PROVE branch[n] = "none"
    BY <1>3, <2>8 DEF Idle, CloseBegin, CloseEnd
  <2> QED BY <2>2, <2>5, <2>6, <2>7, <2>8, <1>3 DEF Next
<1>4. TypeOK /\ Promises /\ [Next]_vars =>
        [\A n \in promised \cap promised' : branch'[n] = "none" => branch[n] = "none"]_vars
  BY <1>3
<1> QED BY <1>1, <1>2, <1>4, TypesHold, PTL DEF Spec, KeptIsNeverSwept

-----------------------------------------------------------------------------
(* The inductive invariant of the runs *)

\* A run that holds its branch and whose answer is still to come.
Unanswered(r) == run[r].pc \in {"queued", "driving", "answered", "describing", "recording"}

\* Until it lands, a run holds its branch and its handle, and its job says
\* whether it was cancelled.
HoldsItsBranch(r) ==
    /\ Unanswered(r) =>
        LET n == run[r].name
        IN  /\ n \in Names /\ busy[n] = r /\ future[n] = r
            /\ status[n] = IF r \in disowned THEN "cancelled" ELSE "running"
    /\ run[r].pc \in {"queued", "driving", "answered"} => child[run[r].name] = r

\* What is told, collected and disowned of a run goes with how far it is.
Accounted(r) ==
    /\ r > token => run[r].pc = "none"
    /\ run[r].pc = "none" => r \notin disowned
    /\ run[r].pc = "dropped" => r \in disowned
    /\ r \in recorded => run[r].pc = "announcing" /\ r \notin disowned
    /\ run[r].pc = "announcing" => r \in recorded \/ r \in disowned
    /\ run[r].pc \notin {"exiting", "over"} => told[r] = 0
    /\ run[r].pc \in {"exiting", "over"} => told[r] = IF r \in disowned THEN 0 ELSE 1
    /\ collected[r] # "no" =>
        /\ r \notin disowned
        /\ run[r].pc \in {"announcing", "exiting", "over"}
    /\ r \in resolved => run[r].pc \in {"over", "dropped"}

\* A run dropped by a cancel that has yet to release what it reserved.
BeingDropped(r) ==
    /\ run[r].pc = "dropped"
    /\ \E c \in Callers : caller[c].pc = "bitten" /\ caller[c].run = r

RowOf(n) ==
    /\ future[n] # 0 => run[future[n]].name = n
    /\ answer[n] # 0 =>
        /\ answer[n] = future[n] /\ status[n] \in {"answered", "failed"}
        /\ answer[n] \notin disowned
        /\ run[answer[n]].pc \in {"announcing", "exiting", "over"}
    /\ status[n] = "running" /\ busy[n] # 0 => Unanswered(future[n])
    /\ busy[n] # 0 =>
        /\ busy[n] = future[n]
        /\ run[busy[n]].pc \notin {"none", "over"}
        /\ run[busy[n]].pc = "dropped" => BeingDropped(busy[n])
    /\ child[n] # 0 =>
        /\ child[n] = busy[n]
        /\ run[child[n]].pc \in {"queued", "driving", "answered"} \/ BeingDropped(child[n])

CallOf(c) ==
    /\ caller[c].pc # "stopping"
    /\ Asking(c) => caller[c].name \in Names
    /\ caller[c].pc = "joining" => caller[c].name \in Names /\ caller[c].run # 0
    /\ caller[c].pc \in {"cancelling", "bitten"} =>
        /\ caller[c].name \in Names
        /\ run[caller[c].run].name = caller[c].name
        /\ run[caller[c].run].pc \in {"queued", "dropped"} => caller[c].run \in disowned
    /\ caller[c].pc = "bitten" =>
        /\ run[caller[c].run].pc = "dropped"
        /\ busy[caller[c].name] = caller[c].run
        /\ \A d \in Callers : caller[d].pc = "bitten" /\ caller[d].run = caller[c].run => c = d

ClosedMeansOver ==
    closing = "closed" =>
        /\ \A r \in Runs : run[r].pc \in {"none", "over", "dropped"}
        /\ \A n \in Names : child[n] = 0

Inv ==
    /\ \A r \in Runs : HoldsItsBranch(r) /\ Accounted(r)
    /\ \A n \in Names : RowOf(n)
    /\ \A c \in Callers : CallOf(c)
    /\ ClosedMeansOver
    /\ disowned \subseteq Runs

LEMMA InitInv == ASSUME Init PROVE Inv
<1> USE AtFields, InitTypes DEF Init
<1>1. \A r \in Runs : HoldsItsBranch(r) /\ Accounted(r)
  BY SessionsAssumption DEF HoldsItsBranch, Accounted, Unanswered, Runs, SessionsAssumption
<1>2. \A n \in Names : RowOf(n)
  BY DEF RowOf
<1>3. \A c \in Callers : CallOf(c)
  BY DEF CallOf, Asking, AtRest
<1> QED BY <1>1, <1>2, <1>3 DEF Inv, ClosedMeansOver

-----------------------------------------------------------------------------
(* Frames: what whole groups of steps leave as it was *)

\* The tokens the tables hold are 0 or runs.
LEMMA HeldTokens ==
  ASSUME TInv, Inv
  PROVE  /\ token \in Nat /\ MaxRuns \in Nat /\ token <= MaxRuns /\ 0 \notin Runs
         /\ \A n \in Names :
            /\ \A q \in {busy[n], child[n], answer[n], future[n]} : q # 0 => q \in Runs
            /\ answer[n] # 0 => run[answer[n]].pc \in {"announcing", "exiting", "over"}
            /\ answer[n] # 0 => answer[n] \notin disowned
            /\ status[n] = "running" => answer[n] = 0
            /\ status[n] = "running" /\ busy[n] # 0 =>
                busy[n] = future[n] /\ future[n] \in Runs /\ Unanswered(future[n])
                /\ run[future[n]].name = n
         /\ \A c \in Callers :
            /\ caller[c].pc \in {"joining", "cancelling", "bitten"} => caller[c].run \in Runs
            /\ caller[c].run <= token
<1>1. token \in Nat /\ MaxRuns \in Nat /\ token <= MaxRuns /\ 0 \notin Runs
  BY SessionsAssumption DEF TInv, TypeOK, TablesOK, SessionsAssumption, Runs
<1>2. \A n \in Names : \A q \in {busy[n], child[n], answer[n], future[n]} : q # 0 => q \in Runs
  BY <1>1 DEF TInv, TypeOK, TablesOK, Runs
<1>3. \A n \in Names : RowOf(n)
  BY DEF Inv
<1>4. ASSUME NEW c \in Callers
      PROVE  /\ caller[c].pc \in {"joining", "cancelling", "bitten"} => caller[c].run \in Runs
             /\ caller[c].run <= token
  <2>1. caller[c].run \in 0..token
    BY DEF TInv, TypeOK, Calls
  <2> QED BY <2>1, <1>1 DEF TInv, Named, Runs
<1> QED BY <1>1, <1>2, <1>3, <1>4 DEF RowOf

\* A step that moves no run and no row, and a caller only between the points
\* of a call that hold nothing.  An answer may be collected by it.
LEMMA QuietStep ==
  ASSUME TInv, Inv,
         UNCHANGED <<status, busy, child, answer, future, token, run, resolved, recorded, told,
                     disowned>>,
         closing' = "closed" => closing = "closed",
         \A q \in Runs : collected'[q] # "no" =>
            collected[q] # "no" \/ (\E n \in Names : answer[n] # 0 /\ q = answer[n]),
         \A d \in Callers :
            \/ caller'[d] = caller[d]
            \/ /\ caller[d].pc # "bitten"
               /\ caller'[d].pc \notin {"joining", "cancelling", "stopping", "bitten"}
               /\ Asking(d)' => caller'[d].name \in Names
  PROVE  Inv'
<1>1. \A q \in Runs : HoldsItsBranch(q)'
  BY DEF Inv, HoldsItsBranch, Unanswered
<1>2. \A q \in Runs : Accounted(q)'
  BY HeldTokens DEF Inv, Accounted
<1>3. \A q : BeingDropped(q) => BeingDropped(q)'
  BY DEF BeingDropped
<1>4. \A m \in Names : RowOf(m)'
  BY <1>3 DEF Inv, RowOf, Unanswered
<1>5. \A d \in Callers : CallOf(d)'
  BY DEF Inv, CallOf, Asking
<1>6. ClosedMeansOver'
  BY DEF Inv, ClosedMeansOver
<1> QED BY <1>1, <1>2, <1>4, <1>5, <1>6 DEF Inv

\* The step takes run r to a point, and moves nothing else of the runs.
MovesTo(r, pc) == run' = [run EXCEPT ![r].pc = pc]

\* A step of one run: it moves r alone, may free r's own branch and wake
\* sleepers, and nobody's call or cancel is disturbed.
LEMMA RunStepFrame ==
  ASSUME TInv, Inv, NEW r \in Runs, NEW pc,
         run[r].pc \notin {"none", "over", "dropped"}, pc \notin {"none", "queued", "dropped"},
         MovesTo(r, pc),
         busy' = busy \/ busy' = Released(run[r].name, r),
         caller' = caller \/ caller' = Notified(caller),
         UNCHANGED <<disowned, token, closing>>
  PROVE  /\ run'[r].pc = pc /\ \A q \in Runs : run'[q].name = run[q].name
         /\ \A q \in Runs \ {r} : run'[q] = run[q]
         /\ run[r].name \in Names
         /\ \A n \in Names :
            busy'[n] = busy[n] \/ (busy[n] = r /\ busy'[n] = 0 /\ n = run[r].name)
         /\ \A q \in Runs : BeingDropped(q)' <=> BeingDropped(q)
         /\ \A d \in Callers : CallOf(d)'
         /\ ClosedMeansOver'
<1>1. /\ run'[r].pc = pc /\ \A q \in Runs : run'[q].name = run[q].name
      /\ \A q \in Runs \ {r} : run'[q] = run[q]
  BY DEF MovesTo, TInv, TypeOK, RunStates
<1>2. run[r].name \in Names
  BY DEF TInv, Named
<1>3. \A n \in Names : busy'[n] = busy[n] \/ (busy[n] = r /\ busy'[n] = 0 /\ n = run[r].name)
  <2>1. busy \in [Names -> 0..token]
    BY DEF TInv, TypeOK, TablesOK
  <2>2. busy' = busy \/ (busy' = [busy EXCEPT ![run[r].name] = 0] /\ busy[run[r].name] = r)
    BY DEF Released
  <2> QED BY <1>2, <2>1, <2>2
<1>4. \A d \in Callers :
        /\ caller'[d].name = caller[d].name /\ caller'[d].run = caller[d].run
        /\ caller'[d].pc = caller[d].pc
           \/ (caller[d].pc = "asleep" /\ caller'[d].pc = "waiting")
  <2>1. caller \in [Callers -> Calls(token)]
    BY DEF TInv, TypeOK
  <2>2. CASE caller' = caller
    BY <2>2
  <2>3. CASE caller' = Notified(caller)
    BY <2>1, <2>3 DEF Notified, Calls
  <2> QED BY <2>2, <2>3
<1>5. \A q \in Runs : BeingDropped(q)' <=> BeingDropped(q)
  BY <1>1, <1>4 DEF BeingDropped
<1>6. ASSUME NEW d \in Callers PROVE CallOf(d)'
  <2>1. CallOf(d) /\ (caller[d].pc \in {"cancelling", "bitten"} => caller[d].run \in Runs)
    BY HeldTokens DEF Inv
  <2>2. caller[d].pc = "bitten" => /\ caller[d].run # r
                                  /\ busy'[caller[d].name] = busy[caller[d].name]
    BY <2>1, <1>3 DEF CallOf
  <2> QED BY <1>1, <1>4, <2>1, <2>2 DEF CallOf, Asking
<1>7. ClosedMeansOver'
  BY DEF Inv, ClosedMeansOver
<1> QED BY <1>1, <1>2, <1>3, <1>5, <1>6, <1>7

-----------------------------------------------------------------------------
(* Every step keeps the invariant *)

LEMMA StepInv ==
  ASSUME ~AsyncRunner, TInv, Inv, Next
  PROVE  Inv'
<1>1. /\ \A q \in Runs : HoldsItsBranch(q) /\ Accounted(q)
      /\ \A m \in Names : RowOf(m)
      /\ \A d \in Callers : CallOf(d)
      /\ ClosedMeansOver /\ disowned \subseteq Runs
  BY DEF Inv
<1>2. /\ run \in [Runs -> RunStates] /\ caller \in [Callers -> Calls(token)]
      /\ TablesOK /\ HistoryOK
  BY DEF TInv, TypeOK
<1>3. ASSUME NEW c \in Callers, NEW n \in Names, AskFork(c, n)
      PROVE  Inv'
  BY <1>3, <1>1, <1>2, QuietStep, AtFields DEF AskFork, tables, runVars, history
<1>4. ASSUME NEW c \in Callers, NEW n \in Names, ResumeCheck(c, n)
      PROVE  Inv'
  BY <1>4, <1>1, <1>2, QuietStep, AtFields DEF ResumeCheck, tables, runVars, history
<1>5. ASSUME NEW c \in Callers, NEW n \in Names, Keep(c, n)
      PROVE  Inv'
  BY <1>5, <1>1, <1>2, QuietStep DEF Keep, tables, runVars, history
<1>6. ASSUME NEW c \in Callers, NEW n \in Names, Result(c, n)
      PROVE  Inv'
  BY <1>6, <1>1, <1>2, QuietStep DEF Result, tables, runVars, history, HistoryOK
<1>7. ASSUME NEW c \in Callers, Take(c)
      PROVE  Inv'
  <2>1. \A q \in Runs : collected'[q] # "no" =>
          collected[q] # "no" \/ (\E n \in Names : answer[n] # 0 /\ q = answer[n])
    BY <1>7, <1>2 DEF Take, TablesOK
  <2> QED BY <1>7, <2>1, QuietStep DEF Take, runVars
<1>8. ASSUME NEW c \in Callers, Wait(c)
      PROVE  Inv'
  BY <1>8, <1>1, <1>2, QuietStep, AtFields DEF Wait, tables, runVars, history, Asking
<1>9. ASSUME NEW c \in Callers, WaitLook(c)
      PROVE  Inv'
  <2>1. caller'[c] = AtRest \/ caller'[c] = [caller[c] EXCEPT !.pc = "asleep"]
    BY <1>9, <1>2, Zenon DEF WaitLook
  <2>2. caller'[c].pc \in {"idle", "asleep"} /\ caller[c].pc = "waiting"
    BY <1>9, <1>2, <2>1, AtFields DEF WaitLook, AtRest, Calls
  <2>3. \A d \in Callers \ {c} : caller'[d] = caller[d]
    BY <1>9, <1>2 DEF WaitLook
  <2> QED BY <1>9, <2>2, <2>3, QuietStep DEF WaitLook, tables, runVars, history, Asking
<1>10. ASSUME NEW c \in Callers, ResumeOpen(c)
      PROVE  Inv'
  <2>1. /\ caller[c].pc = "checked" /\ caller'[c].pc = "reopened" /\ caller'[c].name \in Names
        /\ \A d \in Callers \ {c} : caller'[d] = caller[d]
    BY <1>10, <1>1, <1>2 DEF ResumeOpen, Calls, CallOf, Asking
  <2> QED BY <1>10, <2>1, QuietStep DEF ResumeOpen, tables, runVars, history
<1>11. ASSUME NEW c \in Callers, SubmitRefused(c)
      PROVE  Inv'
  BY <1>11, <1>1, <1>2, QuietStep, AtFields DEF SubmitRefused, tables, runVars, history, AtRest,
     Asking
<1>12. ASSUME NEW c \in Callers, CancelTooLate(c)
      PROVE  Inv'
  BY <1>12, <1>1, <1>2, QuietStep, AtFields DEF CancelTooLate, tables, runVars, history, AtRest,
     Asking
<1>13. ASSUME NEW c \in Callers, Join(c)
      PROVE  Inv'
  <2> DEFINE n == caller[c].name
  <2>1. n \in Names /\ caller[c].pc = "joining"
    BY <1>13, <1>1 DEF Join, CallOf
  <2>2. \/ collected' = collected
        \/ /\ answer[n] # 0
           /\ collected' = [collected EXCEPT ![answer[n]] = Collect(answer[n], "read")]
    BY <1>13, Zenon DEF Join
  <2>3. /\ caller'[c].pc = "idle" /\ \A d \in Callers \ {c} : caller'[d] = caller[d]
        /\ UNCHANGED <<status, busy, child, answer, future, token, run, resolved, recorded, told,
                       disowned, closing>>
    BY <1>13, <1>2, AtFields DEF Join, AtRest, runVars
  <2> HIDE DEF n
  <2>4. \A q \in Runs : collected'[q] # "no" =>
          collected[q] # "no" \/ (\E m \in Names : answer[m] # 0 /\ q = answer[m])
    BY <1>2, <2>1, <2>2 DEF HistoryOK
  <2> QED BY <2>1, <2>3, <2>4, QuietStep DEF Asking
<1>14. ASSUME NEW n \in Names, Idle(n)
      PROVE  Inv'
  BY <1>14, <1>1, <1>2, QuietStep DEF Idle, tables, runVars, history
<1>15. ASSUME CloseBegin
      PROVE  Inv'
  <2>1. \A d \in Callers :
          caller'[d] = caller[d] \/ (caller[d].pc = "asleep" /\ caller'[d].pc = "waiting")
    BY <1>15, <1>2 DEF CloseBegin, Notified, Calls
  <2> QED BY <1>15, <2>1, QuietStep DEF CloseBegin, tables, runVars, history, Asking
<1>16. ASSUME NEW c \in Callers, NEW n \in Names, CancelMark(c, n)
      PROVE  Inv'
  <2> DEFINE r == future[n]
  <2>1. /\ r \in 0..token /\ (r # 0 => r \in Runs /\ run[r].name = n)
        /\ answer[n] = 0 /\ status[n] = "running"
        /\ busy[n] # 0 => busy[n] = r /\ Unanswered(r)
        /\ Unanswered(r) /\ r # 0 => busy[n] = r
    BY <1>16, <1>1, <1>2, HeldTokens DEF CancelMark, RowOf, HoldsItsBranch, TablesOK
  <2>2. UNCHANGED <<run, busy, child, answer, future, recorded, told, collected, token,
                    closing, resolved>>
    BY <1>16 DEF CancelMark, runVars
  <2>3. /\ disowned' = disowned \cup ({busy[n]} \ {0}) /\ status'[n] = "cancelled"
        /\ \A m \in Names \ {n} : status'[m] = status[m]
    BY <1>16, <1>2 DEF CancelMark, TablesOK
  <2>4. /\ caller'[c] = (IF r = 0 THEN AtRest ELSE At("cancelling", n, r))
        /\ caller[c].pc = "idle"
        /\ \A d \in Callers \ {c} :
            /\ caller'[d].name = caller[d].name /\ caller'[d].run = caller[d].run
            /\ caller[d].pc \in {"asleep", "waiting"} => caller'[d].pc = "waiting"
            /\ caller[d].pc \notin {"asleep", "waiting"} => caller'[d].pc = caller[d].pc
    BY <1>16, <1>2 DEF CancelMark, Notified, Calls
  <2> HIDE DEF r
  <2>5. \A q \in Runs : HoldsItsBranch(q)'
    <3>1. ASSUME NEW q \in Runs, Unanswered(q)
          PROVE  q # 0 /\ busy[run[q].name] = q /\ (run[q].name = n <=> q = busy[n])
      BY <3>1, <2>1, <1>1, HeldTokens DEF HoldsItsBranch
    <3> QED BY <3>1, <2>2, <2>3, <1>1 DEF HoldsItsBranch, Unanswered
  <2>6. \A q \in Runs : Accounted(q)'
    BY <2>1, <2>2, <2>3, <1>1 DEF Accounted, Unanswered
  <2>7. \A m \in Names : RowOf(m)'
    <3>1. \A q : BeingDropped(q) => BeingDropped(q)'
      BY <2>2, <2>4 DEF BeingDropped
    <3>2. \A m \in Names : answer[m] # 0 => answer[m] # busy[n]
      BY <2>1, HeldTokens DEF Unanswered
    <3> QED BY <3>1, <3>2, <2>1, <2>2, <2>3, <1>1 DEF RowOf, Unanswered
  <2>8. \A d \in Callers : CallOf(d)'
    <3>1. CallOf(c)'
      BY <2>1, <2>2, <2>3, <2>4, <1>1, AtFields, HeldTokens
         DEF CallOf, Asking, AtRest, Unanswered, Accounted
    <3>2. ASSUME NEW d \in Callers \ {c} PROVE CallOf(d)'
      <4>1. caller'[c].pc # "bitten"
        BY <2>4, AtFields DEF AtRest
      <4> QED BY <4>1, <2>2, <2>3, <2>4, <1>1 DEF CallOf, Asking
    <3> QED BY <3>1, <3>2
  <2>9. ClosedMeansOver'
    BY <2>2, <1>1 DEF ClosedMeansOver
  <2>10. disowned' \subseteq Runs
    BY <2>3, <1>1, HeldTokens
  <2> QED BY <2>5, <2>6, <2>7, <2>8, <2>9, <2>10 DEF Inv
<1>17. ASSUME NEW c \in Callers, NEW wait \in BOOLEAN, Submit(c, wait)
      PROVE  Inv'
  <2> DEFINE n == caller[c].name
             r == token + 1
  <2>1. /\ r \in Runs /\ token' = r /\ token < MaxRuns /\ n \in Names /\ busy[n] = 0
        /\ closing = "open" /\ caller[c].pc \in {"forked", "reopened"}
    <3>1. c \in AskingCallers /\ Budget
      BY <1>17 DEF Submit, Asking, AskingCallers, TInv
    <3>2. Cardinality(AskingCallers) # 0
      BY <3>1, AskingIsFinite, FS_EmptySet
    <3>3. token < MaxRuns
      BY <3>1, <3>2, AskingIsFinite, HeldTokens DEF Budget
    <3> QED BY <1>17, <3>3, HeldTokens DEF Submit, TakeToken, MayInstall, TInv, Named, Runs
  <2>2. UNCHANGED <<recorded, resolved, closing, told, collected, disowned>>
    BY <1>17 DEF Submit
  <2>3. /\ busy' = [busy EXCEPT ![n] = r] /\ status' = [status EXCEPT ![n] = "running"]
        /\ answer' = [answer EXCEPT ![n] = 0] /\ child' = [child EXCEPT ![n] = r]
        /\ future' = [future EXCEPT ![n] = r]
    BY <1>17 DEF Submit, Forgotten
  <2>4. /\ busy'[n] = r /\ status'[n] = "running" /\ answer'[n] = 0 /\ child'[n] = r
        /\ future'[n] = r
        /\ \A m \in Names \ {n} :
            /\ busy'[m] = busy[m] /\ status'[m] = status[m] /\ answer'[m] = answer[m]
            /\ child'[m] = child[m] /\ future'[m] = future[m]
    BY <2>1, <2>3, <1>2 DEF TablesOK
  <2>5. /\ run'[r].name = n /\ run'[r].pc = "queued"
        /\ \A q \in Runs \ {r} : run'[q] = run[q]
    BY <1>17, <1>2, <2>1 DEF Submit
  <2>6. /\ caller'[c] = At("joining", n, r) \/ caller'[c] = AtRest
        /\ \A d \in Callers \ {c} : caller'[d] = caller[d]
    BY <1>17, <1>2 DEF Submit
  <2>7. /\ run[r].pc = "none" /\ r \notin disowned /\ r \notin recorded /\ told[r] = 0
        /\ collected[r] = "no" /\ r \notin resolved
        /\ \A d \in Callers : caller[d].run # r
        /\ \A m \in Names : busy[m] # r /\ child[m] # r /\ answer[m] # r /\ future[m] # r
    BY <2>1, <1>1, <1>2, HeldTokens DEF Accounted, TablesOK
  <2> HIDE DEF n, r
  <2>8. \A q \in Runs : HoldsItsBranch(q)'
    <3> SUFFICES ASSUME NEW q \in Runs PROVE HoldsItsBranch(q)'
      OBVIOUS
    <3>1. CASE q = r
      BY <3>1, <2>1, <2>2, <2>4, <2>5, <2>7 DEF HoldsItsBranch
    <3>2. CASE q # r
      <4>1. HoldsItsBranch(q) /\ run'[q] = run[q] /\ q # 0
        BY <3>2, <2>5, <1>1, HeldTokens
      <4>2. Unanswered(q) => run[q].name # n
        BY <4>1, <2>1 DEF HoldsItsBranch
      <4>3. Unanswered(q)' <=> Unanswered(q)
        BY <4>1 DEF Unanswered
      <4> QED BY <4>1, <4>2, <4>3, <2>1, <2>2, <2>4 DEF HoldsItsBranch, Unanswered
    <3> QED BY <3>1, <3>2
  <2>9. \A q \in Runs : Accounted(q)'
    <3> SUFFICES ASSUME NEW q \in Runs PROVE Accounted(q)'
      OBVIOUS
    <3>1. q > token' <=> q > token /\ q # r
      BY <2>1, HeldTokens DEF Runs, r
    <3>2. CASE q = r
      BY <3>1, <3>2, <2>1, <2>2, <2>5, <2>7 DEF Accounted
    <3>3. CASE q # r
      BY <3>1, <3>3, <2>2, <2>5, <1>1 DEF Accounted
    <3> QED BY <3>2, <3>3
  <2>10. \A m \in Names : RowOf(m)'
    <3> SUFFICES ASSUME NEW m \in Names PROVE RowOf(m)'
      OBVIOUS
    <3>1. CASE m = n
      BY <3>1, <2>1, <2>4, <2>5, HeldTokens DEF RowOf, Unanswered
    <3>2. CASE m # n
      <4>1. /\ RowOf(m) /\ future'[m] = future[m] /\ answer'[m] = answer[m]
            /\ busy'[m] = busy[m] /\ child'[m] = child[m] /\ status'[m] = status[m]
        BY <3>2, <2>4, <1>1
      <4>2. \A q \in Runs : q # r /\ BeingDropped(q) => BeingDropped(q)'
        BY <2>1, <2>5, <2>6 DEF BeingDropped
      <4>3. \A q \in {future[m], answer[m], busy[m], child[m]} : q # 0 =>
              q \in Runs /\ q # r /\ run'[q] = run[q] /\ (BeingDropped(q) => BeingDropped(q)')
        BY <4>2, <2>5, <2>7, HeldTokens
      <4> QED BY <4>1, <4>3, <2>2 DEF RowOf, Unanswered
    <3> QED BY <3>1, <3>2
  <2>11. \A d \in Callers : CallOf(d)'
    <3>1. CallOf(c)'
      BY <2>1, <2>6, AtFields, HeldTokens DEF CallOf, Asking, AtRest
    <3>2. ASSUME NEW d \in Callers \ {c} PROVE CallOf(d)'
      <4>1. caller'[d] = caller[d] /\ CallOf(d) /\ caller[d].run # r
        BY <3>2, <2>6, <2>7, <1>1
      <4>2. caller[d].pc \in {"cancelling", "bitten"} =>
              /\ caller[d].run \in Runs /\ run'[caller[d].run] = run[caller[d].run]
              /\ caller[d].name \in Names
        BY <4>1, <2>5, HeldTokens DEF CallOf
      <4>3. caller[d].pc = "bitten" =>
              caller[d].name # n /\ busy'[caller[d].name] = busy[caller[d].name]
        <5> SUFFICES ASSUME caller[d].pc = "bitten"
                     PROVE  caller[d].name # n /\ busy'[caller[d].name] = busy[caller[d].name]
          OBVIOUS
        <5>1. busy[caller[d].name] = caller[d].run /\ caller[d].run # 0
          BY <4>1, <4>2, HeldTokens DEF CallOf
        <5> QED BY <5>1, <4>2, <2>1, <2>4
      <4>4. \A e \in Callers : caller'[e].pc = "bitten" => caller'[e] = caller[e]
        BY <2>6, AtFields DEF AtRest
      <4> QED BY <4>1, <4>2, <4>3, <4>4, <2>2 DEF CallOf, Asking
    <3> QED BY <3>1, <3>2
  <2>12. ClosedMeansOver'
    BY <2>1, <2>2 DEF ClosedMeansOver
  <2> QED BY <1>1, <2>2, <2>8, <2>9, <2>10, <2>11, <2>12 DEF Inv
<1>18. ASSUME NEW c \in Callers, CancelFuture(c)
      PROVE  Inv'
  <2>0. PICK r \in Runs, n \in Names : r = caller[c].run /\ n = caller[c].name
    BY <1>18, <1>1, HeldTokens DEF CancelFuture, CallOf
  <2>1. /\ r \in Runs /\ r \in disowned /\ n \in Names /\ run[r].name = n
        /\ run[r].pc = "queued" /\ caller[c].pc = "cancelling"
    BY <1>18, <2>0, <1>1, HeldTokens DEF CancelFuture, CallOf
  <2>2. UNCHANGED <<busy, child, answer, future, status, recorded, told, collected, disowned,
                    token,
                    closing>>
    BY <1>18 DEF CancelFuture, tables, history
  <2>3. /\ run'[r].pc = "dropped" /\ \A q \in Runs : run'[q].name = run[q].name
        /\ \A q \in Runs \ {r} : run'[q].pc = run[q].pc
    BY <1>18, <2>0, <1>2, <2>1 DEF CancelFuture, RunStates
  <2>4. resolved' = resolved \cup {r}
    BY <1>18, <2>0 DEF CancelFuture
  <2>5. /\ caller'[c].pc = "bitten" /\ caller'[c].name = n /\ caller'[c].run = r
        /\ \A d \in Callers \ {c} : caller'[d] = caller[d]
    BY <1>18, <2>0, <1>2 DEF CancelFuture, Calls
  <2>6. busy[n] = r /\ future[n] = r /\ child[n] = r /\ status[n] = "cancelled"
    BY <2>1, <1>1 DEF HoldsItsBranch, Unanswered
  <2>7. \A d \in Callers : caller[d].pc = "bitten" => caller[d].run # r
    BY <2>1, <1>1 DEF CallOf
  <2>8. \A q \in Runs : HoldsItsBranch(q)'
    BY <2>1, <2>2, <2>3, <1>1 DEF HoldsItsBranch, Unanswered
  <2>9. \A q \in Runs : Accounted(q)'
    BY <2>1, <2>2, <2>3, <2>4, <1>1 DEF Accounted
  <2>10. ASSUME NEW m \in Names PROVE RowOf(m)'
    <3>1. BeingDropped(r)'
      <4>1. caller'[c].pc = "bitten" /\ caller'[c].run = r
        BY <2>5
      <4> QED BY <4>1, <2>3, Zenon DEF BeingDropped
    <3>2. ASSUME NEW q \in Runs, BeingDropped(q) PROVE BeingDropped(q)'
      BY <3>2, <2>1, <2>3, <2>5 DEF BeingDropped
    <3>3. \A q \in {future[m], answer[m], busy[m], child[m]} : q # 0 => q \in Runs
      BY HeldTokens
    <3>4. RowOf(m) /\ (answer[m] # 0 => answer[m] # r)
      BY <1>1, <2>1, HeldTokens
    <3>5. status[m] = "running" => future[m] # r
      BY <1>1, <2>1, <2>6, HeldTokens DEF RowOf
    <3> QED BY <3>1, <3>2, <3>3, <3>4, <3>5, <2>1, <2>2, <2>3 DEF RowOf, Unanswered
  <2>11. \A d \in Callers : CallOf(d)'
    <3>1. CallOf(c)'
      BY <2>1, <2>2, <2>3, <2>5, <2>6, <2>7 DEF CallOf, Asking
    <3>2. ASSUME NEW d \in Callers \ {c} PROVE CallOf(d)'
      <4>1. caller[d].pc \in {"cancelling", "bitten"} => caller[d].run \in Runs
        BY HeldTokens
      <4> QED BY <4>1, <1>1, <2>1, <2>2, <2>3, <2>5, <2>7 DEF CallOf, Asking
    <3> QED BY <3>1, <3>2
  <2>12. ClosedMeansOver'
    BY <2>2, <2>3, <1>1 DEF ClosedMeansOver
  <2> QED BY <1>1, <2>2, <2>8, <2>9, <2>10, <2>11, <2>12 DEF Inv
<1>19. ASSUME NEW c \in Callers, CancelRelease(c)
      PROVE  Inv'
  <2> DEFINE r == caller[c].run
             n == caller[c].name
  <2>1. /\ n \in Names /\ r \in Runs /\ run[r].pc = "dropped" /\ busy[n] = r
        /\ caller[c].pc = "bitten"
    BY <1>19, <1>1, HeldTokens DEF CancelRelease, CallOf
  <2>2. UNCHANGED <<status, answer, future, token, run, resolved, recorded, told, collected,
                    disowned, closing>>
    BY <1>19 DEF CancelRelease, runVars, history
  <2>3. busy' = [busy EXCEPT ![n] = 0] /\ child' = [child EXCEPT ![n] = 0]
    BY <1>19, <2>1 DEF CancelRelease, Released
  <2>4. /\ busy'[n] = 0 /\ child'[n] = 0
        /\ \A m \in Names \ {n} : busy'[m] = busy[m] /\ child'[m] = child[m]
    BY <2>1, <2>3, <1>2 DEF TablesOK
  <2>5. /\ caller'[c].pc = "idle" /\ \A d \in Callers \ {c} : caller'[d] = caller[d]
    BY <1>19, <1>2, AtFields DEF CancelRelease, AtRest
  <2> HIDE DEF r, n
  <2>6. \A q \in Runs : HoldsItsBranch(q)'
    <3> SUFFICES ASSUME NEW q \in Runs PROVE HoldsItsBranch(q)'
      OBVIOUS
    <3>1. HoldsItsBranch(q) /\ (Unanswered(q) => q # r)
      BY <1>1, <2>1 DEF Unanswered
    <3>2. Unanswered(q) => run[q].name # n
      BY <3>1, <2>1 DEF HoldsItsBranch
    <3> QED BY <3>1, <3>2, <2>2, <2>4 DEF HoldsItsBranch, Unanswered
  <2>7. \A q \in Runs : Accounted(q)'
    BY <2>2, <1>1 DEF Accounted
  <2>8. ASSUME NEW m \in Names PROVE RowOf(m)'
    <3>1. CASE m = n
      BY <3>1, <1>1, <2>2, <2>4 DEF RowOf, Unanswered
    <3>2. CASE m # n
      <4>1. RowOf(m) /\ busy'[m] = busy[m] /\ child'[m] = child[m]
        BY <3>2, <1>1, <2>4
      <4>2. busy[m] # 0 => busy[m] # r
        BY <3>2, <1>1, <2>1, HeldTokens DEF RowOf
      <4>3. \A q \in Runs \ {r} : BeingDropped(q) => BeingDropped(q)'
        BY <2>2, <2>5 DEF BeingDropped, r
      <4>4. \A q \in {busy[m], child[m]} : q # 0 => q \in Runs
        BY HeldTokens
      <4> QED BY <4>1, <4>2, <4>3, <4>4, <2>2 DEF RowOf, Unanswered
    <3> QED BY <3>1, <3>2
  <2>9. \A d \in Callers : CallOf(d)'
    <3> SUFFICES ASSUME NEW d \in Callers \ {c} PROVE CallOf(d)'
      BY <2>5 DEF CallOf, Asking
    <3>1. CallOf(d) /\ caller'[d] = caller[d]
      BY <1>1, <2>5
    <3>2. caller[d].pc = "bitten" => caller[d].name # n
      BY <3>1, <2>1, <1>1 DEF CallOf, r
    <3> QED BY <3>1, <3>2, <2>2, <2>4, <2>5 DEF CallOf, Asking
  <2>10. ClosedMeansOver'
    BY <2>1, <2>2, <2>4, <1>1 DEF ClosedMeansOver
  <2> QED BY <1>1, <2>2, <2>6, <2>7, <2>8, <2>9, <2>10 DEF Inv
<1>20. ASSUME NEW c \in Callers, CancelTask(c) \/ CancelAsyncFuture(c)
      PROVE  Inv'
  BY <1>20, <1>1 DEF CancelTask, CancelAsyncFuture, CallOf
<1>21. ASSUME NEW r \in Runs, Start(r)
      PROVE  Inv'
  <2>1. /\ MovesTo(r, "driving") /\ run[r].pc = "queued"
        /\ UNCHANGED <<status, busy, child, answer, future, token, recorded, told, collected,
                       disowned>>
        /\ UNCHANGED <<resolved, caller, closing>>
    BY <1>21 DEF Start, tables, history, MovesTo
  <2>2. /\ run'[r].pc = "driving" /\ \A q \in Runs : run'[q].name = run[q].name
        /\ \A q \in Runs \ {r} : run'[q] = run[q]
        /\ \A q \in Runs : BeingDropped(q)' <=> BeingDropped(q)
        /\ \A d \in Callers : CallOf(d)'
        /\ ClosedMeansOver'
    BY <2>1, RunStepFrame
  <2>3. \A q \in Runs : HoldsItsBranch(q)'
    BY <2>1, <2>2, <1>1 DEF HoldsItsBranch, Unanswered
  <2>4. \A q \in Runs : Accounted(q)'
    BY <2>1, <2>2, <1>1 DEF Accounted
  <2>5. \A m \in Names : RowOf(m)'
    BY <2>1, <2>2, <1>1, HeldTokens DEF RowOf, Unanswered
  <2> QED BY <1>1, <2>1, <2>2, <2>3, <2>4, <2>5 DEF Inv
<1>22. ASSUME NEW r \in Runs, Finish(r)
      PROVE  Inv'
  <2>1. /\ MovesTo(r, "answered") /\ run[r].pc = "driving"
        /\ UNCHANGED <<status, busy, child, answer, future, token, recorded, told, collected,
                       disowned>>
        /\ UNCHANGED <<resolved, caller, closing>>
    BY <1>22 DEF Finish, tables, history, MovesTo
  <2>2. /\ run'[r].pc = "answered" /\ \A q \in Runs : run'[q].name = run[q].name
        /\ \A q \in Runs \ {r} : run'[q] = run[q]
        /\ \A q \in Runs : BeingDropped(q)' <=> BeingDropped(q)
        /\ \A d \in Callers : CallOf(d)'
        /\ ClosedMeansOver'
    BY <2>1, RunStepFrame
  <2>3. \A q \in Runs : HoldsItsBranch(q)'
    BY <2>1, <2>2, <1>1 DEF HoldsItsBranch, Unanswered
  <2>4. \A q \in Runs : Accounted(q)'
    BY <2>1, <2>2, <1>1 DEF Accounted
  <2>5. \A m \in Names : RowOf(m)'
    BY <2>1, <2>2, <1>1, HeldTokens DEF RowOf, Unanswered
  <2> QED BY <1>1, <2>1, <2>2, <2>3, <2>4, <2>5 DEF Inv
<1>23. ASSUME NEW r \in Runs, NEW remainder \in BOOLEAN, Describe(r, remainder)
      PROVE  Inv'
  <2>1. /\ MovesTo(r, "recording") /\ run[r].pc = "describing"
        /\ UNCHANGED <<status, busy, child, answer, future, token, recorded, told, collected,
                       disowned>>
        /\ UNCHANGED <<resolved, caller, closing>>
    BY <1>23 DEF Describe, tables, history, MovesTo
  <2>2. /\ run'[r].pc = "recording" /\ \A q \in Runs : run'[q].name = run[q].name
        /\ \A q \in Runs \ {r} : run'[q] = run[q]
        /\ \A q \in Runs : BeingDropped(q)' <=> BeingDropped(q)
        /\ \A d \in Callers : CallOf(d)'
        /\ ClosedMeansOver'
    BY <2>1, RunStepFrame
  <2>3. \A q \in Runs : HoldsItsBranch(q)'
    BY <2>1, <2>2, <1>1 DEF HoldsItsBranch, Unanswered
  <2>4. \A q \in Runs : Accounted(q)'
    BY <2>1, <2>2, <1>1 DEF Accounted
  <2>5. \A m \in Names : RowOf(m)'
    BY <2>1, <2>2, <1>1, HeldTokens DEF RowOf, Unanswered
  <2> QED BY <1>1, <2>1, <2>2, <2>3, <2>4, <2>5 DEF Inv
<1>24. ASSUME NEW r \in Runs, Land(r)
      PROVE  Inv'
  <2> DEFINE n == run[r].name
             pc == IF child[n] # 0 /\ status[n] # "cancelled" THEN "describing" ELSE "announcing"
  <2>1. /\ MovesTo(r, pc) /\ run[r].pc = "answered"
        /\ child' = [child EXCEPT ![n] = 0]
        /\ UNCHANGED <<status, busy, answer, future, token, recorded, told, collected, disowned>>
        /\ UNCHANGED <<resolved, caller, closing>>
    BY <1>24, Zenon DEF Land, Discarded, history, MovesTo
  <2>2. /\ run'[r].pc = pc /\ \A q \in Runs : run'[q].name = run[q].name
        /\ \A q \in Runs \ {r} : run'[q] = run[q]
        /\ run[r].name \in Names
        /\ \A q \in Runs : BeingDropped(q)' <=> BeingDropped(q)
        /\ \A d \in Callers : CallOf(d)'
        /\ ClosedMeansOver'
    BY <2>1, RunStepFrame
  <2>3. /\ child[n] = r /\ busy[n] = r /\ future[n] = r /\ r # 0
        /\ pc \in {"describing", "announcing"}
        /\ pc = "announcing" <=> r \in disowned
        /\ status[n] = IF r \in disowned THEN "cancelled" ELSE "running"
        /\ child'[n] = 0 /\ \A m \in Names \ {n} : child'[m] = child[m]
    BY <2>1, <2>2, <1>1, <1>2, HeldTokens DEF HoldsItsBranch, Unanswered, TablesOK
  <2> HIDE DEF n, pc
  <2>4. \A q \in Runs : HoldsItsBranch(q)' /\ Accounted(q)'
    <3>1. HoldsItsBranch(r)' /\ Accounted(r)'
      BY <2>1, <2>2, <2>3, <1>1 DEF HoldsItsBranch, Unanswered, Accounted, n
    <3>2. ASSUME NEW q \in Runs \ {r} PROVE HoldsItsBranch(q)' /\ Accounted(q)'
      <4>1. Unanswered(q) => run[q].name # n
        BY <1>1, <2>3 DEF HoldsItsBranch
      <4> QED BY <4>1, <2>1, <2>2, <2>3, <1>1 DEF HoldsItsBranch, Unanswered, Accounted
    <3> QED BY <3>1, <3>2
  <2>5. ASSUME NEW m \in Names PROVE RowOf(m)'
    <3>1. CASE m = n
      BY <3>1, <2>1, <2>2, <2>3, <1>1, HeldTokens DEF RowOf, Unanswered
    <3>2. CASE m # n
      <4>1. \A q \in {future[m], answer[m], busy[m], child[m]} : q # 0 => q \in Runs
        BY HeldTokens
      <4>2. RowOf(m) /\ (future[m] # 0 => future[m] # r)
        BY <3>2, <1>1, <2>2 DEF RowOf, n
      <4> QED BY <3>2, <4>1, <4>2, <2>1, <2>2, <2>3 DEF RowOf, Unanswered
    <3> QED BY <3>1, <3>2
  <2> QED BY <1>1, <2>1, <2>2, <2>3, <2>4, <2>5 DEF Inv
<1>25. ASSUME NEW r \in Runs, NEW outcome \in {"answered", "failed"}, Record(r, outcome)
      PROVE  Inv'
  <2> DEFINE n == run[r].name
  <2>1. /\ MovesTo(r, "announcing") /\ run[r].pc = "recording"
        /\ busy' = Released(n, r) /\ answer' = [answer EXCEPT ![n] = r]
        /\ recorded' = recorded \cup {r} /\ status' = [status EXCEPT ![n] = outcome]
        /\ status[n] # "cancelled" /\ caller' = Notified(caller)
        /\ UNCHANGED <<child, future, token, told, collected, disowned, resolved, closing>>
    BY <1>25 DEF Record, Discarded, MovesTo, history
  <2>2. /\ run'[r].pc = "announcing"
        /\ \A m \in Names : busy'[m] = busy[m] \/ (busy[m] = r /\ busy'[m] = 0 /\ m = n)
        /\ \A q \in Runs : run'[q].name = run[q].name
        /\ \A q \in Runs \ {r} : run'[q] = run[q]
        /\ run[r].name \in Names
        /\ \A q \in Runs : BeingDropped(q)' <=> BeingDropped(q)
        /\ \A d \in Callers : CallOf(d)'
        /\ ClosedMeansOver'
    BY <2>1, RunStepFrame
  <2>3. busy[n] = r /\ future[n] = r /\ r # 0 /\ r \notin disowned /\ status[n] = "running"
    BY <2>1, <1>1, HeldTokens DEF HoldsItsBranch, Unanswered
  <2>4. /\ busy'[n] = 0 /\ answer'[n] = r /\ status'[n] = outcome
        /\ \A m \in Names \ {n} :
            busy'[m] = busy[m] /\ answer'[m] = answer[m] /\ status'[m] = status[m]
    BY <2>1, <2>2, <2>3, <1>2 DEF Released, TablesOK
  <2> HIDE DEF n
  <2>5. \A q \in Runs : HoldsItsBranch(q)' /\ Accounted(q)'
    <3>1. HoldsItsBranch(r)' /\ Accounted(r)'
      BY <2>1, <2>2, <2>3, <1>1 DEF HoldsItsBranch, Unanswered, Accounted
    <3>2. ASSUME NEW q \in Runs \ {r} PROVE HoldsItsBranch(q)' /\ Accounted(q)'
      <4>1. Unanswered(q) => run[q].name # n
        BY <1>1, <2>3 DEF HoldsItsBranch
      <4> QED BY <4>1, <2>1, <2>2, <2>4, <1>1 DEF HoldsItsBranch, Unanswered, Accounted
    <3> QED BY <3>1, <3>2
  <2>6. ASSUME NEW m \in Names PROVE RowOf(m)'
    <3>1. CASE m = n
      <4>1. child[n] = 0
        BY <1>1, <2>1, <2>2, <2>3 DEF RowOf, BeingDropped, n
      <4> QED BY <3>1, <4>1, <2>1, <2>2, <2>3, <2>4 DEF RowOf, n
    <3>2. CASE m # n
      <4>1. \A q \in {future[m], answer[m], busy[m], child[m]} : q # 0 => q \in Runs
        BY HeldTokens
      <4>2. RowOf(m) /\ (future[m] # 0 => future[m] # r)
        BY <3>2, <1>1, <2>2 DEF RowOf, n
      <4> QED BY <3>2, <4>1, <4>2, <2>1, <2>2, <2>4 DEF RowOf, Unanswered
    <3> QED BY <3>1, <3>2
  <2> QED BY <1>1, <2>1, <2>2, <2>5, <2>6 DEF Inv
<1>26. ASSUME NEW r \in Runs, RecordCancelled(r)
      PROVE  Inv'
  <2>1. /\ MovesTo(r, "announcing") /\ run[r].pc = "recording"
        /\ status[run[r].name] = "cancelled"
        /\ UNCHANGED <<status, busy, child, answer, future, token, recorded, told, collected,
                       disowned>>
        /\ UNCHANGED <<resolved, caller, closing>>
    BY <1>26 DEF RecordCancelled, Discarded, tables, history, MovesTo
  <2>2. /\ run'[r].pc = "announcing" /\ \A q \in Runs : run'[q].name = run[q].name
        /\ \A q \in Runs \ {r} : run'[q] = run[q]
        /\ run[r].name \in Names
        /\ \A q \in Runs : BeingDropped(q)' <=> BeingDropped(q)
        /\ \A d \in Callers : CallOf(d)'
        /\ ClosedMeansOver'
    BY <2>1, RunStepFrame
  <2>3. r \in disowned
    BY <2>1, <1>1 DEF HoldsItsBranch, Unanswered
  <2>4. \A q \in Runs : HoldsItsBranch(q)' /\ Accounted(q)'
    BY <2>1, <2>2, <2>3, <1>1 DEF HoldsItsBranch, Unanswered, Accounted
  <2>5. ASSUME NEW m \in Names PROVE RowOf(m)'
    <3>1. RowOf(m) /\ \A q \in {future[m], answer[m], busy[m], child[m]} : q # 0 => q \in Runs
      BY <1>1, HeldTokens
    <3>2. status[m] = "running" => future[m] # r
      BY <3>1, <2>1, HeldTokens DEF RowOf
    <3> QED BY <3>1, <3>2, <2>1, <2>2 DEF RowOf, Unanswered
  <2> QED BY <1>1, <2>1, <2>2, <2>3, <2>4, <2>5 DEF Inv
<1>27. ASSUME NEW r \in Runs, Announce(r)
      PROVE  Inv'
  <2>1. /\ MovesTo(r, "exiting") /\ run[r].pc = "announcing"
        /\ recorded' = recorded \ {r}
        /\ told' = IF r \in recorded THEN [told EXCEPT ![r] = told[r] + 1] ELSE told
        /\ UNCHANGED <<status, busy, child, answer, future, token, collected, disowned>>
        /\ UNCHANGED <<resolved, caller, closing>>
    BY <1>27, SMTT(20) DEF Announce, MovesTo
  <2>2. /\ run'[r].pc = "exiting" /\ \A q \in Runs : run'[q].name = run[q].name
        /\ \A q \in Runs \ {r} : run'[q] = run[q]
        /\ run[r].name \in Names
        /\ \A q \in Runs : BeingDropped(q)' <=> BeingDropped(q)
        /\ \A d \in Callers : CallOf(d)'
        /\ ClosedMeansOver'
    BY <2>1, RunStepFrame
  <2>3. /\ told'[r] = IF r \in disowned THEN 0 ELSE 1
        /\ \A q \in Runs \ {r} : told'[q] = told[q]
    <3>1. /\ told[r] = 0
          /\ r \in recorded => r \notin disowned
          /\ r \in recorded \/ r \in disowned
      BY <2>1, <1>1 DEF Accounted
    <3> QED BY <2>1, <1>2, <3>1 DEF HistoryOK
  <2>4. \A q \in Runs : HoldsItsBranch(q)' /\ Accounted(q)'
    <3>1. HoldsItsBranch(r)' /\ Accounted(r)'
      BY <2>1, <2>2, <2>3, <1>1 DEF HoldsItsBranch, Unanswered, Accounted
    <3>2. ASSUME NEW q \in Runs \ {r} PROVE HoldsItsBranch(q)' /\ Accounted(q)'
      BY <2>1, <2>2, <2>3, <1>1 DEF HoldsItsBranch, Unanswered, Accounted
    <3> QED BY <3>1, <3>2
  <2>5. ASSUME NEW m \in Names PROVE RowOf(m)'
    <3>1. RowOf(m) /\ \A q \in {future[m], answer[m], busy[m], child[m]} : q # 0 => q \in Runs
      BY <1>1, HeldTokens
    <3> QED BY <3>1, <2>1, <2>2 DEF RowOf, Unanswered
  <2> QED BY <1>1, <2>1, <2>2, <2>3, <2>4, <2>5 DEF Inv
<1>28. ASSUME NEW r \in Runs, Exit(r)
      PROVE  Inv'
  <2> DEFINE n == run[r].name
  <2>1. /\ MovesTo(r, "over") /\ run[r].pc = "exiting"
        /\ busy' = Released(n, r) /\ resolved' = resolved \cup {r}
        /\ UNCHANGED <<status, child, answer, future, token, recorded, told, collected, disowned>>
        /\ UNCHANGED <<caller, closing>>
    BY <1>28 DEF Exit, history, MovesTo
  <2>2. /\ run'[r].pc = "over"
        /\ \A m \in Names : busy'[m] = busy[m] \/ (busy[m] = r /\ busy'[m] = 0 /\ m = n)
        /\ \A q \in Runs : run'[q].name = run[q].name
        /\ \A q \in Runs \ {r} : run'[q] = run[q]
        /\ run[r].name \in Names
        /\ \A q \in Runs : BeingDropped(q)' <=> BeingDropped(q)
        /\ \A d \in Callers : CallOf(d)'
        /\ ClosedMeansOver'
    BY <2>1, RunStepFrame
  <2>3. \A m \in Names : /\ busy'[m] # r /\ (busy'[m] = busy[m] \/ (busy'[m] = 0 /\ busy[m] = r))
                         /\ child[m] # r
    <3>1. busy'[n] # r /\ r # 0
      BY <2>1, <2>2, <1>2, HeldTokens DEF Released, TablesOK
    <3>2. ASSUME NEW m \in Names PROVE child[m] # r /\ (m # n => busy[m] # r)
      BY <1>1, <2>1, <3>1 DEF RowOf, BeingDropped
    <3> QED BY <3>1, <3>2, <2>2
  <2> HIDE DEF n
  <2>4. \A q \in Runs : HoldsItsBranch(q)' /\ Accounted(q)'
    <3>1. HoldsItsBranch(r)' /\ Accounted(r)'
      BY <2>1, <2>2, <1>1 DEF HoldsItsBranch, Unanswered, Accounted
    <3>2. ASSUME NEW q \in Runs \ {r} PROVE HoldsItsBranch(q)' /\ Accounted(q)'
      BY <2>1, <2>2, <2>3, <1>1 DEF HoldsItsBranch, Unanswered, Accounted
    <3> QED BY <3>1, <3>2
  <2>5. ASSUME NEW m \in Names PROVE RowOf(m)'
    <3>1. RowOf(m) /\ \A q \in {future[m], answer[m], busy[m], child[m]} : q # 0 => q \in Runs
      BY <1>1, HeldTokens
    <3>2. child[m] = 0 \/ busy'[m] = busy[m]
      BY <3>1, <2>3 DEF RowOf
    <3> QED BY <3>1, <3>2, <2>1, <2>2, <2>3 DEF RowOf, Unanswered
  <2> QED BY <1>1, <2>1, <2>2, <2>3, <2>4, <2>5 DEF Inv
<1>29. ASSUME NEW r \in Runs, StoppedWhileLanding(r)
      PROVE  Inv'
  BY <1>29 DEF StoppedWhileLanding
<1>30. ASSUME Sweep
      PROVE  Inv'
  <2>1. /\ UNCHANGED <<busy, child, future, token, run, recorded, told, collected, disowned>>
        /\ UNCHANGED <<resolved, caller, closing>>
    BY <1>30 DEF Sweep, runVars, history
  <2>2. \A m \in Names :
          \/ status'[m] = status[m] /\ answer'[m] = answer[m]
          \/ /\ status[m] # "running" /\ busy[m] = 0
             /\ status'[m] = "expired" /\ answer'[m] = 0
    BY <1>30 DEF Sweep, Idlers
  <2>3. ASSUME NEW q \in Runs PROVE HoldsItsBranch(q)'
    <3>1. Unanswered(q) => run[q].name \in Names /\ busy[run[q].name] # 0
      BY <1>1, HeldTokens DEF HoldsItsBranch
    <3> QED BY <3>1, <2>1, <2>2, <1>1 DEF HoldsItsBranch, Unanswered
  <2>4. \A q \in Runs : Accounted(q)'
    BY <2>1, <1>1 DEF Accounted
  <2>5. \A m \in Names : RowOf(m)'
    BY <2>1, <2>2, <1>1 DEF RowOf, Unanswered, BeingDropped
  <2>6. (\A d \in Callers : CallOf(d)') /\ ClosedMeansOver'
    BY <2>1, <1>1 DEF CallOf, Asking, ClosedMeansOver
  <2> QED BY <1>1, <2>1, <2>3, <2>4, <2>5, <2>6 DEF Inv
<1>31. ASSUME CloseEnd
      PROVE  Inv'
  <2>1. /\ UNCHANGED <<status, busy, answer, future, token, run, recorded, told, collected>>
        /\ UNCHANGED <<disowned, resolved, caller>>
        /\ \A m \in Names : child'[m] = 0
    BY <1>31 DEF CloseEnd, runVars, history
  <2>2. \A q \in Runs : run[q].pc \in {"none", "over", "dropped"}
    BY <1>31, <1>1, <1>2 DEF CloseEnd, Accounted
  <2>3. \A q \in Runs : HoldsItsBranch(q)' /\ Accounted(q)'
    BY <2>1, <2>2, <1>1 DEF HoldsItsBranch, Unanswered, Accounted
  <2>4. \A m \in Names : RowOf(m)'
    BY <2>1, <1>1 DEF RowOf, Unanswered, BeingDropped
  <2>5. (\A d \in Callers : CallOf(d)') /\ ClosedMeansOver'
    BY <2>1, <2>2, <1>1 DEF CallOf, Asking, ClosedMeansOver
  <2> QED BY <1>1, <2>1, <2>3, <2>4, <2>5 DEF Inv
<1>32. ASSUME NEW c \in Callers, SubmitUnscheduled(c)
      PROVE  Inv'
  <2> DEFINE n == caller[c].name
  <2>1. /\ token' = token + 1 /\ n \in Names /\ busy[n] = 0 /\ child[n] = 0
        /\ caller[c].pc \in {"forked", "reopened"}
    BY <1>32, <1>1, HeldTokens DEF SubmitUnscheduled, TakeToken, MayInstall, TInv, Named, RowOf
  <2>2. UNCHANGED <<busy, future, run, recorded, resolved, closing, told, collected, disowned>>
    BY <1>32 DEF SubmitUnscheduled, runVars
  <2>3. /\ status' = [status EXCEPT ![n] = "running"] /\ answer' = [answer EXCEPT ![n] = 0]
        /\ child' = [child EXCEPT ![n] = 0]
    BY <1>32 DEF SubmitUnscheduled, Forgotten
  <2>4. /\ status'[n] = "running" /\ answer'[n] = 0 /\ child' = child
        /\ \A m \in Names \ {n} : status'[m] = status[m] /\ answer'[m] = answer[m]
    BY <2>1, <2>3, <1>2 DEF TablesOK
  <2>5. caller'[c].pc = "idle" /\ \A d \in Callers \ {c} : caller'[d] = caller[d]
    BY <1>32, <1>2, AtFields DEF SubmitUnscheduled, AtRest
  <2> HIDE DEF n
  <2>6. ASSUME NEW q \in Runs PROVE HoldsItsBranch(q)'
    <3>1. Unanswered(q) => run[q].name # n
      BY <2>1, <1>1, HeldTokens DEF HoldsItsBranch
    <3> QED BY <3>1, <2>2, <2>4, <1>1 DEF HoldsItsBranch, Unanswered
  <2>7. \A q \in Runs : Accounted(q)'
    BY <2>1, <2>2, <1>1, HeldTokens DEF Accounted, Runs
  <2>8. \A m \in Names : RowOf(m)'
    <3>1. \A q : BeingDropped(q) => BeingDropped(q)'
      BY <2>1, <2>2, <2>5 DEF BeingDropped
    <3> QED BY <3>1, <2>1, <2>2, <2>4, <1>1 DEF RowOf, Unanswered
  <2>9. \A d \in Callers : CallOf(d)'
    BY <2>2, <2>5, <1>1 DEF CallOf, Asking
  <2>10. ClosedMeansOver'
    BY <2>2, <2>4, <1>1 DEF ClosedMeansOver
  <2> QED BY <1>1, <2>2, <2>6, <2>7, <2>8, <2>9, <2>10 DEF Inv
<1>33. ASSUME SweepFails
      PROVE  Inv'
  BY <1>33, QuietStep DEF SweepFails, tables, runVars, history
<1> QED BY <1>3, <1>4, <1>5, <1>6, <1>7, <1>8, <1>9, <1>10, <1>11, <1>12, <1>13, <1>14, <1>15,
   <1>16, <1>17, <1>18, <1>19, <1>20, <1>21, <1>22, <1>23, <1>24, <1>25, <1>26, <1>27, <1>28,
   <1>29, <1>30, <1>31, <1>32, <1>33 DEF Next, CallBegin, CallStep,
   RunStep

-----------------------------------------------------------------------------
(* Collecting once, with threads or an event loop *)

\* Where a run is once its answer, if it had one to give, is in the table.
PastRecording == {"announcing", "exiting", "over"}

\* An answer in the table is of a run of that child, which has recorded it, and
\* what has been collected was recorded.
Recorded ==
    /\ \A n \in Names : answer[n] # 0 =>
          run[answer[n]].name = n /\ run[answer[n]].pc \in PastRecording
    /\ \A r \in Runs : collected[r] # "no" => run[r].pc \in PastRecording

\* An answer still to be taken was not collected, and none was taken again.
Fresh ==
    /\ \A n \in uncollected : answer[n] # 0 => collected[answer[n]] = "no"
    /\ \A r \in Runs : collected[r] # "again"

Collecting == Recorded /\ Fresh

\* A token in the tables is a run's.
LEMMA AnswersAreRuns ==
  ASSUME TInv
  PROVE  /\ \A n \in Names : answer[n] # 0 => answer[n] \in Runs
         /\ uncollected \subseteq Names /\ 0 \notin Runs
         /\ answer \in [Names -> Nat]
         /\ collected \in [Runs -> {"no", "read", "taken", "again"}]
<1>1. token \in Nat /\ token <= MaxRuns /\ MaxRuns \in Nat
  BY AskingIsFinite, SessionsAssumption
     DEF TInv, TypeOK, TablesOK, Budget, SessionsAssumption
<1> QED BY <1>1 DEF TInv, TypeOK, TablesOK, HistoryOK, Runs

\* A run that is past recording stays there, and its child's.
LEMMA PastStays ==
  ASSUME TInv, [Next]_vars, NEW r \in Runs, run[r].pc \in PastRecording
  PROVE  run'[r].name = run[r].name /\ run'[r].pc \in PastRecording
<1>1. run \in [Runs -> RunStates]
  BY DEF TInv, TypeOK
<1>2. r <= token /\ token \in Nat
  BY DEF TInv, TypeOK, TablesOK, Named, PastRecording
<1>3. ASSUME NEW c \in Callers, NEW wait \in BOOLEAN, Submit(c, wait)
      PROVE  run'[r] = run[r]
  BY <1>1, <1>2, <1>3 DEF Submit
<1>4. ASSUME NEW c \in Callers, CallBegin(c) PROVE run' = run
  BY <1>4 DEF CallBegin, AskFork, ResumeCheck, CancelMark, Result, Take, Keep, Wait, tables,
     runVars
<1>5. ASSUME NEW c \in Callers, CallStep(c)
      PROVE  run'[r] = run[r]
  BY <1>1, <1>3, <1>5 DEF CallStep, ResumeOpen, SubmitUnscheduled, SubmitRefused, CancelTask, CancelFuture,
     CancelAsyncFuture, CancelTooLate, CancelRelease, Join, WaitLook, runVars, PastRecording
<1>6. ASSUME NEW q \in Runs, RunStep(q)
      PROVE  run'[r].name = run[r].name /\ run'[r].pc \in PastRecording
  BY <1>1, <1>6 DEF RunStep, Start, Finish, Land, Describe, Record, RecordCancelled, Announce,
     Exit, StoppedWhileLanding, PastRecording, RunStates
<1>7. ASSUME \/ (\E n \in Names : Idle(n)) \/ Sweep \/ SweepFails \/ CloseBegin \/ CloseEnd
             \/ UNCHANGED vars
      PROVE  run' = run
  BY <1>7 DEF Idle, Sweep, SweepFails, CloseBegin, CloseEnd, runVars, vars
<1> QED BY <1>4, <1>5, <1>6, <1>7 DEF Next

\* A step that leaves the answers to be collected as they are, or forgets some.
LEMMA LessToCollect ==
  ASSUME TInv, Collecting, [Next]_vars, UNCHANGED collected,
         uncollected' \subseteq uncollected,
         \A n \in Names : answer'[n] \in {answer[n], 0}
  PROVE  Collecting'
<1>1. \A n \in Names : answer'[n] # 0 =>
         run'[answer'[n]].name = n /\ run'[answer'[n]].pc \in PastRecording
  BY AnswersAreRuns, PastStays DEF Collecting, Recorded
<1>2. \A r \in Runs : collected'[r] # "no" => run'[r].pc \in PastRecording
  BY PastStays DEF Collecting, Recorded
<1>3. Fresh'
  BY AnswersAreRuns DEF Collecting, Fresh
<1> QED BY <1>1, <1>2, <1>3 DEF Collecting, Recorded

\* Reading the answer of one child.
LEMMA ReadCollects ==
  ASSUME TInv, Collecting, NEW n \in Names, answer[n] # 0,
         UNCHANGED <<answer, run>>, uncollected' = uncollected \ {n},
         collected' = [collected EXCEPT ![answer[n]] = Collect(answer[n], "read")]
  PROVE  Collecting'
<1>1. /\ answer[n] \in Runs /\ uncollected \subseteq Names
      /\ collected \in [Runs -> {"no", "read", "taken", "again"}]
  BY AnswersAreRuns
<1>2. \A q \in Runs : collected'[q] = IF q = answer[n] THEN Collect(q, "read") ELSE collected[q]
  BY <1>1
<1>3. \A m \in uncollected' : answer[m] # 0 => answer[m] \in Runs /\ answer[m] # answer[n]
  BY <1>1, AnswersAreRuns DEF Collecting, Recorded
<1>4. \A m \in uncollected' : answer'[m] # 0 => collected'[answer'[m]] = "no"
  BY <1>2, <1>3 DEF Collecting, Fresh
<1>5. \A q \in Runs : collected'[q] # "again"
  BY <1>2 DEF Collecting, Fresh, Collect
<1>6. Recorded'
  BY <1>2 DEF Collecting, Recorded
<1> QED BY <1>4, <1>5, <1>6 DEF Collecting, Fresh

LEMMA TakeCollects ==
  ASSUME TInv, Collecting, NEW c \in Callers, Take(c)
  PROVE  Collecting'
<1>1. UNCHANGED <<answer, run>> /\ uncollected' = {}
  BY DEF Take, runVars
<1>2. ASSUME NEW q \in Runs
      PROVE  /\ collected'[q] # "again"
             /\ collected'[q] # collected[q] => \E n \in Names : answer[n] = q
  <2>1. CASE \E n \in uncollected : answer[n] = q
    BY <2>1, AnswersAreRuns DEF Take, Collecting, Fresh, Collect
  <2>2. CASE ~\E n \in uncollected : answer[n] = q
    BY <2>2 DEF Take, Collecting, Fresh
  <2> QED BY <2>1, <2>2
<1>3. Recorded'
  BY <1>1, <1>2, AnswersAreRuns DEF Collecting, Recorded
<1> QED BY <1>1, <1>2, <1>3 DEF Collecting, Fresh

\* A run records once, before anything of it can be collected.
LEMMA RecordCollects ==
  ASSUME TInv, Collecting, [Next]_vars, NEW r \in Runs,
         NEW outcome \in {"answered", "failed"}, Record(r, outcome)
  PROVE  Collecting'
<1>1. /\ uncollected' = uncollected \cup {run[r].name} /\ UNCHANGED collected
      /\ answer' = [answer EXCEPT ![run[r].name] = r] /\ run[r].pc = "recording"
      /\ run' = [run EXCEPT ![r].pc = "announcing"]
      /\ run[r].name \in Names /\ run \in [Runs -> RunStates]
  BY DEF Record, history, TInv, TypeOK, Named
<1>2. collected[r] = "no"
  BY <1>1 DEF Collecting, Recorded, PastRecording
<1>3. \A m \in Names : answer'[m] = IF m = run[r].name THEN r ELSE answer[m]
  BY <1>1, AnswersAreRuns
<1>4. run'[r].name = run[r].name /\ run'[r].pc \in PastRecording
  BY <1>1 DEF PastRecording, RunStates
<1>5. \A m \in Names : answer'[m] # 0 =>
         run'[answer'[m]].name = m /\ run'[answer'[m]].pc \in PastRecording
  BY <1>3, <1>4, AnswersAreRuns, PastStays DEF Collecting, Recorded
<1>6. \A q \in Runs : collected'[q] # "no" => run'[q].pc \in PastRecording
  BY <1>1, PastStays DEF Collecting, Recorded
<1>7. Fresh'
  BY <1>1, <1>2, <1>3, AnswersAreRuns DEF Collecting, Fresh
<1> QED BY <1>5, <1>6, <1>7 DEF Collecting, Recorded

LEMMA CollectingKept ==
  ASSUME TInv, Collecting, [Next]_vars
  PROVE  Collecting'
<1>1. ASSUME UNCHANGED <<answer, uncollected, collected>> PROVE Collecting'
  BY <1>1, LessToCollect
<1>2. ASSUME NEW c \in Callers, CallBegin(c) PROVE Collecting'
  <2>1. ASSUME NEW n \in Names, Result(c, n) PROVE Collecting'
    BY <2>1, ReadCollects DEF Result, runVars
  <2> QED BY <1>1, <1>2, <2>1, TakeCollects
          DEF CallBegin, AskFork, ResumeCheck, CancelMark, Keep, Wait, tables, history
<1>3. ASSUME NEW c \in Callers, CallStep(c) PROVE Collecting'
  <2>1. ASSUME Join(c) PROVE Collecting'
    <3>1. caller[c].name \in Names /\ UNCHANGED <<answer, run>>
      BY <2>1 DEF Join, TInv, Named, runVars
    <3>2. \/ UNCHANGED <<uncollected, collected>>
          \/ /\ answer[caller[c].name] # 0 /\ uncollected' = uncollected \ {caller[c].name}
             /\ collected' = [collected EXCEPT ![answer[caller[c].name]] =
                                  Collect(answer[caller[c].name], "read")]
      BY <2>1, Zenon DEF Join
    <3> QED BY <1>1, <3>1, <3>2, ReadCollects
  <2>2. ASSUME NEW wait \in BOOLEAN, Submit(c, wait) PROVE Collecting'
    <3>1. /\ uncollected' \subseteq uncollected /\ UNCHANGED collected
          /\ answer' = [answer EXCEPT ![caller[c].name] = 0]
      BY <2>2 DEF Submit, Forgotten
    <3>2. \A n \in Names : answer'[n] \in {answer[n], 0}
      BY <3>1, AnswersAreRuns
    <3> QED BY <3>1, <3>2, LessToCollect
  <2>3. ASSUME SubmitUnscheduled(c) PROVE Collecting'
    <3>1. /\ uncollected' \subseteq uncollected /\ UNCHANGED collected
          /\ answer' = [answer EXCEPT ![caller[c].name] = 0]
      BY <2>3 DEF SubmitUnscheduled, Forgotten
    <3>2. \A n \in Names : answer'[n] \in {answer[n], 0}
      BY <3>1, AnswersAreRuns
    <3> QED BY <3>1, <3>2, LessToCollect
  <2> QED BY <1>1, <1>3, <2>1, <2>2, <2>3 DEF CallStep, ResumeOpen, SubmitRefused, CancelTask,
             CancelFuture, CancelAsyncFuture, CancelTooLate, CancelRelease, WaitLook, tables,
             history
<1>4. ASSUME NEW r \in Runs, RunStep(r) PROVE Collecting'
  BY <1>1, <1>4, RecordCollects DEF RunStep, Start, Finish, Land, Describe, RecordCancelled,
     Announce, Exit, StoppedWhileLanding, tables, history
<1>5. ASSUME Sweep PROVE Collecting'
  <2>1. /\ uncollected' \subseteq uncollected /\ UNCHANGED collected
        /\ \A n \in Names : answer'[n] \in {answer[n], 0}
    BY <1>5 DEF Sweep, history
  <2> QED BY <2>1, LessToCollect
<1>6. ASSUME \/ (\E n \in Names : Idle(n)) \/ SweepFails \/ CloseBegin \/ CloseEnd
             \/ UNCHANGED vars
      PROVE  Collecting'
  BY <1>1, <1>6 DEF Idle, SweepFails, CloseBegin, CloseEnd, tables, history, vars
<1> QED BY <1>2, <1>3, <1>4, <1>5, <1>6 DEF Next

-----------------------------------------------------------------------------
(* Theorems *)

\* What the invariant says holds in every reachable state.
THEOREM InvHolds ==
  ASSUME ~AsyncRunner
  PROVE  Spec => [](TInv /\ Inv)
<1>1. Init => TInv /\ Inv
  BY InitTypes, InitInv
<1>2. TInv /\ Inv /\ [Next]_vars => (TInv /\ Inv)'
  <2>1. TInv /\ [Next]_vars => TInv'
    BY TypesKept
  <2>2. ASSUME TInv, Inv, UNCHANGED vars PROVE Inv'
    BY <2>2, QuietStep DEF vars, tables, runVars, history
  <2> QED BY <2>1, <2>2, StepInv
<1> QED BY <1>1, <1>2, PTL DEF Spec

\* _submit reserves the branch and _release gives it up only for its own
\* run: no two runs ever drive one child or land on its row, however
\* resumes, cancels and late exits interleave.
THEOREM OneRunPerBranchHolds ==
  ASSUME ~AsyncRunner
  PROVE  Spec => []OneRunPerBranch
<1>1. Inv => OneRunPerBranch
  BY DEF Inv, HoldsItsBranch, Unanswered, OneRunPerBranch, Acting
<1> QED BY <1>1, InvHolds, PTL

\* The answer that result() and take() hand out answers the task last asked
\* of that child: _record writes it while its own job is the row's.
THEOREM AnswersItsOwnTaskHolds ==
  ASSUME ~AsyncRunner
  PROVE  Spec => []AnswersItsOwnTask
<1>1. Inv => AnswersItsOwnTask
  BY DEF Inv, RowOf, AnswersItsOwnTask
<1> QED BY <1>1, InvHolds, PTL

\* _announce tells on_answer of every recorded answer exactly once, before
\* the run exits, and of no cancelled run's.
THEOREM ToldUnlessDisownedHolds ==
  ASSUME ~AsyncRunner
  PROVE  Spec => []ToldUnlessDisowned
<1>1. Inv => ToldUnlessDisowned
  BY DEF Inv, Accounted, ToldUnlessDisowned
<1> QED BY <1>1, InvHolds, PTL

\* Cancel wins outright: once cancel() has marked a run's job, its answer is
\* never held, never waits to be announced and is never collected.
THEOREM CancelDiscardsTheAnswerHolds ==
  ASSUME ~AsyncRunner
  PROVE  Spec => []CancelDiscardsTheAnswer
<1>1. Inv => CancelDiscardsTheAnswer
  <2> SUFFICES ASSUME Inv, NEW r \in disowned
               PROVE  /\ r \notin recorded /\ collected[r] = "no"
                      /\ \A n \in Names : answer[n] # r
    BY DEF CancelDiscardsTheAnswer
  <2>1. r \in Runs /\ Accounted(r)
    BY DEF Inv
  <2>2. r \notin recorded /\ collected[r] = "no"
    BY <2>1 DEF Accounted
  <2>3. ASSUME NEW n \in Names PROVE answer[n] # r
    BY <2>1, SessionsAssumption DEF Inv, RowOf, Runs, SessionsAssumption
  <2> QED BY <2>2, <2>3
<1> QED BY <1>1, InvHolds, PTL

\* A child handle that is open belongs to a run that has yet to land, or to
\* a cancel that is about to close it: no interleaving of _submit, _land and
\* cancel leaks one.
THEOREM HandlesHaveARunHolds ==
  ASSUME ~AsyncRunner
  PROVE  Spec => []HandlesHaveARun
<1>1. Inv => HandlesHaveARun
  BY DEF Inv, RowOf, BeingDropped, HandlesHaveARun
<1> QED BY <1>1, InvHolds, PTL

\* close() returns only when every run is over, no handle is open, and no
\* branch is reserved but for a cancel still returning; _submit's second
\* look at the closing flag lets no run in after it.
THEOREM ClosedIsQuietHolds ==
  ASSUME ~AsyncRunner
  PROVE  Spec => []ClosedIsQuiet
<1>1. TInv /\ Inv => ClosedIsQuiet
  <2> SUFFICES ASSUME TInv, Inv, closing = "closed", NEW n \in Names, busy[n] # 0
               PROVE  BeingDropped(busy[n])
    BY DEF Inv, ClosedMeansOver, ClosedIsQuiet, BeingDropped
  <2>1. busy[n] \in Runs /\ RowOf(n) /\ Accounted(busy[n]) /\ ClosedMeansOver
    BY HeldTokens DEF Inv
  <2> QED BY <2>1 DEF RowOf, ClosedMeansOver
<1> QED BY <1>1, InvHolds, PTL

\* take() hands an answer over once, and never one that result() or a
\* waiting ask() already returned, however many callers collect at once.
THEOREM TakenOnceHolds == Spec => []TakenOnce
<1>1. Init => Collecting
  BY AnswersAreRuns, InitTypes DEF Init, Collecting, Recorded, Fresh
<1>2. TInv /\ Collecting /\ [Next]_vars => Collecting'
  BY CollectingKept
<1>3. Collecting => TakenOnce
  BY DEF Collecting, Fresh, TakenOnce
<1>4. Spec => []TInv
  BY InitTypes, TypesKept, PTL DEF Spec
<1> QED BY <1>1, <1>2, <1>3, <1>4, PTL DEF Spec
=============================================================================
