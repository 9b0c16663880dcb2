-------------------------- MODULE DatabaseHistory ---------------------------
(***************************************************************************)
(* Database with an auxiliary variable that remembers which calls came     *)
(* before which.                                                           *)
(***************************************************************************)
EXTENDS Database

VARIABLE before    \* before[n]: the calls that had ended when n was made

historyVars == <<vars, before>>

HistoryInit == Init /\ before = [n \in Calls |-> {}]

Ended == {m \in Calls : pc[m] \in Finished}

HistoryNext ==
  /\ Next
  /\ before' = [n \in Calls |-> IF pc[n] = "new" /\ pc'[n] # "new" THEN Ended
                               ELSE before[n]]

HistorySpec == HistoryInit /\ [][HistoryNext]_historyVars

(* ... with the fairness of the statements.                                *)
HistoryFairSpec == HistorySpec /\ EveryStatementEnds

-----------------------------------------------------------------------------
(* saveProcessInstance replaces all variables that were stored when it was *)
(* called, those of user tasks included.  It may miss only those of a      *)
(* saveUserTask that runs at the same time and commits between its DELETE  *)
(* and its COMMIT.                                                         *)
SaveReplacesEarlierCalls ==
  \A i \in Instances : \A r \in InstanceRows(committed, i) :
    \A v \in VariableRows(committed, i) : v.value \notin before[r.element]
=============================================================================
