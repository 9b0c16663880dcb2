--------------------------- MODULE InstanceStore ----------------------------
(***************************************************************************)
(* What db::Database (src/src/db/orm.cpp) promises to its callers, without *)
(* statements, transactions and connections: each write takes effect once  *)
(* and as a whole, or not at all, and only an exception leaves it open     *)
(* which of the two.  Module Database is shown to implement this one.      *)
(***************************************************************************)
EXTENDS Schema

VARIABLES
  rows,        \* the rows of the tables
  req,         \* req[n]: the arguments of call n
  state,       \* state[n]: how far call n has come
  loaded       \* loaded[n]: the rows call n has read

storeVars == <<rows, req, state, loaded>>

StoreInit ==
  /\ rows = {}
  /\ req = [n \in Calls |-> NoRequest]
  /\ state = [n \in Calls |-> "new"]
  /\ loaded = [n \in Calls |-> {}]

Invoke(n, rq) ==
  /\ state[n] = "new"
  /\ req' = [req EXCEPT ![n] = rq]
  /\ state' = [state EXCEPT ![n] = "open"]
  /\ UNCHANGED <<rows, loaded>>

-----------------------------------------------------------------------------
(* The tables after the write of call n.                                   *)

(* saveProcessInstance replaces the row and the variables of the instance. *)
(* It may miss variables of user tasks.  (Of any, for the store does not   *)
(* know which calls ran at the same time; DatabaseHistory does.)           *)
SaveEffect(n) ==
  LET i == req[n].inst
      new == RowsOf(n, req[n])
      ofTasks == {v \in VariableRows(rows, i) : req[v.value].op = "task"}
      keep == {v \in ofTasks : \A w \in new : v.pk # w.pk}
      gone(kept) == InstanceRows(rows, i) \cup (VariableRows(rows, i) \ kept)
  IN \E kept \in SUBSET keep :
       rows' = (rows \ gone(kept))
                 \cup Upserted(InstanceRows(rows, i), i, n) \cup new

(* saveUserTask adds the task and its variables, all under fresh keys.     *)
TaskEffect(n) ==
  LET i == req[n].inst
      new == RowsOf(n, req[n])
  IN /\ InstanceRows(rows, i) # {}
     /\ \A k \in Range(req[n].vars) : KeyFor(req[n], k) # TooLong
     /\ \A v \in rows, w \in new : v.pk # w.pk
     /\ rows' = rows \cup new \cup {TaskRow(i, req[n].task, n)}

CompleteEffect(n) ==
  LET old == InstanceRows(rows, req[n].inst)
  IN rows' = (rows \ old) \cup Completed(old, req[n].inst)

ErrorEffect(n) ==
  /\ InstanceRows(rows, req[n].inst) # {}
  /\ rows' = rows \cup {ErrorRow(req[n].inst, n)}

(* The write happens, and the caller is told so or gets an exception.      *)
Write(n) ==
  /\ state[n] = "open"
  /\ \/ req[n].op = "save" /\ SaveEffect(n)
     \/ req[n].op = "task" /\ TaskEffect(n)
     \/ req[n].op = "complete" /\ CompleteEffect(n)
     \/ req[n].op = "error" /\ ErrorEffect(n)
  /\ \E outcome \in {"returned", "threw"} :
       state' = [state EXCEPT ![n] = outcome]
  /\ UNCHANGED <<req, loaded>>

-----------------------------------------------------------------------------
(* loadProcessInstance reads the row and the variables at two moments.     *)
ReadInstance(n) ==
  LET found == {r \in InstanceRows(rows, req[n].inst) : r.status = "RUNNING"}
  IN /\ state[n] = "open"
     /\ req[n].op = "load"
     /\ loaded' = [loaded EXCEPT ![n] = found]
     /\ state' = [state EXCEPT ![n] = IF found = {} THEN "threw" ELSE "found"]
     /\ UNCHANGED <<rows, req>>

ReadVariables(n) ==
  /\ state[n] = "found"
  /\ loaded' = [loaded EXCEPT ![n] = @ \cup VariableRows(rows, req[n].inst)]
  /\ state' = [state EXCEPT ![n] = "returned"]
  /\ UNCHANGED <<rows, req>>

(* The call throws and has changed nothing.                                *)
Refuse(n) ==
  /\ state[n] \in {"open", "found"}
  /\ state' = [state EXCEPT ![n] = "threw"]
  /\ UNCHANGED <<rows, req, loaded>>

StoreStep(n) ==
  Write(n) \/ ReadInstance(n) \/ ReadVariables(n) \/ Refuse(n)

StoreNext ==
  \E n \in Calls : (\E rq \in Request : Invoke(n, rq)) \/ StoreStep(n)

StoreSpec == StoreInit /\ [][StoreNext]_storeVars
=============================================================================
