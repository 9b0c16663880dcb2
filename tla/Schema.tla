------------------------------- MODULE Schema -------------------------------
(***************************************************************************)
(* The tables Database::initializeSchema creates (src/src/db/orm.cpp) and  *)
(* the arguments of the methods that use them.                             *)
(*                                                                         *)
(* The data a call passes (process id, current element, variable values)   *)
(* is fresh: a row holds the number of the call that supplied it.  The     *)
(* field pk of a row is its table and the value of its unique key.         *)
(***************************************************************************)
EXTENDS Naturals, Sequences, Functions

CONSTANTS
  Calls,       \* the calls that are ever made, numbered in that order
  Instances,   \* ids of process instances
  Tasks,       \* ids of user tasks
  Names,       \* variable names that fit into var_key VARCHAR(255)
  TooLong,     \* stands for every longer name
  taskKey,     \* taskKey[t, k]: the name "task_" + t + "_" + k
  Ops,         \* the operations callers use
  Inputs       \* the variables callers pass: names in std::map order

ASSUME CallsAssumption == Calls \subseteq Nat

ASSUME TooLongAssumption == TooLong \notin Names

ASSUME TaskKeyAssumption ==
  /\ taskKey \in [Tasks \X Names -> Names \cup {TooLong}]
  /\ \A t \in Tasks : \A j, k \in Names :
       taskKey[t, j] = taskKey[t, k] /\ taskKey[t, j] # TooLong => j = k

ASSUME InputsAssumption ==
  /\ Inputs \subseteq Seq(Names)
  /\ \A s \in Inputs : \A j, k \in DOMAIN s : s[j] = s[k] => j = k

-----------------------------------------------------------------------------
(* The arguments of saveProcessInstance, saveUserTask, loadProcessInstance,*)
(* completeProcessInstance and saveError.                                  *)
Request ==
  {rq \in      [op : {"save"}, inst : Instances, vars : Inputs]
          \cup [op : {"task"}, inst : Instances, vars : Inputs, task : Tasks]
          \cup [op : {"load", "complete", "error"}, inst : Instances] :
     rq.op \in Ops}

NoRequest == [op |-> "none"]

InstanceRow(i, p, e, s) ==
  [pk |-> <<"instance", i>>, process |-> p, element |-> e, status |-> s]

VariableRow(i, k, n) == [pk |-> <<"variable", i, k>>, value |-> n]

TaskRow(i, t, n) == [pk |-> <<"task", n>>, inst |-> i, task |-> t]

ErrorRow(i, n) == [pk |-> <<"error", n>>, inst |-> i]

(* Every row of the tables is of one of these forms.                       *)
Rows ==
       [pk : {"instance"} \X Instances, process : Calls, element : Calls,
        status : {"RUNNING", "COMPLETED"}]
  \cup [pk : {"variable"} \X Instances \X Names, value : Calls]
  \cup [pk : {"task"} \X Calls, inst : Instances, task : Tasks]
  \cup [pk : {"error"} \X Calls, inst : Instances]

InstanceRows(S, i) == {r \in S : r.pk = <<"instance", i>>}

VariableRows(S, i) == {r \in S : \E k \in Names : r.pk = <<"variable", i, k>>}

(* The var_key under which request rq stores the caller's variable k.      *)
KeyFor(rq, k) == IF rq.op = "task" THEN taskKey[rq.task, k] ELSE k

(* The variable rows call n stores when it succeeds with request rq.       *)
RowsOf(n, rq) ==
  {VariableRow(rq.inst, KeyFor(rq, k), n) : k \in Range(rq.vars)}

(* INSERT ... ON CONFLICT (id) DO UPDATE SET current_element = $3,         *)
(* status = 'RUNNING': what becomes of the rows old of instance i.  The    *)
(* process_id keeps its first value.                                       *)
Upserted(old, i, n) ==
  IF old = {} THEN {InstanceRow(i, n, n, "RUNNING")}
  ELSE {InstanceRow(i, r.process, n, "RUNNING") : r \in old}

(* UPDATE process_instances SET status = 'COMPLETED' WHERE id = i.         *)
Completed(old, i) ==
  {InstanceRow(i, r.process, r.element, "COMPLETED") : r \in old}
=============================================================================
