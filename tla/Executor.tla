------------------------------ MODULE Executor ------------------------------
(***************************************************************************)
(* bpmn::ProcessExecutor (src/src/bpmn/executor.cpp): the operations that  *)
(* start and resume process instances, over what db::Database promises     *)
(* (module InstanceStore).  Several executors, each with a Database of its *)
(* own, share one database server; the callers of one executor take turns, *)
(* for the class has no lock.                                              *)
(*                                                                         *)
(* No definition ever enters the process cache of getProcessDefinition, so *)
(* executeElement throws before it reaches an element; the handlers of the *)
(* elements never run.                                                     *)
(***************************************************************************)
EXTENDS InstanceStore, FiniteSets

CONSTANTS
  Executors,     \* the ProcessExecutor objects
  Processes,     \* ids of the processes callers pass to startProcess
  startEvent     \* startEvent[p]: Process::getStartEventId, maybe empty

InitData == "init_data"
TaskResult == "user_task_result"

ASSUME ExecutorNames == {InitData, TaskResult} \subseteq Names

VARIABLES
  at,            \* at[e]: where the operation of executor e waits
  call,          \* call[e]: its last call of the Database
  target,        \* target[e]: the instance its operation is about
  given,         \* given[n]: the ExecutionState call n stores
  lastState,     \* lastState[e]: what lastState_ points to
  outcome        \* outcome[e]: how the last operation of e ended

execVars == <<at, call, target, given, lastState, outcome>>
allVars == <<storeVars, execVars>>

NoState == [process |-> "none"]

Idle(e) == at[e] = "idle"

(* The caller makes a new call of the Database.                            *)
NewCall(n) == state[n] = "new" /\ \A m \in Calls : m < n => state[m] # "new"

(* Bound: Calls may be finite.  An operation begins only if there are      *)
(* calls left for it and for the operations that have begun.               *)
CallsLeft(k) ==
  k + Cardinality({e \in Executors : at[e] = "load"})
    <= Cardinality({n \in Calls : state[n] = "new"})

Started == {req[n].inst : n \in {m \in Calls : state[m] # "new"}}

-----------------------------------------------------------------------------
ExecInit ==
  /\ StoreInit
  /\ at = [e \in Executors |-> "idle"]
  /\ call = [e \in Executors |-> 0]
  /\ target = [e \in Executors |-> "none"]
  /\ given = [n \in Calls |-> NoState]
  /\ lastState = [e \in Executors |-> NoState]
  /\ outcome = [e \in Executors |-> "none"]

(* saveState: lastState_ takes over the state before the row is written.   *)
SaveState(e, n, i, s) ==
  /\ NewCall(n)
  /\ \E keys \in Inputs :
       /\ Range(keys) = DOMAIN s.variables
       /\ Invoke(n, [op |-> "save", inst |-> i, vars |-> keys])
  /\ given' = [given EXCEPT ![n] = s]
  /\ lastState' = [lastState EXCEPT ![e] = s]
  /\ call' = [call EXCEPT ![e] = n]
  /\ target' = [target EXCEPT ![e] = i]
  /\ at' = [at EXCEPT ![e] = "save"]

(* startProcess up to the database call; generate_uuid never repeats an    *)
(* id.  The value of init_data is new: the number of the call stands for it.*)
StartProcess(e, n, i, p) ==
  /\ Idle(e)
  /\ CallsLeft(1)
  /\ i \notin Started
  /\ SaveState(e, n, i, [process |-> p, element |-> startEvent[p],
                         variables |-> [k \in {InitData} |-> n]])
  /\ outcome' = [outcome EXCEPT ![e] = "none"]

(* startProcessById: parse takes the definition it is given for a path of  *)
(* a file, finds none and throws.                                          *)
StartProcessById(e) ==
  /\ Idle(e)
  /\ outcome' = [outcome EXCEPT ![e] = "startById threw"]
  /\ UNCHANGED <<storeVars, at, call, target, given, lastState>>

(* resumeProcess up to loadProcessInstance, with any id.                   *)
ResumeProcess(e, n, i) ==
  /\ Idle(e)
  /\ CallsLeft(2)
  /\ NewCall(n)
  /\ Invoke(n, [op |-> "load", inst |-> i])
  /\ call' = [call EXCEPT ![e] = n]
  /\ target' = [target EXCEPT ![e] = i]
  /\ at' = [at EXCEPT ![e] = "load"]
  /\ outcome' = [outcome EXCEPT ![e] = "none"]
  /\ UNCHANGED <<given, lastState>>

(* The columns of the row are read in the wrong order.                     *)
LoadedState_Fault(n) ==
  LET row == CHOOSE r \in InstanceRows(loaded[n], req[n].inst) : TRUE
  IN [process   |-> given[row.element].element,
      element   |-> given[row.process].process,
      variables |-> [k \in {InitData} |-> n]]

(* The ExecutionState loadState builds from the rows call n has read.      *)
LoadedState(n) ==
  LET i == req[n].inst
      row == CHOOSE r \in InstanceRows(loaded[n], i) : TRUE
      read == VariableRows(loaded[n], i)
      keys == {k \in Names : \E v \in read : v.pk = <<"variable", i, k>>}
      value(k) ==
        LET v == CHOOSE w \in read : w.pk = <<"variable", i, k>>
        IN given[v.value].variables[k]
  IN [process   |-> given[row.process].process,
      element   |-> given[row.element].element,
      variables |-> [k \in keys |-> value(k)]]

(* The loaded variables are not kept.                                      *)
SaveLoaded_Fault(e, n) ==
  /\ at[e] = "load"
  /\ state[call[e]] = "returned"
  /\ SaveState(e, n, target[e],
       [LoadedState(call[e]) EXCEPT !.variables = [k \in {TaskResult} |-> n]])
  /\ UNCHANGED outcome

(* An instance that is not found is saved with an empty state.             *)
SaveLoaded_NotFoundFault(e, n) ==
  /\ at[e] = "load"
  /\ state[call[e]] \in {"returned", "threw"}
  /\ SaveState(e, n, target[e],
       [process |-> "", element |-> "", variables |-> [k \in {TaskResult} |-> n]])
  /\ UNCHANGED outcome

(* loadState has returned: resumeProcess sets user_task_result (again the  *)
(* number of the call stands for the value) and saves.                     *)
SaveLoaded(e, n) ==
  LET s == LoadedState(call[e])
  IN /\ at[e] = "load"
     /\ state[call[e]] = "returned"
     /\ SaveState(e, n, target[e],
          [s EXCEPT !.variables = [k \in DOMAIN @ \cup {TaskResult} |->
                                     IF k = TaskResult THEN n ELSE @[k]]])
     /\ UNCHANGED outcome

End(e, result) ==
  /\ at' = [at EXCEPT ![e] = "idle"]
  /\ outcome' = [outcome EXCEPT ![e] = result]
  /\ UNCHANGED <<storeVars, call, target, given, lastState>>

(* loadProcessInstance has thrown, and so does resumeProcess.              *)
LoadThrows(e) ==
  /\ at[e] = "load"
  /\ state[call[e]] = "threw"
  /\ End(e, "resume threw")

(* saveProcessInstance has thrown.                                         *)
SaveThrows(e) ==
  /\ at[e] = "save"
  /\ state[call[e]] = "threw"
  /\ End(e, "save threw")

(* process_cache_ of getProcessDefinition: nothing ever enters it.         *)
ProcessCache == {}

(* saveState has returned: executeElement looks the process up, under the  *)
(* id saveState has left in the moved-from state, and throws.              *)
ExecuteElement(e) ==
  /\ at[e] = "save"
  /\ state[call[e]] = "returned"
  /\ {given[call[e]].process, ""} \cap ProcessCache = {}
  /\ End(e, "execute threw")

(* getExecutionState: whatever instance is asked for, it is lastState_.    *)
GetExecutionState(e, i) ==
  /\ Idle(e)
  /\ target' = [target EXCEPT ![e] = i]
  /\ outcome' = [outcome EXCEPT ![e] = IF lastState[e] = NoState
                                       THEN "state threw" ELSE "state"]
  /\ UNCHANGED <<storeVars, at, call, given, lastState>>

(* The steps of executor e inside an operation.                            *)
Continue(e) ==
  \/ \E n \in Calls : SaveLoaded(e, n)
  \/ LoadThrows(e)
  \/ SaveThrows(e)
  \/ ExecuteElement(e)

Operation(e) ==
  \/ \E n \in Calls, i \in Instances, p \in Processes : StartProcess(e, n, i, p)
  \/ \E n \in Calls, i \in Instances : ResumeProcess(e, n, i)
  \/ \E i \in Instances : GetExecutionState(e, i)
  \/ StartProcessById(e)

StepOfCall(n) == StoreStep(n) /\ UNCHANGED execVars

ExecNext ==
  \/ \E e \in Executors : Operation(e) \/ Continue(e)
  \/ \E n \in Calls : StepOfCall(n)

ExecSpec == ExecInit /\ [][ExecNext]_allVars

-----------------------------------------------------------------------------
ExecutionState ==
  [process : Processes, element : {startEvent[p] : p \in Processes},
   variables : UNION {[K -> Calls] : K \in SUBSET {InitData, TaskResult}}]

(* Type invariant of the executors and of the state they save.             *)
ExecTypeOK ==
  /\ rows \subseteq Rows
  /\ at \in [Executors -> {"idle", "load", "save"}]
  /\ call \in [Executors -> Calls \cup {0}]
  /\ target \in [Executors -> Instances \cup {"none"}]
  /\ given \in [Calls -> ExecutionState \cup {NoState}]
  /\ lastState \in [Executors -> ExecutionState \cup {NoState}]

(* Whatever starts, resumes and failed saves happen, and although a resume *)
(* writes back what it read with two SELECTs, a stored instance keeps the  *)
(* process, the element and the init_data of the startProcess that made    *)
(* it.                                                                     *)
StartDataSurvives ==
  \A i \in Instances : \A r \in InstanceRows(rows, i) :
    LET start == given[r.process]
    IN /\ given[r.element].process = start.process
       /\ given[r.element].element = start.element
       /\ \E v \in VariableRows(rows, i) :
            /\ v.pk = <<"variable", i, InitData>>
            /\ given[v.value].variables[InitData] = r.process

(* A resume never creates an instance: saveProcessInstance would insert    *)
(* the row, but loadState has found it before and no row is ever deleted.  *)
ResumeNeverCreates ==
  \A i \in Instances : \A r \in InstanceRows(rows, i) :
    TaskResult \notin DOMAIN given[r.process].variables

-----------------------------------------------------------------------------
(* startProcess returns the id of the instance when the instance has been  *)
(* stored (tests/unit/test_executor.cpp:39-44).                            *)
StartReturnsId ==
  \A e \in Executors : outcome[e] # "execute threw"
=============================================================================
