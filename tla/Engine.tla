------------------------------- MODULE Engine -------------------------------
(***************************************************************************)
(* bpmn::BpmnEngine (src/src/bpmn/engine.cpp): the cache of the processes  *)
(* it has started, as its callers see it.  Threads call it at any time; a  *)
(* method is one step here, and module EngineThreads shows that the code   *)
(* makes it look like one.  The calls of the executor are comments in this *)
(* version of the code.                                                    *)
(*                                                                         *)
(* Calls are numbered, a thread may make any number of them.  A call that  *)
(* is invoked first need not get the mutex first.                          *)
(***************************************************************************)
EXTENDS Parser, FiniteSets

CONSTANTS
  Calls,         \* the calls that are ever made
  Instances      \* the ids generateInstanceId can make

ASSUME EngineCalls == Calls \subseteq Nat

VARIABLES
  processCache_,    \* processCache_[i]: the process of instance i
  req,              \* req[n]: the arguments of call n
  state,            \* state[n]: how far call n has come
  value,            \* value[n]: what call n has returned
  before            \* before[n]: the calls that had ended when n was made

engineVars == <<processCache_, req, state, value, before>>
allVars == <<engineVars, parserVars>>

NoProcess == [none |-> TRUE]
NoRequest == [op |-> "none"]
NoValue == "none"

(* "lookUp" stands for completeTask, signalEvent, getActiveTasks,          *)
(* suspendProcess and resumeProcess.  They only look the instance up as    *)
(* long as the calls of the executor are comments; tasks, events and data  *)
(* are not looked at.                                                      *)
Request ==
       [op : {"startProcess", "startProcessFromFile"}, doc : Documents]
  \cup [op : {"lookUp", "getProcessState", "terminateProcess", "isProcessActive"},
        inst : Instances]
  \cup [op : {"getActiveInstances"}]

Active(i) == processCache_[i] # NoProcess

ActiveInstances == {i \in Instances : Active(i)}

Ended == {n \in Calls : state[n] \in {"returned", "threw"}}

-----------------------------------------------------------------------------
EngineInit ==
  /\ ParserInit
  /\ processCache_ = [i \in Instances |-> NoProcess]
  /\ req = [n \in Calls |-> NoRequest]
  /\ state = [n \in Calls |-> "new"]
  /\ value = [n \in Calls |-> NoValue]
  /\ before = [n \in Calls |-> {}]

Invoke(n, rq) ==
  /\ state[n] = "new"
  /\ \A m \in Calls : m < n => state[m] # "new"
  /\ req' = [req EXCEPT ![n] = rq]
  /\ state' = [state EXCEPT ![n] = "called"]
  /\ before' = [before EXCEPT ![n] = Ended]
  /\ UNCHANGED <<processCache_, value, parserVars>>

Return(n, v) ==
  /\ state' = [state EXCEPT ![n] = "returned"]
  /\ value' = [value EXCEPT ![n] = v]

Throw(n) ==
  /\ state' = [state EXCEPT ![n] = "threw"]
  /\ UNCHANGED value

Called(n, ops) == state[n] = "called" /\ req[n].op \in ops

-----------------------------------------------------------------------------
(* The process of an instance with the same id is destroyed.               *)
HeapAfterCaching(i, h) ==
  IF Active(i) THEN HeapAfterDestroying(processCache_[i], h) ELSE h

(* startProcess and startProcessFromFile, with a file that exists.  The id *)
(* is made from 32 bits of the random device, and nothing looks whether it *)
(* is in use.                                                              *)
StartProcess(n) ==
  /\ Called(n, {"startProcess", "startProcessFromFile"})
  /\ doc_' = ReadDocument(req[n].doc)
  /\ result' = [of |-> req[n].doc, parsed |-> Parsed(doc_')]
  /\ IF result'.parsed = Threw
     THEN /\ Throw(n)
          /\ heap' = HeapAfterParse(doc_')
          /\ UNCHANGED processCache_
     ELSE \E i \in Instances :      \* generateInstanceId
          /\ processCache_' = [processCache_ EXCEPT ![i] = result'.parsed]
          /\ heap' = HeapAfterCaching(i, heap)
          /\ Return(n, i)
  /\ UNCHANGED <<req, before>>

(* startProcessFromFile without such a file.                               *)
StartWithoutFile(n) ==
  /\ Called(n, {"startProcessFromFile"})
  /\ doc_' = NoDoc
  /\ result' = [of |-> NoDoc, parsed |-> Threw]
  /\ Throw(n)
  /\ UNCHANGED <<heap, processCache_, req, before>>

LookUp(n) ==
  /\ Called(n, {"lookUp"})
  /\ IF Active(req[n].inst) THEN Return(n, "none") ELSE Throw(n)
  /\ UNCHANGED <<processCache_, req, before, parserVars>>

GetProcessState(n) ==
  /\ Called(n, {"getProcessState"})
  /\ IF Active(req[n].inst) THEN Return(n, "active") ELSE Throw(n)
  /\ UNCHANGED <<processCache_, req, before, parserVars>>

(* The cache holds the only shared_ptr: erase destroys the process.        *)
TerminateProcess(n) ==
  LET i == req[n].inst
  IN /\ Called(n, {"terminateProcess"})
     /\ IF Active(i)
        THEN /\ processCache_' = [processCache_ EXCEPT ![i] = NoProcess]
             /\ heap' = HeapAfterDestroying(processCache_[i], heap)
             /\ Return(n, "none")
        ELSE /\ UNCHANGED <<processCache_, heap>>
             /\ Throw(n)
     /\ UNCHANGED <<doc_, result, req, before>>

GetActiveInstances(n) ==
  /\ Called(n, {"getActiveInstances"})
  /\ Return(n, ActiveInstances)
  /\ UNCHANGED <<processCache_, req, before, parserVars>>

IsProcessActive(n) ==
  /\ Called(n, {"isProcessActive"})
  /\ Return(n, Active(req[n].inst))
  /\ UNCHANGED <<processCache_, req, before, parserVars>>

-----------------------------------------------------------------------------
EngineNext ==
  \E n \in Calls :
    \/ \E rq \in Request : Invoke(n, rq)
    \/ StartProcess(n)
    \/ StartWithoutFile(n)
    \/ LookUp(n)
    \/ GetProcessState(n)
    \/ TerminateProcess(n)
    \/ GetActiveInstances(n)
    \/ IsProcessActive(n)

EngineSpec == EngineInit /\ [][EngineNext]_allVars
=============================================================================
