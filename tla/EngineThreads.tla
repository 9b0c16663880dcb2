---------------------------- MODULE EngineThreads ----------------------------
(***************************************************************************)
(* The methods of bpmn::BpmnEngine (src/src/bpmn/engine.cpp) step by step. *)
(* Every method locks engineMutex_ with a lock_guard, works on processCache_*)
(* and on the parser all threads share, and unlocks when it returns or     *)
(* throws.  Module Engine, where a method is one step, is what this        *)
(* implements.                                                             *)
(***************************************************************************)
EXTENDS Engine

VARIABLES
  engineMutex_,   \* the call that holds the mutex, or NoCall
  pc,             \* pc[n]: where call n is in the body of its method
  local,          \* local[n]: the value its local variables hold
  saved           \* auxiliary: what the owner of the mutex found

threadVars == <<engineMutex_, pc, local, saved>>
detailVars == <<allVars, threadVars>>

ASSUME EngineNoCall == 0 \notin Calls
NoCall == 0
NoLocal == {}
NotSaved == [cache |-> "none"]

Starting == {"startProcess", "startProcessFromFile"}

(* The first point of a body, behind the lock_guard.                       *)
FirstPoint(op) ==
  CASE op \in Starting            -> "read"
    [] op = "getActiveInstances"  -> "list"
    [] OTHER                      -> "find"

Goto(n, point, v) ==
  /\ pc' = [pc EXCEPT ![n] = point]
  /\ local' = [local EXCEPT ![n] = v]

-----------------------------------------------------------------------------
ThreadsInit ==
  /\ EngineInit
  /\ engineMutex_ = NoCall
  /\ pc = [n \in Calls |-> "outside"]
  /\ local = [n \in Calls |-> NoLocal]
  /\ saved = NotSaved

CallMethod(n, rq) == Invoke(n, rq) /\ UNCHANGED threadVars

(* Operators whose name ends in _Fault are plausible defects of the one    *)
(* defined after them.                                                     *)

(* Nobody waits for the mutex.                                             *)
MayLock_Fault(n) == TRUE

(* Only the methods that change the cache by inserting wait for the mutex. *)
MayLock_LookupFault(n) == req[n].op \in Starting => engineMutex_ = NoCall

MayLock(n) == engineMutex_ = NoCall

(* std::lock_guard lock(engineMutex_), the first statement of every method.*)
Lock(n) ==
  /\ state[n] = "called"
  /\ pc[n] = "outside"
  /\ MayLock(n)
  /\ engineMutex_' = n
  /\ Goto(n, FirstPoint(req[n].op), NoLocal)
  /\ saved' = [cache |-> processCache_, doc |-> doc_, result |-> result, heap |-> heap]
  /\ UNCHANGED allVars

(* The parser reads the text, or finds no file under the path it was given,*)
(* and keeps the document.                                                 *)
Read(n) ==
  /\ pc[n] = "read"
  /\ \E d \in {req[n].doc} \cup
              (IF req[n].op = "startProcessFromFile" THEN {NoDoc} ELSE {}) :
       /\ doc_' = ReadDocument(d)
       /\ Goto(n, "parse", d)
  /\ UNCHANGED <<result, heap, engineVars, engineMutex_, saved>>

(* parseDocument makes a process of the document the parser keeps.         *)
ParseDoc(n) ==
  /\ pc[n] = "parse"
  /\ result' = [of |-> local[n], parsed |-> Parsed(doc_)]
  /\ heap' = HeapAfterParse(doc_)
  /\ IF result'.parsed = Threw
     THEN Goto(n, "unwind", NoLocal)
     ELSE Goto(n, "insert", result'.parsed)
  /\ UNCHANGED <<doc_, engineVars, engineMutex_, saved>>

(* processCache_[instanceId] = std::move(process), after generateInstanceId.*)
Insert(n) ==
  /\ pc[n] = "insert"
  /\ \E i \in Instances :
       /\ processCache_' = [processCache_ EXCEPT ![i] = local[n]]
       /\ heap' = HeapAfterCaching(i, heap)
       /\ Goto(n, "leave", i)
  /\ UNCHANGED <<doc_, result, req, state, value, before, engineMutex_, saved>>

(* What a method that has found its instance returns.                      *)
Answer(op) ==
  CASE op = "isProcessActive" -> TRUE
    [] op = "getProcessState" -> "active"
    [] OTHER                  -> "none"

(* find(instanceId); all but isProcessActive throw when there is none.     *)
FindInstance(n) ==
  LET op == req[n].op
      i == req[n].inst
  IN /\ pc[n] = "find"
     /\ CASE Active(i) /\ op = "terminateProcess"   -> Goto(n, "erase", i)
          [] Active(i) /\ op # "terminateProcess"   -> Goto(n, "leave", Answer(op))
          [] ~Active(i) /\ op = "isProcessActive"   -> Goto(n, "leave", FALSE)
          [] OTHER                                  -> Goto(n, "unwind", NoLocal)
     /\ UNCHANGED <<allVars, engineMutex_, saved>>

(* The instance is not erased.                                             *)
Erase_Fault(n) ==
  /\ pc[n] = "erase"
  /\ Goto(n, "leave", "none")
  /\ UNCHANGED <<allVars, engineMutex_, saved>>

(* The cache is cleared.                                                   *)
Erase_ClearFault(n) ==
  /\ pc[n] = "erase"
  /\ processCache_' = [i \in Instances |-> NoProcess]
  /\ Goto(n, "leave", "none")
  /\ UNCHANGED <<parserVars, req, state, value, before, engineMutex_, saved>>

(* erase(it): the iterator must still point into the cache.                *)
Erase(n) ==
  /\ pc[n] = "erase"
  /\ processCache_' = [processCache_ EXCEPT ![local[n]] = NoProcess]
  /\ heap' = IF Active(local[n])
             THEN HeapAfterDestroying(processCache_[local[n]], heap)
             ELSE "iterator dangling"
  /\ Goto(n, "leave", "none")
  /\ UNCHANGED <<doc_, result, req, state, value, before, engineMutex_, saved>>

(* The loop of getActiveInstances, in the order of the hash table.         *)
List(n) ==
  /\ pc[n] = "list"
  /\ IF ActiveInstances \subseteq local[n]
     THEN Goto(n, "leave", local[n])
     ELSE \E i \in ActiveInstances \ local[n] : Goto(n, "list", local[n] \cup {i})
  /\ UNCHANGED <<allVars, engineMutex_, saved>>

(* The mutex is unlocked where the method returns, and not where it throws.*)
Unlock_Fault(n) ==
  engineMutex_' = IF pc[n] = "leave" THEN NoCall ELSE engineMutex_

Unlock(n) == engineMutex_' = NoCall

(* The lock_guard unlocks the mutex, whether the method returns or throws. *)
LeaveMethod(n) ==
  /\ \/ pc[n] = "leave" /\ Return(n, local[n])
     \/ pc[n] = "unwind" /\ Throw(n)
  /\ Unlock(n)
  /\ Goto(n, "outside", NoLocal)
  /\ saved' = NotSaved
  /\ UNCHANGED <<processCache_, req, before, parserVars>>

-----------------------------------------------------------------------------
MethodStep(n) ==
  \/ Lock(n)
  \/ Read(n)
  \/ ParseDoc(n)
  \/ Insert(n)
  \/ FindInstance(n)
  \/ Erase(n)
  \/ List(n)
  \/ LeaveMethod(n)

ThreadsNext ==
  \E n \in Calls :
    \/ \E rq \in Request : CallMethod(n, rq)
    \/ MethodStep(n)

(* No thread stops inside a method.  With a bounded number of calls nobody *)
(* waits for the mutex forever only because others keep taking it.         *)
ThreadsSpec ==
  ThreadsInit /\ [][ThreadsNext]_detailVars /\ \A n \in Calls : WF_detailVars(MethodStep(n))

-----------------------------------------------------------------------------
(* What the other threads can see: nothing of a method before it unlocks   *)
(* the mutex.                                                              *)
Seen(now, then) == IF engineMutex_ = NoCall THEN now ELSE then

Atomic == INSTANCE Engine WITH
  processCache_ <- Seen(processCache_, saved.cache),
  doc_          <- Seen(doc_, saved.doc),
  result        <- Seen(result, saved.result),
  heap          <- Seen(heap, saved.heap)

(* Every method takes effect at once, with the outcome it would have alone:*)
(* the steps of methods that run at the same time cannot be told apart from*)
(* whole methods one after the other.                                      *)
ImplementsEngine == Atomic!EngineSpec

(* Properties.  The destruction of a process that has an element deletes   *)
(* it twice (heap).  They hold all the same: what they say rests on the    *)
(* cache and the mutex, which such a destruction does not touch as long as *)
(* the program survives it.                                                *)

Starts(i) ==
  {n \in Calls : /\ req[n].op \in {"startProcess", "startProcessFromFile"}
                 /\ state[n] = "returned"
                 /\ value[n] = i}

Terminations(i) ==
  {n \in Calls : /\ req[n].op = "terminateProcess"
                 /\ req[n].inst = i
                 /\ state[n] = "returned"}

(* A started instance stays: until somebody terminates that very instance, *)
(* the engine keeps under its id the process of the caller's document, or  *)
(* of another caller who was given the same id, whatever other threads     *)
(* start and terminate.                                                    *)
StartedProcessKept ==
  engineMutex_ = NoCall =>
    \A i \in Instances :
      Starts(i) # {} /\ Terminations(i) = {} =>
        processCache_[i] \in {Parsed(req[n].doc) : n \in Starts(i)}

(* Threads that race to terminate an instance do not both succeed.         *)
TerminatedAtMostOnce ==
  \A i \in Instances : Cardinality(Terminations(i)) <= Cardinality(Starts(i))

(* A call made after terminateProcess has returned does not find the       *)
(* instance, also when it overtakes calls that were made earlier, unless   *)
(* its id has been given out again.                                        *)
TerminatedIsGone ==
  \A i \in Instances, n \in Calls :
    /\ Cardinality(Starts(i)) = 1
    /\ Terminations(i) \cap before[n] # {}
    /\ state[n] = "returned"
    => CASE req[n].op \in {"lookUp", "getProcessState", "terminateProcess"} ->
              req[n].inst # i
         [] req[n].op = "isProcessActive"    -> req[n].inst = i => value[n] = FALSE
         [] req[n].op = "getActiveInstances" -> i \notin value[n]
         [] OTHER                            -> TRUE

(* The parser keeps one document for all threads: the process that         *)
(* startProcess is about to put into the cache was made of its own text,   *)
(* and it gives up only because of that text; and terminateProcess erases  *)
(* what it has found.                                                      *)
BodyUndisturbed ==
  \A n \in Calls :
    /\ pc[n] = "insert" => local[n] = Parsed(req[n].doc)
    /\ pc[n] = "unwind" /\ req[n].op = "startProcess" => Parsed(req[n].doc) = Threw
    /\ pc[n] = "erase" => Active(local[n])

(* Every method ends, also the ones others threw exceptions from.          *)
EveryMethodEnds ==
  \A n \in Calls : state[n] = "called" ~> n \in Ended
=============================================================================
