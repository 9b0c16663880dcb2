--------------------------- MODULE ExecutorProofs ---------------------------
(***************************************************************************)
(* Theorems about Executor, for any number of executors, processes,        *)
(* instances and calls of the Database.                                    *)
(***************************************************************************)
EXTENDS Executor, TLAPS

-----------------------------------------------------------------------------
(* Types.                                                                  *)
SaveRequest == [op : {"save"}, inst : Instances, vars : Inputs]
LoadRequest == [op : {"load"}, inst : Instances]

StoreTypeOK ==
  /\ rows \subseteq Rows
  /\ req \in [Calls -> SaveRequest \cup LoadRequest \cup {NoRequest}]
  /\ state \in [Calls -> {"new", "open", "found", "returned", "threw"}]
  /\ loaded \in [Calls -> SUBSET Rows]

(* Call n of the Database has been made to save instance i.                *)
SavedBy(n, i) ==
  n \in Calls /\ state[n] # "new" /\ req[n].op = "save" /\ req[n].inst = i

(* It is the call of a startProcess.                                       *)
StartedBy(n, i) == SavedBy(n, i) /\ TaskResult \notin DOMAIN given[n].variables

(* s is a state of instance i, with the data its startProcess gave it.     *)
StateOf(s, i) ==
  /\ s \in ExecutionState
  /\ InitData \in DOMAIN s.variables
  /\ LET start == s.variables[InitData]
     IN /\ StartedBy(start, i)
        /\ s.process = given[start].process
        /\ s.element = given[start].element

(* The calls of the executors.  A resume saves only an instance it has     *)
(* found.                                                                  *)
CallsInv ==
  \A n \in Calls : state[n] # "new" =>
    /\ req[n] \in SaveRequest \cup LoadRequest
    /\ req[n].op = "save" =>
         /\ StateOf(given[n], req[n].inst)
         /\ Range(req[n].vars) = DOMAIN given[n].variables
         /\ TaskResult \in DOMAIN given[n].variables =>
              InstanceRows(rows, req[n].inst) # {}

(* An instance is started once.                                            *)
OneStart ==
  \A m, n \in Calls, i \in Instances : StartedBy(m, i) /\ StartedBy(n, i) => m = n

(* The rows of S come from saves of their instance, the first of which was *)
(* its startProcess.                                                       *)
SavedRows(S) ==
  \A i \in Instances :
    /\ \A r \in InstanceRows(S, i) : StartedBy(r.process, i) /\ SavedBy(r.element, i)
    /\ \A v \in S, k \in Names : v.pk = <<"variable", i, k>> =>
         SavedBy(v.value, i) /\ k \in DOMAIN given[v.value].variables

HasInitData(S, i) == \E v \in S : v.pk = <<"variable", i, InitData>>

TableInv ==
  /\ SavedRows(rows)
  /\ \A i \in Instances : InstanceRows(rows, i) # {} => HasInitData(rows, i)

LoadsInv ==
  \A n \in Calls : state[n] \in {"found", "returned"} /\ req[n].op = "load" =>
    /\ SavedRows(loaded[n])
    /\ InstanceRows(loaded[n], req[n].inst) # {}
    /\ InstanceRows(rows, req[n].inst) # {}
    /\ state[n] = "returned" => HasInitData(loaded[n], req[n].inst)

(* A resume reads the instance it is about.                                *)
ResumesInv ==
  \A e \in Executors : at[e] = "load" =>
    /\ call[e] \in Calls /\ target[e] \in Instances
    /\ state[call[e]] # "new"
    /\ req[call[e]].op = "load" /\ req[call[e]].inst = target[e]

ExecInv ==
  /\ StoreTypeOK /\ ExecTypeOK
  /\ CallsInv /\ OneStart /\ TableInv /\ LoadsInv /\ ResumesInv

-----------------------------------------------------------------------------
(* New calls of the Database.                                              *)
LEMMA StateFields ==
  ASSUME NEW s \in ExecutionState
  PROVE  /\ s.process \in Processes
         /\ s.element \in {startEvent[p] : p \in Processes}
         /\ DOMAIN s.variables \subseteq {InitData, TaskResult}
         /\ \A k \in DOMAIN s.variables : s.variables[k] \in Calls
         /\ s.variables \in [DOMAIN s.variables -> Calls]
<1>1. PICK K \in SUBSET {InitData, TaskResult} : s.variables \in [K -> Calls]
  BY DEF ExecutionState
<1>. QED
  BY <1>1 DEF ExecutionState

(* A new call changes nothing that is known of the others.                 *)
LEMMA NewCallKeeps ==
  ASSUME StoreTypeOK, NEW n \in Calls, NEW rq \in SaveRequest \cup LoadRequest, Invoke(n, rq),
         \A m \in Calls \ {n} : given'[m] = given[m]
  PROVE  /\ \A m \in Calls \ {n} : req'[m] = req[m] /\ state'[m] = state[m]
         /\ state[n] = "new" /\ state'[n] = "open" /\ req'[n] = rq
         /\ UNCHANGED <<rows, loaded>>
         /\ \A m, i : SavedBy(m, i) => SavedBy(m, i)' /\ m # n /\ given'[m] = given[m]
         /\ \A m, i : m # n /\ SavedBy(m, i)' => SavedBy(m, i) /\ given'[m] = given[m]
         /\ StoreTypeOK'
<1>1. /\ \A m \in Calls \ {n} : req'[m] = req[m] /\ state'[m] = state[m]
      /\ state[n] = "new" /\ state'[n] = "open" /\ req'[n] = rq
      /\ UNCHANGED <<rows, loaded>>
  BY DEF StoreTypeOK, Invoke
<1>2. \A m, i : SavedBy(m, i) => SavedBy(m, i)' /\ m # n /\ given'[m] = given[m]
  BY <1>1 DEF SavedBy
<1>3. \A m, i : m # n /\ SavedBy(m, i)' => SavedBy(m, i) /\ given'[m] = given[m]
  BY <1>1 DEF SavedBy
<1>4. StoreTypeOK'
  BY DEF StoreTypeOK, Invoke
<1>. QED
  BY <1>1, <1>2, <1>3, <1>4

LEMMA NewCallInv ==
  ASSUME ExecInv, NEW n \in Calls, NEW rq \in SaveRequest \cup LoadRequest, Invoke(n, rq),
         \A m \in Calls \ {n} : given'[m] = given[m],
         rq.op = "save" =>
           /\ StateOf(given[n], rq.inst)'
           /\ Range(rq.vars) = DOMAIN given'[n].variables
           /\ \/ TaskResult \in DOMAIN given'[n].variables
                 /\ InstanceRows(rows, rq.inst) # {}
              \/ TaskResult \notin DOMAIN given'[n].variables
                 /\ \A m \in Calls : ~SavedBy(m, rq.inst)
  PROVE  /\ StoreTypeOK' /\ CallsInv' /\ OneStart' /\ TableInv' /\ LoadsInv'
<1>1. /\ \A m \in Calls \ {n} : req'[m] = req[m] /\ state'[m] = state[m]
      /\ state[n] = "new" /\ state'[n] = "open" /\ req'[n] = rq
      /\ UNCHANGED <<rows, loaded>>
      /\ \A m, i : SavedBy(m, i) => SavedBy(m, i)' /\ m # n /\ given'[m] = given[m]
      /\ \A m, i : m # n /\ SavedBy(m, i)' => SavedBy(m, i) /\ given'[m] = given[m]
      /\ StoreTypeOK'
  BY NewCallKeeps DEF ExecInv
<1>2. \A m, i : StartedBy(m, i) => StartedBy(m, i)' /\ m # n /\ given'[m] = given[m]
  BY <1>1 DEF StartedBy
<1>3. \A m, i : m # n /\ StartedBy(m, i)' => StartedBy(m, i)
  BY <1>1 DEF StartedBy
<1>4. CallsInv'
  <2> SUFFICES ASSUME NEW m \in Calls, state'[m] # "new"
               PROVE  /\ req'[m] \in SaveRequest \cup LoadRequest
                      /\ req'[m].op = "save" =>
                           /\ StateOf(given[m], req[m].inst)'
                           /\ Range(req'[m].vars) = DOMAIN given'[m].variables
                           /\ TaskResult \in DOMAIN given'[m].variables =>
                                InstanceRows(rows', req'[m].inst) # {}
    BY DEF CallsInv
  <2>1. CASE m = n
    <3>1. rq.op = "save" => StateOf(given[m], req[m].inst)'
      BY <1>1, <2>1 DEF StateOf
    <3>. QED
      BY <1>1, <2>1, <3>1
  <2>2. CASE m # n
    <3>1. /\ req'[m] = req[m] /\ given'[m] = given[m] /\ state[m] # "new"
      BY <1>1, <2>2
    <3>2. req[m].op = "save" => StateOf(given[m], req[m].inst)
      BY <3>1 DEF ExecInv, CallsInv
    <3>3. req[m].op = "save" => StateOf(given[m], req[m].inst)'
      BY <1>2, <3>1, <3>2 DEF StateOf
    <3>. QED
      BY <1>1, <3>1, <3>3 DEF ExecInv, CallsInv
  <2>. QED
    BY <2>1, <2>2
<1>5. OneStart'
  <2> SUFFICES ASSUME NEW m \in Calls, NEW k \in Calls, NEW i \in Instances,
                      StartedBy(m, i)', StartedBy(k, i)'
               PROVE  m = k
    BY DEF OneStart
  <2>1. CASE m # n /\ k # n
    BY <1>3, <2>1 DEF ExecInv, OneStart
  <2>2. StartedBy(n, i)' => rq.op = "save" /\ rq.inst = i
                             /\ \A h \in Calls : ~SavedBy(h, i)
    BY <1>1 DEF StartedBy, SavedBy
  <2>3. \A h \in Calls \ {n} : StartedBy(h, i)' => SavedBy(h, i)
    BY <1>3 DEF StartedBy
  <2>. QED
    BY <2>1, <2>2, <2>3
<1>6. TableInv'
  <2>1. SavedRows(rows)'
    BY <1>1, <1>2 DEF ExecInv, TableInv, SavedRows
  <2>. QED
    BY <1>1, <2>1 DEF ExecInv, TableInv, HasInitData
<1>7. LoadsInv'
  <2> SUFFICES ASSUME NEW m \in Calls \ {n}, state[m] \in {"found", "returned"},
                      req[m].op = "load"
               PROVE  /\ SavedRows(loaded[m])'
                      /\ InstanceRows(loaded[m], req[m].inst) # {}
                      /\ InstanceRows(rows, req[m].inst) # {}
                      /\ state[m] = "returned" => HasInitData(loaded[m], req[m].inst)
    BY <1>1 DEF LoadsInv, HasInitData
  <2>1. /\ SavedRows(loaded[m])
        /\ InstanceRows(loaded[m], req[m].inst) # {}
        /\ InstanceRows(rows, req[m].inst) # {}
        /\ state[m] = "returned" => HasInitData(loaded[m], req[m].inst)
    BY DEF ExecInv, LoadsInv
  <2>2. SavedRows(loaded[m])'
    BY <1>1, <1>2, <2>1 DEF SavedRows
  <2>. QED
    BY <2>1, <2>2
<1>. QED
  BY <1>1, <1>4, <1>5, <1>6, <1>7

-----------------------------------------------------------------------------
(* The operations of the executors.                                        *)

(* Resumes under way stay what they are when a new call is made.           *)
LEMMA ResumesKept ==
  ASSUME ExecInv, NEW e \in Executors, NEW n \in Calls, NEW rq, Invoke(n, rq),
         \A d \in Executors \ {e} :
           at'[d] = at[d] /\ call'[d] = call[d] /\ target'[d] = target[d],
         at'[e] = "load" =>
           /\ call'[e] = n /\ target'[e] \in Instances
           /\ rq.op = "load" /\ rq.inst = target'[e]
  PROVE  ResumesInv'
<1>1. /\ \A m \in Calls \ {n} : req'[m] = req[m] /\ state'[m] = state[m]
      /\ state[n] = "new" /\ state'[n] = "open" /\ req'[n] = rq
  BY DEF Invoke, ExecInv, StoreTypeOK
<1>. QED
  BY <1>1 DEF ExecInv, ResumesInv

(* An executor saves the state s, of a start or of a resume.               *)
LEMMA SaveInv ==
  ASSUME ExecInv, NEW e \in Executors, NEW n \in Calls, NEW i \in Instances, NEW s,
         SaveState(e, n, i, s),
         s \in ExecutionState, InitData \in DOMAIN s.variables,
         \/ /\ TaskResult \in DOMAIN s.variables /\ StateOf(s, i)
            /\ InstanceRows(rows, i) # {}
         \/ /\ TaskResult \notin DOMAIN s.variables /\ s.variables[InitData] = n
            /\ \A m \in Calls : ~SavedBy(m, i)
  PROVE  ExecInv'
<1>1. PICK keys \in Inputs :
        /\ Range(keys) = DOMAIN s.variables
        /\ Invoke(n, [op |-> "save", inst |-> i, vars |-> keys])
  BY DEF SaveState
<1> DEFINE rq == [op |-> "save", inst |-> i, vars |-> keys]
<1>2. rq \in SaveRequest /\ rq.op = "save" /\ rq.inst = i /\ rq.vars = keys
  BY DEF SaveRequest
<1> HIDE DEF rq
<1>3. Invoke(n, rq)
  BY <1>1 DEF rq
<1>4. given'[n] = s /\ \A m \in Calls \ {n} : given'[m] = given[m]
  BY DEF SaveState, ExecInv, ExecTypeOK
<1>5. /\ \A d \in Executors \ {e} :
           at'[d] = at[d] /\ call'[d] = call[d] /\ target'[d] = target[d]
      /\ at'[e] = "save"
  BY DEF SaveState, ExecInv, ExecTypeOK
<1>6. StateOf(given[n], rq.inst)'
  <2>1. /\ state'[n] # "new" /\ req'[n] = rq
        /\ \A m, j : SavedBy(m, j) => SavedBy(m, j)' /\ given'[m] = given[m]
    BY <1>2, <1>3, <1>4, NewCallKeeps DEF ExecInv
  <2>2. CASE TaskResult \in DOMAIN s.variables /\ StateOf(s, i)
    BY <1>2, <1>4, <2>1, <2>2 DEF StateOf, StartedBy
  <2>3. CASE TaskResult \notin DOMAIN s.variables /\ s.variables[InitData] = n
    <3>1. StartedBy(n, i)'
      BY <1>2, <1>4, <2>1, <2>3 DEF StartedBy, SavedBy
    <3>. QED
      BY <1>2, <1>4, <2>3, <3>1 DEF StateOf
  <2>. QED
    BY <2>2, <2>3
<1>7. /\ StoreTypeOK' /\ CallsInv' /\ OneStart' /\ TableInv' /\ LoadsInv'
  BY <1>1, <1>2, <1>3, <1>4, <1>6, NewCallInv
<1>8. ResumesInv'
  BY <1>3, <1>5, ResumesKept
<1>9. ExecTypeOK'
  <2>1. rows' = rows
    BY <1>3 DEF Invoke
  <2>. QED
    BY <2>1 DEF SaveState, ExecInv, ExecTypeOK
<1>. QED
  BY <1>7, <1>8, <1>9 DEF ExecInv

LEMMA StartInv ==
  ASSUME ExecInv, NEW e \in Executors, NEW n \in Calls, NEW i \in Instances,
         NEW p \in Processes, StartProcess(e, n, i, p)
  PROVE  ExecInv'
<1> DEFINE s == [process |-> p, element |-> startEvent[p],
                 variables |-> [k \in {InitData} |-> n]]
<1>1. s.variables \in UNION {[K -> Calls] : K \in SUBSET {InitData, TaskResult}}
  <2>1. s.variables \in [{InitData} -> Calls]
    OBVIOUS
  <2>. QED
    BY <2>1
<1>2. /\ s \in ExecutionState /\ InitData \in DOMAIN s.variables
      /\ TaskResult \notin DOMAIN s.variables /\ s.variables[InitData] = n
  <2>1. startEvent[p] \in {startEvent[q] : q \in Processes}
    OBVIOUS
  <2>2. s \in ExecutionState
    BY <1>1, <2>1 DEF ExecutionState
  <2>. QED
    BY <2>2 DEF InitData, TaskResult
<1>3. \A m \in Calls : ~SavedBy(m, i)
  BY DEF StartProcess, Started, SavedBy
<1>4. SaveState(e, n, i, s)
  BY DEF StartProcess
<1> HIDE DEF s
<1>. QED
  BY <1>2, <1>3, <1>4, SaveInv

LEMMA ResumeInv ==
  ASSUME ExecInv, NEW e \in Executors, NEW n \in Calls, NEW i \in Instances,
         ResumeProcess(e, n, i)
  PROVE  ExecInv'
<1> DEFINE rq == [op |-> "load", inst |-> i]
<1>1. rq \in LoadRequest /\ rq.op = "load" /\ rq.inst = i /\ Invoke(n, rq)
  BY DEF LoadRequest, ResumeProcess
<1> HIDE DEF rq
<1>2. /\ \A d \in Executors \ {e} :
           at'[d] = at[d] /\ call'[d] = call[d] /\ target'[d] = target[d]
      /\ call'[e] = n /\ target'[e] = i /\ UNCHANGED given
  BY DEF ResumeProcess, ExecInv, ExecTypeOK
<1>3. /\ StoreTypeOK' /\ CallsInv' /\ OneStart' /\ TableInv' /\ LoadsInv'
  BY <1>1, <1>2, NewCallInv
<1>4. ResumesInv'
  BY <1>1, <1>2, ResumesKept
<1>5. ExecTypeOK'
  <2>1. rows' = rows
    BY <1>1 DEF Invoke
  <2>. QED
    BY <2>1 DEF ResumeProcess, ExecInv, ExecTypeOK
<1>. QED
  BY <1>3, <1>4, <1>5 DEF ExecInv

(* What a load has returned is a state of the instance, although the row   *)
(* and the variables may come from different saves.                        *)
LEMMA LoadedIsState ==
  ASSUME ExecInv, NEW l \in Calls, state[l] = "returned", req[l].op = "load"
  PROVE  StateOf(LoadedState(l), req[l].inst)
<1> DEFINE i == req[l].inst
           row == CHOOSE r \in InstanceRows(loaded[l], i) : TRUE
           read == VariableRows(loaded[l], i)
           keys == {k \in Names : \E v \in read : v.pk = <<"variable", i, k>>}
           from(k) == CHOOSE w \in read : w.pk = <<"variable", i, k>>
           value(k) == given[from(k).value].variables[k]
<1>1. /\ i \in Instances /\ SavedRows(loaded[l])
      /\ InstanceRows(loaded[l], i) # {} /\ HasInitData(loaded[l], i)
  BY DEF ExecInv, LoadsInv, CallsInv, SaveRequest, LoadRequest
<1>2. StartedBy(row.process, i) /\ SavedBy(row.element, i)
  <2>1. row \in InstanceRows(loaded[l], i)
    BY <1>1
  <2>. QED
    BY <1>1, <2>1 DEF SavedRows
<1>3. \A m : SavedBy(m, i) => StateOf(given[m], i)
  BY DEF ExecInv, CallsInv, SavedBy
<1>4. \A k \in keys : SavedBy(from(k).value, i) /\ k \in DOMAIN given[from(k).value].variables
  <2> SUFFICES ASSUME NEW k \in keys
               PROVE  SavedBy(from(k).value, i) /\ k \in DOMAIN given[from(k).value].variables
    OBVIOUS
  <2>1. from(k) \in read /\ from(k).pk = <<"variable", i, k>>
    OBVIOUS
  <2> HIDE DEF from
  <2>. QED
    BY <1>1, <2>1 DEF SavedRows, VariableRows
<1>5. InitData \in keys
  <2>1. PICK v \in loaded[l] : v.pk = <<"variable", i, InitData>>
    BY <1>1 DEF HasInitData
  <2>2. InitData \in Names
    BY ExecutorNames
  <2>. QED
    BY <2>1, <2>2 DEF VariableRows
<1>6. LoadedState(l) = [process   |-> given[row.process].process,
                        element   |-> given[row.element].element,
                        variables |-> [k \in keys |-> value(k)]]
  BY DEF LoadedState
<1> HIDE DEF from, row, keys
<1>7. \A k \in keys : k \in {InitData, TaskResult} /\ value(k) \in Calls
  <2> SUFFICES ASSUME NEW k \in keys PROVE k \in {InitData, TaskResult} /\ value(k) \in Calls
    OBVIOUS
  <2>1. given[from(k).value] \in ExecutionState
    BY <1>3, <1>4 DEF StateOf
  <2>. QED
    BY <1>4, <2>1, StateFields
<1>8. given[row.process] \in ExecutionState /\ given[row.element] \in ExecutionState
  BY <1>2, <1>3 DEF StateOf, StartedBy
<1>9. LoadedState(l) \in ExecutionState
  <2>1. [k \in keys |-> value(k)] \in [keys -> Calls] /\ keys \in SUBSET {InitData, TaskResult}
    BY <1>7
  <2>2. [k \in keys |-> value(k)] \in UNION {[K -> Calls] : K \in SUBSET {InitData, TaskResult}}
    BY <2>1
  <2>3. /\ given[row.process].process \in Processes
        /\ given[row.element].element \in {startEvent[p] : p \in Processes}
    BY <1>8, StateFields
  <2>. QED
    BY <1>6, <2>2, <2>3 DEF ExecutionState
<1>10. /\ StartedBy(value(InitData), i)
       /\ given[row.process].process = given[value(InitData)].process
       /\ given[row.element].element = given[value(InitData)].element
  <2>1. StartedBy(value(InitData), i)
    BY <1>3, <1>4, <1>5 DEF StateOf
  <2>2. row.process = value(InitData)
    BY <1>1, <1>2, <2>1 DEF ExecInv, OneStart, StartedBy, SavedBy
  <2>3. PICK m : StartedBy(m, i) /\ given[row.element].element = given[m].element
    BY <1>2, <1>3 DEF StateOf
  <2>4. m = value(InitData)
    BY <1>1, <2>1, <2>3 DEF ExecInv, OneStart, StartedBy, SavedBy
  <2>. QED
    BY <2>1, <2>2, <2>3, <2>4
<1>11. /\ InitData \in DOMAIN LoadedState(l).variables
       /\ LoadedState(l).variables[InitData] = value(InitData)
       /\ LoadedState(l).process = given[row.process].process
       /\ LoadedState(l).element = given[row.element].element
  BY <1>5, <1>6
<1>. QED
  BY <1>9, <1>10, <1>11 DEF StateOf

LEMMA SaveLoadedInv ==
  ASSUME ExecInv, NEW e \in Executors, NEW n \in Calls, SaveLoaded(e, n)
  PROVE  ExecInv'
<1> DEFINE i == target[e]
           s == LoadedState(call[e])
           K == DOMAIN s.variables \cup {TaskResult}
           resumed == [k \in K |-> IF k = TaskResult THEN n ELSE s.variables[k]]
           t == [s EXCEPT !.variables = resumed]
<1>1. /\ call[e] \in Calls /\ i \in Instances /\ req[call[e]].op = "load"
      /\ req[call[e]].inst = i /\ state[call[e]] = "returned"
  BY DEF SaveLoaded, ExecInv, ResumesInv
<1>2. StateOf(s, i)
  BY <1>1, LoadedIsState
<1>3. s \in ExecutionState /\ InitData \in DOMAIN s.variables
  BY <1>2 DEF StateOf
<1>4. SaveState(e, n, i, t)
  BY DEF SaveLoaded
<1>5. /\ t.process = s.process /\ t.element = s.element /\ t.variables = resumed
      /\ t \in ExecutionState
  <2>1. /\ DOMAIN s.variables \subseteq {InitData, TaskResult}
        /\ \A k \in DOMAIN s.variables : s.variables[k] \in Calls
    BY <1>3, StateFields
  <2>2. resumed \in [K -> Calls] /\ K \in SUBSET {InitData, TaskResult}
    BY <2>1
  <2>3. resumed \in UNION {[L -> Calls] : L \in SUBSET {InitData, TaskResult}}
    BY <2>2
  <2> HIDE DEF resumed, s
  <2>. QED
    BY <1>3, <2>3 DEF ExecutionState
<1>6. /\ DOMAIN resumed = K /\ resumed[InitData] = s.variables[InitData]
      /\ InitData \in K /\ TaskResult \in K
  BY <1>3 DEF InitData, TaskResult
<1>7. StateOf(t, i)
  BY <1>2, <1>5, <1>6 DEF StateOf
<1>8. InstanceRows(rows, i) # {}
  BY <1>1 DEF ExecInv, LoadsInv
<1> HIDE DEF t, resumed, K
<1>. QED
  BY <1>1, <1>4, <1>5, <1>6, <1>7, <1>8, SaveInv

(* The other steps of an executor change no row and make no call.          *)
LEMMA QuietInv ==
  ASSUME ExecInv, UNCHANGED <<storeVars, call, given, lastState>>,
         at' \in [Executors -> {"idle", "load", "save"}],
         \A d \in Executors :
           at'[d] = "load" => at[d] = "load" /\ target'[d] = target[d],
         target' \in [Executors -> Instances \cup {"none"}]
  PROVE  ExecInv'
<1>1. UNCHANGED <<rows, req, state, loaded>>
  BY DEF storeVars
<1>2. \A m, i : SavedBy(m, i)' = SavedBy(m, i) /\ StartedBy(m, i)' = StartedBy(m, i)
  BY <1>1 DEF SavedBy, StartedBy
<1>3. StoreTypeOK' /\ OneStart'
  BY <1>1, <1>2 DEF ExecInv, StoreTypeOK, OneStart
<1>4. CallsInv'
  BY <1>1, <1>2 DEF ExecInv, CallsInv, StateOf
<1>5. TableInv' /\ LoadsInv'
  BY <1>1, <1>2 DEF ExecInv, TableInv, LoadsInv, SavedRows, HasInitData
<1>6. ExecTypeOK'
  BY <1>1 DEF ExecInv, ExecTypeOK
<1>7. ResumesInv'
  BY <1>1 DEF ExecInv, ResumesInv
<1>. QED
  BY <1>3, <1>4, <1>5, <1>6, <1>7 DEF ExecInv

-----------------------------------------------------------------------------
(* The calls of the Database.                                              *)

(* A step of a call changes nothing that is known of the requests.         *)
LEMMA CallStepShape ==
  ASSUME ExecInv, NEW n \in Calls, StepOfCall(n)
  PROVE  /\ UNCHANGED <<req, execVars>>
         /\ \A m \in Calls \ {n} : state'[m] = state[m] /\ loaded'[m] = loaded[m]
         /\ state[n] # "new" /\ state'[n] \in {"found", "returned", "threw"}
         /\ \A m, i : SavedBy(m, i)' = SavedBy(m, i) /\ StartedBy(m, i)' = StartedBy(m, i)
         /\ \/ Write(n) \/ UNCHANGED rows
<1>1. /\ UNCHANGED <<req, execVars>>
      /\ \A m \in Calls \ {n} : state'[m] = state[m] /\ loaded'[m] = loaded[m]
      /\ state[n] # "new" /\ state'[n] \in {"found", "returned", "threw"}
  BY DEF StepOfCall, StoreStep, Write, ReadInstance, ReadVariables, Refuse, ExecInv, StoreTypeOK
<1>2. \A m, i : SavedBy(m, i)' = SavedBy(m, i)
  BY <1>1 DEF SavedBy
<1>3. \A m, i : StartedBy(m, i)' = StartedBy(m, i)
  BY <1>1, <1>2 DEF StartedBy, execVars
<1>4. Write(n) \/ UNCHANGED rows
  BY DEF StepOfCall, StoreStep, ReadInstance, ReadVariables, Refuse
<1>. QED
  BY <1>1, <1>2, <1>3, <1>4

(* The only calls that write are saves.                                    *)
LEMMA OnlySavesWrite ==
  ASSUME ExecInv, NEW n \in Calls, Write(n)
  PROVE  /\ req[n] \in SaveRequest /\ SavedBy(n, req[n].inst) /\ SaveEffect(n)
         /\ Range(req[n].vars) = DOMAIN given[n].variables
         /\ StateOf(given[n], req[n].inst)
         /\ InstanceRows(rows, req[n].inst) = {} => StartedBy(n, req[n].inst)
<1>1. /\ state[n] # "new" /\ req[n] \in SaveRequest \cup LoadRequest
      /\ req[n].op = "save" =>
           /\ StateOf(given[n], req[n].inst)
           /\ Range(req[n].vars) = DOMAIN given[n].variables
           /\ TaskResult \in DOMAIN given[n].variables =>
                InstanceRows(rows, req[n].inst) # {}
  BY DEF Write, ExecInv, CallsInv
<1>2. req[n].op = "save" /\ SaveEffect(n)
  BY <1>1 DEF Write, SaveRequest, LoadRequest
<1>3. req[n] \in SaveRequest
  BY <1>1, <1>2 DEF LoadRequest
<1>. QED
  BY <1>1, <1>2, <1>3 DEF SavedBy, StartedBy

(* What a save leaves in the tables.                                       *)
LEMMA SaveShape ==
  ASSUME ExecInv, NEW n \in Calls, Write(n)
  PROVE  /\ rows' \subseteq Rows
         /\ \A r \in rows' \ rows :
              \/ /\ r.pk = <<"instance", req[n].inst>> /\ r.element = n
                 /\ StartedBy(r.process, req[n].inst)
              \/ \E k \in DOMAIN given[n].variables :
                   r.pk = <<"variable", req[n].inst, k>> /\ r.value = n
         /\ \A r \in rows \ rows' :
              \/ r.pk = <<"instance", req[n].inst>>
              \/ \E k : r.pk = <<"variable", req[n].inst, k>>
         /\ \E r \in rows' : r.pk = <<"instance", req[n].inst>>
         /\ HasInitData(rows', req[n].inst)
         /\ \A r \in rows' : r.pk = <<"instance", req[n].inst>> =>
              r.element = n /\ StartedBy(r.process, req[n].inst)
<1> DEFINE i == req[n].inst
           old == InstanceRows(rows, i)
           row == Upserted(old, i, n)
           new == RowsOf(n, req[n])
<1>1. /\ req[n] \in SaveRequest /\ SavedBy(n, i) /\ SaveEffect(n)
      /\ Range(req[n].vars) = DOMAIN given[n].variables
      /\ StateOf(given[n], i)
      /\ old = {} => StartedBy(n, i)
  BY OnlySavesWrite
<1>2. PICK kept \in SUBSET VariableRows(rows, i) :
        rows' = (rows \ (old \cup (VariableRows(rows, i) \ kept))) \cup row \cup new
  BY <1>1 DEF SaveEffect
<1>3. /\ i \in Instances /\ req[n].op = "save"
      /\ DOMAIN given[n].variables \subseteq Names
      /\ InitData \in DOMAIN given[n].variables
  BY <1>1, StateFields, ExecutorNames DEF SaveRequest, StateOf
<1>4. \A r \in row : /\ r.pk = <<"instance", i>> /\ r.element = n
                      /\ StartedBy(r.process, i) /\ r \in Rows
  <2>1. CASE old = {}
    <3>1. \A r \in row : r = InstanceRow(i, n, n, "RUNNING")
      BY <2>1 DEF Upserted
    <3>. QED
      BY <1>1, <1>3, <2>1, <3>1 DEF InstanceRow, Rows
  <2>2. CASE old # {}
    <3>1. ASSUME NEW r \in row
          PROVE  /\ r.pk = <<"instance", i>> /\ r.element = n
                 /\ StartedBy(r.process, i) /\ r \in Rows
      <4>1. PICK o \in old : r = InstanceRow(i, o.process, n, "RUNNING")
        BY <2>2 DEF Upserted
      <4>2. StartedBy(o.process, i)
        BY <1>3 DEF ExecInv, TableInv, SavedRows
      <4>3. o.process \in Calls
        BY <4>2 DEF StartedBy, SavedBy
      <4>. QED
        BY <1>3, <4>1, <4>2, <4>3 DEF InstanceRow, Rows
    <3>. QED
      BY <3>1
  <2>. QED
    BY <2>1, <2>2
<1>5. \A r \in new : /\ r \in Rows
                      /\ \E k \in DOMAIN given[n].variables :
                           r.pk = <<"variable", i, k>> /\ r.value = n
  BY <1>1, <1>3 DEF RowsOf, VariableRow, KeyFor, Rows
<1>6. \E r \in row : r.pk = <<"instance", i>>
  <2>1. row # {}
    BY DEF Upserted
  <2>. QED
    BY <1>4, <2>1
<1>7. \E v \in new : v.pk = <<"variable", i, InitData>>
  <2>1. VariableRow(i, InitData, n) \in new
    BY <1>1, <1>3 DEF RowsOf, KeyFor
  <2>. QED
    BY <2>1 DEF VariableRow
<1>8. \A r \in rows : r.pk = <<"instance", i>> => r \in old
  BY DEF InstanceRows
<1>9. /\ \A r \in old : r.pk = <<"instance", i>>
      /\ \A r \in VariableRows(rows, i) : \E k : r.pk = <<"variable", i, k>>
  BY DEF InstanceRows, VariableRows
<1> HIDE DEF old, row, new
<1>10. rows' \subseteq Rows
  BY <1>2, <1>4, <1>5 DEF ExecInv, StoreTypeOK
<1>11. \A r \in rows' \ rows :
         \/ r.pk = <<"instance", i>> /\ r.element = n /\ StartedBy(r.process, i)
         \/ \E k \in DOMAIN given[n].variables : r.pk = <<"variable", i, k>> /\ r.value = n
  BY <1>2, <1>4, <1>5
<1>12. \A r \in rows \ rows' : r.pk = <<"instance", i>> \/ \E k : r.pk = <<"variable", i, k>>
  BY <1>2, <1>9
<1>13. \A r \in rows' : r.pk = <<"instance", i>> => r.element = n /\ StartedBy(r.process, i)
  <2> SUFFICES ASSUME NEW r \in rows', r.pk = <<"instance", i>>
               PROVE  r.element = n /\ StartedBy(r.process, i)
    OBVIOUS
  <2>1. r \notin new
    BY <1>5
  <2>2. r \notin rows \ (old \cup (VariableRows(rows, i) \ kept))
    BY <1>8
  <2>. QED
    BY <1>2, <1>4, <2>1, <2>2
<1>14. HasInitData(rows', i)
  BY <1>2, <1>7 DEF HasInitData
<1>. QED
  BY <1>2, <1>6, <1>10, <1>11, <1>12, <1>13, <1>14

LEMMA WriteInv ==
  ASSUME ExecInv, NEW n \in Calls, StepOfCall(n), Write(n)
  PROVE  ExecInv'
<1> DEFINE i == req[n].inst
<1>1. /\ UNCHANGED <<req, execVars>>
      /\ \A m \in Calls \ {n} : state'[m] = state[m] /\ loaded'[m] = loaded[m]
      /\ state[n] # "new" /\ state'[n] \in {"found", "returned", "threw"}
      /\ \A m, j : SavedBy(m, j)' = SavedBy(m, j) /\ StartedBy(m, j)' = StartedBy(m, j)
  BY CallStepShape
<1>2. /\ rows' \subseteq Rows
      /\ \A r \in rows' \ rows :
           \/ /\ r.pk = <<"instance", i>> /\ r.element = n
              /\ StartedBy(r.process, i)
           \/ \E k \in DOMAIN given[n].variables : r.pk = <<"variable", i, k>> /\ r.value = n
      /\ \A r \in rows \ rows' : r.pk = <<"instance", i>> \/ \E k : r.pk = <<"variable", i, k>>
      /\ \E r \in rows' : r.pk = <<"instance", i>>
      /\ HasInitData(rows', i)
      /\ \A r \in rows' : r.pk = <<"instance", i>> => r.element = n /\ StartedBy(r.process, i)
  BY SaveShape
<1>3. /\ req[n] \in SaveRequest /\ req[n].op = "save" /\ SavedBy(n, i)
  BY OnlySavesWrite DEF SaveRequest
<1>4. /\ loaded' = loaded /\ given' = given
      /\ state' \in [Calls -> {"new", "open", "found", "returned", "threw"}]
  BY <1>1 DEF Write, execVars, ExecInv, StoreTypeOK
<1>5. StoreTypeOK'
  BY <1>1, <1>2, <1>4 DEF ExecInv, StoreTypeOK
<1>6. ExecTypeOK'
  BY <1>1, <1>2 DEF ExecInv, ExecTypeOK, execVars
<1>7. \A j : InstanceRows(rows, j) # {} => InstanceRows(rows', j) # {}
  <2> SUFFICES ASSUME NEW j, NEW r \in InstanceRows(rows, j)
               PROVE  \E q \in rows' : q.pk = <<"instance", j>>
    BY DEF InstanceRows
  <2>1. r \in rows /\ r.pk = <<"instance", j>>
    BY DEF InstanceRows
  <2>. QED
    BY <1>2, <2>1
<1>8. CallsInv'
  <2> SUFFICES ASSUME NEW m \in Calls, state[m] # "new", req[m].op = "save"
               PROVE  StateOf(given[m], req[m].inst)'
    BY <1>1, <1>4, <1>7 DEF ExecInv, CallsInv
  <2>1. StateOf(given[m], req[m].inst)
    BY DEF ExecInv, CallsInv
  <2>. QED
    BY <1>1, <1>4, <2>1 DEF StateOf
<1>9. OneStart'
  BY <1>1 DEF ExecInv, OneStart
<1>10. SavedRows(rows)'
  <2>1. ASSUME NEW j \in Instances, NEW r \in InstanceRows(rows', j)
        PROVE  StartedBy(r.process, j) /\ SavedBy(r.element, j)
    <3>1. r \in rows' /\ r.pk = <<"instance", j>>
      BY DEF InstanceRows
    <3>2. CASE r \in rows
      BY <3>1, <3>2 DEF InstanceRows, ExecInv, TableInv, SavedRows
    <3>3. CASE r \notin rows
      BY <1>2, <1>3, <3>1, <3>3
    <3>. QED
      BY <3>2, <3>3
  <2>2. ASSUME NEW j \in Instances, NEW v \in rows', NEW k \in Names,
               v.pk = <<"variable", j, k>>
        PROVE  SavedBy(v.value, j) /\ k \in DOMAIN given[v.value].variables
    <3>1. CASE v \in rows
      BY <2>2, <3>1 DEF ExecInv, TableInv, SavedRows
    <3>2. CASE v \notin rows
      BY <1>2, <1>3, <2>2, <3>2
    <3>. QED
      BY <3>1, <3>2
  <2>. QED
    BY <1>1, <1>4, <2>1, <2>2 DEF SavedRows
<1>11. ASSUME NEW j \in Instances, InstanceRows(rows', j) # {}
       PROVE  HasInitData(rows', j)
  <2>1. CASE j = i
    BY <1>2, <2>1
  <2>2. CASE j # i
    <3>1. PICK r \in rows' : r.pk = <<"instance", j>>
      BY <1>11 DEF InstanceRows
    <3>2. r \in rows
      BY <1>2, <2>2, <3>1
    <3>3. PICK v \in rows : v.pk = <<"variable", j, InitData>>
      BY <3>1, <3>2 DEF InstanceRows, ExecInv, TableInv, HasInitData
    <3>4. v \in rows'
      BY <1>2, <2>2, <3>3
    <3>. QED
      BY <3>3, <3>4 DEF HasInitData
  <2>. QED
    BY <2>1, <2>2
<1>12. TableInv'
  BY <1>10, <1>11 DEF TableInv, HasInitData
<1>13. LoadsInv'
  <2> SUFFICES ASSUME NEW m \in Calls \ {n}, state[m] \in {"found", "returned"},
                      req[m].op = "load"
               PROVE  /\ SavedRows(loaded[m])'
                      /\ InstanceRows(loaded[m], req[m].inst) # {}
                      /\ InstanceRows(rows', req[m].inst) # {}
                      /\ state[m] = "returned" => HasInitData(loaded[m], req[m].inst)
    BY <1>1, <1>3, <1>4 DEF LoadsInv, HasInitData
  <2>1. /\ SavedRows(loaded[m])
        /\ InstanceRows(loaded[m], req[m].inst) # {}
        /\ InstanceRows(rows, req[m].inst) # {}
        /\ state[m] = "returned" => HasInitData(loaded[m], req[m].inst)
    BY DEF ExecInv, LoadsInv
  <2>2. SavedRows(loaded[m])'
    BY <1>1, <1>4, <2>1 DEF SavedRows
  <2>. QED
    BY <1>7, <2>1, <2>2
<1>14. ResumesInv'
  BY <1>1 DEF ExecInv, ResumesInv, execVars
<1>. QED
  BY <1>5, <1>6, <1>8, <1>9, <1>12, <1>13, <1>14 DEF ExecInv

(* A call that writes nothing may have read rows.                          *)
LEMMA ReadInv ==
  ASSUME ExecInv, NEW n \in Calls, StepOfCall(n), ~Write(n)
  PROVE  ExecInv'
<1> DEFINE i == req[n].inst
<1>1. /\ UNCHANGED <<req, execVars, rows>>
      /\ \A m \in Calls \ {n} : state'[m] = state[m] /\ loaded'[m] = loaded[m]
      /\ state[n] # "new" /\ state'[n] \in {"found", "returned", "threw"}
      /\ \A m, j : SavedBy(m, j)' = SavedBy(m, j) /\ StartedBy(m, j)' = StartedBy(m, j)
  BY CallStepShape
<1>2. /\ given' = given /\ i \in Instances
  BY <1>1 DEF execVars, ExecInv, CallsInv, SaveRequest, LoadRequest
<1>3. /\ state' \in [Calls -> {"new", "open", "found", "returned", "threw"}]
      /\ loaded' \in [Calls -> SUBSET Rows]
  BY DEF StepOfCall, StoreStep, ReadInstance, ReadVariables, Refuse, InstanceRows,
         VariableRows, ExecInv, StoreTypeOK
<1>4. StoreTypeOK' /\ ExecTypeOK'
  BY <1>1, <1>3 DEF ExecInv, StoreTypeOK, ExecTypeOK, execVars
<1>5. CallsInv'
  <2> SUFFICES ASSUME NEW m \in Calls, state[m] # "new", req[m].op = "save"
               PROVE  StateOf(given[m], req[m].inst)'
    BY <1>1, <1>2 DEF ExecInv, CallsInv
  <2>1. StateOf(given[m], req[m].inst)
    BY DEF ExecInv, CallsInv
  <2>. QED
    BY <1>1, <1>2, <2>1 DEF StateOf
<1>6. OneStart' /\ ResumesInv'
  BY <1>1 DEF ExecInv, OneStart, ResumesInv, execVars
<1>7. TableInv'
  BY <1>1, <1>2 DEF ExecInv, TableInv, SavedRows, HasInitData
<1>8. ASSUME req[n].op = "load", state'[n] \in {"found", "returned"}
      PROVE  /\ SavedRows(loaded'[n])
             /\ InstanceRows(loaded'[n], i) # {}
             /\ InstanceRows(rows, i) # {}
             /\ state'[n] = "returned" => HasInitData(loaded'[n], i)
  <2>1. CASE ReadInstance(n)
    <3>1. /\ loaded'[n] = {r \in InstanceRows(rows, i) : r.status = "RUNNING"}
          /\ state'[n] = IF loaded'[n] = {} THEN "threw" ELSE "found"
      BY <2>1 DEF ReadInstance, ExecInv, StoreTypeOK
    <3>2. loaded'[n] \subseteq InstanceRows(rows, i) /\ loaded'[n] # {}
      BY <1>8, <3>1
    <3>3. InstanceRows(loaded'[n], i) # {} /\ InstanceRows(rows, i) # {}
      BY <3>2 DEF InstanceRows
    <3>4. SavedRows(loaded'[n])
      BY <3>2 DEF InstanceRows, SavedRows, ExecInv, TableInv
    <3>. QED
      BY <1>8, <3>1, <3>3, <3>4
  <2>2. CASE ReadVariables(n)
    <3>1. /\ loaded'[n] = loaded[n] \cup VariableRows(rows, i)
          /\ state[n] = "found"
      BY <2>2 DEF ReadVariables, ExecInv, StoreTypeOK
    <3>2. /\ SavedRows(loaded[n]) /\ InstanceRows(loaded[n], i) # {}
          /\ InstanceRows(rows, i) # {}
      BY <1>8, <3>1 DEF ExecInv, LoadsInv
    <3>3. SavedRows(loaded'[n])
      BY <3>1, <3>2 DEF SavedRows, ExecInv, TableInv, InstanceRows, VariableRows
    <3>4. HasInitData(loaded'[n], i)
      <4>1. PICK v \in rows : v.pk = <<"variable", i, InitData>>
        BY <1>2, <3>2 DEF ExecInv, TableInv, HasInitData
      <4>2. v \in VariableRows(rows, i)
        BY <4>1, ExecutorNames DEF VariableRows
      <4>. QED
        BY <3>1, <4>1, <4>2 DEF HasInitData
    <3>5. InstanceRows(loaded'[n], i) # {}
      BY <3>1, <3>2 DEF InstanceRows
    <3>. QED
      BY <3>2, <3>3, <3>4, <3>5
  <2>3. CASE Refuse(n)
    BY <1>8, <2>3 DEF Refuse, ExecInv, StoreTypeOK
  <2>. QED
    BY <2>1, <2>2, <2>3 DEF StepOfCall, StoreStep
<1>9. LoadsInv'
  <2> SUFFICES ASSUME NEW m \in Calls, state'[m] \in {"found", "returned"},
                      req[m].op = "load"
               PROVE  /\ SavedRows(loaded'[m])
                      /\ InstanceRows(loaded'[m], req[m].inst) # {}
                      /\ InstanceRows(rows, req[m].inst) # {}
                      /\ state'[m] = "returned" => HasInitData(loaded'[m], req[m].inst)
    BY <1>1, <1>2 DEF LoadsInv, HasInitData, SavedRows
  <2>1. CASE m = n
    BY <1>8, <2>1
  <2>2. CASE m # n
    BY <1>1, <2>2 DEF ExecInv, LoadsInv
  <2>. QED
    BY <2>1, <2>2
<1>. QED
  BY <1>4, <1>5, <1>6, <1>7, <1>9 DEF ExecInv

-----------------------------------------------------------------------------
(* The invariant, and what it says about every execution.                  *)
LEMMA ExecInvInit == ExecInit => ExecInv
<1> SUFFICES ASSUME ExecInit PROVE ExecInv
  OBVIOUS
<1>1. /\ rows = {}
      /\ \A n \in Calls : state[n] = "new"
      /\ \A e \in Executors : at[e] = "idle"
  BY DEF ExecInit, StoreInit
<1>2. StoreTypeOK /\ ExecTypeOK
  BY DEF ExecInit, StoreInit, StoreTypeOK, ExecTypeOK
<1>3. CallsInv /\ OneStart /\ LoadsInv /\ ResumesInv
  BY <1>1 DEF CallsInv, OneStart, LoadsInv, ResumesInv, StartedBy, SavedBy
<1>4. TableInv
  BY <1>1 DEF TableInv, SavedRows, InstanceRows
<1>. QED
  BY <1>2, <1>3, <1>4 DEF ExecInv

LEMMA ExecInvNext == ExecInv /\ [ExecNext]_allVars => ExecInv'
<1> SUFFICES ASSUME ExecInv, [ExecNext]_allVars PROVE ExecInv'
  OBVIOUS
<1>0. /\ at \in [Executors -> {"idle", "load", "save"}]
      /\ target \in [Executors -> Instances \cup {"none"}]
  BY DEF ExecInv, ExecTypeOK
<1>1. ASSUME NEW e \in Executors, NEW n \in Calls, NEW i \in Instances, NEW p \in Processes,
             StartProcess(e, n, i, p)
      PROVE  ExecInv'
  BY <1>1, StartInv
<1>2. ASSUME NEW e \in Executors, NEW n \in Calls, NEW i \in Instances,
             ResumeProcess(e, n, i)
      PROVE  ExecInv'
  BY <1>2, ResumeInv
<1>3. ASSUME NEW e \in Executors, NEW i \in Instances, GetExecutionState(e, i)
      PROVE  ExecInv'
  <2>1. /\ UNCHANGED <<storeVars, call, given, lastState>> /\ at' = at
        /\ \A d \in Executors : at'[d] = "load" => target'[d] = target[d]
        /\ target' \in [Executors -> Instances \cup {"none"}]
    BY <1>0, <1>3 DEF GetExecutionState, Idle
  <2>. QED
    BY <1>0, <2>1, QuietInv
<1>4. ASSUME NEW e \in Executors, StartProcessById(e)
      PROVE  ExecInv'
  <2>1. UNCHANGED <<storeVars, call, given, lastState, at, target>>
    BY <1>4 DEF StartProcessById
  <2>. QED
    BY <1>0, <2>1, QuietInv
<1>5. ASSUME NEW e \in Executors, NEW n \in Calls, SaveLoaded(e, n)
      PROVE  ExecInv'
  BY <1>5, SaveLoadedInv
<1>6. ASSUME NEW e \in Executors, LoadThrows(e) \/ SaveThrows(e) \/ ExecuteElement(e)
      PROVE  ExecInv'
  <2>1. /\ UNCHANGED <<storeVars, call, given, lastState, target>>
        /\ at' = [at EXCEPT ![e] = "idle"]
    BY <1>6 DEF LoadThrows, SaveThrows, ExecuteElement, End
  <2>. QED
    BY <1>0, <2>1, QuietInv
<1>7. ASSUME NEW n \in Calls, StepOfCall(n)
      PROVE  ExecInv'
  BY <1>7, WriteInv, ReadInv
<1>8. CASE UNCHANGED allVars
  <2>1. UNCHANGED <<storeVars, call, given, lastState, at, target>>
    BY <1>8 DEF allVars, execVars
  <2>. QED
    BY <1>0, <2>1, QuietInv
<1>. QED
  BY <1>1, <1>2, <1>3, <1>4, <1>5, <1>6, <1>7, <1>8 DEF ExecNext, Operation, Continue

LEMMA ExecInvAlways == ExecSpec => []ExecInv
  BY ExecInvInit, ExecInvNext, PTL DEF ExecSpec

(* The states the executors save are execution states, whatever the two    *)
(* SELECTs of a resume have read.                                          *)
THEOREM ExecutorTyped == ExecSpec => []ExecTypeOK
<1>1. ExecInv => ExecTypeOK
  BY DEF ExecInv
<1>. QED
  BY <1>1, ExecInvAlways, PTL

(* An instance keeps the process, the element and the init_data of its     *)
(* startProcess through all resumes, failed saves and interleavings.       *)
THEOREM StartDataKept == ExecSpec => []StartDataSurvives
<1>1. ASSUME ExecInv PROVE StartDataSurvives
  <2> SUFFICES ASSUME NEW i \in Instances, NEW r \in InstanceRows(rows, i)
               PROVE  /\ given[r.element].process = given[r.process].process
                      /\ given[r.element].element = given[r.process].element
                      /\ \E v \in VariableRows(rows, i) :
                           /\ v.pk = <<"variable", i, InitData>>
                           /\ given[v.value].variables[InitData] = r.process
    BY DEF StartDataSurvives
  <2>1. \A m : SavedBy(m, i) => StateOf(given[m], i)
    BY <1>1 DEF ExecInv, CallsInv, SavedBy
  <2>2. StartedBy(r.process, i) /\ SavedBy(r.element, i)
    BY <1>1 DEF ExecInv, TableInv, SavedRows
  <2>3. \A m : StartedBy(m, i) => m = r.process
    BY <1>1, <2>2 DEF ExecInv, OneStart, StartedBy, SavedBy
  <2>4. /\ given[r.element].process = given[r.process].process
        /\ given[r.element].element = given[r.process].element
    BY <2>1, <2>2, <2>3 DEF StateOf
  <2>5. PICK v \in rows : v.pk = <<"variable", i, InitData>>
    BY <1>1 DEF ExecInv, TableInv, HasInitData
  <2>6. v \in VariableRows(rows, i)
    BY <2>5, ExecutorNames DEF VariableRows
  <2>7. SavedBy(v.value, i)
    BY <1>1, <2>5, ExecutorNames DEF ExecInv, TableInv, SavedRows
  <2>8. given[v.value].variables[InitData] = r.process
    BY <2>1, <2>3, <2>7 DEF StateOf
  <2>. QED
    BY <2>4, <2>5, <2>6, <2>8
<1>. QED
  BY <1>1, ExecInvAlways, PTL

(* The row of an instance was inserted by its startProcess, never by the   *)
(* save of a resume.                                                       *)
THEOREM ResumesCreateNothing == ExecSpec => []ResumeNeverCreates
<1>1. ExecInv => ResumeNeverCreates
  BY DEF ExecInv, TableInv, SavedRows, StartedBy, ResumeNeverCreates
<1>. QED
  BY <1>1, ExecInvAlways, PTL
=============================================================================
