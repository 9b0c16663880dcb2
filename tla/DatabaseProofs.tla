--------------------------- MODULE DatabaseProofs ---------------------------
(***************************************************************************)
(* Theorems about Database, for every set of calls, connections,           *)
(* instances, tasks and names.                                             *)
(***************************************************************************)
EXTENDS Database, TLAPS

(* The two halves of TypeOK.                                               *)
PgTypeOK ==
  /\ committed \subseteq Rows
  /\ ins \in [Conns -> SUBSET Rows]
  /\ del \in [Conns -> SUBSET Rows]
  /\ tx \in [Conns -> TxStates]
  /\ link \in [Conns -> LinkStates]

CallTypeOK ==
  /\ req \in [Calls -> Request \cup {NoRequest}]
  /\ conn \in [Calls -> Conns \cup {NoConn}]
  /\ pc \in [Calls -> {"new"} \cup Statements \cup Finished]
  /\ todo \in [Calls -> Seq(Names)]
  /\ loaded \in [Calls -> SUBSET Rows]
  /\ \A n \in Calls : pc[n] # "new" => req[n] \in Request /\ conn[n] \in Conns

(* The operation whose code sends statement l.                             *)
OpsAt(l) ==
  CASE l \in {"begin", "insert", "commit", "rollback"} -> {"save", "task"}
    [] l \in {"upsert", "delete"}                      -> {"save"}
    [] l = "task"                                      -> {"task"}
    [] l \in {"selectInstance", "selectVariables"}     -> {"load"}
    [] l = "complete"                                  -> {"complete"}
    [] l = "error"                                     -> {"error"}

(* A call is inside the code of its own operation, and the loop over the   *)
(* variables sends an INSERT only for a variable that is left.             *)
ControlOK ==
  \A n \in Calls : Running(n) =>
    /\ req[n].op \in OpsAt(pc[n])
    /\ pc[n] = "insert" => todo[n] # <<>>

(* The invariant that makes TypeOK inductive: the row an INSERT adds is    *)
(* typed because the statement belongs to its operation.                   *)
TypeInv == PgTypeOK /\ CallTypeOK /\ ControlOK

-----------------------------------------------------------------------------
(* The fields of a request are those of its operation.                     *)
LEMMA RequestFields ==
  ASSUME NEW rq \in Request
  PROVE  /\ rq.op \in {"save", "task", "load", "complete", "error"}
         /\ rq.inst \in Instances
         /\ rq.op \in {"save", "task"} => rq.vars \in Inputs
         /\ rq.op = "task" => rq.task \in Tasks
  BY DEF Request

(* The rows statements write are rows of the tables.                       *)
LEMMA RowsTyped ==
  ASSUME NEW i \in Instances, NEW n \in Calls
  PROVE  /\ \A k \in Names : VariableRow(i, k, n) \in Rows
         /\ \A t \in Tasks : TaskRow(i, t, n) \in Rows
         /\ ErrorRow(i, n) \in Rows
         /\ \A S \in SUBSET Rows : Upserted(InstanceRows(S, i), i, n) \subseteq Rows
         /\ \A S \in SUBSET Rows : Completed(InstanceRows(S, i), i) \subseteq Rows
<1>1. \A k \in Names : VariableRow(i, k, n) \in Rows
  BY DEF VariableRow, Rows
<1>2. \A t \in Tasks : TaskRow(i, t, n) \in Rows
  BY DEF TaskRow, Rows
<1>3. ErrorRow(i, n) \in Rows
  BY DEF ErrorRow, Rows
<1>4. \A p, e \in Calls : \A s \in {"RUNNING", "COMPLETED"} :
        InstanceRow(i, p, e, s) \in Rows
  BY DEF InstanceRow, Rows
<1>5. \A S \in SUBSET Rows : \A r \in InstanceRows(S, i) :
        r.process \in Calls /\ r.element \in Calls
  BY DEF InstanceRows, Rows
<1>6. \A S \in SUBSET Rows : Upserted(InstanceRows(S, i), i, n) \subseteq Rows
  BY <1>4, <1>5 DEF Upserted
<1>7. \A S \in SUBSET Rows : Completed(InstanceRows(S, i), i) \subseteq Rows
  BY <1>4, <1>5 DEF Completed
<1> QED BY <1>1, <1>2, <1>3, <1>6, <1>7

(* Every statement keeps the tables, the sessions and the links typed.     *)
StorageTyped ==
  /\ committed' \subseteq Rows
  /\ ins' \in [Conns -> SUBSET Rows]
  /\ del' \in [Conns -> SUBSET Rows]
  /\ tx' \in [Conns -> TxStates]

LEMMA VisibleTyped ==
  ASSUME PgTypeOK, NEW c \in Conns
  PROVE  Visible(c) \in SUBSET Rows
  BY DEF PgTypeOK, Visible

LEMMA ChangeTyped ==
  ASSUME PgTypeOK, NEW c \in Conns, NEW old, NEW new \in SUBSET Rows,
         Change(c, old, new)
  PROVE  StorageTyped
  BY DEF PgTypeOK, Change, StorageTyped

LEMMA CommitTyped ==
  ASSUME PgTypeOK, NEW c \in Conns, Commit(c)
  PROVE  StorageTyped
  BY DEF PgTypeOK, Commit, Discard, StorageTyped, TxStates

LEMMA SessionTyped ==
  ASSUME PgTypeOK, NEW c \in Conns,
         Begin(c) \/ Rollback(c) \/ Fail(c) \/ Drop(c)
  PROVE  PgTypeOK'
  BY DEF PgTypeOK, Begin, Rollback, Fail, Drop, Discard, TxStates, LinkStates

(* The last statement of a call leaves its connection typed and its        *)
(* control at the end or at the ROLLBACK of its operation.                 *)
LEMMA LastReplyTyped ==
  ASSUME PgTypeOK, CallTypeOK, NEW n \in Calls, LastReply(n), conn[n] \in Conns
  PROVE  /\ link' \in [Conns -> LinkStates]
         /\ pc' \in [Calls -> {"new"} \cup Statements \cup Finished]
         /\ pc' = [pc EXCEPT ![n] = pc'[n]]
         /\ pc'[n] \in Finished \cup {"rollback"}
         /\ pc'[n] = "rollback" => pc[n] \in TryBlock
  BY DEF PgTypeOK, CallTypeOK, LastReply, Throw, Goto, LinkStates, Statements,
         Finished, TryBlock

-----------------------------------------------------------------------------
(* The control and the arguments of the calls after a step of call n that  *)
(* moves on to statement l.                                                *)
LEMMA MoveTyped ==
  ASSUME CallTypeOK, ControlOK, NEW n \in Calls, Running(n),
         UNCHANGED <<req, conn>>,
         pc' \in [Calls -> {"new"} \cup Statements \cup Finished],
         pc' = [pc EXCEPT ![n] = pc'[n]], pc'[n] # "new",
         todo' \in [Calls -> Seq(Names)], loaded' \in [Calls -> SUBSET Rows],
         \A m \in Calls \ {n} : todo'[m] = todo[m],
         pc'[n] \in Statements => req[n].op \in OpsAt(pc'[n]),
         pc'[n] = "insert" => todo'[n] # <<>>
  PROVE  CallTypeOK' /\ ControlOK'
<1>1. \A m \in Calls \ {n} : pc'[m] = pc[m]
  BY DEF CallTypeOK
<1>2. CallTypeOK'
  BY <1>1 DEF CallTypeOK, Running, Statements, TryBlock
<1>3. ControlOK'
  BY <1>1 DEF ControlOK, Running
<1> QED BY <1>2, <1>3

LEMMA TypeInvInit == Init => TypeInv
  BY DEF Init, PgInit, TypeInv, PgTypeOK, CallTypeOK, ControlOK, TxStates,
         LinkStates, Running, Statements, TryBlock

LEMMA TypeInvCall ==
  ASSUME TypeInv, NEW n \in Calls, NEW c \in Conns, NEW rq \in Request,
         Call(n, c, rq)
  PROVE  TypeInv'
<1>1. PgTypeOK'
  BY DEF TypeInv, Call, pgVars, PgTypeOK
<1>2. FirstStatement(rq.op) \in Statements \ {"new"}
  BY RequestFields DEF FirstStatement, Statements, TryBlock
<1>3. rq.op \in OpsAt(FirstStatement(rq.op)) /\ FirstStatement(rq.op) # "insert"
  BY RequestFields DEF FirstStatement, OpsAt
<1>4. rq.op \in {"save", "task"} => rq.vars \in Seq(Names)
  BY RequestFields, InputsAssumption
<1>5. CallTypeOK'
  BY <1>2, <1>4 DEF TypeInv, Call, CallTypeOK, Goto
<1>6. ControlOK'
  BY <1>3 DEF TypeInv, Call, CallTypeOK, ControlOK, Goto, Running
<1> QED BY <1>1, <1>5, <1>6 DEF TypeInv

(* What the steps of a running call may rely on.                           *)
LEMMA RunningTyped ==
  ASSUME TypeInv, NEW n \in Calls, Running(n)
  PROVE  /\ req[n] \in Request
         /\ req[n].inst \in Instances
         /\ conn[n] \in Conns
         /\ req[n].op \in OpsAt(pc[n])
         /\ Own(n) \in SUBSET Rows
         /\ todo[n] \in Seq(Names)
         /\ pc[n] = "insert" => todo[n] # <<>>
<1>1. pc[n] # "new"
  BY DEF Running, Statements, TryBlock
<1>2. req[n] \in Request /\ conn[n] \in Conns
  BY <1>1 DEF TypeInv, CallTypeOK
<1> QED
  BY <1>2, RequestFields, VisibleTyped
     DEF TypeInv, CallTypeOK, ControlOK, Own

(* A step that writes rows and moves on to statement l.                    *)
LEMMA TypeInvWrite ==
  ASSUME TypeInv, NEW n \in Calls, Running(n), NEW old, NEW new \in SUBSET Rows,
         Change(conn[n], old, new), UNCHANGED <<link, req, conn, loaded>>,
         NEW l \in Statements, Goto(n, l), req[n].op \in OpsAt(l),
         NEW s \in Seq(Names), todo' = [todo EXCEPT ![n] = s],
         l = "insert" => s # <<>>
  PROVE  TypeInv'
<1>1. StorageTyped
  BY ChangeTyped, RunningTyped DEF TypeInv
<1>2. PgTypeOK'
  BY <1>1 DEF TypeInv, PgTypeOK, StorageTyped
<1>3. pc'[n] = l /\ pc' = [pc EXCEPT ![n] = pc'[n]]
  BY DEF TypeInv, CallTypeOK, Goto
<1>4. /\ pc' \in [Calls -> {"new"} \cup Statements \cup Finished]
      /\ todo' \in [Calls -> Seq(Names)]
      /\ todo'[n] = s
      /\ \A m \in Calls \ {n} : todo'[m] = todo[m]
      /\ loaded' \in [Calls -> SUBSET Rows]
  BY DEF TypeInv, CallTypeOK, Goto
<1>5. l # "new"
  BY DEF Statements, TryBlock
<1>6. CallTypeOK' /\ ControlOK'
  BY <1>3, <1>4, <1>5, MoveTyped DEF TypeInv
<1> QED BY <1>2, <1>6 DEF TypeInv

(* A step that changes no row itself, keeps todo and ends in pc l.         *)
LEMMA TypeInvMove ==
  ASSUME TypeInv, NEW n \in Calls, Running(n), PgTypeOK',
         UNCHANGED <<req, conn, todo>>, loaded' \in [Calls -> SUBSET Rows],
         NEW l \in Statements \cup Finished, Goto(n, l),
         l \in Statements => req[n].op \in OpsAt(l), l # "insert"
  PROVE  TypeInv'
<1>1. /\ pc'[n] = l /\ pc' = [pc EXCEPT ![n] = pc'[n]]
      /\ pc' \in [Calls -> {"new"} \cup Statements \cup Finished]
      /\ todo' \in [Calls -> Seq(Names)]
  BY DEF TypeInv, CallTypeOK, Goto
<1>2. l # "new"
  BY DEF Statements, TryBlock, Finished
<1> QED BY <1>1, <1>2, MoveTyped DEF TypeInv

(* Throwing is a move to the ROLLBACK of the same operation or to the end. *)
LEMMA TypeInvThrow ==
  ASSUME TypeInv, NEW n \in Calls, Running(n), PgTypeOK', Throw(n),
         UNCHANGED <<req, conn, todo, loaded>>
  PROVE  TypeInv'
<1>1. CASE pc[n] \in TryBlock
  <2>1. req[n].op \in OpsAt("rollback")
    BY <1>1 DEF TypeInv, ControlOK, OpsAt, TryBlock
  <2>2. Goto(n, "rollback") /\ "rollback" \in Statements
    BY <1>1 DEF Throw, Statements
  <2>3. loaded' \in [Calls -> SUBSET Rows]
    BY DEF TypeInv, CallTypeOK
  <2> QED BY <2>1, <2>2, <2>3, TypeInvMove
<1>2. CASE pc[n] \notin TryBlock
  <2>1. Goto(n, "threw") /\ "threw" \in Finished /\ "threw" \notin Statements
    BY <1>2 DEF Throw, Finished, Statements, TryBlock
  <2>2. loaded' \in [Calls -> SUBSET Rows]
    BY DEF TypeInv, CallTypeOK
  <2> QED BY <2>1, <2>2, TypeInvMove
<1> QED BY <1>1, <1>2

(* The last statement of a call.                                           *)
LEMMA TypeInvLast ==
  ASSUME TypeInv, NEW n \in Calls, Running(n), StorageTyped, LastReply(n),
         UNCHANGED <<req, conn, todo, loaded>>
  PROVE  TypeInv'
<1>1. PgTypeOK'
  BY LastReplyTyped, RunningTyped DEF TypeInv, StorageTyped, PgTypeOK
<1>2. CASE Goto(n, "returned")
  <2>1. "returned" \in Finished /\ "returned" \notin Statements
    BY DEF Finished, Statements, TryBlock
  <2>2. loaded' \in [Calls -> SUBSET Rows]
    BY DEF TypeInv, CallTypeOK
  <2> QED BY <1>1, <1>2, <2>1, <2>2, TypeInvMove
<1>3. CASE Throw(n)
  BY <1>1, <1>3, TypeInvThrow
<1> QED BY <1>2, <1>3 DEF LastReply

LEMMA NextInsertOps ==
  ASSUME NEW s \in Seq(Names)
  PROVE  /\ NextInsert(s) \in Statements
         /\ OpsAt(NextInsert(s)) = {"save", "task"}
         /\ NextInsert(s) = "insert" => s # <<>>
  BY DEF NextInsert, Statements, TryBlock, OpsAt

-----------------------------------------------------------------------------
(* Every step of a running call preserves TypeInv, one step per action.    *)
LEMMA TypeInvProgress ==
  ASSUME TypeInv, NEW n \in Calls, Progress(n) \/ StatementFails(n)
  PROVE  TypeInv'
<1>0. Running(n)
  BY DEF Progress, BeginTransaction, UpsertInstance, DeleteVariables, InsertTask,
         InsertVariable, CommitTransaction, RollbackTransaction, SelectInstance,
         SelectVariables, CompleteInstance, InsertError, ConnectionFails,
         StatementFails, Running, Statements, TryBlock
<1>0a. /\ req[n] \in Request /\ req[n].inst \in Instances /\ conn[n] \in Conns
       /\ req[n].op \in OpsAt(pc[n])
       /\ Own(n) \in SUBSET Rows
       /\ todo[n] \in Seq(Names)
       /\ pc[n] = "insert" => todo[n] # <<>>
  BY <1>0, RunningTyped
<1>0b. loaded \in [Calls -> SUBSET Rows]
  BY DEF TypeInv, CallTypeOK
<1>0c. todo = [todo EXCEPT ![n] = todo[n]]
  BY DEF TypeInv, CallTypeOK
<1>1. CASE BeginTransaction(n)
  <2>1. PgTypeOK'
    BY <1>0a, <1>1, SessionTyped DEF BeginTransaction, TypeInv
  <2>2. req[n].op \in {"save", "task"}
    BY <1>0a, <1>1 DEF BeginTransaction, OpsAt
  <2>3. CASE req[n].op = "save"
    <3>1. Goto(n, "upsert") /\ req[n].op \in OpsAt("upsert")
      BY <1>1, <2>3 DEF BeginTransaction, OpsAt
    <3>2. "upsert" \in Statements
      BY DEF Statements, TryBlock
    <3> QED BY <1>0, <1>0b, <1>1, <2>1, <3>1, <3>2, TypeInvMove DEF BeginTransaction
  <2>4. CASE req[n].op = "task"
    <3>1. Goto(n, "task") /\ req[n].op \in OpsAt("task")
      BY <1>1, <2>4 DEF BeginTransaction, OpsAt
    <3>2. "task" \in Statements
      BY DEF Statements, TryBlock
    <3> QED BY <1>0, <1>0b, <1>1, <2>1, <3>1, <3>2, TypeInvMove DEF BeginTransaction
  <2> QED BY <2>2, <2>3, <2>4
<1>2. CASE UpsertInstance(n)
  <2> DEFINE old == InstanceRows(Own(n), req[n].inst)
             new == Upserted(old, req[n].inst, n)
  <2>1. new \in SUBSET Rows
    BY <1>0a, RowsTyped
  <2>2. "delete" \in Statements /\ req[n].op \in OpsAt("delete")
    BY <1>0a, <1>2 DEF UpsertInstance, OpsAt, Statements, TryBlock
  <2>3. /\ Change(conn[n], old, new) /\ Goto(n, "delete")
        /\ UNCHANGED <<link, req, conn, todo, loaded>>
    BY <1>2 DEF UpsertInstance
  <2> HIDE DEF old, new
  <2> QED BY <1>0, <1>0a, <1>0c, <2>1, <2>2, <2>3, TypeInvWrite
<1>3. CASE DeleteVariables(n)
  <2> DEFINE old == VariableRows(Own(n), req[n].inst)
             next == NextInsert(todo[n])
  <2>1. req[n].op \in OpsAt(next)
    BY <1>0a, <1>3, NextInsertOps DEF DeleteVariables, OpsAt
  <2>2. Change(conn[n], old, {}) /\ Goto(n, next)
    BY <1>3 DEF DeleteVariables
  <2>3. UNCHANGED <<link, req, conn, loaded>> /\ todo' = [todo EXCEPT ![n] = todo[n]]
    BY <1>0c, <1>3 DEF DeleteVariables
  <2>4. next \in Statements /\ (next = "insert" => todo[n] # <<>>)
    BY <1>0a, NextInsertOps
  <2>5. {} \in SUBSET Rows
    OBVIOUS
  <2> HIDE DEF old, next
  <2> QED BY <1>0, <1>0a, <2>1, <2>2, <2>3, <2>4, <2>5, TypeInvWrite
<1>4. CASE InsertTask(n)
  <2>1. req[n].op = "task"
    BY <1>0a, <1>4 DEF InsertTask, OpsAt
  <2>2. {TaskRow(req[n].inst, req[n].task, n)} \in SUBSET Rows
    BY <1>0a, <2>1, RequestFields, RowsTyped
  <2>3. req[n].op \in OpsAt(NextInsert(todo[n]))
    BY <1>0a, <2>1, NextInsertOps
  <2>4. /\ Change(conn[n], {}, {TaskRow(req[n].inst, req[n].task, n)})
        /\ Goto(n, NextInsert(todo[n]))
        /\ UNCHANGED <<link, req, conn, todo, loaded>>
    BY <1>4 DEF InsertTask
  <2> QED BY <1>0, <1>0a, <1>0c, <2>2, <2>3, <2>4, NextInsertOps, TypeInvWrite
<1>5. CASE InsertVariable(n)
  <2>1. pc[n] = "insert" /\ todo[n] # <<>> /\ req[n].op \in {"save", "task"}
    BY <1>0a, <1>5 DEF InsertVariable, OpsAt
  <2>2. Head(todo[n]) \in Names /\ Tail(todo[n]) \in Seq(Names)
    BY <1>0a, <2>1
  <2>3. KeyFor(req[n], Head(todo[n])) \in Names \cup {TooLong}
    BY <1>0a, <2>2, RequestFields, TaskKeyAssumption DEF KeyFor
  <2>4. KeyFor(req[n], Head(todo[n])) # TooLong
    BY <1>5, <2>1 DEF InsertVariable, Accepted, Violates
  <2>5. {NextVariable(n)} \in SUBSET Rows
    BY <1>0a, <2>3, <2>4, RowsTyped DEF NextVariable
  <2>6. req[n].op \in OpsAt(NextInsert(Tail(todo[n])))
    BY <2>1, <2>2, NextInsertOps
  <2>7. /\ Change(conn[n], {}, {NextVariable(n)})
        /\ Goto(n, NextInsert(Tail(todo[n])))
        /\ todo' = [todo EXCEPT ![n] = Tail(todo[n])]
        /\ UNCHANGED <<link, req, conn, loaded>>
    BY <1>5 DEF InsertVariable
  <2> QED BY <1>0, <2>2, <2>5, <2>6, <2>7, NextInsertOps, TypeInvWrite
<1>6. CASE CommitTransaction(n)
  <2>1. StorageTyped
    BY <1>0a, <1>6, CommitTyped DEF CommitTransaction, TypeInv
  <2> QED BY <1>0, <1>6, <2>1, TypeInvLast DEF CommitTransaction
<1>7. CASE RollbackTransaction(n)
  <2>1. PgTypeOK'
    BY <1>0a, <1>7, SessionTyped DEF RollbackTransaction, TypeInv
  <2>2. "threw" \in Finished /\ "threw" \notin Statements
    BY DEF Finished, Statements, TryBlock
  <2> QED BY <1>0, <1>0b, <1>7, <2>1, <2>2, TypeInvMove DEF RollbackTransaction
<1>8. CASE SelectInstance(n)
  <2>1. PgTypeOK'
    BY <1>8 DEF SelectInstance, TypeInv, PgTypeOK, pgVars
  <2>2. loaded' \in [Calls -> SUBSET Rows]
    BY <1>0a, <1>0b, <1>8 DEF SelectInstance, InstanceRows
  <2>3. PICK l \in {"threw", "selectVariables"} : Goto(n, l)
    BY <1>8 DEF SelectInstance
  <2>4. /\ l \in Statements \cup Finished /\ l # "insert"
        /\ l \in Statements => req[n].op \in OpsAt(l)
    BY <1>0a, <1>8 DEF SelectInstance, Statements, TryBlock, Finished, OpsAt
  <2> QED BY <1>0, <1>8, <2>1, <2>2, <2>3, <2>4, TypeInvMove DEF SelectInstance
<1>9. CASE SelectVariables(n)
  <2>1. PgTypeOK'
    BY <1>9 DEF SelectVariables, TypeInv, PgTypeOK, pgVars
  <2>2. loaded' \in [Calls -> SUBSET Rows]
    BY <1>0a, <1>0b, <1>9 DEF SelectVariables, VariableRows
  <2>3. "returned" \in Finished /\ "returned" \notin Statements
    BY DEF Finished, Statements, TryBlock
  <2> QED BY <1>0, <1>9, <2>1, <2>2, <2>3, TypeInvMove DEF SelectVariables
<1>10. CASE CompleteInstance(n)
  <2> DEFINE old == InstanceRows(Own(n), req[n].inst)
             new == Completed(old, req[n].inst)
  <2>1. new \in SUBSET Rows
    BY <1>0a, RowsTyped
  <2>2. /\ Change(conn[n], old, new) /\ LastReply(n)
        /\ UNCHANGED <<req, conn, todo, loaded>>
    BY <1>10 DEF CompleteInstance
  <2> HIDE DEF old, new
  <2>3. StorageTyped
    BY <1>0a, <2>1, <2>2, ChangeTyped DEF TypeInv
  <2> QED BY <1>0, <2>2, <2>3, TypeInvLast
<1>11. CASE InsertError(n)
  <2>1. {ErrorRow(req[n].inst, n)} \in SUBSET Rows
    BY <1>0a, RowsTyped
  <2>2. StorageTyped
    BY <1>0a, <1>11, <2>1, ChangeTyped DEF InsertError, TypeInv
  <2> QED BY <1>0, <1>11, <2>2, TypeInvLast DEF InsertError
<1>12. CASE ConnectionFails(n)
  <2>1. PgTypeOK'
    BY <1>12 DEF ConnectionFails, TypeInv, PgTypeOK, pgVars
  <2> QED BY <1>0, <1>12, <2>1, TypeInvThrow DEF ConnectionFails
<1>13. CASE StatementFails(n)
  <2>1. PgTypeOK'
    BY <1>0a, <1>13, SessionTyped DEF StatementFails, TypeInv
  <2> QED BY <1>0, <1>13, <2>1, TypeInvThrow DEF StatementFails
<1> QED
  BY <1>1, <1>2, <1>3, <1>4, <1>5, <1>6, <1>7, <1>8, <1>9, <1>10, <1>11, <1>12,
     <1>13 DEF Progress

LEMMA TypeInvNext == TypeInv /\ [Next]_vars => TypeInv'
<1> SUFFICES ASSUME TypeInv, [Next]_vars PROVE TypeInv'
  OBVIOUS
<1>1. CASE \E n \in Calls, c \in Conns, rq \in Request : Call(n, c, rq)
  BY <1>1, TypeInvCall
<1>2. CASE \E n \in Calls : Progress(n) \/ StatementFails(n)
  BY <1>2, TypeInvProgress
<1>3. CASE \E c \in Conns : DropSession(c)
  <2>1. PICK c \in Conns : DropSession(c)
    BY <1>3
  <2>2. PgTypeOK'
    BY <2>1, SessionTyped DEF DropSession, TypeInv
  <2> QED BY <2>1, <2>2 DEF DropSession, TypeInv, CallTypeOK, ControlOK, Running
<1>4. CASE UNCHANGED vars
  BY <1>4 DEF vars, pgVars, TypeInv, PgTypeOK, CallTypeOK, ControlOK, Running
<1> QED BY <1>1, <1>2, <1>3, <1>4 DEF Next

(* Rows, sessions, links, arguments and control stay within their types,   *)
(* in particular no row with a name the column cannot hold, for every      *)
(* number of calls and connections, shared or not.                         *)
THEOREM Typed == Spec => []TypeOK
<1>1. TypeInv => TypeOK
  BY DEF TypeInv, PgTypeOK, CallTypeOK, TypeOK
<1> QED BY <1>1, TypeInvInit, TypeInvNext, PTL DEF Spec

-----------------------------------------------------------------------------
(* A call that has a ROLLBACK or a COMMIT ahead of it.                     *)
Inside(n) == pc[n] \in TryBlock \cup {"rollback"}

(* The server has ended the transaction of a broken connection, so a       *)
(* ROLLBACK that throws because of it leaves no transaction behind.        *)
BrokenIsIdle == \A c \in Conns : link[c] = "broken" => tx[c] = "idle"

IdleInv == TypeInv /\ BrokenIsIdle /\ IdleOutsideTransaction

(* While a connection is in a transaction block somebody will end it, when *)
(* a step touches one connection and one call only: either the step ends   *)
(* the block, or its call is still inside.                                 *)
LEMMA IdleStep ==
  ASSUME IdleInv, NEW n \in Calls, Running(n), UNCHANGED conn,
         tx' \in [Conns -> TxStates], link' \in [Conns -> LinkStates],
         \A m \in Calls \ {n} : pc'[m] = pc[m],
         \A d \in Conns \ {conn[n]} : tx'[d] = tx[d] /\ link'[d] = link[d],
         tx'[conn[n]] # "idle" =>
           /\ Inside(n)' \/ (tx[conn[n]] # "idle" /\ ~Inside(n))
           /\ link'[conn[n]] = "up"
  PROVE  BrokenIsIdle' /\ IdleOutsideTransaction'
<1>1. BrokenIsIdle'
  BY DEF IdleInv, BrokenIsIdle, LinkStates
<1>2. IdleOutsideTransaction'
  <2> SUFFICES ASSUME NEW c \in Conns, tx'[c] # "idle"
               PROVE  \E m \in Calls : Inside(m)' /\ conn[m] = c
    BY DEF IdleOutsideTransaction, Inside
  <2>1. CASE c = conn[n] /\ Inside(n)'
    BY <2>1
  <2>2. CASE ~(c = conn[n] /\ Inside(n)')
    <3>1. tx[c] # "idle" /\ (c = conn[n] => ~Inside(n))
      BY <2>2
    <3>2. PICK m \in Calls : Inside(m) /\ conn[m] = c
      BY <3>1 DEF IdleInv, IdleOutsideTransaction, Inside
    <3>3. m # n
      BY <3>1, <3>2
    <3> QED BY <3>2, <3>3 DEF Inside
  <2> QED BY <2>1, <2>2
<1> QED BY <1>1, <1>2

LEMMA IdleProgress ==
  ASSUME IdleInv, NEW n \in Calls, Progress(n) \/ StatementFails(n)
  PROVE  BrokenIsIdle' /\ IdleOutsideTransaction'
<1>0. Running(n)
  BY DEF Progress, BeginTransaction, UpsertInstance, DeleteVariables, InsertTask,
         InsertVariable, CommitTransaction, RollbackTransaction, SelectInstance,
         SelectVariables, CompleteInstance, InsertError, ConnectionFails,
         StatementFails, Running, Statements, TryBlock
<1>0a. /\ tx \in [Conns -> TxStates] /\ link \in [Conns -> LinkStates]
       /\ pc \in [Calls -> {"new"} \cup Statements \cup Finished]
       /\ conn[n] \in Conns
       /\ \A c \in Conns : link[c] = "up" \/ tx[c] = "idle"
  BY <1>0, RunningTyped
     DEF IdleInv, TypeInv, PgTypeOK, CallTypeOK, BrokenIsIdle, LinkStates
<1>0b. /\ tx' \in [Conns -> TxStates] /\ link' \in [Conns -> LinkStates]
  BY TypeInvProgress DEF IdleInv, TypeInv, PgTypeOK
(* A statement in the try block after which the call is still inside it.   *)
<1>1. CASE \/ BeginTransaction(n) \/ UpsertInstance(n) \/ DeleteVariables(n)
           \/ InsertTask(n) \/ InsertVariable(n)
  <2>1. Inside(n)' /\ UNCHANGED <<link, conn>>
    BY <1>0a, <1>1 DEF BeginTransaction, UpsertInstance, DeleteVariables, InsertTask,
       InsertVariable, Goto, NextInsert, Inside, TryBlock, Begin
  <2>2. /\ \A d \in Conns \ {conn[n]} : tx'[d] = tx[d]
        /\ \A m \in Calls \ {n} : pc'[m] = pc[m]
        /\ link[conn[n]] = "up"
    BY <1>0a, <1>1 DEF BeginTransaction, UpsertInstance, DeleteVariables, InsertTask,
       InsertVariable, Goto, Begin, Change, CanRun
  <2> QED BY <1>0, <1>0b, <2>1, <2>2, IdleStep
(* COMMIT and ROLLBACK end the block.                                      *)
<1>2. CASE CommitTransaction(n) \/ RollbackTransaction(n)
  <2>1. tx' = [tx EXCEPT ![conn[n]] = "idle"] /\ UNCHANGED conn
    BY <1>2 DEF CommitTransaction, RollbackTransaction, Commit, Rollback, Discard
  <2>2. /\ \A d \in Conns \ {conn[n]} : tx'[d] = tx[d] /\ link'[d] = link[d]
        /\ \A m \in Calls \ {n} : pc'[m] = pc[m]
    BY <1>0a, <1>2, <2>1 DEF CommitTransaction, RollbackTransaction, Rollback, LastReply,
       Throw, Goto
  <2>3. tx'[conn[n]] = "idle"
    BY <1>0a, <2>1
  <2> QED BY <1>0, <1>0b, <2>1, <2>2, <2>3, IdleStep
(* A call outside any block leaves the block of its connection alone.      *)
<1>3. CASE \/ SelectInstance(n) \/ SelectVariables(n)
           \/ CompleteInstance(n) \/ InsertError(n)
  <2>1. ~Inside(n) /\ UNCHANGED <<tx, conn>>
    BY <1>3 DEF SelectInstance, SelectVariables, CompleteInstance, InsertError, Change,
       Inside, TryBlock, pgVars
  <2>2. /\ \A d \in Conns \ {conn[n]} : link'[d] = link[d]
        /\ \A m \in Calls \ {n} : pc'[m] = pc[m]
    BY <1>0a, <1>3 DEF SelectInstance, SelectVariables, CompleteInstance, InsertError,
       LastReply, Throw, Goto, pgVars
  <2>3. tx[conn[n]] # "idle" => link'[conn[n]] = "up"
    BY <1>0a, <1>3 DEF SelectInstance, SelectVariables, CompleteInstance, InsertError,
       LastReply, pgVars
  <2> QED BY <1>0, <1>0b, <2>1, <2>2, <2>3, IdleStep
(* An error in the try block leads to the ROLLBACK.                        *)
<1>4. CASE StatementFails(n)
  <2>1. /\ UNCHANGED <<link, conn>> /\ link[conn[n]] = "up"
        /\ \A d \in Conns \ {conn[n]} : tx'[d] = tx[d]
        /\ \A m \in Calls \ {n} : pc'[m] = pc[m]
        /\ tx'[conn[n]] # "idle" => tx[conn[n]] # "idle"
    BY <1>0a, <1>4 DEF StatementFails, Fail, Throw, Goto
  <2>2. Inside(n) => Inside(n)'
    BY <1>0a, <1>4 DEF StatementFails, Throw, Goto, Inside
  <2> QED BY <1>0, <1>0b, <2>1, <2>2, IdleStep
(* On a broken connection no block is open.                                *)
<1>5. CASE ConnectionFails(n)
  <2>1. /\ UNCHANGED <<tx, link, conn>>
        /\ \A m \in Calls \ {n} : pc'[m] = pc[m]
        /\ link[conn[n]] = "broken"
    BY <1>0a, <1>5 DEF ConnectionFails, Throw, Goto, pgVars
  <2>2. tx[conn[n]] = "idle"
    BY <1>0a, <2>1
  <2> QED BY <1>0, <1>0b, <2>1, <2>2, IdleStep
<1> QED
  BY <1>1, <1>2, <1>3, <1>4, <1>5 DEF Progress

LEMMA IdleInvNext == IdleInv /\ [Next]_vars => IdleInv'
<1> SUFFICES ASSUME IdleInv, [Next]_vars PROVE IdleInv'
  OBVIOUS
<1>0. TypeInv'
  BY TypeInvNext DEF IdleInv
<1>1. CASE \E n \in Calls, c \in Conns, rq \in Request : Call(n, c, rq)
  <2>1. PICK n \in Calls, c \in Conns, rq \in Request : Call(n, c, rq)
    BY <1>1
  <2>2. UNCHANGED <<tx, link>> /\ ~Inside(n)
    BY <2>1 DEF Call, pgVars, Inside, TryBlock
  <2>3. \A m \in Calls \ {n} : pc'[m] = pc[m] /\ conn'[m] = conn[m]
    BY <2>1 DEF Call, Goto, IdleInv, TypeInv, CallTypeOK
  <2>4. BrokenIsIdle' /\ IdleOutsideTransaction'
    BY <2>2, <2>3 DEF IdleInv, BrokenIsIdle, IdleOutsideTransaction, Inside
  <2> QED BY <1>0, <2>4 DEF IdleInv
<1>2. CASE \E n \in Calls : Progress(n) \/ StatementFails(n)
  BY <1>0, <1>2, IdleProgress DEF IdleInv
<1>3. CASE \E c \in Conns : DropSession(c)
  <2>1. PICK c \in Conns : DropSession(c)
    BY <1>3
  <2>2. /\ UNCHANGED <<pc, conn>> /\ tx' = [tx EXCEPT ![c] = "idle"]
        /\ link' = [link EXCEPT ![c] = "broken"]
        /\ tx \in [Conns -> TxStates] /\ link \in [Conns -> LinkStates]
    BY <2>1 DEF DropSession, Drop, Discard, IdleInv, TypeInv, PgTypeOK
  <2>3. BrokenIsIdle' /\ IdleOutsideTransaction'
    BY <2>2 DEF IdleInv, BrokenIsIdle, IdleOutsideTransaction
  <2> QED BY <1>0, <2>3 DEF IdleInv
<1>4. CASE UNCHANGED vars
  BY <1>0, <1>4 DEF vars, pgVars, IdleInv, BrokenIsIdle, IdleOutsideTransaction
<1> QED BY <1>1, <1>2, <1>3, <1>4 DEF Next

(* No call leaves its transaction open on a connection, whether callers    *)
(* share the connection or not and however statements and connections      *)
(* fail, although the handler's ROLLBACK may itself throw.                 *)
THEOREM IdleConnections == Spec => []IdleOutsideTransaction
<1>1. Init => IdleInv
  <2>1. Init => BrokenIsIdle /\ IdleOutsideTransaction
    BY DEF Init, PgInit, BrokenIsIdle, IdleOutsideTransaction
  <2> QED BY <2>1, TypeInvInit DEF IdleInv
<1>2. IdleInv => IdleOutsideTransaction
  BY DEF IdleInv
<1> QED BY <1>1, <1>2, IdleInvNext, PTL DEF Spec

=============================================================================
