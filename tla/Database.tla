------------------------------ MODULE Database ------------------------------
(***************************************************************************)
(* db::Database (src/src/db/orm.cpp), the layer that stores process        *)
(* instances, their variables, user tasks and errors.                      *)
(*                                                                         *)
(* An actor is a call of a public method.  Its pc is the SQL statement it  *)
(* sends next, so calls interleave between statements.                     *)
(***************************************************************************)
EXTENDS Postgres, Schema

CONSTANT Serial    \* do the callers of one Database serialise their calls

ASSUME SerialAssumption == Serial \in BOOLEAN

VARIABLES
  req,         \* req[n]: the arguments of call n
  conn,        \* conn[n]: the connection of its Database object
  pc,          \* pc[n]: the next statement of call n
  todo,        \* todo[n]: the variables call n has not inserted yet
  loaded       \* loaded[n]: the rows call n has read

vars == <<pgVars, req, conn, pc, todo, loaded>>

NoConn == "none"

-----------------------------------------------------------------------------
(* Operators whose name ends in _Fault are plausible defects of the one    *)
(* defined after them.  Nothing uses them; they show which property would  *)
(* notice the defect.                                                      *)

(* The user_tasks row is inserted before BEGIN.                            *)
FirstStatement_Fault(op) ==
  CASE op = "save"     -> "begin"
    [] op = "task"     -> "task"
    [] op = "load"     -> "selectInstance"
    [] op = "complete" -> "complete"
    [] op = "error"    -> "error"

(* The pc of a call that has sent no statement yet.                        *)
FirstStatement(op) ==
  CASE op \in {"save", "task"} -> "begin"
    [] op = "load"             -> "selectInstance"
    [] op = "complete"         -> "complete"
    [] op = "error"            -> "error"

(* The statements inside the try block that ends with ROLLBACK.            *)
TryBlock == {"upsert", "delete", "task", "insert", "commit"}

Statements ==
  TryBlock \cup {"begin", "rollback", "selectInstance", "selectVariables",
                 "complete", "error"}

Finished == {"returned", "threw"}

Running(n) == pc[n] \in Statements

Goto(n, l) == pc' = [pc EXCEPT ![n] = l]

(* The row its next INSERT INTO process_variables adds.                    *)
NextVariable(n) ==
  VariableRow(req[n].inst, KeyFor(req[n], Head(todo[n])), n)

Own(n) == Visible(conn[n])

(* The keys of the rows the next statement of call n writes.               *)
StatementKeys(n) ==
  CASE pc[n] = "upsert"   -> {<<"instance", req[n].inst>>}
    [] pc[n] = "complete" -> {r.pk : r \in InstanceRows(Own(n), req[n].inst)}
    [] pc[n] = "delete"   -> {r.pk : r \in VariableRows(Own(n), req[n].inst)}
    [] pc[n] = "insert"   -> {NextVariable(n).pk}
    [] OTHER              -> {}

WaitsFor(n) == Holders(conn[n], StatementKeys(n))

(* Names longer than the column are stored.                                *)
Violates_Fault(n) ==
  \/ /\ pc[n] \in {"task", "insert", "error"}
     /\ InstanceRows(Own(n), req[n].inst) = {}
  \/ /\ pc[n] = "insert"
     /\ \E r \in Own(n) : r.pk = NextVariable(n).pk

(* The next statement violates a constraint: a foreign key, the length of  *)
(* var_key, or UNIQUE(instance_id, var_key).                               *)
Violates(n) ==
  \/ /\ pc[n] \in {"task", "insert", "error"}
     /\ InstanceRows(Own(n), req[n].inst) = {}
  \/ /\ pc[n] = "insert"
     /\ \/ KeyFor(req[n], Head(todo[n])) = TooLong
        \/ \E r \in Own(n) : r.pk = NextVariable(n).pk

Accepted(n) == WaitsFor(n) = {} /\ ~Violates(n)

(* The handler does not send ROLLBACK.                                     *)
Throw_Fault(n) == Goto(n, "threw")

(* The handler sends ROLLBACK until it succeeds.                           *)
Throw_RetryFault(n) ==
  Goto(n, IF pc[n] \in TryBlock \cup {"rollback"} THEN "rollback" ELSE "threw")

(* A statement throws: inside the try block the handler sends ROLLBACK.    *)
Throw(n) == Goto(n, IF pc[n] \in TryBlock THEN "rollback" ELSE "threw")

(* The last statement of a call is executed, and its reply arrives or is   *)
(* lost with the connection: then the caller gets an exception although    *)
(* the statement took effect.  (A reply lost inside an open transaction is *)
(* Drop, for the server then rolls back.)                                  *)
LastReply(n) ==
  \/ Goto(n, "returned") /\ UNCHANGED link
  \/ /\ pc[n] = "commit" \/ tx[conn[n]] = "idle"
     /\ link' = [link EXCEPT ![conn[n]] = "broken"]
     /\ Throw(n)

Init ==
  /\ PgInit
  /\ req = [n \in Calls |-> NoRequest]
  /\ conn = [n \in Calls |-> NoConn]
  /\ pc = [n \in Calls |-> "new"]
  /\ todo = [n \in Calls |-> <<>>]
  /\ loaded = [n \in Calls |-> {}]

-----------------------------------------------------------------------------
(* saveProcessInstance, saveUserTask, loadProcessInstance,                 *)
(* completeProcessInstance or saveError is called.                         *)
Call(n, c, rq) ==
  /\ pc[n] = "new"
  /\ \A m \in Calls : m < n => pc[m] # "new"
  /\ Serial => ~\E m \in Calls : Running(m) /\ conn[m] = c
  /\ req' = [req EXCEPT ![n] = rq]
  /\ conn' = [conn EXCEPT ![n] = c]
  /\ Goto(n, FirstStatement(rq.op))
  /\ todo' = [todo EXCEPT ![n] = IF rq.op \in {"save", "task"}
                                 THEN rq.vars ELSE <<>>]
  /\ UNCHANGED <<pgVars, loaded>>

(* BEGIN is never sent.                                                    *)
BeginTransaction_Fault(n) ==
  /\ pc[n] = "begin"
  /\ CanRun(conn[n])
  /\ Goto(n, IF req[n].op = "save" THEN "upsert" ELSE "task")
  /\ UNCHANGED <<pgVars, req, conn, todo, loaded>>

BeginTransaction(n) ==
  /\ pc[n] = "begin"
  /\ Begin(conn[n])
  /\ Goto(n, IF req[n].op = "save" THEN "upsert" ELSE "task")
  /\ UNCHANGED <<req, conn, todo, loaded>>

UpsertInstance(n) ==
  LET i == req[n].inst
      old == InstanceRows(Own(n), i)
  IN /\ pc[n] = "upsert"
     /\ Accepted(n)
     /\ Change(conn[n], old, Upserted(old, i, n))
     /\ Goto(n, "delete")
     /\ UNCHANGED <<link, req, conn, todo, loaded>>

(* The loop over the variables ends one too early.                         *)
NextInsert_Fault(s) == IF Len(s) < 2 THEN "commit" ELSE "insert"

(* The statement after the variables still to be inserted.                 *)
NextInsert(s) == IF s = <<>> THEN "commit" ELSE "insert"

(* The variables of the former save are left in the table.                 *)
DeleteVariables_Fault(n) ==
  /\ pc[n] = "delete"
  /\ Accepted(n)
  /\ Change(conn[n], {}, {})
  /\ Goto(n, NextInsert(todo[n]))
  /\ UNCHANGED <<link, req, conn, todo, loaded>>

(* Only the variables that are saved again are deleted.                    *)
DeleteVariables_SameFault(n) ==
  LET again == {KeyFor(req[n], k) : k \in Range(req[n].vars)}
      old == VariableRows(Own(n), req[n].inst)
  IN /\ pc[n] = "delete"
     /\ Accepted(n)
     /\ Change(conn[n], {v \in old : \E k \in again : v.pk = <<"variable", req[n].inst, k>>}, {})
     /\ Goto(n, NextInsert(todo[n]))
     /\ UNCHANGED <<link, req, conn, todo, loaded>>

DeleteVariables(n) ==
  /\ pc[n] = "delete"
  /\ Accepted(n)
  /\ Change(conn[n], VariableRows(Own(n), req[n].inst), {})
  /\ Goto(n, NextInsert(todo[n]))
  /\ UNCHANGED <<link, req, conn, todo, loaded>>

InsertTask(n) ==
  /\ pc[n] = "task"
  /\ Accepted(n)
  /\ Change(conn[n], {}, {TaskRow(req[n].inst, req[n].task, n)})
  /\ Goto(n, NextInsert(todo[n]))
  /\ UNCHANGED <<link, req, conn, todo, loaded>>

(* One INSERT INTO process_variables, without an ON CONFLICT clause.       *)
InsertVariable(n) ==
  /\ pc[n] = "insert"
  /\ Accepted(n)
  /\ Change(conn[n], {}, {NextVariable(n)})
  /\ todo' = [todo EXCEPT ![n] = Tail(@)]
  /\ Goto(n, NextInsert(Tail(todo[n])))
  /\ UNCHANGED <<link, req, conn, loaded>>

CommitTransaction(n) ==
  /\ pc[n] = "commit"
  /\ Commit(conn[n])
  /\ LastReply(n)
  /\ UNCHANGED <<req, conn, todo, loaded>>

(* The handler does not rethrow.                                           *)
RollbackTransaction_Fault(n) ==
  /\ pc[n] = "rollback"
  /\ Rollback(conn[n])
  /\ Goto(n, "returned")
  /\ UNCHANGED <<req, conn, todo, loaded>>

(* ROLLBACK in the exception handler; the original exception goes on.      *)
RollbackTransaction(n) ==
  /\ pc[n] = "rollback"
  /\ Rollback(conn[n])
  /\ Goto(n, "threw")
  /\ UNCHANGED <<req, conn, todo, loaded>>

(* The status is not tested.                                               *)
SelectInstance_Fault(n) ==
  LET found == InstanceRows(Own(n), req[n].inst)
  IN /\ pc[n] = "selectInstance"
     /\ CanRun(conn[n])
     /\ loaded' = [loaded EXCEPT ![n] = found]
     /\ Goto(n, IF found = {} THEN "threw" ELSE "selectVariables")
     /\ UNCHANGED <<pgVars, req, conn, todo>>

(* loadProcessInstance: two statements and no transaction around them.     *)
SelectInstance(n) ==
  LET found == {r \in InstanceRows(Own(n), req[n].inst) : r.status = "RUNNING"}
  IN /\ pc[n] = "selectInstance"
     /\ CanRun(conn[n])
     /\ loaded' = [loaded EXCEPT ![n] = found]
     /\ Goto(n, IF found = {} THEN "threw" ELSE "selectVariables")
     /\ UNCHANGED <<pgVars, req, conn, todo>>

SelectVariables(n) ==
  /\ pc[n] = "selectVariables"
  /\ CanRun(conn[n])
  /\ loaded' = [loaded EXCEPT ![n] = @ \cup VariableRows(Own(n), req[n].inst)]
  /\ Goto(n, "returned")
  /\ UNCHANGED <<pgVars, req, conn, todo>>

(* UPDATE ... WHERE id = $1: no row is no error.                           *)
CompleteInstance(n) ==
  LET old == InstanceRows(Own(n), req[n].inst)
  IN /\ pc[n] = "complete"
     /\ Accepted(n)
     /\ Change(conn[n], old, Completed(old, req[n].inst))
     /\ LastReply(n)
     /\ UNCHANGED <<req, conn, todo, loaded>>

InsertError(n) ==
  /\ pc[n] = "error"
  /\ Accepted(n)
  /\ Change(conn[n], {}, {ErrorRow(req[n].inst, n)})
  /\ LastReply(n)
  /\ UNCHANGED <<req, conn, todo, loaded>>

-----------------------------------------------------------------------------
(* PQresultStatus reports an error and executeQuery... throws.             *)
StatementFails(n) ==
  /\ Running(n) /\ pc[n] # "rollback"
  /\ Fail(conn[n])
  /\ Throw(n)
  /\ UNCHANGED <<req, conn, todo, loaded>>

(* checkConnection, or the statement itself, finds the connection broken   *)
(* and throws; so does ROLLBACK in the handler.                            *)
ConnectionFails(n) ==
  /\ Running(n)
  /\ link[conn[n]] = "broken"
  /\ Throw(n)
  /\ UNCHANGED <<pgVars, req, conn, todo, loaded>>

DropSession(c) == Drop(c) /\ UNCHANGED <<req, conn, pc, todo, loaded>>

Progress(n) ==
  \/ BeginTransaction(n)
  \/ UpsertInstance(n)
  \/ DeleteVariables(n)
  \/ InsertTask(n)
  \/ InsertVariable(n)
  \/ CommitTransaction(n)
  \/ RollbackTransaction(n)
  \/ SelectInstance(n)
  \/ SelectVariables(n)
  \/ CompleteInstance(n)
  \/ InsertError(n)
  \/ ConnectionFails(n)

Next ==
  \/ \E n \in Calls, c \in Conns, rq \in Request : Call(n, c, rq)
  \/ \E n \in Calls : Progress(n) \/ StatementFails(n)
  \/ \E c \in Conns : DropSession(c)

Spec == Init /\ [][Next]_vars

(* Sessions of running calls that wait for each other; every one of them   *)
(* waits, and none outside the set can end the wait.                       *)
Deadlocked(n) ==
  \E D \in SUBSET Conns :
    /\ conn[n] \in D
    /\ \A d \in D : \E m \in Calls :
         Running(m) /\ conn[m] = d /\ WaitsFor(m) \cap D # {}

(* The server has to refuse the statement.                                 *)
MustFail(n) ==
  \/ tx[conn[n]] = "failed"
  \/ WaitsFor(n) = {} /\ Violates(n)
  \/ Deadlocked(n)

(* Every statement gets an answer: PQexec waits for one without a timeout, *)
(* and the server executes a statement, refuses it, resolves the deadlock  *)
(* it is part of, or is found gone.  An error the server need not report   *)
(* is never relied upon.                                                   *)
EveryStatementEnds ==
  \A n \in Calls : WF_vars(Progress(n) \/ (StatementFails(n) /\ MustFail(n)))

-----------------------------------------------------------------------------
(* Type invariant of the stored rows, the sessions and the calls.          *)
TypeOK ==
  /\ committed \subseteq Rows
  /\ ins \in [Conns -> SUBSET Rows]
  /\ del \in [Conns -> SUBSET Rows]
  /\ tx \in [Conns -> TxStates]
  /\ link \in [Conns -> LinkStates]
  /\ req \in [Calls -> Request \cup {NoRequest}]
  /\ conn \in [Calls -> Conns \cup {NoConn}]
  /\ pc \in [Calls -> {"new"} \cup Statements \cup Finished]
  /\ todo \in [Calls -> Seq(Names)]
  /\ loaded \in [Calls -> SUBSET Rows]
  /\ \A n \in Calls : pc[n] # "new" => req[n] \in Request /\ conn[n] \in Conns

(* A connection that is up is outside a transaction block whenever no call *)
(* is between its BEGIN and the end of its COMMIT or ROLLBACK: no call     *)
(* leaves its transaction open to swallow the writes of later calls,       *)
(* however many threads share the connection.                              *)
IdleOutsideTransaction ==
  \A c \in Conns :
    tx[c] # "idle" =>
      \E n \in Calls : pc[n] \in TryBlock \cup {"rollback"} /\ conn[n] = c

(* saveProcessInstance is all or nothing: the variables stored for an      *)
(* instance are exactly those of the call that set its current_element,    *)
(* besides variables of user tasks (of which, see DatabaseHistory).        *)
SaveIsAtomic ==
  \A i \in Instances : \A r \in InstanceRows(committed, i) :
    /\ RowsOf(r.element, req[r.element]) \subseteq committed
    /\ \A v \in VariableRows(committed, i) :
         v \in RowsOf(r.element, req[r.element]) \/ req[v.value].op = "task"

(* saveUserTask is all or nothing: a stored task variable comes with the   *)
(* other variables of the same call and with its user_tasks row.           *)
TaskIsAtomic ==
  \A n \in Calls :
    req[n].op = "task" /\ RowsOf(n, req[n]) \cap committed # {} =>
      /\ RowsOf(n, req[n]) \subseteq committed
      /\ TaskRow(req[n].inst, req[n].task, n) \in committed

(* A call that threw has stored nothing, unless its connection broke (then *)
(* COMMIT may have taken effect): the caller may safely repeat it.         *)
FailedCallStoresNothing ==
  \A n \in Calls :
    pc[n] = "threw" /\ link[conn[n]] = "up" =>
      \A r \in committed :
        /\ r.pk \notin {<<"task", n>>, <<"error", n>>}
        /\ \A i \in Instances : r.pk = <<"instance", i>> => r.element # n
        /\ \A i \in Instances, k \in Names :
             r.pk = <<"variable", i, k>> => r.value # n

(* A load never returns part of the variables a call has stored, although  *)
(* it reads the row and the variables with two statements.                 *)
LoadSeesWholeCalls ==
  \A l, n \in Calls :
    pc[l] = "returned" /\ req[l].op = "load" /\ req[n].op \in {"save", "task"} =>
      RowsOf(n, req[n]) \cap loaded[l] \in {{}, RowsOf(n, req[n])}

(* What a successful call n has left in the tables.                        *)
Stored(n) ==
  CASE req[n].op = "save" ->
         /\ RowsOf(n, req[n]) \subseteq committed
         /\ \E r \in InstanceRows(committed, req[n].inst) :
              r.element = n /\ r.status = "RUNNING"
    [] req[n].op = "task" ->
         RowsOf(n, req[n]) \cup {TaskRow(req[n].inst, req[n].task, n)} \subseteq committed
    [] req[n].op = "error" -> ErrorRow(req[n].inst, n) \in committed
    [] req[n].op = "complete" ->
         \A r \in InstanceRows(committed, req[n].inst) : r.status = "COMPLETED"
    [] OTHER -> TRUE

(* When a call returns normally, what it was asked to store is committed:  *)
(* no exception means the write survives every later failure.              *)
ReturnMeansStored ==
  [][\A n \in Calls :
       pc[n] # "returned" /\ pc'[n] = "returned" => Stored(n)']_vars

(* Every call ends, in a result or in an exception, also when statements   *)
(* fail, connections break or calls wait for each other's rows.            *)
EveryCallEnds == \A n \in Calls : Running(n) ~> pc[n] \in Finished

(* Database implements InstanceStore when each connection has one caller   *)
(* at a time.  A call whose exception is certain has already failed.       *)
Store ==
  INSTANCE InstanceStore WITH
    rows <- committed,
    state <- [n \in Calls |->
                CASE pc[n] \in {"rollback", "threw"} -> "threw"
                  [] pc[n] = "selectVariables"       -> "found"
                  [] pc[n] \in {"new", "returned"}   -> pc[n]
                  [] OTHER                           -> "open"]

(* Every write takes effect as a whole and at most once; nothing a call    *)
(* has done is visible before, and only an exception leaves its fate open. *)
ImplementsStore == Store!StoreSpec
=============================================================================
