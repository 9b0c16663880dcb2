------------------------------ MODULE Records -------------------------------
(***************************************************************************)
(* The records of db::ProcessDb and db::FormDb (src/src/db/models): create,*)
(* findById, update, deleteById, batchCreate and batchUpdate.  The two     *)
(* classes send the same statements to different tables.                   *)
(*                                                                         *)
(* An actor is a call; its pc is the statement it sends next.  The callers *)
(* of one Database take turns.                                             *)
(***************************************************************************)
EXTENDS Postgres, Naturals, Sequences, FiniteSets, Functions

CONSTANTS
  Calls,       \* the calls that are ever made, numbered in that order
  Kinds,       \* the classes in use
  Ids,         \* ids of definitions and forms
  Batches,     \* the id sequences callers pass to a batch operation
  columns      \* columns[k]: the columns of the table of class k

ASSUME RecordCalls == Calls \subseteq Nat
ASSUME BatchesAssumption == Batches \subseteq Seq(Ids)
ASSUME KindsAssumption == Kinds \subseteq {"process", "form"}
ASSUME ColumnsAssumption == columns \in [Kinds -> SUBSET STRING]

VARIABLES
  req,         \* req[n]: the arguments of call n
  conn,        \* conn[n]: the connection of its Database object
  pc,          \* pc[n]: its next statement
  next,        \* next[n]: the record that statement is about
  count,       \* count[n]: objects made or rows affected so far
  found        \* found[n]: the row findById has read

vars == <<pgVars, req, conn, pc, next, count, found>>

(* The columns of process_definitions and of process_forms.                *)
ProcessColumns == {"id", "description", "xmlcontent"}

FormColumns == {"id", "processId", "description", "schema", "uischema"}

(* The columns a statement names.                                          *)
ColumnsNamed(kind, stmt) ==
  IF stmt = "deleteById" THEN {"id"}
  ELSE IF kind = "process" THEN ProcessColumns
  ELSE FormColumns

(* The tables when initializeSchema has made them: process_forms is not    *)
(* among them.                                                             *)
SchemaColumns ==
  [k \in Kinds |-> IF k = "process"
                   THEN {"id", "bpmn_xml", "version", "deployed_at"} ELSE {}]

Request ==
       [op : {"findById", "create", "update", "deleteById"}, kind : Kinds,
        recs : {<<i>> : i \in Ids}]
  \cup [op : {"batchCreate", "batchUpdate"}, kind : Kinds, recs : Batches]

NoRequest == [op |-> "none"]
NoConn == "none"

Batch(rq) == rq.op \in {"batchCreate", "batchUpdate"}

(* The row record k of call n is stored as.  Its content is fresh.         *)
Row(n, k) == [pk |-> <<req[n].kind, req[n].recs[k]>>, value |-> <<n, k>>]

RowsOfCall(n) == {Row(n, k) : k \in DOMAIN req[n].recs}

Statements == {"findById", "create", "update", "deleteById",
               "begin", "insertNext", "updateNext", "commit", "rollback"}

TryBlock == {"insertNext", "updateNext", "commit"}

Running(n) == pc[n] \in Statements

Goto(n, l) == pc' = [pc EXCEPT ![n] = l]

Own(n) == Visible(conn[n])

(* WHERE id = $1                                                           *)
Matching(n) == {r \in Own(n) : r.pk = Row(n, next[n]).pk}

Inserts(n) == pc[n] \in {"create", "insertNext"}

(* The keys of the rows the next statement of call n writes.               *)
StatementKeys(n) ==
  CASE Inserts(n)                                       -> {Row(n, next[n]).pk}
    [] pc[n] \in {"update", "updateNext", "deleteById"} -> {r.pk : r \in Matching(n)}
    [] OTHER                                            -> {}

(* The server refuses the statement: there is no such table or column, or  *)
(* the id is taken.                                                        *)
Refused(n) ==
  /\ pc[n] \notin {"begin", "commit", "rollback"}
  /\ \/ ~(ColumnsNamed(req[n].kind, pc[n]) \subseteq columns[req[n].kind])
     \/ Inserts(n) /\ Matching(n) # {}

Accepted(n) == Holders(conn[n], StatementKeys(n)) = {} /\ ~Refused(n)

-----------------------------------------------------------------------------
Init ==
  /\ PgInit
  /\ req = [n \in Calls |-> NoRequest]
  /\ conn = [n \in Calls |-> NoConn]
  /\ pc = [n \in Calls |-> "new"]
  /\ next = [n \in Calls |-> 1]
  /\ count = [n \in Calls |-> 0]
  /\ found = [n \in Calls |-> {}]

(* An empty batch returns before it sends anything.                        *)
Call(n, c, rq) ==
  /\ pc[n] = "new"
  /\ \A m \in Calls : m < n => pc[m] # "new"
  /\ ~\E m \in Calls : Running(m) /\ conn[m] = c
  /\ req' = [req EXCEPT ![n] = rq]
  /\ conn' = [conn EXCEPT ![n] = c]
  /\ Goto(n, IF ~Batch(rq) THEN rq.op
             ELSE IF rq.recs = <<>> THEN "returned" ELSE "begin")
  /\ UNCHANGED <<pgVars, next, count, found>>

(* The result of the last statement arrives, or is lost with the           *)
(* connection although the statement took effect.                          *)
LastReply(n) ==
  \/ Goto(n, "returned") /\ UNCHANGED link
  \/ /\ link' = [link EXCEPT ![conn[n]] = "broken"]
     /\ Goto(n, IF pc[n] \in TryBlock THEN "rollback" ELSE "threw")

(* No row with the id is an error.                                         *)
FindById(n) ==
  /\ pc[n] = "findById"
  /\ CanRun(conn[n]) /\ Accepted(n)
  /\ found' = [found EXCEPT ![n] = Matching(n)]
  /\ Goto(n, IF Matching(n) = {} THEN "threw" ELSE "returned")
  /\ UNCHANGED <<pgVars, req, conn, next, count>>

Create(n) ==
  /\ pc[n] = "create"
  /\ Accepted(n)
  /\ Change(conn[n], {}, {Row(n, 1)})
  /\ count' = [count EXCEPT ![n] = 1]
  /\ LastReply(n)
  /\ UNCHANGED <<req, conn, next, found>>

(* A missing row is no error: the result is 0.                             *)
Update(n) ==
  LET old == Matching(n)
  IN /\ pc[n] = "update"
     /\ Accepted(n)
     /\ Change(conn[n], old, {Row(n, 1) : r \in old})
     /\ count' = [count EXCEPT ![n] = Cardinality(old)]
     /\ LastReply(n)
     /\ UNCHANGED <<req, conn, next, found>>

DeleteById(n) ==
  /\ pc[n] = "deleteById"
  /\ Accepted(n)
  /\ Change(conn[n], Matching(n), {})
  /\ count' = [count EXCEPT ![n] = Cardinality(Matching(n))]
  /\ LastReply(n)
  /\ UNCHANGED <<req, conn, next, found>>

-----------------------------------------------------------------------------
(* Operators whose name ends in _Fault are plausible defects of the one    *)
(* defined after them.                                                     *)

(* BEGIN is never sent.                                                    *)
BeginBatch_Fault(n) ==
  /\ pc[n] = "begin"
  /\ CanRun(conn[n])
  /\ Goto(n, IF req[n].op = "batchCreate" THEN "insertNext" ELSE "updateNext")
  /\ UNCHANGED <<pgVars, req, conn, next, count, found>>

BeginBatch(n) ==
  /\ pc[n] = "begin"
  /\ Begin(conn[n])
  /\ Goto(n, IF req[n].op = "batchCreate" THEN "insertNext" ELSE "updateNext")
  /\ UNCHANGED <<req, conn, next, count, found>>

(* The loop ends before the last record.                                   *)
NextRecord_Fault(n) ==
  /\ next' = [next EXCEPT ![n] = @ + 1]
  /\ Goto(n, IF next[n] + 1 >= Len(req[n].recs) THEN "commit" ELSE pc[n])

(* The loop goes on after the last record.                                 *)
NextRecord_OverrunFault(n) ==
  /\ next' = [next EXCEPT ![n] = @ + 1]
  /\ Goto(n, IF next[n] > Len(req[n].recs) THEN "commit" ELSE pc[n])

(* The loop over the records.                                              *)
NextRecord(n) ==
  /\ next' = [next EXCEPT ![n] = @ + 1]
  /\ Goto(n, IF next[n] = Len(req[n].recs) THEN "commit" ELSE pc[n])

InsertNext(n) ==
  /\ pc[n] = "insertNext"
  /\ Accepted(n)
  /\ Change(conn[n], {}, {Row(n, next[n])})
  /\ count' = [count EXCEPT ![n] = @ + 1]
  /\ NextRecord(n)
  /\ UNCHANGED <<link, req, conn, found>>

(* Every record is counted.                                                *)
UpdateNext_Fault(n) ==
  LET old == Matching(n)
  IN /\ pc[n] = "updateNext"
     /\ Accepted(n)
     /\ Change(conn[n], old, {Row(n, next[n]) : r \in old})
     /\ count' = [count EXCEPT ![n] = @ + 1]
     /\ NextRecord(n)
     /\ UNCHANGED <<link, req, conn, found>>

UpdateNext(n) ==
  LET old == Matching(n)
  IN /\ pc[n] = "updateNext"
     /\ Accepted(n)
     /\ Change(conn[n], old, {Row(n, next[n]) : r \in old})
     /\ count' = [count EXCEPT ![n] = @ + Cardinality(old)]
     /\ NextRecord(n)
     /\ UNCHANGED <<link, req, conn, found>>

CommitBatch(n) ==
  /\ pc[n] = "commit"
  /\ Commit(conn[n])
  /\ LastReply(n)
  /\ UNCHANGED <<req, conn, next, count, found>>

(* The handler does not send ROLLBACK.                                     *)
RollbackBatch_Fault(n) ==
  /\ pc[n] = "rollback"
  /\ Goto(n, "threw")
  /\ UNCHANGED <<pgVars, req, conn, next, count, found>>

(* ROLLBACK in the exception handler, its result unread; the exception     *)
(* goes on.                                                                *)
RollbackBatch(n) ==
  /\ pc[n] = "rollback"
  /\ \/ Rollback(conn[n])
     \/ link[conn[n]] = "broken" /\ UNCHANGED pgVars
  /\ Goto(n, "threw")
  /\ UNCHANGED <<req, conn, next, count, found>>

-----------------------------------------------------------------------------
(* PQresultStatus reports an error, of the server or of the connection.    *)
StatementFails(n) ==
  /\ Running(n) /\ pc[n] # "rollback"
  /\ \/ Fail(conn[n])
     \/ link[conn[n]] = "broken" /\ UNCHANGED pgVars
  /\ Goto(n, IF pc[n] \in TryBlock THEN "rollback" ELSE "threw")
  /\ UNCHANGED <<req, conn, next, count, found>>

DropSession(c) == Drop(c) /\ UNCHANGED <<req, conn, pc, next, count, found>>

Step(n) ==
  \/ FindById(n)
  \/ Create(n)
  \/ Update(n)
  \/ DeleteById(n)
  \/ BeginBatch(n)
  \/ InsertNext(n)
  \/ UpdateNext(n)
  \/ CommitBatch(n)
  \/ RollbackBatch(n)
  \/ StatementFails(n)

Next ==
  \/ \E n \in Calls, c \in Conns, rq \in Request : Call(n, c, rq)
  \/ \E n \in Calls : Step(n)
  \/ \E c \in Conns : DropSession(c)

Spec == Init /\ [][Next]_vars

-----------------------------------------------------------------------------
StoredRows ==
  [pk : Kinds \X Ids, value : Calls \X UNION {DOMAIN b : b \in Batches \cup {<<1>>}}]

(* Type invariant of the stored records, the sessions and the calls.       *)
TypeOK ==
  /\ committed \subseteq StoredRows
  /\ ins \in [Conns -> SUBSET StoredRows]
  /\ del \in [Conns -> SUBSET StoredRows]
  /\ tx \in [Conns -> TxStates]
  /\ link \in [Conns -> LinkStates]
  /\ req \in [Calls -> Request \cup {NoRequest}]
  /\ pc \in [Calls -> {"new", "returned", "threw"} \cup Statements]
  /\ \A n \in Calls :
       /\ pc[n] # "new" => req[n] \in Request /\ conn[n] \in Conns
       /\ pc[n] \in TryBlock \ {"commit"} => next[n] \in DOMAIN req[n].recs
       /\ found[n] \subseteq StoredRows

(* batchCreate is all or nothing: a step that publishes one of its records *)
(* publishes all of them.                                                  *)
BatchCreateIsAtomic ==
  [][\A n \in Calls :
       /\ req[n].op = "batchCreate"
       /\ RowsOfCall(n) \cap (committed' \ committed) # {}
       => RowsOfCall(n) \subseteq committed']_vars

(* Two batchUpdates of the same records that have both found all of them   *)
(* do not mix, in whatever order each lists its records: what is stored    *)
(* afterwards comes from one of them only.                                 *)
BatchUpdatesDoNotMix ==
  \A m, n \in Calls :
    /\ m # n
    /\ \A k \in {m, n} :
         /\ pc[k] = "returned"
         /\ req[k].op = "batchUpdate"
         /\ count[k] = Len(req[k].recs)
    /\ req[m].kind = req[n].kind
    /\ Range(req[m].recs) = Range(req[n].recs)
    => RowsOfCall(m) \cap committed = {} \/ RowsOfCall(n) \cap committed = {}

(* The number a successful create or update returns is the number of its   *)
(* records that are now stored; a record listed twice counts each time.    *)
ResultIsTrue ==
  [][\A n \in Calls :
       /\ pc[n] # "returned" /\ pc'[n] = "returned"
       /\ req[n].op \in {"create", "update", "batchCreate", "batchUpdate"}
       => LET stored == RowsOfCall(n) \cap committed'
          IN /\ Cardinality(stored) <= count'[n]
             /\ stored = {} => count'[n] = 0
             /\ IsInjective(req[n].recs) => count'[n] = Cardinality(stored)]_vars

(* A call that threw has stored nothing, unless its connection broke (then *)
(* the last statement may have taken effect).                              *)
FailedCallStoresNothing ==
  \A n \in Calls :
    pc[n] = "threw" /\ link[conn[n]] = "up" => RowsOfCall(n) \cap committed = {}

(* A batch that has ended leaves the connection outside of a transaction   *)
(* block, although nobody looks at the result of ROLLBACK: the statements  *)
(* of the next call on it are not swallowed by a transaction nobody ends.  *)
ConnectionLeftIdle ==
  \A c \in Conns :
    tx[c] # "idle" =>
      \E n \in Calls : pc[n] \in TryBlock \cup {"rollback"} /\ conn[n] = c

-----------------------------------------------------------------------------
(* A new record on a usable connection is accepted: the classes offer CRUD *)
(* operations on the tables of the library                                 *)
(* (include/db/models/process.h:17, src/db/models/process.cpp:69).         *)
NewRecordAccepted ==
  \A n \in Calls :
    pc[n] = "create" /\ Matching(n) = {} => ~Refused(n)
=============================================================================
