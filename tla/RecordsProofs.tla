--------------------------- MODULE RecordsProofs ----------------------------
(***************************************************************************)
(* Theorems about Records: any number of calls, connections, ids and       *)
(* batches.                                                                *)
(***************************************************************************)
EXTENDS Records, PostgresProofs, FiniteSetTheorems

-----------------------------------------------------------------------------
(* Definitions of the invariants, each of which is proved with the help of *)
(* the ones before it.                                                     *)

Singles == {"findById", "create", "update", "deleteById"}

(* 1. Where a call is, and which of its records it is about.               *)
CallInv(n) ==
  /\ pc[n] = "new" => req[n] = NoRequest
  /\ pc[n] # "new" => req[n] \in Request /\ conn[n] \in Conns
  /\ pc[n] \in {"new", "begin"} \cup Singles => next[n] = 1 /\ count[n] = 0
  /\ pc[n] \in Singles => req[n].op = pc[n]
  /\ pc[n] = "insertNext" => req[n].op = "batchCreate"
  /\ pc[n] = "updateNext" => req[n].op = "batchUpdate"
  /\ pc[n] \in TryBlock \cup {"begin"} => Batch(req[n])
  /\ pc[n] \in {"insertNext", "updateNext"} => next[n] \in DOMAIN req[n].recs
  /\ pc[n] = "begin" => req[n].recs # <<>>
  /\ pc[n] = "commit" => next[n] = Len(req[n].recs) + 1

CallsInv ==
  /\ req \in [Calls -> Request \cup {NoRequest}]
  /\ DOMAIN conn = Calls
  /\ pc \in [Calls -> {"new", "returned", "threw"} \cup Statements]
  /\ next \in [Calls -> Nat]
  /\ count \in [Calls -> Nat]
  /\ \A n \in Calls : CallInv(n)

(* 2. The transaction of a connection is that of its one running batch.    *)
SessionInv ==
  /\ DOMAIN ins = Conns
  /\ DOMAIN del = Conns
  /\ tx \in [Conns -> TxStates]
  /\ link \in [Conns -> LinkStates]
  /\ \A m, n \in Calls : Running(m) /\ Running(n) /\ conn[m] = conn[n] => m = n
  /\ \A c \in Conns :
       /\ tx[c] # "open" => ins[c] = {} /\ del[c] = {}
       /\ link[c] = "broken" => tx[c] = "idle"
       /\ tx[c] = "open" => \E n \in Calls : pc[n] \in TryBlock /\ conn[n] = c
       /\ tx[c] = "failed" => \E n \in Calls : pc[n] = "rollback" /\ conn[n] = c
  /\ \A n \in Calls : pc[n] \in TryBlock /\ link[conn[n]] = "up" => tx[conn[n]] = "open"

(* 3. A stored row was published by a call that has returned, or that lost *)
(* its connection.                                                         *)
Published(n) ==
  \/ pc[n] = "returned"
  \/ pc[n] # "new" /\ link[conn[n]] = "broken"

OriginInv ==
  \A r \in committed : \E n \in Calls : r \in RowsOfCall(n) /\ Published(n)

(* 4. What the open transaction of a batch has done so far.                *)
Done(n) == 1 .. next[n] - 1

AllFound(n) == \A k \in Done(n) : \E r \in ins[conn[n]] : r.pk = Row(n, k).pk

Progress(n) ==
  LET rows == ins[conn[n]]
  IN /\ rows \subseteq {Row(n, k) : k \in Done(n)}
     /\ req[n].op = "batchCreate" => {Row(n, k) : k \in Done(n)} \subseteq rows
     /\ count[n] < next[n]
     /\ count[n] = next[n] - 1 => AllFound(n)
     /\ IsFiniteSet(rows)
     /\ Cardinality(rows) <= count[n]
     /\ rows = {} => count[n] = 0
     /\ IsInjective(req[n].recs) => count[n] = Cardinality(rows)

ProgressInv ==
  \A n \in Calls : pc[n] \in TryBlock /\ tx[conn[n]] = "open" => Progress(n)

(* 5. The types of the rows.                                               *)
RowsTyped ==
  /\ committed \subseteq StoredRows
  /\ ins \in [Conns -> SUBSET StoredRows]
  /\ del \in [Conns -> SUBSET StoredRows]
  /\ found \in [Calls -> SUBSET StoredRows]

RecordsInv == CallsInv /\ SessionInv /\ KeysInv /\ OriginInv /\ ProgressInv /\ RowsTyped

-----------------------------------------------------------------------------
(* Requests and rows.                                                      *)

LEMMA RequestForm ==
  ASSUME NEW rq \in Request
  PROVE  /\ rq.kind \in Kinds
         /\ rq.recs \in Seq(Ids)
         /\ rq.op \in Singles \cup {"batchCreate", "batchUpdate"}
         /\ ~Batch(rq) => Len(rq.recs) = 1
         /\ DOMAIN rq.recs \subseteq UNION {DOMAIN b : b \in Batches \cup {<<1>>}}
<1>1. CASE rq \in [op : Singles, kind : Kinds, recs : {<<i>> : i \in Ids}]
  <2>1. PICK i \in Ids : rq.recs = <<i>>
    BY <1>1
  <2>2. DOMAIN <<i>> = DOMAIN <<1>>
    OBVIOUS
  <2>3. DOMAIN rq.recs \subseteq UNION {DOMAIN b : b \in Batches \cup {<<1>>}}
    BY <2>1, <2>2
  <2>. QED
    BY <1>1, <2>1, <2>3
<1>2. CASE rq \in [op : {"batchCreate", "batchUpdate"}, kind : Kinds, recs : Batches]
  BY <1>2, BatchesAssumption DEF Batch, Singles
<1>. QED
  BY <1>1, <1>2 DEF Request, Singles

(* A row names the call it comes from.                                     *)
LEMMA RowOwner ==
  ASSUME NEW m, NEW n, NEW j, NEW k, Row(m, j) = Row(n, k)
  PROVE  m = n /\ j = k
<1>1. Row(m, j).value = <<m, j>> /\ Row(n, k).value = <<n, k>>
  BY DEF Row
<1>. QED
  BY <1>1

LEMMA OneOwner ==
  ASSUME NEW m, NEW n, NEW r, r \in RowsOfCall(m), r \in RowsOfCall(n)
  PROVE  m = n
  BY RowOwner DEF RowsOfCall

LEMMA RowStored ==
  ASSUME CallsInv, NEW n \in Calls, req[n] \in Request, NEW k \in DOMAIN req[n].recs
  PROVE  Row(n, k) \in StoredRows
<1>1. req[n].recs[k] \in Ids /\ req[n].kind \in Kinds
  BY RequestForm
<1>2. k \in UNION {DOMAIN b : b \in Batches \cup {<<1>>}}
  BY RequestForm
<1>. QED
  BY <1>1, <1>2 DEF Row, StoredRows

-----------------------------------------------------------------------------
(* The steps.                                                              *)

(* What the next statement of call n replaces, and by what.                *)
Old(n) == IF Inserts(n) THEN {} ELSE Matching(n)

New(n) ==
  CASE Inserts(n)           -> {Row(n, next[n])}
    [] pc[n] = "deleteById" -> {}
    [] OTHER                -> {Row(n, next[n]) : r \in Matching(n)}

Writing == {"create", "update", "deleteById", "insertNext", "updateNext"}

Write(n) ==
  /\ pc[n] \in Writing
  /\ Accepted(n)
  /\ Change(conn[n], Old(n), New(n))
  /\ UNCHANGED <<req, conn, found>>

WriteSingle(n) ==
  /\ pc[n] \in Singles
  /\ Write(n)
  /\ UNCHANGED next
  /\ count' = [count EXCEPT ![n] =
                 IF pc[n] = "create" THEN 1 ELSE Cardinality(Matching(n))]
  /\ LastReply(n)

WriteNext(n) ==
  /\ pc[n] \in {"insertNext", "updateNext"}
  /\ Write(n)
  /\ UNCHANGED link
  /\ count' = [count EXCEPT ![n] =
                 @ + (IF pc[n] = "insertNext" THEN 1 ELSE Cardinality(Matching(n)))]
  /\ NextRecord(n)

LEMMA WriteSteps ==
  ASSUME CallsInv, NEW n \in Calls
  PROVE  /\ Create(n) \/ Update(n) \/ DeleteById(n) => WriteSingle(n)
         /\ InsertNext(n) \/ UpdateNext(n) => WriteNext(n)
<1>1. ASSUME Create(n) PROVE WriteSingle(n)
  <2>1. pc[n] = "create" /\ next[n] = 1
    BY <1>1 DEF Create, CallsInv, CallInv, Singles
  <2>2. Old(n) = {} /\ New(n) = {Row(n, 1)}
    BY <2>1 DEF Old, New, Inserts
  <2>3. Write(n)
    BY <1>1, <2>1, <2>2 DEF Create, Write, Writing
  <2>. QED
    BY <1>1, <2>1, <2>3 DEF Create, WriteSingle, Singles
<1>2. ASSUME Update(n) PROVE WriteSingle(n)
  <2>1. pc[n] = "update" /\ next[n] = 1
    BY <1>2 DEF Update, CallsInv, CallInv, Singles
  <2>2. Old(n) = Matching(n) /\ New(n) = {Row(n, 1) : r \in Matching(n)}
    BY <2>1 DEF Old, New, Inserts
  <2>3. Write(n)
    BY <1>2, <2>1, <2>2 DEF Update, Write, Writing
  <2>. QED
    BY <1>2, <2>1, <2>3 DEF Update, WriteSingle, Singles
<1>3. ASSUME DeleteById(n) PROVE WriteSingle(n)
  <2>1. pc[n] = "deleteById" /\ next[n] = 1
    BY <1>3 DEF DeleteById, CallsInv, CallInv, Singles
  <2>2. Old(n) = Matching(n) /\ New(n) = {}
    BY <2>1 DEF Old, New, Inserts
  <2>3. Write(n)
    BY <1>3, <2>1, <2>2 DEF DeleteById, Write, Writing
  <2>. QED
    BY <1>3, <2>1, <2>3 DEF DeleteById, WriteSingle, Singles
<1>4. ASSUME InsertNext(n) PROVE WriteNext(n)
  <2>1. pc[n] = "insertNext" /\ Old(n) = {} /\ New(n) = {Row(n, next[n])}
    BY <1>4 DEF InsertNext, Old, New, Inserts
  <2>2. Write(n)
    BY <1>4, <2>1 DEF InsertNext, Write, Writing
  <2>. QED
    BY <1>4, <2>1, <2>2 DEF InsertNext, WriteNext
<1>5. ASSUME UpdateNext(n) PROVE WriteNext(n)
  <2>1. pc[n] = "updateNext" /\ Old(n) = Matching(n) /\ New(n) = {Row(n, next[n]) : r \in Matching(n)}
    BY <1>5 DEF UpdateNext, Old, New, Inserts
  <2>2. Write(n)
    BY <1>5, <2>1 DEF UpdateNext, Write, Writing
  <2>. QED
    BY <1>5, <2>1, <2>2 DEF UpdateNext, WriteNext
<1>. QED
  BY <1>1, <1>2, <1>3, <1>4, <1>5

(* A step, with the statements that write rows taken together.             *)
LEMMA StepCases ==
  ASSUME CallsInv, [Next]_vars
  PROVE  \/ \E n \in Calls, c \in Conns, rq \in Request : Call(n, c, rq)
         \/ \E n \in Calls : FindById(n)
         \/ \E n \in Calls : WriteSingle(n)
         \/ \E n \in Calls : BeginBatch(n)
         \/ \E n \in Calls : WriteNext(n)
         \/ \E n \in Calls : CommitBatch(n)
         \/ \E n \in Calls : RollbackBatch(n)
         \/ \E n \in Calls : StatementFails(n)
         \/ \E c \in Conns : DropSession(c)
         \/ UNCHANGED vars
<1>1. ASSUME NEW n \in Calls, Step(n)
      PROVE  \/ FindById(n) \/ WriteSingle(n) \/ BeginBatch(n) \/ WriteNext(n)
             \/ CommitBatch(n) \/ RollbackBatch(n) \/ StatementFails(n)
  BY <1>1, WriteSteps DEF Step
<1>. QED
  BY <1>1 DEF Next

(* A connection that is broken stays broken.                               *)
LEMMA LinkSteps ==
  ASSUME CallsInv, [Next]_vars
  PROVE  link' = link \/ \E c : link' = [link EXCEPT ![c] = "broken"]
<1>1. ASSUME NEW n \in Calls, LastReply(n)
      PROVE  link' = link \/ link' = [link EXCEPT ![conn[n]] = "broken"]
  BY <1>1 DEF LastReply
<1>2. ASSUME NEW n \in Calls, WriteSingle(n)
      PROVE  link' = link \/ link' = [link EXCEPT ![conn[n]] = "broken"]
  BY <1>1, <1>2 DEF WriteSingle
<1>3. ASSUME NEW n \in Calls, CommitBatch(n)
      PROVE  link' = link \/ link' = [link EXCEPT ![conn[n]] = "broken"]
  BY <1>1, <1>3 DEF CommitBatch
<1>4. ASSUME NEW n \in Calls,
             FindById(n) \/ BeginBatch(n) \/ WriteNext(n) \/ RollbackBatch(n) \/ StatementFails(n)
      PROVE  link' = link
  BY <1>4 DEF FindById, BeginBatch, Begin, WriteNext, RollbackBatch, Rollback, StatementFails,
              Fail, pgVars
<1>5. ASSUME NEW c \in Conns, DropSession(c)
      PROVE  link' = [link EXCEPT ![c] = "broken"]
  BY <1>5 DEF DropSession, Drop
<1>6. ASSUME NEW n \in Calls, NEW c \in Conns, NEW rq \in Request, Call(n, c, rq)
      PROVE  link' = link
  BY <1>6 DEF Call, pgVars
<1>7. UNCHANGED vars => link' = link
  BY DEF vars, pgVars
<1>. QED
  BY <1>2, <1>3, <1>4, <1>5, <1>6, <1>7, StepCases

(* A step of a running call leads to another statement or ends the call.   *)
LEMMA RunningSteps ==
  ASSUME CallsInv, NEW n \in Calls,
         \/ FindById(n) \/ WriteSingle(n) \/ BeginBatch(n) \/ WriteNext(n)
         \/ CommitBatch(n) \/ RollbackBatch(n) \/ StatementFails(n)
  PROVE  /\ Running(n)
         /\ UNCHANGED <<req, conn>>
         /\ \E l \in Statements \cup {"returned", "threw"} : Goto(n, l)
<1>1. ASSUME LastReply(n)
      PROVE  \E l \in Statements \cup {"returned", "threw"} : Goto(n, l)
  BY <1>1 DEF LastReply, Statements
<1>2. CASE FindById(n)
  BY <1>2 DEF FindById, Running, Statements
<1>3. CASE WriteSingle(n)
  BY <1>1, <1>3 DEF WriteSingle, Write, Running, Statements, Singles
<1>4. CASE BeginBatch(n)
  BY <1>4 DEF BeginBatch, Running, Statements
<1>5. CASE WriteNext(n)
  BY <1>5 DEF WriteNext, Write, NextRecord, Running, Statements
<1>6. CASE CommitBatch(n)
  BY <1>1, <1>6 DEF CommitBatch, Running, Statements
<1>7. CASE RollbackBatch(n)
  BY <1>7 DEF RollbackBatch, Running, Statements
<1>8. CASE StatementFails(n)
  BY <1>8 DEF StatementFails, Running, Statements
<1>. QED
  BY <1>2, <1>3, <1>4, <1>5, <1>6, <1>7, <1>8

(* What a step leaves of a call that has begun.                            *)
LEMMA NextKeeps ==
  ASSUME CallsInv, SessionInv, [Next]_vars, NEW m \in Calls, pc[m] # "new"
  PROVE  /\ pc'[m] # "new"
         /\ req'[m] = req[m]
         /\ conn'[m] = conn[m]
         /\ RowsOfCall(m)' = RowsOfCall(m)
         /\ pc[m] = "returned" => pc'[m] = "returned"
         /\ Published(m) => Published(m)'
<1>1. /\ pc'[m] # "new" /\ req'[m] = req[m] /\ conn'[m] = conn[m]
      /\ pc[m] = "returned" => pc'[m] = "returned"
  <2>1. CASE \E n \in Calls, c \in Conns, rq \in Request : Call(n, c, rq)
    <3>1. PICK n \in Calls, c \in Conns, rq \in Request : Call(n, c, rq)
      BY <2>1
    <3>. QED
      BY <3>1 DEF Call, Goto, CallsInv
  <2>2. ASSUME NEW n \in Calls,
               \/ FindById(n) \/ WriteSingle(n) \/ BeginBatch(n) \/ WriteNext(n)
               \/ CommitBatch(n) \/ RollbackBatch(n) \/ StatementFails(n)
        PROVE  /\ pc'[m] # "new" /\ req'[m] = req[m] /\ conn'[m] = conn[m]
               /\ pc[m] = "returned" => pc'[m] = "returned"
    <3>1. PICK l \in Statements \cup {"returned", "threw"} : Goto(n, l)
      BY <2>2, RunningSteps
    <3>2. Running(n) /\ UNCHANGED <<req, conn>>
      BY <2>2, RunningSteps
    <3>. QED
      BY <3>1, <3>2 DEF Goto, CallsInv, Running, Statements
  <2>3. CASE (\E c \in Conns : DropSession(c)) \/ UNCHANGED vars
    BY <2>3 DEF DropSession, vars
  <2>. QED
    BY <2>1, <2>2, <2>3, StepCases
<1>2. RowsOfCall(m)' = RowsOfCall(m)
  BY <1>1 DEF RowsOfCall, Row
<1>3. conn[m] \in Conns
  BY DEF CallsInv, CallInv
<1>4. link[conn[m]] = "broken" => link'[conn[m]] = "broken"
  BY <1>3, LinkSteps DEF SessionInv
<1>. QED
  BY <1>1, <1>2, <1>4 DEF Published

-----------------------------------------------------------------------------
(* 1. The calls.                                                           *)

(* It is enough to look at the call that takes the step.                   *)
LEMMA OtherCalls ==
  ASSUME CallsInv, NEW n \in Calls,
         NEW l \in {"returned", "threw"} \cup Statements, Goto(n, l),
         NEW rq \in Request \cup {NoRequest}, req' = [req EXCEPT ![n] = rq],
         DOMAIN conn' = Calls, \A m \in Calls \ {n} : conn'[m] = conn[m],
         NEW k \in Nat, next' = [next EXCEPT ![n] = k],
         NEW j \in Nat, count' = [count EXCEPT ![n] = j],
         CallInv(n)'
  PROVE  CallsInv'
<1>1. /\ req' \in [Calls -> Request \cup {NoRequest}]
      /\ pc' \in [Calls -> {"new", "returned", "threw"} \cup Statements]
      /\ next' \in [Calls -> Nat]
      /\ count' \in [Calls -> Nat]
  BY DEF CallsInv, Goto
<1>2. ASSUME NEW m \in Calls, m # n PROVE CallInv(m)'
  <2>1. /\ pc'[m] = pc[m] /\ req'[m] = req[m] /\ conn'[m] = conn[m]
        /\ next'[m] = next[m] /\ count'[m] = count[m]
    BY <1>2 DEF CallsInv, Goto
  <2>2. CallInv(m)
    BY DEF CallsInv
  <2>. QED
    BY <2>1, <2>2 DEF CallInv, Batch
<1>. QED
  BY <1>1, <1>2 DEF CallsInv

LEMMA CallCalls ==
  ASSUME CallsInv, NEW n \in Calls, NEW c \in Conns, NEW rq \in Request, Call(n, c, rq)
  PROVE  CallsInv'
<1> DEFINE l == IF ~Batch(rq) THEN rq.op
                ELSE IF rq.recs = <<>> THEN "returned" ELSE "begin"
<1>1. /\ rq.op \in Singles \cup {"batchCreate", "batchUpdate"}
      /\ ~Batch(rq) => rq.op \in Singles
  BY RequestForm DEF Batch
<1>2. l \in {"returned", "begin"} \cup Singles
  BY <1>1
<1>3. /\ Goto(n, l) /\ req' = [req EXCEPT ![n] = rq] /\ conn' = [conn EXCEPT ![n] = c]
      /\ next' = next /\ count' = count /\ next[n] = 1 /\ count[n] = 0
  BY DEF Call, CallsInv, CallInv
<1>4. pc'[n] = l /\ req'[n] = rq /\ conn'[n] = c /\ next'[n] = 1 /\ count'[n] = 0
  BY <1>3 DEF CallsInv, Goto
<1>5. CallInv(n)'
  BY <1>1, <1>2, <1>4 DEF CallInv, Batch, Singles, TryBlock
<1>6. next' = [next EXCEPT ![n] = 1] /\ count' = [count EXCEPT ![n] = 0]
  BY <1>3 DEF CallsInv
<1>7. DOMAIN conn' = Calls /\ \A m \in Calls \ {n} : conn'[m] = conn[m]
  BY <1>3 DEF CallsInv
<1>8. l \in {"returned", "threw"} \cup Statements
  BY <1>2 DEF Statements, Singles
<1> HIDE DEF l
<1>. QED
  BY <1>3, <1>5, <1>6, <1>7, <1>8, OtherCalls

(* A call that ends or is on its way to the end.                           *)
LEMMA EndCalls ==
  ASSUME CallsInv, NEW n \in Calls, pc[n] # "new", UNCHANGED <<req, conn, next>>,
         NEW l \in {"returned", "threw", "rollback"}, Goto(n, l),
         NEW j \in Nat, count' = [count EXCEPT ![n] = j]
  PROVE  CallsInv'
<1>1. /\ pc'[n] = l /\ req'[n] = req[n] /\ conn'[n] = conn[n]
      /\ req[n] \in Request /\ conn[n] \in Conns
  BY DEF CallsInv, CallInv, Goto
<1>2. CallInv(n)'
  BY <1>1 DEF CallInv, Singles, TryBlock
<1>3. req' = [req EXCEPT ![n] = req[n]] /\ next' = [next EXCEPT ![n] = next[n]]
  BY DEF CallsInv
<1>4. req[n] \in Request \cup {NoRequest} /\ next[n] \in Nat
  BY DEF CallsInv
<1>5. DOMAIN conn' = Calls /\ \A m \in Calls \ {n} : conn'[m] = conn[m]
  BY DEF CallsInv
<1>6. l \in {"returned", "threw"} \cup Statements
  BY DEF Statements
<1>. QED
  BY <1>2, <1>3, <1>4, <1>5, <1>6, OtherCalls

(* A statement finds at most one row.                                      *)
LEMMA MatchingOne ==
  ASSUME KeysInv, NEW n \in Calls, conn[n] \in Conns
  PROVE  /\ Matching(n) # {} => \E r : Matching(n) = {r}
         /\ Cardinality(Matching(n)) = IF Matching(n) = {} THEN 0 ELSE 1
<1>1. UniqueKeys(Own(n))
  BY VisibleKeys DEF Own
<1>2. \A r, s \in Matching(n) : r = s
  BY <1>1 DEF Matching, UniqueKeys
<1>3. Matching(n) # {} => \E r : Matching(n) = {r}
  BY <1>2
<1>. QED
  BY <1>3, FS_EmptySet, FS_Singleton

LEMMA LastReplyGoes ==
  ASSUME NEW n \in Calls, LastReply(n)
  PROVE  \E l \in {"returned", "threw", "rollback"} : Goto(n, l)
  BY DEF LastReply

LEMMA WriteSingleCalls ==
  ASSUME CallsInv, KeysInv, NEW n \in Calls, WriteSingle(n)
  PROVE  CallsInv'
<1>1. PICK l \in {"returned", "threw", "rollback"} : Goto(n, l)
  BY LastReplyGoes DEF WriteSingle
<1>2. pc[n] # "new" /\ conn[n] \in Conns
  BY DEF CallsInv, CallInv, WriteSingle, Singles
<1>3. PICK j \in Nat : count' = [count EXCEPT ![n] = j]
  BY <1>2, MatchingOne DEF WriteSingle
<1>4. UNCHANGED <<req, conn, next>>
  BY DEF WriteSingle, Write
<1>. QED
  BY <1>1, <1>2, <1>3, <1>4, EndCalls

LEMMA BeginCalls ==
  ASSUME CallsInv, NEW n \in Calls, BeginBatch(n)
  PROVE  CallsInv'
<1> DEFINE l == IF req[n].op = "batchCreate" THEN "insertNext" ELSE "updateNext"
<1>1. /\ pc[n] = "begin" /\ Goto(n, l)
      /\ UNCHANGED <<req, conn, next, count>>
  BY DEF BeginBatch
<1>2. /\ Batch(req[n]) /\ next[n] = 1 /\ count[n] = 0
      /\ req[n] \in Request /\ conn[n] \in Conns /\ req[n].recs # <<>>
  BY <1>1 DEF CallsInv, CallInv
<1>3. /\ pc'[n] = l /\ req'[n] = req[n] /\ conn'[n] = conn[n]
      /\ next'[n] = 1 /\ count'[n] = 0
  BY <1>1, <1>2 DEF CallsInv, Goto
<1>4. req[n].recs \in Seq(Ids) /\ 1 \in DOMAIN req[n].recs
  BY <1>2, RequestForm
<1>5. CallInv(n)'
  BY <1>2, <1>3, <1>4 DEF CallInv, Batch, Singles, TryBlock
<1>6. /\ req' = [req EXCEPT ![n] = req[n]] /\ next' = [next EXCEPT ![n] = 1]
      /\ count' = [count EXCEPT ![n] = 0]
  BY <1>1, <1>2 DEF CallsInv
<1>7. DOMAIN conn' = Calls /\ \A m \in Calls \ {n} : conn'[m] = conn[m]
  BY <1>1 DEF CallsInv
<1>8. l \in {"returned", "threw"} \cup Statements
  BY DEF Statements
<1> HIDE DEF l
<1>. QED
  BY <1>1, <1>2, <1>5, <1>6, <1>7, <1>8, OtherCalls

LEMMA WriteNextCalls ==
  ASSUME CallsInv, KeysInv, NEW n \in Calls, WriteNext(n)
  PROVE  CallsInv'
<1> DEFINE l == IF next[n] = Len(req[n].recs) THEN "commit" ELSE pc[n]
<1>1. /\ pc[n] \in {"insertNext", "updateNext"} /\ Goto(n, l)
      /\ UNCHANGED <<req, conn>>
      /\ next' = [next EXCEPT ![n] = next[n] + 1]
  BY DEF WriteNext, Write, NextRecord
<1>2. /\ Batch(req[n]) /\ next[n] \in DOMAIN req[n].recs /\ next[n] \in Nat
      /\ req[n] \in Request /\ conn[n] \in Conns /\ count[n] \in Nat
      /\ pc[n] = "insertNext" => req[n].op = "batchCreate"
      /\ pc[n] = "updateNext" => req[n].op = "batchUpdate"
  BY <1>1 DEF CallsInv, CallInv, TryBlock
<1>3. req[n].recs \in Seq(Ids)
  BY <1>2, RequestForm
<1>4. /\ pc'[n] = l /\ req'[n] = req[n] /\ conn'[n] = conn[n]
      /\ next'[n] = next[n] + 1
  BY <1>1, <1>2 DEF CallsInv, Goto
<1>5. CallInv(n)'
  BY <1>1, <1>2, <1>3, <1>4 DEF CallInv, Batch, Singles, TryBlock
<1>6. PICK j \in Nat : count' = [count EXCEPT ![n] = j]
  <2>1. Cardinality(Matching(n)) \in Nat
    BY <1>2, MatchingOne
  <2>2. count[n] + (IF pc[n] = "insertNext" THEN 1 ELSE Cardinality(Matching(n))) \in Nat
    BY <1>2, <2>1
  <2>. QED
    BY <2>2 DEF WriteNext
<1>7. req' = [req EXCEPT ![n] = req[n]]
  BY <1>1 DEF CallsInv
<1>8. DOMAIN conn' = Calls /\ \A m \in Calls \ {n} : conn'[m] = conn[m]
  BY <1>1 DEF CallsInv
<1>9. l \in {"returned", "threw"} \cup Statements
  BY <1>1 DEF Statements
<1>10. next[n] + 1 \in Nat
  BY <1>2
<1> HIDE DEF l
<1>. QED
  BY <1>1, <1>2, <1>5, <1>6, <1>7, <1>8, <1>9, <1>10, OtherCalls

LEMMA CallsInvNext ==
  ASSUME CallsInv, KeysInv, [Next]_vars
  PROVE  CallsInv'
<1>1. ASSUME NEW n \in Calls,
             FindById(n) \/ CommitBatch(n) \/ RollbackBatch(n) \/ StatementFails(n)
      PROVE  CallsInv'
  <2>1. /\ UNCHANGED <<req, conn, next, count>>
        /\ \E l \in {"returned", "threw", "rollback"} : Goto(n, l)
        /\ pc[n] # "new"
    BY <1>1, LastReplyGoes DEF FindById, CommitBatch, RollbackBatch, StatementFails, Running,
                               Statements
  <2>2. count' = [count EXCEPT ![n] = count[n]] /\ count[n] \in Nat
    BY <2>1 DEF CallsInv
  <2>. QED
    BY <2>1, <2>2, EndCalls
<1>2. ASSUME UNCHANGED <<req, conn, pc, next, count>>
      PROVE  CallsInv'
  BY <1>2 DEF CallsInv, CallInv, Batch
<1>3. (\E c \in Conns : DropSession(c)) \/ UNCHANGED vars
      => UNCHANGED <<req, conn, pc, next, count>>
  BY DEF DropSession, vars
<1>. QED
  BY <1>1, <1>2, <1>3, StepCases, CallCalls, WriteSingleCalls, BeginCalls, WriteNextCalls

-----------------------------------------------------------------------------
(* 2. The sessions.                                                        *)

(* What the steps of a running call may rely on.                           *)
LEMMA RunningSession ==
  ASSUME CallsInv, SessionInv, NEW n \in Calls, Running(n)
  PROVE  /\ conn[n] \in Conns
         /\ \A m \in Calls \ {n} : Running(m) => conn[m] # conn[n]
         /\ pc[n] \in TryBlock /\ link[conn[n]] = "up" => tx[conn[n]] = "open"
         /\ pc[n] \in Singles \cup {"begin"} => tx[conn[n]] = "idle"
         /\ pc[n] = "rollback" => tx[conn[n]] # "open"
         /\ pc[n] \in TryBlock => tx[conn[n]] # "failed"
<1>1. conn[n] \in Conns
  BY DEF CallsInv, CallInv, Running, Statements
<1>2. \A m \in Calls \ {n} : Running(m) => conn[m] # conn[n]
  BY DEF SessionInv
<1>3. tx[conn[n]] = "open" => pc[n] \in TryBlock
  BY <1>1, <1>2 DEF SessionInv, Running, TryBlock, Statements
<1>4. tx[conn[n]] = "failed" => pc[n] = "rollback"
  BY <1>1, <1>2 DEF SessionInv, Running, Statements
<1>5. tx[conn[n]] \in TxStates
  BY <1>1 DEF SessionInv
<1>. QED
  BY <1>1, <1>2, <1>3, <1>4, <1>5 DEF SessionInv, TxStates, TryBlock, Singles

(* A call changes the session of its own connection only.                  *)
SameElsewhere(c) ==
  \A d \in Conns \ {c} :
    tx'[d] = tx[d] /\ link'[d] = link[d] /\ ins'[d] = ins[d] /\ del'[d] = del[d]

LEMMA OwnSession ==
  ASSUME CallsInv, SessionInv, NEW n \in Calls, Running(n), conn' = conn,
         NEW l \in {"returned", "threw"} \cup Statements, Goto(n, l),
         DOMAIN ins' = Conns, DOMAIN del' = Conns,
         tx' \in [Conns -> TxStates], link' \in [Conns -> LinkStates],
         SameElsewhere(conn[n]),
         tx'[conn[n]] # "open" => ins'[conn[n]] = {} /\ del'[conn[n]] = {},
         link'[conn[n]] = "broken" => tx'[conn[n]] = "idle",
         tx'[conn[n]] = "open" => l \in TryBlock,
         tx'[conn[n]] = "failed" => l = "rollback",
         l \in TryBlock /\ link'[conn[n]] = "up" => tx'[conn[n]] = "open"
  PROVE  SessionInv'
<1>1. /\ conn[n] \in Conns
      /\ \A m \in Calls \ {n} : Running(m) => conn[m] # conn[n]
  BY RunningSession
<1>2. pc'[n] = l /\ \A m \in Calls \ {n} : pc'[m] = pc[m]
  BY DEF CallsInv, Goto
<1>3. \A m \in Calls : Running(m)' => Running(m)
  BY <1>2 DEF Running
<1>4. \A j, k \in Calls : Running(j)' /\ Running(k)' /\ conn'[j] = conn'[k] => j = k
  BY <1>3 DEF SessionInv
<1>5. ASSUME NEW d \in Conns
      PROVE  /\ tx'[d] # "open" => ins'[d] = {} /\ del'[d] = {}
             /\ link'[d] = "broken" => tx'[d] = "idle"
             /\ tx'[d] = "open" => \E m \in Calls : pc'[m] \in TryBlock /\ conn'[m] = d
             /\ tx'[d] = "failed" => \E m \in Calls : pc'[m] = "rollback" /\ conn'[m] = d
  <2>1. CASE d = conn[n]
    BY <1>2, <2>1
  <2>2. CASE d # conn[n]
    <3>1. tx'[d] = tx[d] /\ link'[d] = link[d] /\ ins'[d] = ins[d] /\ del'[d] = del[d]
      BY <2>2 DEF SameElsewhere
    <3>2. \A m \in Calls : conn[m] = d => pc'[m] = pc[m]
      BY <1>2, <2>2
    <3>. QED
      BY <3>1, <3>2 DEF SessionInv
  <2>. QED
    BY <2>1, <2>2
<1>6. ASSUME NEW m \in Calls, pc'[m] \in TryBlock, link'[conn'[m]] = "up"
      PROVE  tx'[conn'[m]] = "open"
  <2>1. CASE m = n
    BY <1>2, <1>6, <2>1
  <2>2. CASE m # n
    <3>1. pc[m] \in TryBlock /\ Running(m)
      BY <1>2, <1>6, <2>2 DEF Running, TryBlock, Statements
    <3>2. conn[m] # conn[n] /\ conn[m] \in Conns
      BY <1>1, <2>2, <3>1, RunningSession
    <3>. QED
      BY <1>6, <3>1, <3>2 DEF SameElsewhere, SessionInv
  <2>. QED
    BY <2>1, <2>2
<1>. QED
  BY <1>4, <1>5, <1>6 DEF SessionInv

LEMMA CallSession ==
  ASSUME CallsInv, SessionInv, NEW n \in Calls, NEW c \in Conns, NEW rq \in Request,
         Call(n, c, rq)
  PROVE  SessionInv'
<1>1. /\ UNCHANGED <<ins, del, tx, link>> /\ pc[n] = "new"
      /\ ~\E m \in Calls : Running(m) /\ conn[m] = c
  BY DEF Call, pgVars
<1>2. /\ \A m \in Calls \ {n} : pc'[m] = pc[m] /\ conn'[m] = conn[m]
      /\ conn'[n] = c
  BY DEF Call, CallsInv, Goto
<1>3. pc'[n] \notin TryBlock \cup {"rollback"}
  <2>1. rq.op \in Singles \cup {"batchCreate", "batchUpdate"} /\ (~Batch(rq) => rq.op \in Singles)
    BY RequestForm DEF Batch
  <2>. QED
    BY <2>1 DEF Call, CallsInv, Goto, TryBlock, Singles
<1>4. \A j, k \in Calls : Running(j)' /\ Running(k)' /\ conn'[j] = conn'[k] => j = k
  BY <1>1, <1>2 DEF SessionInv, Running
<1>5. /\ \A m \in Calls : pc[m] \in TryBlock \cup {"rollback"}
                            => pc'[m] = pc[m] /\ conn'[m] = conn[m]
      /\ \A m \in Calls : pc'[m] \in TryBlock => pc[m] \in TryBlock /\ conn'[m] = conn[m]
  BY <1>1, <1>2, <1>3 DEF TryBlock
<1>6. \A d \in Conns :
        /\ tx'[d] # "open" => ins'[d] = {} /\ del'[d] = {}
        /\ link'[d] = "broken" => tx'[d] = "idle"
        /\ tx'[d] = "open" => \E m \in Calls : pc'[m] \in TryBlock /\ conn'[m] = d
        /\ tx'[d] = "failed" => \E m \in Calls : pc'[m] = "rollback" /\ conn'[m] = d
  BY <1>1, <1>5 DEF SessionInv
<1>7. \A m \in Calls : pc'[m] \in TryBlock /\ link'[conn'[m]] = "up" => tx'[conn'[m]] = "open"
  BY <1>1, <1>5 DEF SessionInv
<1>. QED
  BY <1>1, <1>4, <1>6, <1>7 DEF SessionInv

LEMMA WriteSingleSession ==
  ASSUME CallsInv, SessionInv, NEW n \in Calls, WriteSingle(n)
  PROVE  SessionInv'
<1>1. Running(n) /\ pc[n] \in Singles /\ pc[n] \notin TryBlock /\ conn' = conn
  BY DEF WriteSingle, Write, Running, Singles, Statements, TryBlock
<1>2. conn[n] \in Conns /\ tx[conn[n]] = "idle"
  BY <1>1, RunningSession
<1>3. UNCHANGED <<ins, del, tx>> /\ link[conn[n]] = "up"
  BY <1>2 DEF WriteSingle, Write, Change, CanRun
<1>4. \/ Goto(n, "returned") /\ UNCHANGED link
      \/ Goto(n, "threw") /\ link' = [link EXCEPT ![conn[n]] = "broken"]
  BY <1>1 DEF WriteSingle, LastReply
<1>5. link' \in [Conns -> LinkStates] /\ SameElsewhere(conn[n])
  BY <1>3, <1>4 DEF SessionInv, SameElsewhere, LinkStates
<1>6. ins[conn[n]] = {} /\ del[conn[n]] = {}
  BY <1>2 DEF SessionInv
<1>7. /\ DOMAIN ins' = Conns /\ DOMAIN del' = Conns /\ tx' \in [Conns -> TxStates]
  BY <1>3 DEF SessionInv
<1>8. "returned" \notin TryBlock /\ "threw" \notin TryBlock
  BY DEF TryBlock
<1>. QED
  BY <1>1, <1>2, <1>3, <1>4, <1>5, <1>6, <1>7, <1>8, OwnSession

LEMMA FindSession ==
  ASSUME CallsInv, SessionInv, NEW n \in Calls, FindById(n)
  PROVE  SessionInv'
<1>1. Running(n) /\ pc[n] \in Singles /\ UNCHANGED <<conn, ins, del, tx, link>>
  BY DEF FindById, Running, Singles, Statements, pgVars
<1>2. conn[n] \in Conns /\ tx[conn[n]] = "idle"
  BY <1>1, RunningSession
<1>3. Goto(n, "returned") \/ Goto(n, "threw")
  BY DEF FindById
<1>4. ins[conn[n]] = {} /\ del[conn[n]] = {} /\ SameElsewhere(conn[n])
  BY <1>1, <1>2 DEF SessionInv, SameElsewhere
<1>5. /\ DOMAIN ins' = Conns /\ DOMAIN del' = Conns
      /\ tx' \in [Conns -> TxStates] /\ link' \in [Conns -> LinkStates]
  BY <1>1 DEF SessionInv
<1>6. "returned" \notin TryBlock /\ "threw" \notin TryBlock
  BY DEF TryBlock
<1>. QED
  BY <1>1, <1>2, <1>3, <1>4, <1>5, <1>6, OwnSession

LEMMA BeginSession ==
  ASSUME CallsInv, SessionInv, NEW n \in Calls, BeginBatch(n)
  PROVE  SessionInv'
<1>1. Running(n) /\ pc[n] = "begin" /\ UNCHANGED <<conn, ins, del, link>>
  BY DEF BeginBatch, Begin, Running, Statements
<1>2. conn[n] \in Conns /\ tx[conn[n]] = "idle"
  BY <1>1, RunningSession
<1>3. tx' = [tx EXCEPT ![conn[n]] = "open"] /\ link[conn[n]] = "up"
  BY DEF BeginBatch, Begin, CanRun
<1>4. tx'[conn[n]] = "open" /\ tx' \in [Conns -> TxStates] /\ SameElsewhere(conn[n])
  BY <1>1, <1>2, <1>3 DEF SessionInv, SameElsewhere, TxStates
<1>5. Goto(n, "insertNext") \/ Goto(n, "updateNext")
  BY DEF BeginBatch
<1>6. DOMAIN ins' = Conns /\ DOMAIN del' = Conns /\ link' \in [Conns -> LinkStates]
  BY <1>1 DEF SessionInv
<1>7. {"insertNext", "updateNext"} \subseteq TryBlock \cap Statements
  BY DEF TryBlock, Statements
<1>8. link'[conn[n]] # "broken"
  BY <1>1, <1>3
<1>. QED
  BY <1>1, <1>4, <1>5, <1>6, <1>7, <1>8, OwnSession

LEMMA WriteNextSession ==
  ASSUME CallsInv, SessionInv, NEW n \in Calls, WriteNext(n)
  PROVE  SessionInv'
<1>1. Running(n) /\ pc[n] \in TryBlock /\ UNCHANGED <<conn, link>>
  BY DEF WriteNext, Write, Running, Statements, TryBlock
<1>2. link[conn[n]] = "up" /\ UNCHANGED tx
  BY DEF WriteNext, Write, Change, CanRun
<1>3. conn[n] \in Conns /\ tx[conn[n]] = "open"
  BY <1>1, <1>2, RunningSession
<1>4. \E S, T : ins' = [ins EXCEPT ![conn[n]] = S] /\ del' = [del EXCEPT ![conn[n]] = T]
  BY <1>3 DEF WriteNext, Write, Change
<1>5. SameElsewhere(conn[n]) /\ DOMAIN ins' = Conns /\ DOMAIN del' = Conns
  BY <1>1, <1>2, <1>4 DEF SessionInv, SameElsewhere
<1>6. PICK l \in {"insertNext", "updateNext", "commit"} : Goto(n, l)
  BY DEF WriteNext, NextRecord
<1>7. l \in TryBlock \cap Statements
  BY DEF TryBlock, Statements
<1>8. tx' \in [Conns -> TxStates] /\ link' \in [Conns -> LinkStates]
  BY <1>1, <1>2 DEF SessionInv
<1>. QED
  BY <1>1, <1>2, <1>3, <1>5, <1>6, <1>7, <1>8, OwnSession

LEMMA CommitSession ==
  ASSUME CallsInv, SessionInv, NEW n \in Calls, CommitBatch(n)
  PROVE  SessionInv'
<1>1. Running(n) /\ pc[n] \in TryBlock /\ conn' = conn /\ Discard(conn[n])
  BY DEF CommitBatch, Commit, Running, Statements, TryBlock
<1>2. conn[n] \in Conns /\ link[conn[n]] = "up"
  BY <1>1, RunningSession DEF CommitBatch, Commit
<1>3. \/ Goto(n, "returned") /\ UNCHANGED link
      \/ Goto(n, "rollback") /\ link' = [link EXCEPT ![conn[n]] = "broken"]
  BY <1>1 DEF CommitBatch, LastReply
<1>4. /\ tx' \in [Conns -> TxStates] /\ link' \in [Conns -> LinkStates]
      /\ DOMAIN ins' = Conns /\ DOMAIN del' = Conns
      /\ SameElsewhere(conn[n])
      /\ tx'[conn[n]] = "idle" /\ ins'[conn[n]] = {} /\ del'[conn[n]] = {}
  BY <1>1, <1>2, <1>3 DEF SessionInv, SameElsewhere, Discard, TxStates, LinkStates
<1>5. {"returned", "rollback"} \cap TryBlock = {} /\ "rollback" \in Statements
  BY DEF TryBlock, Statements
<1>. QED
  BY <1>1, <1>3, <1>4, <1>5, OwnSession

LEMMA RollbackSession ==
  ASSUME CallsInv, SessionInv, NEW n \in Calls, RollbackBatch(n)
  PROVE  SessionInv'
<1>1. /\ Running(n) /\ pc[n] = "rollback" /\ conn' = conn
      /\ Goto(n, "threw") /\ UNCHANGED link
  BY DEF RollbackBatch, Rollback, Running, Statements, pgVars
<1>2. conn[n] \in Conns
  BY <1>1, RunningSession
<1>3. /\ tx' \in [Conns -> TxStates] /\ link' \in [Conns -> LinkStates]
      /\ DOMAIN ins' = Conns /\ DOMAIN del' = Conns
      /\ SameElsewhere(conn[n])
      /\ tx'[conn[n]] = "idle" /\ ins'[conn[n]] = {} /\ del'[conn[n]] = {}
  <2>1. CASE Rollback(conn[n])
    BY <1>1, <1>2, <2>1 DEF SessionInv, SameElsewhere, Rollback, Discard, TxStates
  <2>2. CASE link[conn[n]] = "broken" /\ UNCHANGED pgVars
    BY <1>1, <1>2, <2>2 DEF SessionInv, SameElsewhere, pgVars
  <2>. QED
    BY <2>1, <2>2 DEF RollbackBatch
<1>4. "threw" \notin TryBlock
  BY DEF TryBlock
<1>. QED
  BY <1>1, <1>3, <1>4, OwnSession

LEMMA FailsSession ==
  ASSUME CallsInv, SessionInv, NEW n \in Calls, StatementFails(n)
  PROVE  SessionInv'
<1> DEFINE l == IF pc[n] \in TryBlock THEN "rollback" ELSE "threw"
<1>1. Running(n) /\ pc[n] # "rollback" /\ conn' = conn /\ Goto(n, l) /\ UNCHANGED link
  BY DEF StatementFails, Fail, pgVars
<1>2. /\ conn[n] \in Conns
      /\ pc[n] \notin TryBlock => tx[conn[n]] = "idle"
  BY <1>1, RunningSession DEF Running, Statements, Singles, TryBlock
<1>3. /\ tx' \in [Conns -> TxStates] /\ link' \in [Conns -> LinkStates]
      /\ DOMAIN ins' = Conns /\ DOMAIN del' = Conns
      /\ SameElsewhere(conn[n])
      /\ tx'[conn[n]] # "open" /\ ins'[conn[n]] = {} /\ del'[conn[n]] = {}
      /\ link'[conn[n]] = "broken" => tx'[conn[n]] = "idle"
      /\ tx'[conn[n]] = "failed" => tx[conn[n]] # "idle"
  <2>1. CASE Fail(conn[n])
    BY <1>1, <1>2, <2>1 DEF SessionInv, SameElsewhere, Fail, TxStates
  <2>2. CASE link[conn[n]] = "broken" /\ UNCHANGED pgVars
    BY <1>1, <1>2, <2>2 DEF SessionInv, SameElsewhere, pgVars
  <2>. QED
    BY <2>1, <2>2 DEF StatementFails
<1>4. /\ l \in {"returned", "threw"} \cup Statements
      /\ l \notin TryBlock /\ (pc[n] \in TryBlock => l = "rollback")
  BY DEF TryBlock, Statements
<1> HIDE DEF l
<1>. QED
  BY <1>1, <1>2, <1>3, <1>4, OwnSession

LEMMA DropSessionSession ==
  ASSUME CallsInv, SessionInv, NEW c \in Conns, DropSession(c)
  PROVE  SessionInv'
<1>1. /\ UNCHANGED <<pc, conn>> /\ Discard(c) /\ link' = [link EXCEPT ![c] = "broken"]
  BY DEF DropSession, Drop
<1>2. /\ tx' \in [Conns -> TxStates] /\ link' \in [Conns -> LinkStates]
      /\ DOMAIN ins' = Conns /\ DOMAIN del' = Conns
      /\ tx'[c] = "idle" /\ ins'[c] = {} /\ del'[c] = {} /\ link'[c] = "broken"
  BY <1>1 DEF SessionInv, Discard, TxStates, LinkStates
<1>3. SameElsewhere(c)
  BY <1>1 DEF SessionInv, SameElsewhere, Discard
<1>4. \A j, k \in Calls : Running(j)' /\ Running(k)' /\ conn'[j] = conn'[k] => j = k
  BY <1>1 DEF SessionInv, Running
<1>5. ASSUME NEW d \in Conns
      PROVE  /\ tx'[d] # "open" => ins'[d] = {} /\ del'[d] = {}
             /\ link'[d] = "broken" => tx'[d] = "idle"
             /\ tx'[d] = "open" => \E m \in Calls : pc'[m] \in TryBlock /\ conn'[m] = d
             /\ tx'[d] = "failed" => \E m \in Calls : pc'[m] = "rollback" /\ conn'[m] = d
  <2>1. CASE d = c
    BY <1>2, <2>1
  <2>2. CASE d # c
    <3>1. tx'[d] = tx[d] /\ link'[d] = link[d] /\ ins'[d] = ins[d] /\ del'[d] = del[d]
      BY <1>3, <2>2 DEF SameElsewhere
    <3>. QED
      BY <1>1, <3>1 DEF SessionInv
  <2>. QED
    BY <2>1, <2>2
<1>6. ASSUME NEW m \in Calls, pc'[m] \in TryBlock, link'[conn'[m]] = "up"
      PROVE  tx'[conn'[m]] = "open"
  <2>1. pc[m] \in TryBlock /\ conn'[m] = conn[m] /\ conn[m] \in Conns
    BY <1>1, <1>6 DEF CallsInv, CallInv, TryBlock
  <2>2. conn[m] # c
    BY <1>2, <1>6, <2>1
  <2>. QED
    BY <1>3, <1>6, <2>1, <2>2 DEF SameElsewhere, SessionInv
<1>. QED
  BY <1>2, <1>4, <1>5, <1>6 DEF SessionInv

LEMMA SessionInvNext ==
  ASSUME CallsInv, SessionInv, [Next]_vars
  PROVE  SessionInv'
<1>1. UNCHANGED vars => SessionInv'
  BY DEF vars, pgVars, SessionInv, Running
<1>. QED
  BY <1>1, StepCases, CallSession, FindSession, WriteSingleSession, BeginSession,
     WriteNextSession, CommitSession, RollbackSession, FailsSession, DropSessionSession

-----------------------------------------------------------------------------
(* The unique keys.                                                        *)

(* A statement replaces rows nobody else holds a version of.               *)
LEMMA WriteShape ==
  ASSUME CallsInv, SessionInv, KeysInv, NEW n \in Calls, Running(n), Write(n)
  PROVE  /\ Old(n) \subseteq Visible(conn[n])
         /\ New(n) \subseteq {Row(n, next[n])}
         /\ \A d \in Conns \ {conn[n]} : Apart(Old(n) \cup New(n), Held(d))
         /\ Apart(Visible(conn[n]) \ Old(n), New(n))
         /\ Inserts(n) => Matching(n) = {}
<1>1. Old(n) \subseteq Visible(conn[n])
  BY DEF Old, Matching, Own
<1>2. New(n) \subseteq {Row(n, next[n])}
  BY DEF New
<1>3. Inserts(n) => Matching(n) = {}
  BY DEF Write, Accepted, Refused, Inserts
<1>4. \A r \in Old(n) \cup New(n) : r.pk \in StatementKeys(n)
  BY DEF Write, Writing, Old, New, Matching, StatementKeys, Inserts
<1>5. ASSUME NEW d \in Conns \ {conn[n]}
      PROVE  Apart(Old(n) \cup New(n), Held(d))
  <2>1. d \notin Holders(conn[n], StatementKeys(n))
    BY DEF Write, Accepted
  <2>. QED
    BY <1>4, <2>1 DEF Holders, Apart, Held
<1>6. Apart(Visible(conn[n]) \ Old(n), New(n))
  <2>1. CASE New(n) = {}
    BY <2>1 DEF Apart
  <2>2. CASE New(n) # {}
    <3>1. \A r \in Visible(conn[n]) : r.pk = Row(n, next[n]).pk => r \in Old(n)
      BY <1>3 DEF Old, Matching, Own
    <3>. QED
      BY <1>2, <3>1 DEF Apart
  <2>. QED
    BY <2>1, <2>2
<1>. QED
  BY <1>1, <1>2, <1>3, <1>5, <1>6

LEMMA WriteKeys ==
  ASSUME CallsInv, SessionInv, KeysInv, NEW n \in Calls, Running(n), Write(n)
  PROVE  KeysInv'
<1>1. conn[n] \in Conns
  BY RunningSession
<1>2. SessionDomains
  BY DEF SessionDomains, SessionInv
<1>3. Change(conn[n], Old(n), New(n))
  BY DEF Write
<1>4. tx[conn[n]] # "open" => ins[conn[n]] = {} /\ del[conn[n]] = {}
  BY <1>1 DEF SessionInv
<1>5. UniqueKeys(New(n))
  BY WriteShape DEF UniqueKeys
<1>6. /\ Old(n) \subseteq Visible(conn[n])
      /\ \A d \in Conns \ {conn[n]} : Apart(Old(n) \cup New(n), Held(d))
      /\ Apart(Visible(conn[n]) \ Old(n), New(n))
  BY WriteShape
<1> HIDE DEF Old, New
<1>. QED
  BY <1>1, <1>2, <1>3, <1>4, <1>5, <1>6, ChangeKeys

LEMMA KeysInvNext ==
  ASSUME CallsInv, SessionInv, KeysInv, [Next]_vars
  PROVE  KeysInv'
<1>1. SessionDomains
  BY DEF SessionDomains, SessionInv
<1>2. ASSUME UNCHANGED <<committed, ins, del>> PROVE KeysInv'
  BY <1>2 DEF KeysInv, Held
<1>3. ASSUME NEW n \in Calls, WriteSingle(n) \/ WriteNext(n) PROVE KeysInv'
  <2>1. Running(n) /\ Write(n)
    BY <1>3 DEF WriteSingle, WriteNext, Running, Statements, Singles
  <2>. QED
    BY <2>1, WriteKeys
<1>4. ASSUME NEW n \in Calls, CommitBatch(n) PROVE KeysInv'
  <2>1. conn[n] \in Conns /\ Commit(conn[n])
    BY <1>4, RunningSession DEF CommitBatch, Running, Statements
  <2>. QED
    BY <1>1, <2>1, CommitKeys
<1>5. ASSUME NEW n \in Calls, RollbackBatch(n) \/ StatementFails(n) PROVE KeysInv'
  <2>1. conn[n] \in Conns
    BY <1>5, RunningSession DEF RollbackBatch, StatementFails, Running, Statements
  <2>2. CASE Rollback(conn[n]) \/ Fail(conn[n])
    BY <1>1, <2>1, <2>2, DiscardKeys DEF Rollback, Discard, Fail
  <2>3. CASE UNCHANGED pgVars
    BY <1>2, <2>3 DEF pgVars
  <2>. QED
    BY <1>5, <2>2, <2>3 DEF RollbackBatch, StatementFails
<1>6. ASSUME NEW c \in Conns, DropSession(c) PROVE KeysInv'
  BY <1>1, <1>6, DiscardKeys DEF DropSession, Drop, Discard
<1>7. ASSUME NEW n \in Calls, NEW c \in Conns, NEW rq \in Request, Call(n, c, rq)
      PROVE  KeysInv'
  BY <1>2, <1>7 DEF Call, pgVars
<1>8. ASSUME NEW n \in Calls, FindById(n) \/ BeginBatch(n)
      PROVE  KeysInv'
  BY <1>2, <1>8 DEF FindById, BeginBatch, Begin, pgVars
<1>9. UNCHANGED vars => KeysInv'
  BY <1>2 DEF vars, pgVars
<1>. QED
  BY <1>3, <1>4, <1>5, <1>6, <1>7, <1>8, <1>9, StepCases

-----------------------------------------------------------------------------
(* 3. The stored rows.                                                     *)

(* The record a statement is about is one of the call's.                   *)
LEMMA NextRow ==
  ASSUME CallsInv, NEW n \in Calls
  PROVE  /\ pc[n] # "new" => req[n] \in Request /\ conn[n] \in Conns
         /\ pc[n] \in Writing => next[n] \in DOMAIN req[n].recs
         /\ pc[n] \in TryBlock => Done(n) \subseteq DOMAIN req[n].recs
         /\ pc[n] = "commit" => Done(n) = DOMAIN req[n].recs
<1>1. pc[n] # "new" => req[n] \in Request /\ conn[n] \in Conns
  BY DEF CallsInv, CallInv
<1>2. CASE pc[n] \in {"create", "update", "deleteById"}
  <2>1. next[n] = 1 /\ ~Batch(req[n]) /\ req[n] \in Request
    BY <1>2 DEF CallsInv, CallInv, Singles, Batch
  <2>2. req[n].recs \in Seq(Ids) /\ Len(req[n].recs) = 1
    BY <2>1, RequestForm
  <2>. QED
    BY <1>1, <1>2, <2>1, <2>2 DEF TryBlock
<1>3. CASE pc[n] \in TryBlock
  <2>1. req[n].recs \in Seq(Ids) /\ next[n] \in Nat
    BY <1>1, <1>3, RequestForm DEF CallsInv, TryBlock
  <2>2. /\ pc[n] # "commit" => next[n] \in DOMAIN req[n].recs
        /\ pc[n] = "commit" => next[n] = Len(req[n].recs) + 1
    BY <1>3 DEF CallsInv, CallInv, TryBlock
  <2>. QED
    BY <1>1, <1>3, <2>1, <2>2 DEF Done, Writing, TryBlock
<1>4. CASE pc[n] \notin TryBlock \cup {"create", "update", "deleteById"}
  BY <1>1, <1>4 DEF Writing, TryBlock
<1>. QED
  BY <1>2, <1>3, <1>4

LEMMA CommitProgress ==
  ASSUME CallsInv, SessionInv, ProgressInv, NEW n \in Calls, CommitBatch(n)
  PROVE  /\ tx[conn[n]] = "open" /\ Progress(n) /\ conn[n] \in Conns
         /\ committed' = (committed \ del[conn[n]]) \cup ins[conn[n]]
         /\ ins[conn[n]] \subseteq RowsOfCall(n)
         /\ Published(n)'
<1>1. pc[n] \in TryBlock /\ pc[n] = "commit" /\ Running(n) /\ link[conn[n]] = "up"
  BY DEF CommitBatch, Commit, TryBlock, Running, Statements
<1>2. conn[n] \in Conns /\ tx[conn[n]] = "open"
  BY <1>1, RunningSession
<1>3. Progress(n)
  BY <1>1, <1>2 DEF ProgressInv
<1>4. ins[conn[n]] \subseteq RowsOfCall(n)
  BY <1>1, <1>3, NextRow DEF Progress, RowsOfCall
<1>5. Published(n)'
  BY <1>1, <1>2 DEF CommitBatch, LastReply, Published, Goto, CallsInv, SessionInv
<1>. QED
  BY <1>2, <1>3, <1>4, <1>5 DEF CommitBatch, Commit

LEMMA SinglePublished ==
  ASSUME CallsInv, SessionInv, NEW n \in Calls, WriteSingle(n)
  PROVE  /\ New(n) \subseteq RowsOfCall(n)
         /\ committed' = (committed \ Old(n)) \cup New(n)
         /\ Old(n) \subseteq committed
         /\ Published(n)'
<1>1. /\ pc[n] \in Singles /\ pc[n] \notin TryBlock /\ pc[n] \in Writing
      /\ Running(n) /\ pc[n] # "new"
  BY DEF WriteSingle, Write, TryBlock, Running, Statements, Singles
<1>2. conn[n] \in Conns /\ tx[conn[n]] = "idle"
  BY <1>1, RunningSession
<1>3. New(n) \subseteq RowsOfCall(n)
  BY <1>1, NextRow DEF New, RowsOfCall
<1>4. committed' = (committed \ Old(n)) \cup New(n)
  BY <1>2 DEF WriteSingle, Write, Change
<1>5. Published(n)'
  BY <1>1, <1>2 DEF WriteSingle, Write, LastReply, Published, Goto, CallsInv, SessionInv
<1>6. Old(n) \subseteq committed
  BY <1>2 DEF Old, Matching, Own, Visible, SessionInv
<1>. QED
  BY <1>3, <1>4, <1>5, <1>6

(* Only a successful write outside of a transaction, and COMMIT, publish.  *)
LEMMA PublishingSteps ==
  ASSUME CallsInv, SessionInv, ProgressInv, [Next]_vars
  PROVE  \/ committed' = committed
         \/ \E n \in Calls : WriteSingle(n) \/ CommitBatch(n)
<1>1. ASSUME NEW n \in Calls, WriteNext(n) PROVE committed' = committed
  <2>1. /\ pc[n] \in TryBlock /\ Running(n) /\ link[conn[n]] = "up"
        /\ Change(conn[n], Old(n), New(n))
    BY <1>1 DEF WriteNext, Write, Change, CanRun, TryBlock, Running, Statements
  <2>2. tx[conn[n]] = "open"
    BY <2>1, RunningSession
  <2>. QED
    BY <2>1, <2>2 DEF Change
<1>2. ASSUME NEW n \in Calls,
             FindById(n) \/ BeginBatch(n) \/ RollbackBatch(n) \/ StatementFails(n)
      PROVE  committed' = committed
  BY <1>2 DEF FindById, BeginBatch, Begin, RollbackBatch, Rollback, StatementFails, Fail, pgVars
<1>3. ASSUME NEW n \in Calls, NEW c \in Conns, NEW rq \in Request, Call(n, c, rq)
      PROVE  committed' = committed
  BY <1>3 DEF Call, pgVars
<1>4. ASSUME NEW c \in Conns, DropSession(c) PROVE committed' = committed
  BY <1>4 DEF DropSession, Drop
<1>5. UNCHANGED vars => committed' = committed
  BY DEF vars, pgVars
<1>. QED
  BY <1>1, <1>2, <1>3, <1>4, <1>5, StepCases

(* What is new in the database comes from one call, which has published it.*)
LEMMA NewRows ==
  ASSUME CallsInv, SessionInv, ProgressInv, [Next]_vars, committed' # committed
  PROVE  \E n \in Calls :
           /\ pc[n] # "new" /\ Published(n)'
           /\ committed' \ committed \subseteq RowsOfCall(n)
<1>1. ASSUME NEW n \in Calls, WriteSingle(n)
      PROVE  /\ pc[n] # "new" /\ Published(n)'
             /\ committed' \ committed \subseteq RowsOfCall(n)
  BY <1>1, SinglePublished DEF WriteSingle, Singles
<1>2. ASSUME NEW n \in Calls, CommitBatch(n)
      PROVE  /\ pc[n] # "new" /\ Published(n)'
             /\ committed' \ committed \subseteq RowsOfCall(n)
  BY <1>2, CommitProgress DEF CommitBatch
<1>. QED
  BY <1>1, <1>2, PublishingSteps

LEMMA OriginInvNext ==
  ASSUME CallsInv, SessionInv, ProgressInv, OriginInv, [Next]_vars
  PROVE  OriginInv'
<1> SUFFICES ASSUME NEW r \in committed'
             PROVE  \E n \in Calls : r \in RowsOfCall(n)' /\ Published(n)'
  BY DEF OriginInv
<1>1. CASE r \in committed
  <2>1. PICK n \in Calls : r \in RowsOfCall(n) /\ Published(n)
    BY <1>1 DEF OriginInv
  <2>2. pc[n] # "new"
    BY <2>1 DEF Published
  <2>. QED
    BY <2>1, <2>2, NextKeeps
<1>2. CASE r \notin committed
  <2>1. PICK n \in Calls : /\ pc[n] # "new" /\ Published(n)'
                           /\ committed' \ committed \subseteq RowsOfCall(n)
    BY <1>2, NewRows
  <2>2. RowsOfCall(n)' = RowsOfCall(n)
    BY <2>1, NextKeeps
  <2>. QED
    BY <1>2, <2>1, <2>2
<1>. QED
  BY <1>1, <1>2

-----------------------------------------------------------------------------
(* 4. The open transactions.                                               *)

LEMMA SameProgress ==
  ASSUME NEW m \in Calls, Progress(m),
         next'[m] = next[m], count'[m] = count[m], req'[m] = req[m], conn'[m] = conn[m],
         ins'[conn[m]] = ins[conn[m]]
  PROVE  Progress(m)'
<1>1. \A k : Row(m, k)' = Row(m, k)
  BY DEF Row
<1>2. Done(m)' = Done(m)
  BY DEF Done
<1>. QED
  BY <1>1, <1>2 DEF Progress, AllFound

(* A statement that adds the row of the next record, in place of the row   *)
(* with its key if there was one.                                          *)
LEMMA AddedProgress ==
  ASSUME CallsInv, NEW n \in Calls, Progress(n), pc[n] \in {"insertNext", "updateNext"},
         UNCHANGED <<req, conn>>, next'[n] = next[n] + 1, count'[n] = count[n] + 1,
         NEW old, old = {} \/ \E r : old = {r},
         \A r \in old : r.pk = Row(n, next[n]).pk,
         req[n].op = "batchCreate" => old = {},
         ins'[conn[n]] = (ins[conn[n]] \ old) \cup {Row(n, next[n])}
  PROVE  Progress(n)'
<1> DEFINE R == ins[conn[n]]
           w == Row(n, next[n])
<1>1. /\ next[n] \in Nat /\ count[n] \in Nat /\ next[n] \in DOMAIN req[n].recs
      /\ Done(n) \subseteq DOMAIN req[n].recs /\ req[n] \in Request
  BY NextRow DEF CallsInv, Writing, TryBlock
<1>2. 1 <= next[n]
  BY <1>1, RequestForm
<1>3. Done(n)' = Done(n) \cup {next[n]}
  BY <1>1, <1>2 DEF Done
<1>4. \A k : Row(n, k)' = Row(n, k)
  BY DEF Row
<1>5. next[n] \notin Done(n)
  BY <1>1 DEF Done
<1>6. R \subseteq {Row(n, k) : k \in Done(n)} /\ IsFiniteSet(R)
  BY DEF Progress
<1>7. w \notin R
  BY <1>5, <1>6, RowOwner
<1>8. /\ IsFiniteSet(R \ old) /\ Cardinality(R \ old) <= Cardinality(R)
      /\ Cardinality(R \ old) \in Nat /\ Cardinality(R) \in Nat
      /\ R \cap old = {} => R \ old = R
  <2>1. IsFiniteSet(R \ old)
    BY <1>6, FS_Difference
  <2>2. R \ old \in SUBSET R
    OBVIOUS
  <2>3. Cardinality(R \ old) <= Cardinality(R)
    BY <1>6, <2>2, FS_Subset
  <2>. QED
    BY <1>6, <2>1, <2>3, FS_CardinalityType
<1>9. /\ IsFiniteSet((R \ old) \cup {w})
      /\ Cardinality((R \ old) \cup {w}) = Cardinality(R \ old) + 1
  BY <1>7, <1>8, FS_AddElement
<1>10. ins'[conn[n]] \subseteq {Row(n, k) : k \in Done(n)'}
  BY <1>3, <1>6
<1>11. req[n].op = "batchCreate" => {Row(n, k) : k \in Done(n)'} \subseteq ins'[conn[n]]
  BY <1>3 DEF Progress
<1>12. count[n] + 1 < next[n] + 1
  BY <1>1 DEF Progress
<1>13. ASSUME count[n] + 1 = next[n]
       PROVE  \A k \in Done(n)' : \E r \in ins'[conn[n]] : r.pk = Row(n, k).pk
  <2>1. AllFound(n)
    BY <1>1, <1>13 DEF Progress
  <2>2. ASSUME NEW k \in Done(n) PROVE \E r \in ins'[conn[n]] : r.pk = Row(n, k).pk
    <3>1. PICK r \in R : r.pk = Row(n, k).pk
      BY <2>1 DEF AllFound
    <3>2. r \in old => w.pk = Row(n, k).pk
      BY <3>1
    <3>3. r \in ins'[conn[n]] \/ r \in old
      BY <3>1
    <3>4. w \in ins'[conn[n]]
      OBVIOUS
    <3>. QED
      BY <3>1, <3>2, <3>3, <3>4
  <2>3. \E r \in ins'[conn[n]] : r.pk = Row(n, next[n]).pk
    OBVIOUS
  <2>. QED
    BY <1>3, <2>2, <2>3
<1>14. Cardinality(ins'[conn[n]]) <= count[n] + 1
  BY <1>1, <1>8, <1>9 DEF Progress
<1>15. ASSUME IsInjective(req[n].recs)
       PROVE  Cardinality(ins'[conn[n]]) = count[n] + 1
  <2>1. ASSUME NEW r \in R, r \in old PROVE FALSE
    <3>1. PICK k \in Done(n) : r = Row(n, k)
      BY <1>6
    <3>2. Row(n, k).pk = Row(n, next[n]).pk
      BY <2>1, <3>1
    <3>3. req[n].recs[k] = req[n].recs[next[n]]
      BY <3>2 DEF Row
    <3>4. k = next[n]
      BY <1>1, <1>15, <3>3 DEF IsInjective
    <3>. QED
      BY <1>5, <3>4
  <2>. QED
    BY <1>1, <1>8, <1>9, <1>15, <2>1 DEF Progress
<1>16. ins'[conn[n]] # {} /\ IsFiniteSet(ins'[conn[n]])
  BY <1>9
<1>17. AllFound(n)' = (\A k \in Done(n)' : \E r \in ins'[conn[n]] : r.pk = Row(n, k).pk)
  BY <1>4 DEF AllFound
<1>18. count'[n] = next'[n] - 1 => AllFound(n)'
  BY <1>1, <1>13, <1>17
<1>19. {Row(n, k)' : k \in Done(n)'} = {Row(n, k) : k \in Done(n)'}
  BY <1>4
<1> HIDE DEF R, w
<1>. QED
  BY <1>10, <1>11, <1>12, <1>14, <1>15, <1>16, <1>18, <1>19 DEF Progress

LEMMA WriteNextProgress ==
  ASSUME CallsInv, SessionInv, KeysInv, ProgressInv, NEW n \in Calls, WriteNext(n)
  PROVE  Progress(n)'
<1> DEFINE old == Matching(n)
<1>1. /\ pc[n] \in {"insertNext", "updateNext"} /\ pc[n] \in TryBlock /\ Running(n)
      /\ link[conn[n]] = "up" /\ Change(conn[n], Old(n), New(n))
      /\ UNCHANGED <<req, conn>>
  BY DEF WriteNext, Write, Change, CanRun, TryBlock, Running, Statements
<1>2. conn[n] \in Conns /\ tx[conn[n]] = "open" /\ Progress(n)
  BY <1>1, RunningSession DEF ProgressInv
<1>3. ins'[conn[n]] = (ins[conn[n]] \ Old(n)) \cup New(n)
  BY <1>1, <1>2 DEF Change, SessionInv
<1>4. next'[n] = next[n] + 1
  BY DEF WriteNext, NextRecord, CallsInv
<1>5. count'[n] = count[n] + (IF pc[n] = "insertNext" THEN 1 ELSE Cardinality(old))
  BY DEF WriteNext, CallsInv
<1>6. /\ count[n] \in Nat /\ next[n] \in Nat
      /\ pc[n] = "updateNext" => req[n].op = "batchUpdate"
  BY DEF CallsInv, CallInv
<1>7. CASE pc[n] = "insertNext"
  <2>1. Old(n) = {} /\ New(n) = {Row(n, next[n])}
    BY <1>7 DEF Old, New, Inserts
  <2>2. PICK none : none = {}
    OBVIOUS
  <2>3. /\ count'[n] = count[n] + 1
        /\ ins'[conn[n]] = (ins[conn[n]] \ none) \cup {Row(n, next[n])}
    BY <1>3, <1>5, <1>7, <2>1, <2>2
  <2>4. \A r \in none : r.pk = Row(n, next[n]).pk
    BY <2>2
  <2>. QED
    BY <1>1, <1>2, <1>4, <2>2, <2>3, <2>4, AddedProgress
<1>8. CASE pc[n] = "updateNext" /\ old # {}
  <2>1. Old(n) = old /\ New(n) = {Row(n, next[n])}
    BY <1>8 DEF Old, New, Inserts
  <2>2. (\E r : old = {r}) /\ Cardinality(old) = 1
    BY <1>2, <1>8, MatchingOne
  <2>3. /\ count'[n] = count[n] + 1
        /\ ins'[conn[n]] = (ins[conn[n]] \ old) \cup {Row(n, next[n])}
    BY <1>3, <1>5, <1>8, <2>1, <2>2
  <2>4. \A r \in old : r.pk = Row(n, next[n]).pk
    BY DEF Matching
  <2>5. req[n].op # "batchCreate"
    BY <1>6, <1>8
  <2> HIDE DEF old
  <2>. QED
    BY <1>1, <1>2, <1>4, <2>2, <2>3, <2>4, <2>5, AddedProgress
<1>9. CASE pc[n] = "updateNext" /\ old = {}
  <2>1. Old(n) = {} /\ New(n) = {}
    BY <1>9 DEF Old, New, Inserts
  <2>2. count'[n] = count[n]
    BY <1>5, <1>6, <1>9, FS_EmptySet
  <2>3. ins'[conn[n]] = ins[conn[n]]
    BY <1>3, <2>1
  <2>4. Done(n) \subseteq Done(n)'
    BY <1>4, <1>6 DEF Done
  <2>5. \A k : Row(n, k)' = Row(n, k)
    BY <1>1 DEF Row
  <2>6. ins[conn[n]] \subseteq {Row(n, k) : k \in Done(n)'}
    BY <1>2, <2>4 DEF Progress
  <2>7. count'[n] < next'[n] /\ count'[n] # next'[n] - 1
    BY <1>2, <1>4, <1>6, <2>2 DEF Progress
  <2>8. req'[n] = req[n] /\ req[n].op # "batchCreate" /\ conn'[n] = conn[n]
    BY <1>1, <1>6, <1>9
  <2>9. {Row(n, k)' : k \in Done(n)'} = {Row(n, k) : k \in Done(n)'}
    BY <2>5
  <2> HIDE DEF old
  <2>10. /\ ins'[conn'[n]] \subseteq {Row(n, k)' : k \in Done(n)'}
         /\ IsFiniteSet(ins'[conn'[n]])
         /\ Cardinality(ins'[conn'[n]]) <= count'[n]
         /\ ins'[conn'[n]] = {} => count'[n] = 0
         /\ IsInjective(req'[n].recs) => count'[n] = Cardinality(ins'[conn'[n]])
    BY <1>2, <2>2, <2>3, <2>6, <2>8, <2>9 DEF Progress
  <2>. QED
    BY <2>7, <2>8, <2>10 DEF Progress
<1>. QED
  BY <1>1, <1>7, <1>8, <1>9

LEMMA BeginProgress ==
  ASSUME CallsInv, SessionInv, NEW n \in Calls, BeginBatch(n)
  PROVE  Progress(n)'
<1>1. /\ Running(n) /\ pc[n] = "begin" /\ UNCHANGED <<conn, req, ins, next, count>>
  BY DEF BeginBatch, Begin, Running, Statements
<1>2. conn[n] \in Conns /\ tx[conn[n]] = "idle"
  BY <1>1, RunningSession
<1>3. next'[n] = 1 /\ count'[n] = 0 /\ ins'[conn'[n]] = {}
  BY <1>1, <1>2 DEF CallsInv, CallInv, SessionInv
<1>4. Done(n)' = {}
  BY <1>3 DEF Done
<1>5. AllFound(n)'
  BY <1>4 DEF AllFound
<1>6. IsFiniteSet({}) /\ Cardinality({}) = 0
  BY FS_EmptySet
<1>. QED
  BY <1>3, <1>4, <1>5, <1>6 DEF Progress

LEMMA ElsewhereSame ==
  ASSUME CallsInv, SessionInv, NEW n \in Calls,
         \/ FindById(n) \/ WriteSingle(n) \/ BeginBatch(n) \/ WriteNext(n)
         \/ CommitBatch(n) \/ RollbackBatch(n) \/ StatementFails(n)
  PROVE  /\ SameElsewhere(conn[n])
         /\ \A m \in Calls \ {n} : next'[m] = next[m] /\ count'[m] = count[m]
<1>1. conn[n] \in Conns
  BY RunningSteps, RunningSession
<1>2. ASSUME Change(conn[n], Old(n), New(n))
      PROVE  \A d \in Conns \ {conn[n]} : tx'[d] = tx[d] /\ ins'[d] = ins[d] /\ del'[d] = del[d]
  BY <1>1, <1>2 DEF Change, SessionInv
<1>3. ASSUME LastReply(n) PROVE \A d \in Conns \ {conn[n]} : link'[d] = link[d]
  BY <1>1, <1>3 DEF LastReply, SessionInv
<1>4. CASE FindById(n)
  BY <1>4 DEF FindById, pgVars, SameElsewhere
<1>5. CASE WriteSingle(n)
  <2>1. \A m \in Calls \ {n} : next'[m] = next[m] /\ count'[m] = count[m]
    BY <1>5 DEF WriteSingle, CallsInv
  <2>. QED
    BY <1>2, <1>3, <1>5, <2>1 DEF WriteSingle, Write, SameElsewhere
<1>6. CASE BeginBatch(n)
  BY <1>6 DEF BeginBatch, Begin, SameElsewhere, SessionInv
<1>7. CASE WriteNext(n)
  <2>1. \A m \in Calls \ {n} : next'[m] = next[m] /\ count'[m] = count[m]
    BY <1>7 DEF WriteNext, NextRecord, CallsInv
  <2>. QED
    BY <1>2, <1>7, <2>1 DEF WriteNext, Write, SameElsewhere
<1>8. CASE CommitBatch(n)
  BY <1>3, <1>8 DEF CommitBatch, Commit, Discard, SameElsewhere, SessionInv
<1>9. CASE RollbackBatch(n)
  BY <1>9 DEF RollbackBatch, Rollback, Discard, pgVars, SameElsewhere, SessionInv
<1>10. CASE StatementFails(n)
  BY <1>10 DEF StatementFails, Fail, pgVars, SameElsewhere, SessionInv
<1>. QED
  BY <1>4, <1>5, <1>6, <1>7, <1>8, <1>9, <1>10

LEMMA ProgressInvNext ==
  ASSUME CallsInv, SessionInv, KeysInv, ProgressInv, [Next]_vars
  PROVE  ProgressInv'
<1> SUFFICES ASSUME NEW m \in Calls, pc'[m] \in TryBlock, tx'[conn'[m]] = "open"
             PROVE  Progress(m)'
  BY DEF ProgressInv
<1>1. ASSUME NEW n \in Calls, NEW c \in Conns, NEW rq \in Request, Call(n, c, rq)
      PROVE  Progress(m)'
  <2>1. /\ UNCHANGED <<tx, ins, next, count>> /\ pc[n] = "new"
    BY <1>1 DEF Call, pgVars
  <2>2. pc'[n] \notin TryBlock
    <3>1. rq.op \in Singles \cup {"batchCreate", "batchUpdate"} /\ (~Batch(rq) => rq.op \in Singles)
      BY RequestForm DEF Batch
    <3>. QED
      BY <1>1, <3>1 DEF Call, CallsInv, Goto, TryBlock, Singles
  <2>3. pc[m] \in TryBlock /\ req'[m] = req[m] /\ conn'[m] = conn[m]
    BY <1>1, <2>2 DEF Call, CallsInv, Goto
  <2>4. Progress(m)
    BY <2>1, <2>3 DEF ProgressInv
  <2>. QED
    BY <2>1, <2>3, <2>4, SameProgress
<1>2. ASSUME NEW n \in Calls,
             \/ FindById(n) \/ WriteSingle(n) \/ BeginBatch(n) \/ WriteNext(n)
             \/ CommitBatch(n) \/ RollbackBatch(n) \/ StatementFails(n)
      PROVE  Progress(m)'
  <2>1. CASE m = n
    <3>1. CASE BeginBatch(n) \/ WriteNext(n)
      BY <2>1, <3>1, BeginProgress, WriteNextProgress
    <3>2. CASE FindById(n) \/ WriteSingle(n) \/ CommitBatch(n) \/ RollbackBatch(n) \/ StatementFails(n)
      <4>1. \E l \in {"returned", "threw", "rollback"} : Goto(n, l)
        BY <3>2, LastReplyGoes
           DEF FindById, WriteSingle, CommitBatch, RollbackBatch, StatementFails
      <4>2. pc'[n] \notin TryBlock
        BY <4>1 DEF Goto, CallsInv, TryBlock
      <4>. QED
        BY <2>1, <4>2
    <3>. QED
      BY <1>2, <3>1, <3>2
  <2>2. CASE m # n
    <3>1. Running(n) /\ UNCHANGED <<req, conn>> /\ pc'[m] = pc[m]
      BY <1>2, <2>2, RunningSteps DEF Goto, CallsInv
    <3>2. pc[m] \in TryBlock /\ Running(m)
      BY <3>1 DEF Running, TryBlock, Statements
    <3>3. conn[m] \in Conns \ {conn[n]}
      BY <2>2, <3>1, <3>2, RunningSession
    <3>4. /\ tx'[conn[m]] = tx[conn[m]] /\ ins'[conn[m]] = ins[conn[m]]
          /\ next'[m] = next[m] /\ count'[m] = count[m]
      BY <1>2, <2>2, <3>3, ElsewhereSame DEF SameElsewhere
    <3>5. Progress(m)
      BY <3>1, <3>2, <3>4 DEF ProgressInv
    <3>. QED
      BY <3>1, <3>4, <3>5, SameProgress
  <2>. QED
    BY <2>1, <2>2
<1>3. ASSUME NEW c \in Conns, DropSession(c) PROVE Progress(m)'
  <2>1. UNCHANGED <<req, conn, pc, next, count>> /\ Discard(c)
    BY <1>3 DEF DropSession, Drop
  <2>2. conn[m] \in Conns
    BY <2>1 DEF CallsInv, CallInv, TryBlock
  <2>3. conn[m] # c
    BY <2>1, <2>2 DEF Discard, SessionInv
  <2>4. tx'[conn[m]] = tx[conn[m]] /\ ins'[conn[m]] = ins[conn[m]]
    BY <2>1, <2>2, <2>3 DEF Discard, SessionInv
  <2>5. Progress(m)
    BY <2>1, <2>4 DEF ProgressInv
  <2>. QED
    BY <2>1, <2>4, <2>5, SameProgress
<1>4. CASE UNCHANGED vars
  <2>1. UNCHANGED <<req, conn, pc, next, count, tx, ins>>
    BY <1>4 DEF vars, pgVars
  <2>2. Progress(m)
    BY <2>1 DEF ProgressInv
  <2>. QED
    BY <2>1, <2>2, SameProgress
<1>. QED
  BY <1>1, <1>2, <1>3, <1>4, StepCases

-----------------------------------------------------------------------------
(* 5. The types of the rows.                                               *)

LEMMA RowsTypedNext ==
  ASSUME CallsInv, SessionInv, ProgressInv, RowsTyped, [Next]_vars
  PROVE  RowsTyped'
<1>1. ASSUME UNCHANGED <<ins, del>> \/ (\E c \in Conns : /\ ins' = [ins EXCEPT ![c] = {}]
                                                         /\ del' = [del EXCEPT ![c] = {}])
      PROVE  ins' \in [Conns -> SUBSET StoredRows] /\ del' \in [Conns -> SUBSET StoredRows]
  BY <1>1 DEF RowsTyped
<1>2. ASSUME UNCHANGED <<committed, found>>,
             UNCHANGED <<ins, del>> \/ (\E c \in Conns : /\ ins' = [ins EXCEPT ![c] = {}]
                                                         /\ del' = [del EXCEPT ![c] = {}])
      PROVE  RowsTyped'
  BY <1>1, <1>2 DEF RowsTyped
<1>3. ASSUME NEW n \in Calls, WriteSingle(n) \/ WriteNext(n)
      PROVE  RowsTyped'
  <2>1. pc[n] \in Writing /\ Running(n) /\ found' = found /\ Change(conn[n], Old(n), New(n))
    BY <1>3 DEF WriteSingle, WriteNext, Write, Writing, Running, Statements
  <2>2. conn[n] \in Conns /\ pc[n] # "new"
    BY <2>1, RunningSession DEF Writing
  <2>3. New(n) \subseteq StoredRows
    BY <2>1, <2>2, NextRow, RowStored DEF New
  <2>. HIDE DEF Old, New
  <2>4. CASE tx[conn[n]] = "open"
    <3>1. /\ ins' = [ins EXCEPT ![conn[n]] = (ins[conn[n]] \ Old(n)) \cup New(n)]
          /\ del' = [del EXCEPT ![conn[n]] = del[conn[n]] \cup (Old(n) \cap committed)]
          /\ committed' = committed
      BY <2>1, <2>4 DEF Change
    <3>2. /\ (ins[conn[n]] \ Old(n)) \cup New(n) \in SUBSET StoredRows
          /\ del[conn[n]] \cup (Old(n) \cap committed) \in SUBSET StoredRows
      BY <2>2, <2>3 DEF RowsTyped
    <3>. QED
      BY <2>1, <3>1, <3>2 DEF RowsTyped
  <2>5. CASE tx[conn[n]] # "open"
    BY <2>1, <2>3, <2>5 DEF Change, RowsTyped
  <2>. QED
    BY <2>4, <2>5
<1>4. ASSUME NEW n \in Calls, CommitBatch(n) PROVE RowsTyped'
  <2>1. /\ conn[n] \in Conns /\ committed' = (committed \ del[conn[n]]) \cup ins[conn[n]]
    BY <1>4, CommitProgress
  <2>2. Discard(conn[n]) /\ found' = found
    BY <1>4 DEF CommitBatch, Commit
  <2>3. committed' \subseteq StoredRows
    BY <2>1 DEF RowsTyped
  <2>4. ins' \in [Conns -> SUBSET StoredRows] /\ del' \in [Conns -> SUBSET StoredRows]
    BY <1>1, <2>1, <2>2 DEF Discard
  <2>. QED
    BY <2>2, <2>3, <2>4 DEF RowsTyped
<1>5. ASSUME NEW n \in Calls, FindById(n) PROVE RowsTyped'
  <2>1. conn[n] \in Conns
    BY <1>5, RunningSession DEF FindById, Running, Statements
  <2>2. Matching(n) \subseteq StoredRows
    BY <2>1 DEF RowsTyped, Matching, Own, Visible
  <2>. QED
    BY <1>5, <2>2 DEF FindById, RowsTyped, pgVars
<1>6. ASSUME NEW n \in Calls, RollbackBatch(n) \/ StatementFails(n) PROVE RowsTyped'
  <2>1. conn[n] \in Conns
    BY <1>6, RunningSession DEF RollbackBatch, StatementFails, Running, Statements
  <2>2. CASE Rollback(conn[n]) \/ Fail(conn[n])
    BY <1>2, <1>6, <2>1, <2>2 DEF RollbackBatch, StatementFails, Rollback, Discard, Fail
  <2>3. CASE UNCHANGED pgVars
    BY <1>2, <1>6, <2>3 DEF RollbackBatch, StatementFails, pgVars
  <2>. QED
    BY <1>6, <2>2, <2>3 DEF RollbackBatch, StatementFails
<1>7. ASSUME NEW c \in Conns, DropSession(c) PROVE RowsTyped'
  BY <1>2, <1>7 DEF DropSession, Drop, Discard
<1>8. ASSUME NEW n \in Calls, NEW c \in Conns, NEW rq \in Request, Call(n, c, rq)
      PROVE  RowsTyped'
  BY <1>2, <1>8 DEF Call, pgVars
<1>9. ASSUME NEW n \in Calls, BeginBatch(n) PROVE RowsTyped'
  BY <1>2, <1>9 DEF BeginBatch, Begin
<1>10. UNCHANGED vars => RowsTyped'
  BY <1>2 DEF vars, pgVars
<1>. QED
  BY <1>3, <1>4, <1>5, <1>6, <1>7, <1>8, <1>9, <1>10, StepCases

-----------------------------------------------------------------------------
LEMMA RecordsInvInit == Init => RecordsInv
<1> SUFFICES ASSUME Init PROVE RecordsInv
  OBVIOUS
<1>1. /\ committed = {}
      /\ \A c \in Conns : ins[c] = {} /\ del[c] = {} /\ tx[c] = "idle" /\ link[c] = "up"
      /\ \A n \in Calls : pc[n] = "new" /\ next[n] = 1 /\ count[n] = 0
  BY DEF Init, PgInit
<1>2. CallsInv
  <2>1. \A n \in Calls : CallInv(n)
    BY <1>1 DEF Init, CallInv, Singles, TryBlock
  <2>. QED
    BY <2>1 DEF Init, CallsInv
<1>3. SessionInv
  BY <1>1 DEF Init, PgInit, SessionInv, Running, Statements, TryBlock, TxStates, LinkStates
<1>4. KeysInv
  BY <1>1 DEF KeysInv, UniqueKeys, Apart, Held
<1>5. OriginInv /\ ProgressInv
  BY <1>1 DEF OriginInv, ProgressInv, TryBlock
<1>6. RowsTyped
  BY DEF Init, PgInit, RowsTyped
<1>. QED
  BY <1>2, <1>3, <1>4, <1>5, <1>6 DEF RecordsInv

LEMMA RecordsInvNext == RecordsInv /\ [Next]_vars => RecordsInv'
  BY CallsInvNext, SessionInvNext, KeysInvNext, OriginInvNext, ProgressInvNext, RowsTypedNext
     DEF RecordsInv

LEMMA RecordsInvAlways == Spec => []RecordsInv
  BY RecordsInvInit, RecordsInvNext, PTL DEF Spec

(* The tables, the sessions, the requests and the steps of the calls have  *)
(* the types of the code.                                                  *)
THEOREM TypeCorrect == Spec => []TypeOK
<1>1. RecordsInv => TypeOK
  BY DEF RecordsInv, CallsInv, CallInv, SessionInv, RowsTyped, TypeOK, TryBlock
<1>. QED
  BY <1>1, RecordsInvAlways, PTL

(* A connection is in a transaction block only while a batch runs on it:   *)
(* RollbackBatch ends the block that a failed statement left behind.       *)
THEOREM LeftIdle == Spec => []ConnectionLeftIdle
<1>1. RecordsInv => ConnectionLeftIdle
  BY DEF RecordsInv, SessionInv, TxStates, ConnectionLeftIdle
<1>. QED
  BY <1>1, RecordsInvAlways, PTL

(* What is stored comes from calls that have returned or that have lost    *)
(* their connection.                                                       *)
THEOREM FailedStoresNothing == Spec => []FailedCallStoresNothing
<1>1. ASSUME RecordsInv PROVE FailedCallStoresNothing
  <2> SUFFICES ASSUME NEW n \in Calls, pc[n] = "threw", link[conn[n]] = "up",
                      NEW r \in RowsOfCall(n) \cap committed
               PROVE  FALSE
    BY DEF FailedCallStoresNothing
  <2>1. PICK m \in Calls : r \in RowsOfCall(m) /\ Published(m)
    BY <1>1 DEF RecordsInv, OriginInv
  <2>2. m = n
    BY <2>1, OneOwner
  <2>. QED
    BY <2>1, <2>2 DEF Published
<1>. QED
  BY <1>1, RecordsInvAlways, PTL

-----------------------------------------------------------------------------
(* What a step publishes and returns.                                      *)

(* A running call on a usable connection has nothing stored.               *)
LEMMA NothingStored ==
  ASSUME RecordsInv, NEW n \in Calls, Running(n), link[conn[n]] = "up"
  PROVE  RowsOfCall(n) \cap committed = {}
<1> SUFFICES ASSUME NEW r \in RowsOfCall(n) \cap committed PROVE FALSE
  OBVIOUS
<1>1. PICK m \in Calls : r \in RowsOfCall(m) /\ Published(m)
  BY DEF RecordsInv, OriginInv
<1>2. m = n
  BY <1>1, OneOwner
<1>. QED
  BY <1>1, <1>2 DEF Published, Running, Statements

LEMMA CommitWhole ==
  ASSUME RecordsInv, NEW n \in Calls, CommitBatch(n)
  PROVE  /\ RowsOfCall(n) = {Row(n, k) : k \in Done(n)}
         /\ RowsOfCall(n) \cap committed' = ins[conn[n]]
         /\ committed' = Visible(conn[n])
         /\ Progress(n) /\ conn[n] \in Conns /\ ins[conn[n]] \subseteq RowsOfCall(n)
         /\ next[n] = Len(req[n].recs) + 1 /\ req[n] \in Request
<1>1. /\ pc[n] = "commit" /\ Running(n) /\ link[conn[n]] = "up"
  BY DEF CommitBatch, Commit, Running, Statements
<1>2. /\ Progress(n) /\ conn[n] \in Conns /\ ins[conn[n]] \subseteq RowsOfCall(n)
      /\ committed' = (committed \ del[conn[n]]) \cup ins[conn[n]]
  BY CommitProgress DEF RecordsInv
<1>3. RowsOfCall(n) \cap committed = {}
  BY <1>1, NothingStored
<1>4. RowsOfCall(n) = {Row(n, k) : k \in Done(n)}
  BY <1>1, NextRow DEF RecordsInv, RowsOfCall
<1>5. next[n] = Len(req[n].recs) + 1 /\ req[n] \in Request
  BY <1>1 DEF RecordsInv, CallsInv, CallInv
<1>6. RowsOfCall(n) \cap committed' = ins[conn[n]]
  BY <1>2, <1>3
<1>. QED
  BY <1>2, <1>4, <1>5, <1>6 DEF Visible

(* The steps a call returns with.                                          *)
LEMMA ReturnSteps ==
  ASSUME CallsInv, [Next]_vars, NEW n \in Calls, pc[n] # "returned", pc'[n] = "returned"
  PROVE  \/ \E c \in Conns, rq \in Request : Call(n, c, rq)
         \/ FindById(n) \/ WriteSingle(n) \/ CommitBatch(n)
<1>1. ASSUME NEW m \in Calls, NEW c \in Conns, NEW rq \in Request, Call(m, c, rq)
      PROVE  m = n
  BY <1>1 DEF Call, Goto, CallsInv
<1>2. ASSUME NEW m \in Calls, FindById(m) \/ WriteSingle(m) \/ CommitBatch(m)
      PROVE  m = n
  BY <1>2, RunningSteps DEF Goto, CallsInv
<1>3. ASSUME NEW m \in Calls,
             BeginBatch(m) \/ WriteNext(m) \/ RollbackBatch(m) \/ StatementFails(m)
      PROVE  FALSE
  <2>1. \E l \in {"insertNext", "updateNext", "commit", "rollback", "threw"} : Goto(m, l)
    BY <1>3 DEF BeginBatch, WriteNext, NextRecord, RollbackBatch, StatementFails
  <2>. QED
    BY <2>1 DEF Goto, CallsInv
<1>4. ASSUME (\E c \in Conns : DropSession(c)) \/ UNCHANGED vars PROVE FALSE
  BY <1>4 DEF DropSession, vars
<1>. QED
  BY <1>1, <1>2, <1>3, <1>4, StepCases

(* A batchCreate publishes all of its records or none.                     *)
THEOREM CreatesWhole == Spec => BatchCreateIsAtomic
<1>1. ASSUME RecordsInv, [Next]_vars, NEW n \in Calls, req[n].op = "batchCreate",
             RowsOfCall(n) \cap (committed' \ committed) # {}
      PROVE  RowsOfCall(n) \subseteq committed'
  <2>1. PICK r \in RowsOfCall(n) : r \in committed' /\ r \notin committed
    BY <1>1
  <2>2. CallsInv /\ SessionInv /\ ProgressInv
    BY <1>1 DEF RecordsInv
  <2>3. PICK m \in Calls : WriteSingle(m) \/ CommitBatch(m)
    BY <1>1, <2>1, <2>2, PublishingSteps
  <2>4. CASE WriteSingle(m)
    <3>1. r \in RowsOfCall(m)
      BY <2>1, <2>2, <2>4, SinglePublished
    <3>2. m = n
      BY <2>1, <3>1, OneOwner
    <3>. QED
      BY <1>1, <2>2, <2>4, <3>2 DEF WriteSingle, CallsInv, CallInv, Singles
  <2>5. CASE CommitBatch(m)
    <3>1. r \in RowsOfCall(m)
      BY <2>1, <2>2, <2>5, CommitProgress
    <3>2. m = n
      BY <2>1, <3>1, OneOwner
    <3>3. Progress(n) /\ RowsOfCall(n) = {Row(n, k) : k \in Done(n)}
          /\ RowsOfCall(n) \cap committed' = ins[conn[n]]
      BY <1>1, <2>5, <3>2, CommitWhole
    <3>. QED
      BY <1>1, <3>3 DEF Progress
  <2>. QED
    BY <2>3, <2>4, <2>5
<1>2. RecordsInv /\ [Next]_vars =>
        [\A n \in Calls :
           /\ req[n].op = "batchCreate"
           /\ RowsOfCall(n) \cap (committed' \ committed) # {}
           => RowsOfCall(n) \subseteq committed']_vars
  BY <1>1
<1>. QED
  BY <1>2, RecordsInvAlways, PTL DEF Spec, BatchCreateIsAtomic

(* The number a call returns is the number of its records that are stored. *)
THEOREM TrueResults == Spec => ResultIsTrue
<1>1. ASSUME RecordsInv, [Next]_vars, NEW n \in Calls,
             pc[n] # "returned", pc'[n] = "returned",
             req[n].op \in {"create", "update", "batchCreate", "batchUpdate"}
      PROVE  LET stored == RowsOfCall(n) \cap committed'
             IN  /\ Cardinality(stored) <= count'[n]
                 /\ stored = {} => count'[n] = 0
                 /\ IsInjective(req[n].recs) => count'[n] = Cardinality(stored)
  <2>1. CallsInv /\ SessionInv /\ KeysInv
    BY <1>1 DEF RecordsInv
  <2>2. ASSUME NEW c \in Conns, NEW rq \in Request, Call(n, c, rq) PROVE FALSE
    BY <1>1, <2>1, <2>2 DEF Call, CallsInv, CallInv, NoRequest
  <2>3. ASSUME FindById(n) PROVE FALSE
    BY <1>1, <2>1, <2>3 DEF FindById, CallsInv, CallInv, Singles
  <2>4. CASE WriteSingle(n)
    <3>1. /\ Running(n) /\ pc[n] \in {"create", "update"} /\ link[conn[n]] = "up"
          /\ conn[n] \in Conns
      BY <1>1, <2>1, <2>4, RunningSession
         DEF WriteSingle, Write, Change, CanRun, CallsInv, CallInv, Singles, Running, Statements,
             Writing
    <3>2. RowsOfCall(n) \cap committed = {}
      BY <1>1, <3>1, NothingStored
    <3>3. RowsOfCall(n) \cap committed' = New(n)
      BY <2>1, <2>4, <3>2, SinglePublished
    <3>4. count'[n] = IF pc[n] = "create" THEN 1 ELSE Cardinality(Matching(n))
      BY <2>1, <2>4 DEF WriteSingle, CallsInv
    <3>5. count'[n] = IF New(n) = {} THEN 0 ELSE 1
      <4>1. CASE pc[n] = "create"
        BY <3>4, <4>1 DEF New, Inserts
      <4>2. CASE pc[n] = "update"
        BY <2>1, <3>1, <3>4, <4>2, MatchingOne DEF New, Inserts
      <4>. QED
        BY <3>1, <4>1, <4>2
    <3>6. New(n) = {} \/ New(n) = {Row(n, next[n])}
      BY DEF New
    <3>7. Cardinality(New(n)) = IF New(n) = {} THEN 0 ELSE 1
      BY <3>6, FS_EmptySet, FS_Singleton
    <3>. QED
      BY <3>3, <3>5, <3>7
  <2>5. CASE CommitBatch(n)
    <3>1. /\ Progress(n) /\ RowsOfCall(n) \cap committed' = ins[conn[n]]
      BY <1>1, <2>5, CommitWhole
    <3>2. count'[n] = count[n]
      BY <2>5 DEF CommitBatch
    <3>. QED
      BY <3>1, <3>2 DEF Progress
  <2>. QED
    BY <1>1, <2>1, <2>2, <2>3, <2>4, <2>5, ReturnSteps
<1>2. RecordsInv /\ [Next]_vars =>
        [\A n \in Calls :
           /\ pc[n] # "returned" /\ pc'[n] = "returned"
           /\ req[n].op \in {"create", "update", "batchCreate", "batchUpdate"}
           => LET stored == RowsOfCall(n) \cap committed'
              IN /\ Cardinality(stored) <= count'[n]
                 /\ stored = {} => count'[n] = 0
                 /\ IsInjective(req[n].recs) => count'[n] = Cardinality(stored)]_vars
  BY <1>1
<1>. QED
  BY <1>2, RecordsInvAlways, PTL DEF Spec, ResultIsTrue

(* A batchUpdate that found all of its records replaces everything stored  *)
(* under their ids.                                                        *)
LEMMA ReplacesAll ==
  ASSUME RecordsInv, NEW n \in Calls, CommitBatch(n), count[n] = Len(req[n].recs),
         NEW m \in Calls, m # n, req[m].kind = req[n].kind,
         Range(req[m].recs) = Range(req[n].recs)
  PROVE  RowsOfCall(m) \cap committed' = {}
<1> SUFFICES ASSUME NEW j \in DOMAIN req[m].recs, Row(m, j) \in committed' PROVE FALSE
  BY DEF RowsOfCall
<1>1. /\ committed' = Visible(conn[n]) /\ Progress(n) /\ conn[n] \in Conns
      /\ RowsOfCall(n) = {Row(n, k) : k \in Done(n)}
      /\ ins[conn[n]] \subseteq RowsOfCall(n)
      /\ next[n] = Len(req[n].recs) + 1 /\ req[n] \in Request
  BY CommitWhole
<1>2. PICK k \in DOMAIN req[n].recs : req[n].recs[k] = req[m].recs[j]
  BY DEF Range
<1>3. Row(n, k).pk = Row(m, j).pk
  BY <1>2 DEF Row
<1>4. k \in Done(n)
  <2>1. req[n].recs \in Seq(Ids)
    BY <1>1, RequestForm
  <2>. QED
    BY <1>1, <1>2, <2>1 DEF Done
<1>5. AllFound(n)
  <2>1. Len(req[n].recs) \in Nat
    BY <1>1, RequestForm
  <2>. QED
    BY <1>1, <2>1 DEF Progress
<1>6. PICK r \in ins[conn[n]] : r.pk = Row(n, k).pk
  BY <1>4, <1>5 DEF AllFound
<1>7. UniqueKeys(Visible(conn[n]))
  BY <1>1, VisibleKeys DEF RecordsInv
<1>8. r = Row(m, j)
  BY <1>1, <1>3, <1>6, <1>7 DEF UniqueKeys, Visible
<1>9. Row(m, j) \in RowsOfCall(n) /\ Row(m, j) \in RowsOfCall(m)
  BY <1>1, <1>6, <1>8 DEF RowsOfCall
<1>. QED
  BY <1>9, OneOwner

(* Two batchUpdates of the same records that have found all of them.       *)
Rivals(m, n) ==
  /\ m # n
  /\ \A k \in {m, n} :
       /\ pc[k] = "returned"
       /\ req[k].op = "batchUpdate"
       /\ count[k] = Len(req[k].recs)
  /\ req[m].kind = req[n].kind
  /\ Range(req[m].recs) = Range(req[n].recs)

(* When the second of two rivals returns, nothing is left of the first.    *)
LEMMA SecondReturns ==
  ASSUME RecordsInv, [Next]_vars, NEW m \in Calls, NEW n \in Calls, Rivals(m, n)',
         pc[n] # "returned"
  PROVE  RowsOfCall(m)' \cap committed' = {} \/ RowsOfCall(n)' \cap committed' = {}
<1>1. /\ m # n /\ pc'[n] = "returned" /\ req'[n].op = "batchUpdate"
      /\ count'[n] = Len(req'[n].recs)
      /\ req'[m].kind = req'[n].kind /\ Range(req'[m].recs) = Range(req'[n].recs)
  BY DEF Rivals
<1>2. CallsInv
  BY DEF RecordsInv
<1>3. ASSUME NEW c \in Conns, NEW rq \in Request, Call(n, c, rq)
      PROVE  RowsOfCall(n)' = {}
  <2>1. req'[n] = rq /\ rq.op = "batchUpdate"
    BY <1>1, <1>2, <1>3 DEF Call, CallsInv
  <2>2. pc'[n] = IF rq.recs = <<>> THEN "returned" ELSE "begin"
    BY <1>2, <1>3, <2>1 DEF Call, Goto, CallsInv, Batch
  <2>3. rq.recs = <<>>
    BY <1>1, <2>2
  <2>4. DOMAIN req'[n].recs = {}
    BY <2>1, <2>3
  <2>. QED
    BY <2>4 DEF RowsOfCall
<1>4. ASSUME FindById(n) \/ WriteSingle(n) PROVE FALSE
  BY <1>1, <1>2, <1>4 DEF FindById, WriteSingle, Write, CallsInv, CallInv, Singles
<1>5. ASSUME CommitBatch(n) PROVE RowsOfCall(m)' \cap committed' = {}
  <2>1. UNCHANGED <<req, count>>
    BY <1>5 DEF CommitBatch
  <2>2. RowsOfCall(m)' = RowsOfCall(m)
    BY <2>1 DEF RowsOfCall, Row
  <2>3. RowsOfCall(m) \cap committed' = {}
    BY <1>1, <1>5, <2>1, ReplacesAll
  <2>. QED
    BY <2>2, <2>3
<1>. QED
  BY <1>1, <1>2, <1>3, <1>4, <1>5, ReturnSteps

(* No step brings rows of a call back that has returned.                   *)
LEMMA ReturnedFades ==
  ASSUME RecordsInv, [Next]_vars, NEW m \in Calls, pc[m] = "returned"
  PROVE  /\ RowsOfCall(m)' = RowsOfCall(m) /\ req'[m] = req[m] /\ count'[m] = count[m]
         /\ RowsOfCall(m) \cap committed' \subseteq RowsOfCall(m) \cap committed
<1>1. CallsInv /\ SessionInv /\ ProgressInv
  BY DEF RecordsInv
<1>2. RowsOfCall(m)' = RowsOfCall(m) /\ req'[m] = req[m]
  BY <1>1, NextKeeps
<1>3. ~Running(m)
  BY DEF Running, Statements
<1>4. count'[m] = count[m]
  <2>1. ASSUME NEW n \in Calls,
               \/ FindById(n) \/ WriteSingle(n) \/ BeginBatch(n) \/ WriteNext(n)
               \/ CommitBatch(n) \/ RollbackBatch(n) \/ StatementFails(n)
        PROVE  count'[m] = count[m]
    <3>1. Running(n)
      BY <1>1, <2>1, RunningSteps
    <3>2. m # n
      BY <1>3, <3>1
    <3>. QED
      BY <1>1, <2>1, <3>2, ElsewhereSame
  <2>2. ASSUME NEW n \in Calls, NEW c \in Conns, NEW rq \in Request, Call(n, c, rq)
        PROVE  count'[m] = count[m]
    BY <2>2 DEF Call
  <2>3. (\E c \in Conns : DropSession(c)) \/ UNCHANGED vars => count'[m] = count[m]
    BY DEF DropSession, vars
  <2>. QED
    BY <1>1, <2>1, <2>2, <2>3, StepCases
<1>5. ASSUME NEW r \in RowsOfCall(m), r \in committed', r \notin committed PROVE FALSE
  <2>1. PICK n \in Calls : WriteSingle(n) \/ CommitBatch(n)
    BY <1>1, <1>5, PublishingSteps
  <2>2. Running(n)
    BY <1>1, <2>1, RunningSteps
  <2>3. r \in RowsOfCall(n)
    BY <1>1, <1>5, <2>1, SinglePublished, CommitProgress
  <2>4. m = n
    BY <1>5, <2>3, OneOwner
  <2>. QED
    BY <1>3, <2>2, <2>4
<1>. QED
  BY <1>2, <1>4, <1>5

(* Of two batchUpdates of the same records only one is stored.             *)
THEOREM UpdatesDoNotMix == Spec => []BatchUpdatesDoNotMix
<1>1. Init => BatchUpdatesDoNotMix
  BY DEF Init, BatchUpdatesDoNotMix
<1>2. ASSUME RecordsInv, BatchUpdatesDoNotMix, [Next]_vars
      PROVE  BatchUpdatesDoNotMix'
  <2> SUFFICES ASSUME NEW m \in Calls, NEW n \in Calls, Rivals(m, n)'
               PROVE  RowsOfCall(m)' \cap committed' = {} \/ RowsOfCall(n)' \cap committed' = {}
    BY DEF BatchUpdatesDoNotMix, Rivals
  <2>1. CASE pc[n] # "returned"
    BY <1>2, <2>1, SecondReturns
  <2>2. CASE pc[m] # "returned"
    <3>1. Rivals(n, m)'
      BY DEF Rivals
    <3>. QED
      BY <1>2, <2>2, <3>1, SecondReturns
  <2>3. CASE pc[m] = "returned" /\ pc[n] = "returned"
    <3>1. /\ req'[m] = req[m] /\ count'[m] = count[m]
          /\ req'[n] = req[n] /\ count'[n] = count[n]
          /\ RowsOfCall(m)' \cap committed' \subseteq RowsOfCall(m) \cap committed
          /\ RowsOfCall(n)' \cap committed' \subseteq RowsOfCall(n) \cap committed
      BY <1>2, <2>3, ReturnedFades
    <3>2. Rivals(m, n)
      BY <2>3, <3>1 DEF Rivals
    <3>3. RowsOfCall(m) \cap committed = {} \/ RowsOfCall(n) \cap committed = {}
      BY <1>2, <3>2 DEF BatchUpdatesDoNotMix, Rivals
    <3>. QED
      BY <3>1, <3>3
  <2>. QED
    BY <2>1, <2>2, <2>3
<1>. QED
  BY <1>1, <1>2, RecordsInvAlways, PTL DEF Spec
=============================================================================
