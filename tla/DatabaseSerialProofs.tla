------------------------ MODULE DatabaseSerialProofs ------------------------
(***************************************************************************)
(* Theorems about Database for callers that use one connection one after   *)
(* the other (Serial), with any number of connections at the same time.    *)
(***************************************************************************)
EXTENDS DatabaseProofs, PostgresProofs, DatabaseHistory

-----------------------------------------------------------------------------
(* Definitions of the invariants, each of which is proved with the help of *)
(* the ones before it.                                                     *)

(* 1. A connection has one running call.  It is in an open transaction     *)
(* exactly while that call is in the try block, and holds uncommitted rows *)
(* at no other time.                                                       *)
OneCaller ==
  \A m, n \in Calls : Running(m) /\ Running(n) /\ conn[m] = conn[n] => m = n

SessionInv ==
  /\ Serial
  /\ IdleInv
  /\ OneCaller
  /\ \A c \in Conns : tx[c] # "open" => ins[c] = {} /\ del[c] = {}
  /\ \A n \in Calls :
       /\ pc[n] \in TryBlock /\ link[conn[n]] = "up" => tx[conn[n]] = "open"
       /\ pc[n] = "rollback" => tx[conn[n]] # "open"

(* 2. What is left of the variables of a call.                             *)
OnceEach(s) == \A j, k \in DOMAIN s : s[j] = s[k] => j = k

TodoInv ==
  \A n \in Calls :
    /\ pc[n] \in {"begin", "upsert", "task", "delete"} => todo[n] = req[n].vars
    /\ pc[n] = "commit" => todo[n] = <<>>
    /\ pc[n] \in TryBlock \cup {"begin"} =>
         /\ Range(todo[n]) \subseteq Range(req[n].vars)
         /\ OnceEach(todo[n])

(* 3. Row r was written by call n.                                         *)
Wrote(n, r) ==
  \/ r.pk \in {<<"task", n>>, <<"error", n>>}
  \/ \E i \in Instances : r.pk = <<"instance", i>> /\ r.element = n
  \/ \E i \in Instances, k \in Names : r.pk = <<"variable", i, k>> /\ r.value = n

(* Call n has not sent the statement that publishes what it has written,   *)
(* or it was refused.                                                      *)
Unpublished(n) ==
  \/ pc[n] = "new"
  \/ Running(n) /\ pc[n] # "rollback"
  \/ pc[n] \in {"rollback", "threw"} /\ link[conn[n]] = "up"

FreshInv ==
  \A n \in Calls :
    /\ Unpublished(n) => \A r \in committed : ~Wrote(n, r)
    /\ \A c \in Conns : \A r \in ins[c] :
         Wrote(n, r) => conn[n] = c /\ pc[n] \in {"delete", "insert", "commit"}

(* 4. What the open transaction of call n has done.                        *)
Done(n) ==
  {VariableRow(req[n].inst, KeyFor(req[n], k), n) :
     k \in Range(req[n].vars) \ Range(todo[n])}

(* The row of the instance is replaced.                                    *)
RowReplaced(n) ==
  LET old == InstanceRows(committed, req[n].inst)
  IN /\ ins[conn[n]] = Upserted(old, req[n].inst, n)
     /\ del[conn[n]] = old

(* So are its variables, but for those user tasks have stored since.       *)
VariablesReplaced(n) ==
  LET i == req[n].inst
      old == InstanceRows(committed, i)
      variables == VariableRows(committed, i)
  IN /\ ins[conn[n]] = Upserted(old, i, n) \cup Done(n)
     /\ old \subseteq del[conn[n]]
     /\ del[conn[n]] \subseteq old \cup variables
     /\ \A v \in variables \ del[conn[n]] : req[v.value].op = "task"

TaskAdded(n) ==
  /\ InstanceRows(committed, req[n].inst) # {}
  /\ ins[conn[n]] = {TaskRow(req[n].inst, req[n].task, n)} \cup Done(n)
  /\ del[conn[n]] = {}

Content(n) ==
  /\ pc[n] \in {"upsert", "task"} => ins[conn[n]] = {} /\ del[conn[n]] = {}
  /\ pc[n] = "delete" => RowReplaced(n)
  /\ pc[n] \in {"insert", "commit"} =>
       IF req[n].op = "save" THEN VariablesReplaced(n) ELSE TaskAdded(n)

ContentInv ==
  \A n \in Calls : pc[n] \in TryBlock /\ link[conn[n]] = "up" => Content(n)

(* 5. What is stored: every row comes with the others of its call.         *)
Whole(S) ==
  \A n \in Calls :
    req[n].op \in {"save", "task"} => RowsOf(n, req[n]) \cap S \in {{}, RowsOf(n, req[n])}

RowOrigin ==
  \A i \in Instances : \A r \in InstanceRows(committed, i) :
    /\ req[r.element].op = "save" /\ req[r.element].inst = i
    /\ RowsOf(r.element, req[r.element]) \subseteq committed
    /\ \A v \in VariableRows(committed, i) :
         v \in RowsOf(r.element, req[r.element]) \/ req[v.value].op = "task"

VariableOrigin ==
  \A i \in Instances : \A v \in VariableRows(committed, i) :
    /\ req[v.value].op \in {"save", "task"}
    /\ v \in RowsOf(v.value, req[v.value])

StoredInv ==
  /\ RowOrigin /\ VariableOrigin
  /\ Whole(committed)
  /\ \A c \in Conns : Whole(del[c])
  /\ TaskIsAtomic

(* 6. What is loaded.                                                      *)
LoadedInv ==
  \A l \in Calls :
    /\ Whole(loaded[l])
    /\ \A n \in Calls : pc[n] = "new" => \A r \in loaded[l] : ~Wrote(n, r)
    /\ pc[l] = "selectVariables" => loaded[l] \subseteq InstanceRows(loaded[l], req[l].inst)

-----------------------------------------------------------------------------
(* 1. The sessions.                                                        *)

(* What the steps of a running call may rely on.                           *)
LEMMA RunningSession ==
  ASSUME SessionInv, NEW n \in Calls, Running(n)
  PROVE  /\ conn[n] \in Conns
         /\ \A m \in Calls \ {n} : Running(m) => conn[m] # conn[n]
         /\ link[conn[n]] \in {"up", "broken"}
         /\ pc[n] \in TryBlock /\ link[conn[n]] = "up" => tx[conn[n]] = "open"
         /\ pc[n] = "rollback" => tx[conn[n]] # "open"
         /\ pc[n] \notin TryBlock \cup {"rollback"} => tx[conn[n]] = "idle"
         /\ tx[conn[n]] # "open" => ins[conn[n]] = {} /\ del[conn[n]] = {}
         /\ tx[conn[n]] # "open" => Own(n) = committed
         /\ link[conn[n]] = "broken" => tx[conn[n]] = "idle"
<1>1. conn[n] \in Conns /\ link[conn[n]] \in {"up", "broken"}
  BY RunningTyped DEF SessionInv, IdleInv, TypeInv, PgTypeOK, LinkStates
<1>2. \A m \in Calls \ {n} : Running(m) => conn[m] # conn[n]
  BY DEF SessionInv, OneCaller
<1>3. pc[n] \notin TryBlock \cup {"rollback"} => tx[conn[n]] = "idle"
  BY <1>1, <1>2 DEF SessionInv, IdleInv, IdleOutsideTransaction, Running, Statements
<1>4. tx[conn[n]] # "open" => ins[conn[n]] = {} /\ del[conn[n]] = {}
  BY <1>1 DEF SessionInv
<1>5. tx[conn[n]] # "open" => Own(n) = committed
  BY <1>4 DEF Own, Visible
<1>. QED
  BY <1>1, <1>2, <1>3, <1>4, <1>5 DEF SessionInv, IdleInv, BrokenIsIdle

(* A session that holds rows is in the transaction of a running call.      *)
LEMMA HolderRuns ==
  ASSUME SessionInv, NEW c \in Conns, Held(c) # {}
  PROVE  \E n \in Calls : pc[n] \in TryBlock /\ conn[n] = c /\ link[c] = "up"
<1>1. tx[c] = "open"
  BY DEF SessionInv, Held
<1>2. link[c] = "up"
  BY <1>1 DEF SessionInv, IdleInv, BrokenIsIdle, TypeInv, PgTypeOK, LinkStates
<1>3. PICK n \in Calls : pc[n] \in TryBlock \cup {"rollback"} /\ conn[n] = c
  BY <1>1 DEF SessionInv, IdleInv, IdleOutsideTransaction
<1>. QED
  BY <1>1, <1>2, <1>3 DEF SessionInv

(* A step touches one call and one connection.                             *)
LEMMA SessionStep ==
  ASSUME SessionInv, IdleInv', NEW n \in Calls, Running(n), UNCHANGED conn,
         \A m \in Calls \ {n} : pc'[m] = pc[m],
         \A d \in Conns \ {conn[n]} :
           ins'[d] = ins[d] /\ del'[d] = del[d] /\ tx'[d] = tx[d] /\ link'[d] = link[d],
         tx'[conn[n]] # "open" => ins'[conn[n]] = {} /\ del'[conn[n]] = {},
         pc'[n] \in TryBlock /\ link'[conn[n]] = "up" => tx'[conn[n]] = "open",
         pc'[n] = "rollback" => tx'[conn[n]] # "open"
  PROVE  SessionInv'
<1>1. OneCaller'
  BY DEF SessionInv, OneCaller, Running
<1>2. \A c \in Conns : tx'[c] # "open" => ins'[c] = {} /\ del'[c] = {}
  BY DEF SessionInv
<1>3. ASSUME NEW m \in Calls
      PROVE  /\ pc'[m] \in TryBlock /\ link'[conn[m]] = "up" => tx'[conn[m]] = "open"
             /\ pc'[m] = "rollback" => tx'[conn[m]] # "open"
  <2>1. CASE m = n
    BY <2>1
  <2>2. CASE m # n /\ Running(m)
    <3>1. conn[m] \in Conns \ {conn[n]} /\ pc'[m] = pc[m]
      BY <2>2, RunningSession
    <3>. QED
      BY <3>1 DEF SessionInv
  <2>3. CASE m # n /\ ~Running(m)
    BY <2>3 DEF Running, Statements
  <2>. QED
    BY <2>1, <2>2, <2>3
<1>. QED
  BY <1>1, <1>2, <1>3 DEF SessionInv

LEMMA SessionProgress ==
  ASSUME SessionInv, NEW n \in Calls, Progress(n) \/ StatementFails(n)
  PROVE  SessionInv'
<1>0. Running(n)
  BY DEF Progress, BeginTransaction, UpsertInstance, DeleteVariables, InsertTask,
         InsertVariable, CommitTransaction, RollbackTransaction, SelectInstance,
         SelectVariables, CompleteInstance, InsertError, ConnectionFails,
         StatementFails, Running, Statements, TryBlock
<1>0a. IdleInv'
  BY IdleInvNext DEF SessionInv, Next
<1>0b. /\ DOMAIN ins = Conns /\ DOMAIN del = Conns /\ DOMAIN tx = Conns
       /\ DOMAIN link = Conns /\ DOMAIN pc = Calls
       /\ tx \in [Conns -> TxStates]
  BY DEF SessionInv, IdleInv, TypeInv, PgTypeOK, CallTypeOK
<1>0c. /\ conn[n] \in Conns
       /\ link[conn[n]] \in {"up", "broken"}
       /\ pc[n] \in TryBlock /\ link[conn[n]] = "up" => tx[conn[n]] = "open"
       /\ pc[n] = "rollback" => tx[conn[n]] # "open"
       /\ pc[n] \notin TryBlock \cup {"rollback"} => tx[conn[n]] = "idle"
       /\ tx[conn[n]] # "open" => ins[conn[n]] = {} /\ del[conn[n]] = {}
       /\ link[conn[n]] = "broken" => tx[conn[n]] = "idle"
  BY <1>0, RunningSession
<1>1. CASE BeginTransaction(n)
  <2>1. /\ \A m \in Calls \ {n} : pc'[m] = pc[m]
        /\ tx'[conn[n]] = "open" /\ UNCHANGED conn
        /\ \A d \in Conns \ {conn[n]} :
             ins'[d] = ins[d] /\ del'[d] = del[d] /\ tx'[d] = tx[d] /\ link'[d] = link[d]
        /\ pc'[n] \in {"upsert", "task"}
    BY <1>0b, <1>0c, <1>1 DEF BeginTransaction, Begin, Goto
  <2>. QED
    BY <1>0, <1>0a, <2>1, SessionStep
<1>2. CASE \/ UpsertInstance(n) \/ DeleteVariables(n) \/ InsertTask(n) \/ InsertVariable(n)
  <2>1. /\ \A m \in Calls \ {n} : pc'[m] = pc[m]
        /\ pc[n] \in TryBlock /\ pc'[n] \in {"delete", "insert", "commit"}
        /\ UNCHANGED <<conn, link>>
    BY <1>0b, <1>2
       DEF UpsertInstance, DeleteVariables, InsertTask, InsertVariable, Goto, NextInsert,
           TryBlock
  <2>2. PICK old, new : Change(conn[n], old, new)
    BY <1>2 DEF UpsertInstance, DeleteVariables, InsertTask, InsertVariable
  <2>3. /\ tx[conn[n]] = "open" /\ tx' = tx
        /\ ins' = [ins EXCEPT ![conn[n]] = (@ \ old) \cup new]
        /\ del' = [del EXCEPT ![conn[n]] = @ \cup (old \cap committed)]
    BY <1>0c, <2>1, <2>2 DEF Change, CanRun
  <2>4. \A d \in Conns \ {conn[n]} : ins'[d] = ins[d] /\ del'[d] = del[d]
    BY <1>0b, <2>3
  <2>. QED
    BY <1>0, <1>0a, <2>1, <2>3, <2>4, SessionStep
<1>3. CASE CommitTransaction(n) \/ RollbackTransaction(n) \/ StatementFails(n)
  <2>1. /\ \A m \in Calls \ {n} : pc'[m] = pc[m]
        /\ UNCHANGED conn
        /\ \A d \in Conns \ {conn[n]} : link'[d] = link[d]
        /\ pc'[n] \notin TryBlock
    BY <1>0b, <1>0c, <1>3
       DEF CommitTransaction, RollbackTransaction, StatementFails, LastReply, Throw, Goto,
           TryBlock, Rollback, Fail
  <2>2. /\ ins' = [ins EXCEPT ![conn[n]] = {}]
        /\ del' = [del EXCEPT ![conn[n]] = {}]
    BY <1>3
       DEF CommitTransaction, RollbackTransaction, StatementFails, Commit, Rollback, Fail,
           Discard
  <2>3. /\ \A d \in Conns \ {conn[n]} : tx'[d] = tx[d]
        /\ tx'[conn[n]] # "open"
    BY <1>0b, <1>0c, <1>3
       DEF CommitTransaction, RollbackTransaction, StatementFails, Commit, Rollback, Fail,
           Discard
  <2>4. /\ \A d \in Conns \ {conn[n]} : ins'[d] = ins[d] /\ del'[d] = del[d]
        /\ ins'[conn[n]] = {} /\ del'[conn[n]] = {}
    BY <1>0b, <1>0c, <2>2
  <2>. QED
    BY <1>0, <1>0a, <2>1, <2>3, <2>4, SessionStep
<1>4. CASE \/ SelectInstance(n) \/ SelectVariables(n) \/ CompleteInstance(n) \/ InsertError(n)
  <2>1. /\ \A m \in Calls \ {n} : pc'[m] = pc[m]
        /\ UNCHANGED conn
        /\ \A d \in Conns \ {conn[n]} : link'[d] = link[d]
        /\ pc'[n] \notin TryBlock \cup {"rollback"}
        /\ pc[n] \notin TryBlock \cup {"rollback"}
    BY <1>0b, <1>0c, <1>4
       DEF SelectInstance, SelectVariables, CompleteInstance, InsertError, LastReply, Throw,
           Goto, TryBlock, pgVars
  <2>2. UNCHANGED <<ins, del, tx>>
    BY <1>0c, <1>4, <2>1
       DEF SelectInstance, SelectVariables, CompleteInstance, InsertError, Change, pgVars
  <2>. QED
    BY <1>0, <1>0a, <1>0c, <2>1, <2>2, SessionStep
<1>5. CASE ConnectionFails(n)
  <2>1. /\ \A m \in Calls \ {n} : pc'[m] = pc[m]
        /\ UNCHANGED <<conn, link, ins, del, tx>>
        /\ pc'[n] \notin TryBlock
        /\ tx[conn[n]] = "idle"
    BY <1>0b, <1>0c, <1>5 DEF ConnectionFails, Throw, Goto, TryBlock, pgVars
  <2>. QED
    BY <1>0, <1>0a, <1>0c, <2>1, SessionStep
<1>. QED
  BY <1>1, <1>2, <1>3, <1>4, <1>5 DEF Progress

LEMMA SessionInvNext == SessionInv /\ [Next]_vars => SessionInv'
<1> SUFFICES ASSUME SessionInv, [Next]_vars PROVE SessionInv'
  OBVIOUS
<1>0. IdleInv'
  BY IdleInvNext DEF SessionInv
<1>1. ASSUME NEW n \in Calls, NEW c \in Conns, NEW rq \in Request, Call(n, c, rq)
      PROVE  SessionInv'
  <2>1. /\ UNCHANGED <<ins, del, tx, link>>
        /\ ~\E m \in Calls : Running(m) /\ conn[m] = c
        /\ pc'[n] \notin TryBlock \cup {"rollback"}
    BY <1>1, RequestFields
       DEF Call, pgVars, SessionInv, Goto, FirstStatement, TryBlock, IdleInv, TypeInv,
           CallTypeOK
  <2>2. /\ conn'[n] = c
        /\ \A m \in Calls \ {n} : pc'[m] = pc[m] /\ conn'[m] = conn[m]
    BY <1>1 DEF Call, Goto, SessionInv, IdleInv, TypeInv, CallTypeOK
  <2>3. OneCaller'
    BY <2>1, <2>2 DEF SessionInv, OneCaller, Running
  <2>4. \A m \in Calls :
          /\ pc'[m] \in TryBlock /\ link'[conn'[m]] = "up" => tx'[conn'[m]] = "open"
          /\ pc'[m] = "rollback" => tx'[conn'[m]] # "open"
    BY <2>1, <2>2 DEF SessionInv
  <2>. QED
    BY <1>0, <2>1, <2>3, <2>4 DEF SessionInv
<1>2. ASSUME NEW n \in Calls, Progress(n) \/ StatementFails(n)
      PROVE  SessionInv'
  BY <1>2, SessionProgress
<1>3. ASSUME NEW c \in Conns, DropSession(c)
      PROVE  SessionInv'
  <2>1. /\ UNCHANGED <<pc, conn>>
        /\ link' = [link EXCEPT ![c] = "broken"]
        /\ ins' = [ins EXCEPT ![c] = {}]
        /\ del' = [del EXCEPT ![c] = {}]
        /\ tx' = [tx EXCEPT ![c] = "idle"]
    BY <1>3 DEF DropSession, Drop, Discard
  <2>2. /\ DOMAIN ins = Conns /\ DOMAIN del = Conns
        /\ tx \in [Conns -> TxStates] /\ link \in [Conns -> LinkStates]
    BY DEF SessionInv, IdleInv, TypeInv, PgTypeOK
  <2>3. \A d \in Conns : tx'[d] # "open" => ins'[d] = {} /\ del'[d] = {}
    BY <2>1, <2>2 DEF SessionInv
  <2>4. \A n \in Calls :
          /\ pc[n] \in TryBlock /\ link'[conn[n]] = "up" => tx'[conn[n]] = "open"
          /\ pc[n] = "rollback" => tx'[conn[n]] # "open"
    <3> SUFFICES ASSUME NEW n \in Calls, Running(n)
                 PROVE  /\ pc[n] \in TryBlock /\ link'[conn[n]] = "up"
                             => tx'[conn[n]] = "open"
                        /\ pc[n] = "rollback" => tx'[conn[n]] # "open"
      BY DEF Running, Statements
    <3>1. conn[n] \in Conns
      BY RunningSession
    <3>. QED
      BY <2>1, <2>2, <3>1 DEF SessionInv
  <2>5. OneCaller'
    BY <2>1 DEF SessionInv, OneCaller, Running
  <2>. QED
    BY <1>0, <2>1, <2>3, <2>4, <2>5 DEF SessionInv
<1>4. CASE UNCHANGED vars
  BY <1>0, <1>4 DEF vars, pgVars, SessionInv, OneCaller, Running
<1>. QED
  BY <1>1, <1>2, <1>3, <1>4 DEF Next

-----------------------------------------------------------------------------
(* What the steps do to the tables and to the open transactions.           *)

(* A statement of an open transaction.                                     *)
Writes(n, old, new) ==
  /\ link[conn[n]] = "up" /\ tx[conn[n]] = "open"
  /\ ins' = [ins EXCEPT ![conn[n]] = (@ \ old) \cup new]
  /\ del' = [del EXCEPT ![conn[n]] = @ \cup (old \cap committed)]
  /\ UNCHANGED <<committed, link, req, conn, loaded>>

WriteStep(n) ==
  LET i == req[n].inst
  IN \/ /\ pc[n] = "upsert"
        /\ Writes(n, InstanceRows(Own(n), i), Upserted(InstanceRows(Own(n), i), i, n))
        /\ Goto(n, "delete")
        /\ UNCHANGED todo
     \/ /\ pc[n] = "delete"
        /\ Writes(n, VariableRows(Own(n), i), {})
        /\ Goto(n, NextInsert(todo[n]))
        /\ UNCHANGED todo
     \/ /\ pc[n] = "task"
        /\ InstanceRows(Own(n), i) # {}
        /\ Writes(n, {}, {TaskRow(i, req[n].task, n)})
        /\ Goto(n, NextInsert(todo[n]))
        /\ UNCHANGED todo
     \/ /\ pc[n] = "insert"
        /\ KeyFor(req[n], Head(todo[n])) # TooLong
        /\ Writes(n, {}, {NextVariable(n)})
        /\ Goto(n, NextInsert(Tail(todo[n])))
        /\ todo' = [todo EXCEPT ![n] = Tail(@)]

(* The statement whose effect everybody sees, and what is known of it.     *)
Publishes(n, old, new) ==
  /\ link[conn[n]] = "up"
  /\ committed' = (committed \ old) \cup new
  /\ ins' = [ins EXCEPT ![conn[n]] = {}]
  /\ del' = [del EXCEPT ![conn[n]] = {}]
  /\ UNCHANGED <<req, conn, todo, loaded>>
  /\ pc' = [pc EXCEPT ![n] = pc'[n]]
  /\ \/ pc'[n] = "returned" /\ link' = link
     \/ /\ pc'[n] \in {"rollback", "threw"}
        /\ link' = [link EXCEPT ![conn[n]] = "broken"]

PublishStep(n) ==
  LET i == req[n].inst
      old == InstanceRows(committed, i)
  IN \/ pc[n] = "commit" /\ Publishes(n, del[conn[n]], ins[conn[n]])
     \/ /\ pc[n] = "complete" /\ Publishes(n, old, Completed(old, i))
        /\ \A d \in Conns \ {conn[n]} : Apart(old, Held(d))
     \/ pc[n] = "error" /\ old # {} /\ Publishes(n, {}, {ErrorRow(i, n)})

(* A transaction is gone.                                                  *)
Clears(c) ==
  /\ ins' = [ins EXCEPT ![c] = {}]
  /\ del' = [del EXCEPT ![c] = {}]
  /\ UNCHANGED <<committed, req, conn, todo, loaded>>

RefusedStep(n) ==
  /\ link[conn[n]] = "up" /\ link' = link
  /\ Running(n) /\ pc[n] # "rollback"
  /\ Throw(n)
  /\ Clears(conn[n])

LostStep(c) ==
  /\ link' = [link EXCEPT ![c] = "broken"]
  /\ pc' = pc
  /\ Clears(c)

(* A step that changes no row.                                             *)
QuietStep(n) ==
  /\ UNCHANGED <<committed, ins, del, link, req, conn, todo>>
  /\ \/ /\ pc[n] = "begin"
        /\ ins[conn[n]] = {} /\ del[conn[n]] = {}
        /\ Goto(n, IF req[n].op = "save" THEN "upsert" ELSE "task")
        /\ UNCHANGED loaded
     \/ /\ pc[n] = "selectInstance"
        /\ LET found == {r \in InstanceRows(committed, req[n].inst) : r.status = "RUNNING"}
           IN /\ loaded' = [loaded EXCEPT ![n] = found]
              /\ Goto(n, IF found = {} THEN "threw" ELSE "selectVariables")
     \/ /\ pc[n] = "selectVariables"
        /\ loaded' = [loaded EXCEPT ![n] = @ \cup VariableRows(committed, req[n].inst)]
        /\ Goto(n, "returned")
     \/ /\ link[conn[n]] = "broken" /\ Running(n)
        /\ Throw(n)
        /\ UNCHANGED loaded
     \/ /\ pc[n] = "rollback"
        /\ Goto(n, "threw")
        /\ UNCHANGED loaded

CallStep(n) == QuietStep(n) \/ WriteStep(n) \/ PublishStep(n) \/ RefusedStep(n)

LEMMA StepsOfCalls ==
  ASSUME SessionInv, NEW n \in Calls, Progress(n) \/ StatementFails(n)
  PROVE  Running(n) /\ CallStep(n)
<1>0. Running(n)
  BY DEF Progress, BeginTransaction, UpsertInstance, DeleteVariables, InsertTask,
         InsertVariable, CommitTransaction, RollbackTransaction, SelectInstance,
         SelectVariables, CompleteInstance, InsertError, ConnectionFails,
         StatementFails, Running, Statements, TryBlock
<1>0a. /\ DOMAIN ins = Conns /\ DOMAIN del = Conns
       /\ DOMAIN link = Conns /\ DOMAIN pc = Calls
       /\ ins \in [Conns -> SUBSET Rows] /\ del \in [Conns -> SUBSET Rows]
  BY DEF SessionInv, IdleInv, TypeInv, PgTypeOK, CallTypeOK
<1>0b. /\ conn[n] \in Conns
       /\ pc[n] \in TryBlock /\ link[conn[n]] = "up" => tx[conn[n]] = "open"
       /\ pc[n] = "rollback" => tx[conn[n]] # "open"
       /\ pc[n] \notin TryBlock \cup {"rollback"} => tx[conn[n]] = "idle"
       /\ tx[conn[n]] # "open" => ins[conn[n]] = {} /\ del[conn[n]] = {}
       /\ tx[conn[n]] # "open" => Own(n) = committed
  BY <1>0, RunningSession
<1>0c. ins[conn[n]] = {} /\ del[conn[n]] = {} =>
         /\ ins = [ins EXCEPT ![conn[n]] = {}]
         /\ del = [del EXCEPT ![conn[n]] = {}]
  BY <1>0a, <1>0b
<1>1. BeginTransaction(n) => QuietStep(n)
  BY <1>0b DEF BeginTransaction, Begin, QuietStep, TryBlock
<1>2. \/ UpsertInstance(n) \/ DeleteVariables(n) \/ InsertTask(n) \/ InsertVariable(n)
      => WriteStep(n)
  <2>1. pc[n] \in TryBlock => tx[conn[n]] = "open" \/ ~CanRun(conn[n])
    BY <1>0b DEF CanRun
  <2>2. \A old, new : pc[n] \in TryBlock /\ Change(conn[n], old, new)
                        /\ UNCHANGED <<link, req, conn, loaded>>
                        => Writes(n, old, new)
    BY <2>1 DEF Change, CanRun, Writes
  <2>3. {"upsert", "delete", "task", "insert"} \subseteq TryBlock
    BY DEF TryBlock
  <2>. QED
    BY <2>2, <2>3
       DEF UpsertInstance, DeleteVariables, InsertTask, InsertVariable, WriteStep, Accepted,
           Violates
<1>3. CommitTransaction(n) \/ CompleteInstance(n) \/ InsertError(n) => PublishStep(n)
  <2>1. LastReply(n) =>
          /\ pc' = [pc EXCEPT ![n] = pc'[n]]
          /\ \/ pc'[n] = "returned" /\ link' = link
             \/ /\ pc'[n] \in {"rollback", "threw"}
                /\ link' = [link EXCEPT ![conn[n]] = "broken"]
    BY <1>0a DEF LastReply, Throw, Goto
  <2>2. CommitTransaction(n) => PublishStep(n)
    BY <2>1 DEF CommitTransaction, Commit, Discard, PublishStep, Publishes
  <2>3. \A old, new : /\ pc[n] \in {"complete", "error"}
                      /\ Change(conn[n], old, new)
                      /\ LastReply(n)
                      /\ UNCHANGED <<req, conn, todo, loaded>>
                      => Publishes(n, old, new)
    BY <1>0b, <1>0c, <2>1 DEF Change, CanRun, Publishes, TryBlock
  <2>4. pc[n] \in {"complete", "error"} => Own(n) = committed
    BY <1>0b DEF TryBlock
  <2>5. ASSUME CompleteInstance(n) PROVE PublishStep(n)
    <3> DEFINE old == InstanceRows(committed, req[n].inst)
    <3>1. Accepted(n) /\ StatementKeys(n) = {r.pk : r \in old}
      BY <2>4, <2>5 DEF CompleteInstance, StatementKeys
    <3>2. \A d \in Conns \ {conn[n]} : Apart(old, Held(d))
      BY <3>1 DEF Accepted, WaitsFor, Holders, Held, Apart
    <3>. QED
      BY <2>3, <2>4, <2>5, <3>2 DEF CompleteInstance, PublishStep
  <2>6. InsertError(n) => PublishStep(n)
    BY <2>3, <2>4 DEF InsertError, PublishStep, Accepted, Violates
  <2>. QED
    BY <2>2, <2>5, <2>6
<1>4. RollbackTransaction(n) => QuietStep(n)
  BY <1>0b, <1>0c DEF RollbackTransaction, Rollback, Discard, QuietStep
<1>5. SelectInstance(n) \/ SelectVariables(n) => QuietStep(n)
  BY <1>0b DEF SelectInstance, SelectVariables, QuietStep, TryBlock, pgVars
<1>6. ConnectionFails(n) => QuietStep(n)
  BY DEF ConnectionFails, QuietStep, pgVars
<1>7. StatementFails(n) => RefusedStep(n)
  BY DEF StatementFails, Fail, RefusedStep, Clears
<1>. QED
  BY <1>0, <1>1, <1>2, <1>3, <1>4, <1>5, <1>6, <1>7 DEF Progress, CallStep

(* Every step is one of these.                                             *)
LEMMA AllSteps ==
  ASSUME SessionInv, [Next]_vars
  PROVE  \/ \E n \in Calls, c \in Conns, rq \in Request : Call(n, c, rq)
         \/ \E n \in Calls : Running(n) /\ CallStep(n)
         \/ \E c \in Conns : LostStep(c)
         \/ UNCHANGED <<committed, ins, del, link, req, conn, pc, todo, loaded>>
<1>1. ASSUME NEW c \in Conns, DropSession(c) PROVE LostStep(c)
  BY <1>1 DEF DropSession, Drop, Discard, LostStep, Clears
<1>. QED
  BY <1>1, StepsOfCalls DEF Next, vars, pgVars

-----------------------------------------------------------------------------
(* 2. What is left of the variables of a call.                             *)
LEMMA OnceEachTail ==
  ASSUME NEW s \in Seq(Names), s # <<>>, OnceEach(s)
  PROVE  /\ Range(s) = {Head(s)} \cup Range(Tail(s))
         /\ Head(s) \notin Range(Tail(s))
         /\ OnceEach(Tail(s))
<1>1. /\ Len(s) \in Nat \ {0} /\ DOMAIN s = 1 .. Len(s)
      /\ DOMAIN Tail(s) = 1 .. (Len(s) - 1)
      /\ \A k \in 1 .. (Len(s) - 1) : Tail(s)[k] = s[k + 1]
      /\ Head(s) = s[1]
  OBVIOUS
<1>2. ASSUME NEW x \in Range(s) PROVE x \in {Head(s)} \cup Range(Tail(s))
  <2>1. PICK k \in 1 .. Len(s) : x = s[k]
    BY <1>1 DEF Range
  <2>2. k # 1 => k - 1 \in 1 .. (Len(s) - 1) /\ Tail(s)[k - 1] = s[k]
    BY <1>1
  <2>. QED
    BY <1>1, <2>1, <2>2 DEF Range
<1>3. ASSUME NEW k \in 1 .. (Len(s) - 1)
      PROVE  k + 1 \in 1 .. Len(s) /\ k + 1 # 1 /\ Tail(s)[k] = s[k + 1]
  BY <1>1
<1>4. Range(Tail(s)) \subseteq Range(s) /\ Head(s) \in Range(s)
  BY <1>1, <1>3 DEF Range
<1>5. Head(s) \notin Range(Tail(s))
  BY <1>1, <1>3 DEF Range, OnceEach
<1>6. OnceEach(Tail(s))
  BY <1>1, <1>3 DEF OnceEach
<1>. QED
  BY <1>2, <1>4, <1>5, <1>6

(* The types the steps rely on.                                            *)
LEMMA Types ==
  ASSUME SessionInv
  PROVE  /\ committed \subseteq Rows
         /\ ins \in [Conns -> SUBSET Rows] /\ del \in [Conns -> SUBSET Rows]
         /\ DOMAIN link = Conns /\ DOMAIN pc = Calls /\ DOMAIN req = Calls
         /\ DOMAIN conn = Calls /\ DOMAIN todo = Calls
         /\ loaded \in [Calls -> SUBSET Rows]
         /\ \A n \in Calls : todo[n] \in Seq(Names)
         /\ \A n \in Calls : pc[n] # "new" => req[n] \in Request /\ conn[n] \in Conns
  BY DEF SessionInv, IdleInv, TypeInv, PgTypeOK, CallTypeOK

(* A step of call n leaves the others where they are.                      *)
LEMMA OthersStay ==
  ASSUME SessionInv, NEW n \in Calls, CallStep(n)
  PROVE  /\ UNCHANGED <<req, conn>>
         /\ \A m \in Calls \ {n} : pc'[m] = pc[m] /\ todo'[m] = todo[m]
         /\ \A c \in Conns \ {conn[n]} :
              ins'[c] = ins[c] /\ del'[c] = del[c] /\ link'[c] = link[c]
<1>1. /\ DOMAIN ins = Conns /\ DOMAIN del = Conns /\ DOMAIN link = Conns
      /\ DOMAIN pc = Calls /\ DOMAIN todo = Calls
  BY Types
<1>2. ASSUME QuietStep(n) \/ RefusedStep(n)
      PROVE  /\ UNCHANGED <<req, conn, todo, link>>
             /\ \A m \in Calls \ {n} : pc'[m] = pc[m]
             /\ \A c \in Conns \ {conn[n]} : ins'[c] = ins[c] /\ del'[c] = del[c]
  BY <1>1, <1>2 DEF QuietStep, RefusedStep, Clears, Throw, Goto
<1>3. ASSUME WriteStep(n)
      PROVE  /\ UNCHANGED <<req, conn, link>>
             /\ \A m \in Calls \ {n} : pc'[m] = pc[m] /\ todo'[m] = todo[m]
             /\ \A c \in Conns \ {conn[n]} : ins'[c] = ins[c] /\ del'[c] = del[c]
  BY <1>1, <1>3 DEF WriteStep, Writes, Goto
<1>4. ASSUME PublishStep(n)
      PROVE  /\ UNCHANGED <<req, conn, todo>>
             /\ \A m \in Calls \ {n} : pc'[m] = pc[m]
             /\ \A c \in Conns \ {conn[n]} :
                  ins'[c] = ins[c] /\ del'[c] = del[c] /\ link'[c] = link[c]
  <2>1. PICK old, new : Publishes(n, old, new)
    BY <1>4 DEF PublishStep
  <2>. QED
    BY <1>1, <2>1 DEF Publishes
<1>. QED
  BY <1>2, <1>3, <1>4 DEF CallStep

LEMMA TodoInvNext == SessionInv /\ TodoInv /\ [Next]_vars => TodoInv'
<1> SUFFICES ASSUME SessionInv, TodoInv, [Next]_vars PROVE TodoInv'
  OBVIOUS
<1> DEFINE Left(n) ==
      /\ pc[n] \in {"begin", "upsert", "task", "delete"} => todo[n] = req[n].vars
      /\ pc[n] = "commit" => todo[n] = <<>>
      /\ pc[n] \in TryBlock \cup {"begin"} =>
           /\ Range(todo[n]) \subseteq Range(req[n].vars)
           /\ OnceEach(todo[n])
<1>1. ASSUME NEW n \in Calls, NEW c \in Conns, NEW rq \in Request, Call(n, c, rq)
      PROVE  TodoInv'
  <2>1. /\ \A m \in Calls \ {n} :
             pc'[m] = pc[m] /\ todo'[m] = todo[m] /\ req'[m] = req[m]
        /\ req'[n] = rq
        /\ pc'[n] = FirstStatement(rq.op)
        /\ rq.op \in {"save", "task"} => todo'[n] = rq.vars
    BY <1>1, Types DEF Call, Goto
  <2>2. /\ rq.op \in {"save", "task"} => OnceEach(rq.vars)
        /\ pc'[n] \in {"begin", "selectInstance", "complete", "error"}
        /\ pc'[n] = "begin" => rq.op \in {"save", "task"}
    BY <2>1, RequestFields, InputsAssumption DEF FirstStatement, OnceEach
  <2>3. Left(n)'
    BY <2>1, <2>2 DEF TryBlock
  <2>4. \A m \in Calls \ {n} : Left(m)'
    BY <2>1 DEF TodoInv
  <2>. QED
    BY <2>3, <2>4 DEF TodoInv
<1>2. ASSUME NEW n \in Calls, Running(n), CallStep(n)
      PROVE  TodoInv'
  <2>1. \A m \in Calls \ {n} : Left(m)'
    BY <1>2, OthersStay DEF TodoInv
  <2>2. req' = req /\ DOMAIN pc = Calls /\ DOMAIN todo = Calls /\ todo[n] \in Seq(Names)
    BY <1>2, OthersStay, Types
  <2>3. Left(n)
    BY DEF TodoInv
  <2>4. ASSUME QuietStep(n) PROVE Left(n)'
    BY <2>2, <2>3, <2>4 DEF QuietStep, Throw, Goto, TryBlock
  <2>5. ASSUME RefusedStep(n) PROVE Left(n)'
    BY <2>2, <2>3, <2>5 DEF RefusedStep, Throw, Goto, TryBlock
  <2>6. ASSUME PublishStep(n) PROVE Left(n)'
    <3>1. PICK old, new : Publishes(n, old, new)
      BY <2>6 DEF PublishStep
    <3>. QED
      BY <2>2, <3>1 DEF Publishes, TryBlock
  <2>7. ASSUME WriteStep(n) PROVE Left(n)'
    <3>1. CASE pc[n] \in {"upsert", "delete", "task"}
      BY <2>2, <2>3, <2>7, <3>1 DEF WriteStep, Goto, NextInsert, TryBlock
    <3>2. CASE pc[n] = "insert"
      <4>1. todo[n] # <<>> /\ OnceEach(todo[n]) /\ Range(todo[n]) \subseteq Range(req[n].vars)
        BY <1>2, <2>3, <3>2, RunningTyped DEF SessionInv, IdleInv, TryBlock
      <4>2. todo'[n] = Tail(todo[n]) /\ pc'[n] = NextInsert(Tail(todo[n]))
        BY <2>2, <2>7, <3>2 DEF WriteStep, Goto
      <4>. QED
        BY <2>2, <4>1, <4>2, OnceEachTail DEF NextInsert, TryBlock
    <3>. QED
      BY <2>7, <3>1, <3>2 DEF WriteStep
  <2>. QED
    BY <1>2, <2>1, <2>4, <2>5, <2>6, <2>7 DEF CallStep, TodoInv
<1>3. ASSUME NEW c \in Conns, LostStep(c)
      PROVE  TodoInv'
  BY <1>3 DEF TodoInv, LostStep, Clears
<1>4. CASE UNCHANGED <<committed, ins, del, link, req, conn, pc, todo, loaded>>
  BY <1>4 DEF TodoInv
<1>. QED
  BY <1>1, <1>2, <1>3, <1>4, AllSteps

-----------------------------------------------------------------------------
(* 3. Who has written what.                                                *)
LEMMA Writers ==
  ASSUME NEW n \in Calls, NEW m \in Calls, NEW i
  PROVE  /\ \A t : Wrote(m, TaskRow(i, t, n)) => m = n
         /\ Wrote(m, ErrorRow(i, n)) => m = n
         /\ \A k : Wrote(m, VariableRow(i, k, n)) => m = n
         /\ \A old : \A r \in Upserted(old, i, n) : Wrote(m, r) => m = n
         /\ \A S : \A r \in Completed(InstanceRows(S, i), i) :
              Wrote(m, r) => \E s \in S : Wrote(m, s)
<1>1. \A p, e, s : \A r : r = InstanceRow(i, p, e, s) /\ Wrote(m, r) =>
        m = e /\ i \in Instances
  BY DEF Wrote, InstanceRow
<1>2. \A old : \A r \in Upserted(old, i, n) : Wrote(m, r) => m = n
  BY <1>1 DEF Upserted
<1>3. ASSUME NEW S, NEW r \in Completed(InstanceRows(S, i), i), Wrote(m, r)
      PROVE  \E s \in S : Wrote(m, s)
  <2>1. PICK s \in InstanceRows(S, i) :
           r = InstanceRow(i, s.process, s.element, "COMPLETED")
    BY <1>3 DEF Completed
  <2>2. m = s.element /\ i \in Instances
    BY <1>1, <1>3, <2>1
  <2>3. s \in S /\ s.pk = <<"instance", i>>
    BY <2>1 DEF InstanceRows
  <2>. QED
    BY <2>2, <2>3 DEF Wrote
<1>4. \A t : Wrote(m, TaskRow(i, t, n)) => m = n
  BY DEF Wrote, TaskRow
<1>5. Wrote(m, ErrorRow(i, n)) => m = n
  BY DEF Wrote, ErrorRow
<1>6. \A k : Wrote(m, VariableRow(i, k, n)) => m = n
  BY DEF Wrote, VariableRow
<1>. QED
  BY <1>2, <1>3, <1>4, <1>5, <1>6

LEMMA FreshCall ==
  ASSUME SessionInv, FreshInv,
         NEW n \in Calls, NEW c \in Conns, NEW rq \in Request, Call(n, c, rq)
  PROVE  FreshInv'
<1>1. /\ \A m \in Calls \ {n} : pc'[m] = pc[m] /\ conn'[m] = conn[m]
      /\ pc[n] = "new"
      /\ UNCHANGED <<committed, ins, link>>
  BY Types DEF Call, Goto, pgVars
<1>2. \A m \in Calls \ {n} : Unpublished(m)' => Unpublished(m)
  BY <1>1 DEF Unpublished, Running
<1>3. Unpublished(n)
  BY <1>1 DEF Unpublished
<1>. QED
  BY <1>1, <1>2, <1>3 DEF FreshInv

(* No step of a call makes it unpublished again.                           *)
LEMMA StaysPublished ==
  ASSUME SessionInv, NEW n \in Calls, Running(n), CallStep(n)
  PROVE  /\ \A m \in Calls : Unpublished(m)' => Unpublished(m)
         /\ PublishStep(n) => ~Unpublished(n)'
<1>1. /\ DOMAIN pc = Calls /\ DOMAIN link = Conns /\ conn[n] \in Conns
      /\ pc[n] # "new"
      /\ link[conn[n]] \in {"up", "broken"}
  BY Types, RunningSession DEF Running, Statements, TryBlock
<1>2. ASSUME PublishStep(n) PROVE ~Unpublished(n)'
  <2>1. PICK old, new : Publishes(n, old, new)
    BY <1>2 DEF PublishStep
  <2>2. \/ pc'[n] = "returned"
        \/ pc'[n] \in {"rollback", "threw"} /\ link'[conn[n]] = "broken" /\ conn' = conn
    BY <1>1, <2>1 DEF Publishes
  <2>. QED
    BY <2>2 DEF Unpublished, Running, Statements, TryBlock
<1>3. ASSUME ~PublishStep(n), Unpublished(n)' PROVE Unpublished(n)
  <2>1. pc[n] = "rollback" => link[conn[n]] = "up" \/ ~Unpublished(n)'
    BY <1>1, <1>3
       DEF CallStep, QuietStep, WriteStep, RefusedStep, Throw, Goto, Unpublished, TryBlock,
           Running, Statements
  <2>. QED
    BY <1>3, <2>1 DEF Unpublished
<1>4. ASSUME NEW m \in Calls \ {n}, Unpublished(m)' PROVE Unpublished(m)
  <2>1. pc'[m] = pc[m] /\ conn'[m] = conn[m]
    BY OthersStay
  <2>2. link' = link \/ link' = [link EXCEPT ![conn[n]] = "broken"]
    BY DEF CallStep, QuietStep, WriteStep, Writes, PublishStep, Publishes, RefusedStep
  <2>3. \A c \in Conns : link'[c] = "up" => link[c] = "up"
    BY <1>1, <2>2
  <2>4. pc[m] # "new" => conn[m] \in Conns
    BY Types
  <2>. QED
    BY <1>4, <2>1, <2>3, <2>4 DEF Unpublished, Running
<1>. QED
  BY <1>2, <1>3, <1>4

LEMMA FreshStep ==
  ASSUME SessionInv, FreshInv, NEW n \in Calls, Running(n), CallStep(n)
  PROVE  FreshInv'
<1>1. /\ ins \in [Conns -> SUBSET Rows]
      /\ DOMAIN pc = Calls /\ conn[n] \in Conns
      /\ req[n].inst \in Instances
      /\ UNCHANGED conn
      /\ \A m \in Calls \ {n} : pc'[m] = pc[m]
      /\ \A c \in Conns \ {conn[n]} : ins'[c] = ins[c]
      /\ link[conn[n]] = "broken" => ins[conn[n]] = {}
      /\ pc[n] = "rollback" => ins[conn[n]] = {}
  BY Types, RunningTyped, OthersStay, RunningSession DEF SessionInv, IdleInv
<1>2. \A m \in Calls : \A c \in Conns : \A r \in ins[c] :
        Wrote(m, r) => conn[m] = c /\ pc[m] \in {"delete", "insert", "commit"}
  BY DEF FreshInv
<1>3. \A m \in Calls \ {n} : \A r \in ins[conn[n]] : ~Wrote(m, r)
  BY <1>1, <1>2, RunningSession DEF Running, Statements, TryBlock
(* The rows the step adds to the open transaction are its own.             *)
<1>4. ASSUME NEW m \in Calls, NEW c \in Conns, NEW r \in ins'[c], Wrote(m, r)
      PROVE  conn[m] = c /\ pc'[m] \in {"delete", "insert", "commit"}
  <2>1. CASE c # conn[n]
    BY <1>1, <1>2, <1>4, <2>1
  <2>2. CASE c = conn[n] /\ (PublishStep(n) \/ RefusedStep(n))
    <3>1. ins' = [ins EXCEPT ![conn[n]] = {}]
      BY <2>2 DEF PublishStep, Publishes, RefusedStep, Clears
    <3>. QED
      BY <1>1, <1>4, <2>2, <3>1
  <2>3. CASE c = conn[n] /\ QuietStep(n)
    <3>1. ins'[c] = ins[c] /\ ins[c] # {}
      BY <1>4, <2>3 DEF QuietStep
    <3>2. m = n /\ pc[n] \in {"delete", "insert", "commit"}
      BY <1>2, <1>3, <1>4, <2>3, <3>1
    <3>3. link[conn[n]] = "broken"
      BY <2>3, <3>2 DEF QuietStep
    <3>. QED
      BY <1>1, <2>3, <3>1, <3>3
  <2>4. CASE c = conn[n] /\ WriteStep(n)
    <3>1. pc'[n] \in {"delete", "insert", "commit"}
      BY <1>1, <2>4 DEF WriteStep, Goto, NextInsert
    <3>2. PICK old, new :
             /\ ins' = [ins EXCEPT ![conn[n]] = (@ \ old) \cup new]
             /\ \A s \in new : Wrote(m, s) => m = n
      <4>1. \A old, new : Writes(n, old, new) =>
              ins' = [ins EXCEPT ![conn[n]] = (@ \ old) \cup new]
        BY DEF Writes
      <4>2. /\ \A old : \A s \in Upserted(old, req[n].inst, n) : Wrote(m, s) => m = n
            /\ Wrote(m, NextVariable(n)) => m = n
            /\ \A t : Wrote(m, TaskRow(req[n].inst, t, n)) => m = n
        BY <1>1, Writers DEF NextVariable
      <4>3. \E old, new : Writes(n, old, new) /\ \A s \in new : Wrote(m, s) => m = n
        <5>1. CASE pc[n] = "upsert"
          BY <2>4, <4>2, <5>1 DEF WriteStep
        <5>2. CASE pc[n] = "delete"
          BY <2>4, <5>2 DEF WriteStep
        <5>3. CASE pc[n] = "task"
          BY <2>4, <4>2, <5>3 DEF WriteStep
        <5>4. CASE pc[n] = "insert"
          BY <2>4, <4>2, <5>4 DEF WriteStep
        <5>. QED
          BY <2>4, <5>1, <5>2, <5>3, <5>4 DEF WriteStep
      <4>. QED
        BY <4>1, <4>3
    <3>3. m = n
      BY <1>1, <1>3, <1>4, <2>4, <3>2
    <3>. QED
      BY <2>4, <3>1, <3>3
  <2>. QED
    BY <2>1, <2>2, <2>3, <2>4 DEF CallStep
(* So are the rows it publishes, but for the row COMPLETED changes.        *)
<1>5. ASSUME NEW m \in Calls, Unpublished(m)', NEW r \in committed', Wrote(m, r)
      PROVE  FALSE
  <2>1. \A s \in committed : ~Wrote(m, s)
    BY <1>5, StaysPublished DEF FreshInv
  <2>2. CASE r \in committed
    BY <1>5, <2>1, <2>2
  <2>3. CASE r \notin committed
    <3>1. PublishStep(n) /\ m # n
      BY <1>5, <2>3, StaysPublished
         DEF CallStep, QuietStep, WriteStep, Writes, RefusedStep, Clears
    <3>2. \/ r \in ins[conn[n]]
          \/ r \in Completed(InstanceRows(committed, req[n].inst), req[n].inst)
          \/ r = ErrorRow(req[n].inst, n)
      BY <1>5, <2>3, <3>1 DEF PublishStep, Publishes
    <3>. QED
      BY <1>1, <1>3, <1>5, <2>1, <3>1, <3>2, Writers
  <2>. QED
    BY <2>2, <2>3
<1>. QED
  BY <1>1, <1>4, <1>5 DEF FreshInv

LEMMA FreshInvNext == SessionInv /\ FreshInv /\ [Next]_vars => FreshInv'
<1> SUFFICES ASSUME SessionInv, FreshInv, [Next]_vars PROVE FreshInv'
  OBVIOUS
<1>1. ASSUME NEW c \in Conns, LostStep(c)
      PROVE  FreshInv'
  <2>1. /\ UNCHANGED <<committed, pc, conn>>
        /\ \A d \in Conns : ins'[d] \subseteq ins[d]
        /\ \A d \in Conns : link'[d] = "up" => link[d] = "up"
        /\ \A n \in Calls : pc[n] # "new" => conn[n] \in Conns
    BY <1>1, Types DEF LostStep, Clears
  <2>2. \A n \in Calls : Unpublished(n)' => Unpublished(n)
    BY <2>1 DEF Unpublished, Running
  <2>. QED
    BY <2>1, <2>2 DEF FreshInv
<1>2. CASE UNCHANGED <<committed, ins, del, link, req, conn, pc, todo, loaded>>
  BY <1>2 DEF FreshInv, Unpublished, Running
<1>. QED
  BY <1>1, <1>2, FreshCall, FreshStep, AllSteps

(* A row nobody but call n could have written is in no table as long as    *)
(* the call has not sent its INSERT.                                       *)
LEMMA NobodyHas ==
  ASSUME FreshInv, KeysInv, NEW n \in Calls, pc[n] \in {"task", "error"}
  PROVE  /\ \A r \in committed : ~Wrote(n, r)
         /\ \A c \in Conns : \A r \in Held(c) : ~Wrote(n, r)
<1>1. Unpublished(n)
  BY DEF Unpublished, Running, Statements, TryBlock
<1>. QED
  BY <1>1 DEF FreshInv, KeysInv, Held

LEMMA KeysProgress ==
  ASSUME SessionInv, FreshInv, KeysInv, NEW n \in Calls, Progress(n) \/ StatementFails(n)
  PROVE  KeysInv'
<1>0. Running(n) /\ CallStep(n)
  BY StepsOfCalls
<1>0a. /\ SessionDomains
       /\ conn[n] \in Conns
       /\ tx[conn[n]] # "open" => ins[conn[n]] = {} /\ del[conn[n]] = {}
       /\ UniqueKeys(Own(n))
  BY <1>0, RunningSession, VisibleKeys
     DEF SessionDomains, SessionInv, IdleInv, TypeInv, PgTypeOK, Own
<1> DEFINE c == conn[n]
           i == req[n].inst
(* The keys a statement waits for are not held by others.                  *)
<1>0b. ASSUME Accepted(n)
       PROVE  \A d \in Conns \ {c} : \A r \in Held(d) : r.pk \notin StatementKeys(n)
  BY <1>0b DEF Accepted, WaitsFor, Holders, Held
<1>1. ASSUME UpsertInstance(n) PROVE KeysInv'
  <2> DEFINE old == InstanceRows(Own(n), i)
             new == Upserted(old, i, n)
  <2>1. Accepted(n) /\ Change(c, old, new) /\ StatementKeys(n) = {<<"instance", i>>}
    BY <1>1 DEF UpsertInstance, StatementKeys
  <2>2. /\ old \subseteq Visible(c)
        /\ \A r \in old : r.pk = <<"instance", i>>
        /\ \A r \in new : r.pk = <<"instance", i>>
        /\ \A r \in Visible(c) \ old : r.pk # <<"instance", i>>
    BY DEF InstanceRows, Own, Upserted, InstanceRow
  <2>3. UniqueKeys(new)
    BY <1>0a, <2>2 DEF UniqueKeys, Upserted, Own
  <2>4. \A d \in Conns \ {c} : Apart(old \cup new, Held(d))
    BY <1>0b, <2>1, <2>2 DEF Apart
  <2>5. Apart(Visible(c) \ old, new)
    BY <2>2 DEF Apart
  <2> HIDE DEF old, new
  <2>. QED
    BY <1>0a, <2>1, <2>2, <2>3, <2>4, <2>5, ChangeKeys
<1>2. ASSUME DeleteVariables(n) PROVE KeysInv'
  <2> DEFINE old == VariableRows(Own(n), i)
  <2>1. Accepted(n) /\ Change(c, old, {}) /\ StatementKeys(n) = {r.pk : r \in old}
    BY <1>2 DEF DeleteVariables, StatementKeys
  <2>2. old \subseteq Visible(c)
    BY DEF VariableRows, Own
  <2> HIDE DEF old
  <2>3. \A d \in Conns \ {c} : Apart(old \cup {}, Held(d))
    BY <1>0b, <2>1 DEF Apart
  <2>4. Apart(Visible(c) \ old, {}) /\ UniqueKeys({})
    BY DEF Apart, UniqueKeys
  <2>. QED
    BY <1>0a, <2>1, <2>2, <2>3, <2>4, ChangeKeys
<1>3. ASSUME CompleteInstance(n) PROVE KeysInv'
  <2> DEFINE old == InstanceRows(Own(n), i)
             new == Completed(old, i)
  <2>1. Accepted(n) /\ Change(c, old, new) /\ StatementKeys(n) = {r.pk : r \in old}
    BY <1>3 DEF CompleteInstance, StatementKeys
  <2>2. /\ old \subseteq Visible(c)
        /\ \A r \in old : r.pk = <<"instance", i>>
        /\ \A r \in new : r.pk = <<"instance", i>> /\ <<"instance", i>> \in StatementKeys(n)
        /\ \A r \in Visible(c) \ old : r.pk # <<"instance", i>>
    BY <2>1 DEF InstanceRows, Own, Completed, InstanceRow
  <2>3. UniqueKeys(new)
    BY <1>0a, <2>2 DEF UniqueKeys, Completed, Own
  <2>4. \A d \in Conns \ {c} : Apart(old \cup new, Held(d))
    BY <1>0b, <2>1, <2>2 DEF Apart
  <2>5. Apart(Visible(c) \ old, new)
    BY <2>2 DEF Apart
  <2> HIDE DEF old, new
  <2>. QED
    BY <1>0a, <2>1, <2>2, <2>3, <2>4, <2>5, ChangeKeys
<1>4. ASSUME InsertVariable(n) PROVE KeysInv'
  <2> DEFINE row == NextVariable(n)
  <2>1. Accepted(n) /\ Change(c, {}, {row}) /\ StatementKeys(n) = {row.pk}
    BY <1>4 DEF InsertVariable, StatementKeys
  <2>2. \A r \in Visible(c) : r.pk # row.pk
    BY <1>4, <2>1 DEF InsertVariable, Accepted, Violates, Own
  <2> HIDE DEF row
  <2>3. \A d \in Conns \ {c} : Apart({} \cup {row}, Held(d))
    BY <1>0b, <2>1 DEF Apart
  <2>4. Apart(Visible(c) \ {}, {row}) /\ UniqueKeys({row})
    BY <2>2 DEF Apart, UniqueKeys
  <2>. QED
    BY <1>0a, <2>1, <2>3, <2>4, ChangeKeys
<1>5. ASSUME NEW row, Change(c, {}, {row}), pc[n] \in {"task", "error"},
             row.pk \in {<<"task", n>>, <<"error", n>>}
      PROVE  KeysInv'
  <2>1. \A r \in Visible(c) : r.pk # row.pk
    BY <1>0a, <1>5, NobodyHas DEF Wrote, Visible, Held
  <2>2. \A d \in Conns \ {c} : Apart({} \cup {row}, Held(d))
    BY <1>5, NobodyHas DEF Wrote, Apart
  <2>3. Apart(Visible(c) \ {}, {row}) /\ UniqueKeys({row})
    BY <2>1 DEF Apart, UniqueKeys
  <2>. QED
    BY <1>0a, <1>5, <2>2, <2>3, ChangeKeys
<1>6. ASSUME InsertTask(n) \/ InsertError(n) PROVE KeysInv'
  <2>1. CASE InsertTask(n)
    BY <1>5, <2>1 DEF InsertTask, TaskRow
  <2>2. CASE InsertError(n)
    BY <1>5, <2>2 DEF InsertError, ErrorRow
  <2>. QED
    BY <1>6, <2>1, <2>2
<1>7. ASSUME CommitTransaction(n) PROVE KeysInv'
  BY <1>0a, <1>7, CommitKeys DEF CommitTransaction
<1>8. ASSUME RollbackTransaction(n) \/ StatementFails(n) PROVE KeysInv'
  BY <1>0a, <1>8, DiscardKeys
     DEF RollbackTransaction, StatementFails, Rollback, Fail, Discard
<1>9. ASSUME \/ BeginTransaction(n) \/ SelectInstance(n) \/ SelectVariables(n)
             \/ ConnectionFails(n)
      PROVE  KeysInv'
  <2>1. UNCHANGED <<committed, ins, del>>
    BY <1>9
       DEF BeginTransaction, SelectInstance, SelectVariables, ConnectionFails, Begin, pgVars
  <2>. QED
    BY <2>1 DEF KeysInv, Held
<1>. QED
  BY <1>1, <1>2, <1>3, <1>4, <1>6, <1>7, <1>8, <1>9 DEF Progress

LEMMA KeysInvNext == SessionInv /\ FreshInv /\ KeysInv /\ [Next]_vars => KeysInv'
<1> SUFFICES ASSUME SessionInv, FreshInv, KeysInv, [Next]_vars PROVE KeysInv'
  OBVIOUS
<1>1. ASSUME NEW n \in Calls, NEW c \in Conns, NEW rq \in Request, Call(n, c, rq)
      PROVE  KeysInv'
  BY <1>1 DEF Call, pgVars, KeysInv, Held
<1>2. ASSUME NEW n \in Calls, Progress(n) \/ StatementFails(n)
      PROVE  KeysInv'
  BY <1>2, KeysProgress
<1>3. ASSUME NEW c \in Conns, DropSession(c)
      PROVE  KeysInv'
  BY <1>3, DiscardKeys
     DEF DropSession, Drop, Discard, SessionInv, IdleInv, TypeInv, PgTypeOK, SessionDomains
<1>4. CASE UNCHANGED vars
  BY <1>4 DEF vars, pgVars, KeysInv, Held
<1>. QED
  BY <1>1, <1>2, <1>3, <1>4 DEF Next

-----------------------------------------------------------------------------
(* 4. What the open transactions have done.                                *)

(* What is published shares no key with what others hold.                  *)
LEMMA PublishApart ==
  ASSUME SessionInv, FreshInv, KeysInv, NEW n \in Calls, Running(n), PublishStep(n)
  PROVE  \E old, new :
           /\ committed' = (committed \ old) \cup new
           /\ \A d \in Conns \ {conn[n]} : Apart(old \cup new, Held(d))
<1> DEFINE i == req[n].inst
           rows == InstanceRows(committed, i)
<1>0. conn[n] \in Conns
  BY RunningSession
<1>1. CASE pc[n] = "commit"
  <2>1. \A d \in Conns \ {conn[n]} : Apart(del[conn[n]] \cup ins[conn[n]], Held(d))
    BY <1>0 DEF KeysInv, Held, Apart
  <2>. QED
    BY <1>1, <2>1 DEF PublishStep, Publishes
<1>2. CASE pc[n] = "complete"
  <2>1. \A r \in Completed(rows, i) : \E s \in rows : r.pk = s.pk
    BY DEF Completed, InstanceRow, InstanceRows
  <2>2. \A d \in Conns \ {conn[n]} : Apart(rows \cup Completed(rows, i), Held(d))
    BY <1>2, <2>1 DEF PublishStep, Apart
  <2>. QED
    BY <1>2, <2>2 DEF PublishStep, Publishes
<1>3. CASE pc[n] = "error"
  <2>1. \A d \in Conns \ {conn[n]} : Apart({} \cup {ErrorRow(i, n)}, Held(d))
    BY <1>3, NobodyHas DEF Apart, Wrote, ErrorRow
  <2>. QED
    BY <1>3, <2>1 DEF PublishStep, Publishes
<1>. QED
  BY <1>1, <1>2, <1>3 DEF PublishStep

(* What a save or a user task has inserted.                                *)
LEMMA RowForms ==
  ASSUME NEW n \in Calls
  PROVE  /\ \A r \in Done(n) : \E k : r = VariableRow(req[n].inst, k, n)
         /\ \A old : \A r \in Upserted(old, req[n].inst, n) :
              /\ r.pk = <<"instance", req[n].inst>>
              /\ r.element = n /\ r.status = "RUNNING"
         /\ \A old : \E r \in Upserted(old, req[n].inst, n) : r.pk = <<"instance", req[n].inst>>
         /\ \A S : \A r \in InstanceRows(S, req[n].inst) : r.pk = <<"instance", req[n].inst>>
<1>1. \A r \in Done(n) : \E k : r = VariableRow(req[n].inst, k, n)
  BY DEF Done
<1>2. \A old : \A r \in Upserted(old, req[n].inst, n) :
        r.pk = <<"instance", req[n].inst>> /\ r.element = n /\ r.status = "RUNNING"
  BY DEF Upserted, InstanceRow
<1>3. \A old : \E r \in Upserted(old, req[n].inst, n) : r.pk = <<"instance", req[n].inst>>
  <2> TAKE old
  <2>1. Upserted(old, req[n].inst, n) # {}
    BY DEF Upserted
  <2>. QED
    BY <1>2, <2>1
<1>. QED
  BY <1>1, <1>2, <1>3 DEF InstanceRows

(* What a call that has reached its COMMIT publishes.                      *)
LEMMA CommitContent ==
  ASSUME SessionInv, ContentInv, NEW n \in Calls, Running(n), PublishStep(n),
         pc[n] = "commit"
  PROVE  /\ req[n] \in Request /\ req[n].op \in {"save", "task"}
         /\ link[conn[n]] = "up"
         /\ req[n].op = "save" => VariablesReplaced(n)
         /\ req[n].op = "task" => TaskAdded(n)
         /\ committed' = (committed \ del[conn[n]]) \cup ins[conn[n]]
<1>1. req[n] \in Request /\ req[n].op \in {"save", "task"}
  BY RunningTyped DEF SessionInv, IdleInv, OpsAt
<1>2. Publishes(n, del[conn[n]], ins[conn[n]])
  BY DEF PublishStep
<1>3. Content(n)
  BY <1>2 DEF ContentInv, TryBlock, Publishes
<1>. QED
  BY <1>1, <1>2, <1>3 DEF Content, Publishes

(* The row of an instance may change, but stays.                           *)
LEMMA InstanceStays ==
  ASSUME SessionInv, ContentInv, NEW n \in Calls, Running(n), PublishStep(n),
         NEW j, InstanceRows(committed, j) # {}
  PROVE  InstanceRows(committed', j) # {}
<1> DEFINE i == req[n].inst
           rows == InstanceRows(committed, i)
<1>0. PICK s \in InstanceRows(committed, j) : s \in committed /\ s.pk = <<"instance", j>>
  BY DEF InstanceRows
<1>1. CASE pc[n] = "commit"
  <2>1. CASE req[n].op = "save" /\ i = j
    <3>1. Upserted(rows, i, n) \subseteq committed'
      BY <1>1, <2>1, CommitContent DEF VariablesReplaced
    <3>2. PICK r \in Upserted(rows, i, n) : r.pk = <<"instance", i>>
      BY RowForms
    <3>. QED
      BY <2>1, <3>1, <3>2 DEF InstanceRows
  <2>2. CASE req[n].op = "save" /\ i # j
    <3>1. \A r \in del[conn[n]] : r.pk # <<"instance", j>>
      BY <1>1, <2>2, CommitContent DEF VariablesReplaced, InstanceRows, VariableRows
    <3>. QED
      BY <1>1, <3>1, CommitContent DEF InstanceRows
  <2>3. CASE req[n].op = "task"
    BY <1>1, <2>3, CommitContent DEF TaskAdded, InstanceRows
  <2>. QED
    BY <1>1, <2>1, <2>2, <2>3, CommitContent
<1>2. CASE pc[n] = "complete"
  <2>1. committed' = (committed \ rows) \cup Completed(rows, i)
    BY <1>2 DEF PublishStep, Publishes
  <2>2. CASE i = j
    <3>1. InstanceRow(j, s.process, s.element, "COMPLETED") \in committed'
      BY <1>0, <2>1, <2>2 DEF Completed
    <3>. QED
      BY <3>1 DEF InstanceRows, InstanceRow
  <2>3. CASE i # j
    <3>1. s \notin rows
      BY <1>0, <2>3 DEF InstanceRows
    <3>2. s \in committed'
      BY <1>0, <2>1, <3>1
    <3>. QED
      BY <1>0, <3>2 DEF InstanceRows
  <2>. QED
    BY <2>2, <2>3
<1>3. CASE pc[n] = "error"
  BY <1>3 DEF PublishStep, Publishes, InstanceRows
<1>. QED
  BY <1>1, <1>2, <1>3 DEF PublishStep

(* Nobody stores variables of an instance whose row is being replaced, but *)
(* for user tasks.                                                         *)
LEMMA OnlyTasksStore ==
  ASSUME SessionInv, KeysInv, ContentInv, NEW n \in Calls, Running(n), PublishStep(n),
         NEW j \in Instances, NEW d \in Conns \ {conn[n]},
         \E r \in Held(d) : r.pk = <<"instance", j>>
  PROVE  \A v \in VariableRows(committed', j) \ committed : req[v.value].op = "task"
<1> SUFFICES ASSUME NEW v \in VariableRows(committed', j), v \notin committed
             PROVE  req[v.value].op = "task"
  BY DEF VariableRows
<1> DEFINE i == req[n].inst
           rows == InstanceRows(committed, i)
<1>0. PICK k \in Names : v \in committed' /\ v.pk = <<"variable", j, k>>
  BY DEF VariableRows
<1>1. CASE pc[n] = "commit" /\ req[n].op = "save"
  <2>1. i # j
    <3>1. Upserted(rows, i, n) \subseteq Held(conn[n])
      BY <1>1, CommitContent DEF VariablesReplaced, Held
    <3>2. \E r \in Held(conn[n]) : r.pk = <<"instance", i>>
      BY <3>1, RowForms
    <3>. QED
      BY <3>2, RunningSession DEF KeysInv, Apart
  <2>2. v \in Upserted(rows, i, n) \cup Done(n)
    BY <1>0, <1>1, CommitContent DEF VariablesReplaced
  <2>. QED
    BY <1>0, <2>1, <2>2, RowForms DEF VariableRow
<1>2. CASE pc[n] = "commit" /\ req[n].op = "task"
  <2>1. v \in {TaskRow(i, req[n].task, n)} \cup Done(n)
    BY <1>0, <1>2, CommitContent DEF TaskAdded
  <2>2. v.value = n
    BY <1>0, <2>1, RowForms DEF VariableRow, TaskRow
  <2>. QED
    BY <1>2, <2>2
<1>3. CASE pc[n] = "complete"
  <2>1. v \in Completed(rows, i)
    BY <1>0, <1>3 DEF PublishStep, Publishes
  <2>. QED
    BY <1>0, <2>1 DEF Completed, InstanceRow
<1>4. CASE pc[n] = "error"
  <2>1. v = ErrorRow(i, n)
    BY <1>0, <1>4 DEF PublishStep, Publishes
  <2>. QED
    BY <1>0, <2>1 DEF ErrorRow
<1>. QED
  BY <1>1, <1>2, <1>3, <1>4, CommitContent DEF PublishStep

(* What call n has done stays true while others publish.                   *)
LEMMA ContentOfOthers ==
  ASSUME SessionInv, FreshInv, KeysInv, KeysInv', ContentInv,
         NEW n \in Calls, Running(n), PublishStep(n),
         NEW m \in Calls \ {n}, pc[m] \in TryBlock, link[conn[m]] = "up"
  PROVE  Content(m)'
<1> DEFINE j == req[m].inst
           d == conn[m]
<1>0. Running(m)
  BY DEF Running, Statements
<1>1. /\ d \in Conns \ {conn[n]} /\ j \in Instances
      /\ req' = req /\ conn' = conn /\ pc'[m] = pc[m] /\ todo'[m] = todo[m]
      /\ ins'[d] = ins[d] /\ del'[d] = del[d]
  <2>1. d \in Conns \ {conn[n]}
    BY <1>0, RunningSession
  <2>2. j \in Instances
    BY <1>0, RunningTyped DEF SessionInv, IdleInv
  <2>3. CallStep(n)
    BY DEF CallStep
  <2>. QED
    BY <2>1, <2>2, <2>3, OthersStay
<1>2. Content(m)
  BY DEF ContentInv
<1>3. ASSUME \E r \in Held(d) : r.pk = <<"instance", j>>
      PROVE  InstanceRows(committed', j) = InstanceRows(committed, j)
  <2>1. PICK old, new : /\ committed' = (committed \ old) \cup new
                        /\ Apart(old \cup new, Held(d))
    BY <1>1, PublishApart
  <2>2. \A r \in old \cup new : r.pk # <<"instance", j>>
    BY <1>3, <2>1 DEF Apart
  <2>. QED
    BY <2>1, <2>2 DEF InstanceRows
<1>4. CASE pc[m] \in {"upsert", "task"}
  BY <1>1, <1>2, <1>4 DEF Content
<1>5. CASE pc[m] = "delete"
  <2>1. RowReplaced(m)
    BY <1>2, <1>5 DEF Content
  <2>2. InstanceRows(committed', j) = InstanceRows(committed, j)
    <3>1. Upserted(InstanceRows(committed, j), j, m) \subseteq Held(d)
      BY <2>1 DEF RowReplaced, Held
    <3>2. PICK r \in Upserted(InstanceRows(committed, j), j, m) : r.pk = <<"instance", j>>
      BY RowForms
    <3>. QED
      BY <1>3, <3>1, <3>2
  <2>3. RowReplaced(m)'
    BY <1>1, <2>1, <2>2 DEF RowReplaced
  <2>. QED
    BY <1>1, <1>5, <2>3 DEF Content
<1>6. CASE pc[m] \in {"insert", "commit"} /\ req[m].op = "save"
  <2>1. VariablesReplaced(m)
    BY <1>2, <1>6 DEF Content
  <2>2. \E r \in Held(d) : r.pk = <<"instance", j>>
    <3>1. Upserted(InstanceRows(committed, j), j, m) \subseteq Held(d)
      BY <2>1 DEF VariablesReplaced, Held
    <3>2. PICK r \in Upserted(InstanceRows(committed, j), j, m) : r.pk = <<"instance", j>>
      BY RowForms
    <3>. QED
      BY <3>1, <3>2
  <2>3. InstanceRows(committed', j) = InstanceRows(committed, j)
    BY <1>3, <2>2
  <2>4. Done(m)' = Done(m)
    BY <1>1 DEF Done
  <2>5. del[d] \subseteq InstanceRows(committed', j) \cup VariableRows(committed', j)
    <3>1. del[d] \subseteq committed'
      BY <1>1 DEF KeysInv
    <3>. QED
      BY <2>1, <2>3, <3>1 DEF VariablesReplaced, VariableRows
  <2>6. \A v \in VariableRows(committed', j) \ del[d] : req[v.value].op = "task"
    <3> SUFFICES ASSUME NEW v \in VariableRows(committed', j) \ del[d]
                 PROVE  req[v.value].op = "task"
      OBVIOUS
    <3>1. CASE v \in committed
      BY <2>1, <3>1 DEF VariablesReplaced, VariableRows
    <3>2. CASE v \notin committed
      BY <1>1, <2>2, <3>2, OnlyTasksStore
    <3>. QED
      BY <3>1, <3>2
  <2>7. VariablesReplaced(m)'
    BY <1>1, <2>1, <2>3, <2>4, <2>5, <2>6 DEF VariablesReplaced
  <2>. QED
    BY <1>1, <1>6, <2>7 DEF Content
<1>7. CASE pc[m] \in {"insert", "commit"} /\ req[m].op # "save"
  <2>1. TaskAdded(m)
    BY <1>2, <1>7 DEF Content
  <2>2. InstanceRows(committed', j) # {}
    BY <2>1, InstanceStays DEF TaskAdded
  <2>3. Done(m)' = Done(m)
    BY <1>1 DEF Done
  <2>4. TaskAdded(m)'
    BY <1>1, <2>1, <2>2, <2>3 DEF TaskAdded
  <2>. QED
    BY <1>1, <1>7, <2>4 DEF Content
<1>. QED
  BY <1>4, <1>5, <1>6, <1>7 DEF TryBlock

(* The next statement of a call does its part.                             *)
LEMMA ContentWrite ==
  ASSUME SessionInv, TodoInv, ContentInv, NEW n \in Calls, Running(n), WriteStep(n)
  PROVE  Content(n)'
<1> DEFINE i == req[n].inst
           c == conn[n]
           rows == InstanceRows(committed, i)
           variables == VariableRows(committed, i)
<1>1. /\ c \in Conns /\ req[n] \in Request
      /\ req[n].op \in OpsAt(pc[n])
      /\ DOMAIN ins = Conns /\ DOMAIN del = Conns /\ DOMAIN pc = Calls
      /\ DOMAIN todo = Calls
      /\ todo[n] \in Seq(Names)
      /\ pc[n] = "insert" => todo[n] # <<>>
  BY RunningTyped, Types DEF SessionInv, IdleInv, TypeInv
<1>2. /\ UNCHANGED <<committed, req, conn>>
      /\ pc[n] \in TryBlock /\ link[c] = "up"
  BY DEF WriteStep, Writes, TryBlock
<1>3. Content(n)
  BY <1>2 DEF ContentInv
<1>5. CASE pc[n] = "upsert"
  <2>1. ins[c] = {} /\ del[c] = {} /\ Own(n) = committed
    BY <1>3, <1>5 DEF Content, Own, Visible
  <2>2. Writes(n, rows, Upserted(rows, i, n)) /\ pc'[n] = "delete"
    BY <1>1, <1>5, <2>1 DEF WriteStep, Goto
  <2>3. rows \subseteq committed
    BY DEF InstanceRows
  <2>4. ins'[c] = Upserted(rows, i, n) /\ del'[c] = rows
    BY <1>1, <2>1, <2>2, <2>3 DEF Writes
  <2>. QED
    BY <1>2, <2>2, <2>4 DEF Content, RowReplaced
<1>6. CASE pc[n] = "delete"
  <2>1. ins[c] = Upserted(rows, i, n) /\ del[c] = rows
    BY <1>3, <1>6 DEF Content, RowReplaced
  <2>2. VariableRows(Own(n), i) = variables
    <3>1. \A r \in ins[c] \cup del[c] : \A k : r.pk # <<"variable", i, k>>
      BY <2>1, RowForms
    <3>. QED
      BY <3>1 DEF Own, Visible, VariableRows
  <2>3. /\ Writes(n, variables, {})
        /\ pc'[n] \in {"insert", "commit"} /\ todo' = todo
    BY <1>1, <1>6, <2>2 DEF WriteStep, Goto, NextInsert
  <2>4. variables \subseteq committed /\ ins[c] \ variables = ins[c]
    <3>1. \A r \in ins[c] : r \notin variables
      BY <2>1, RowForms DEF VariableRows
    <3>. QED
      BY <3>1 DEF VariableRows
  <2>5. ins'[c] = Upserted(rows, i, n) /\ del'[c] = rows \cup variables
    BY <1>1, <2>1, <2>3, <2>4 DEF Writes
  <2>6. Done(n)' = {}
    BY <1>2, <1>6, <2>3 DEF Done, TodoInv
  <2>7. VariablesReplaced(n)'
    BY <1>2, <2>5, <2>6 DEF VariablesReplaced
  <2>8. req[n].op = "save"
    BY <1>1, <1>6 DEF OpsAt
  <2>. QED
    BY <1>2, <2>3, <2>7, <2>8 DEF Content
<1>7. CASE pc[n] = "task"
  <2>1. ins[c] = {} /\ del[c] = {} /\ Own(n) = committed
    BY <1>3, <1>7 DEF Content, Own, Visible
  <2>2. /\ Writes(n, {}, {TaskRow(i, req[n].task, n)})
        /\ pc'[n] \in {"insert", "commit"} /\ todo' = todo
        /\ rows # {}
    BY <1>1, <1>7, <2>1 DEF WriteStep, Goto, NextInsert
  <2>3. ins'[c] = {TaskRow(i, req[n].task, n)} /\ del'[c] = {}
    BY <1>1, <2>1, <2>2 DEF Writes
  <2>4. Done(n)' = {}
    BY <1>2, <1>7, <2>2 DEF Done, TodoInv
  <2>5. TaskAdded(n)'
    BY <1>2, <2>2, <2>3, <2>4 DEF TaskAdded
  <2>6. req[n].op = "task"
    BY <1>1, <1>7 DEF OpsAt
  <2>. QED
    BY <1>2, <2>2, <2>5, <2>6 DEF Content
<1>8. CASE pc[n] = "insert"
  <2>1. /\ Writes(n, {}, {NextVariable(n)})
        /\ pc'[n] \in {"insert", "commit"} /\ todo'[n] = Tail(todo[n])
    BY <1>1, <1>8 DEF WriteStep, Goto, NextInsert
  <2>2. ins'[c] = ins[c] \cup {NextVariable(n)} /\ del'[c] = del[c]
    BY <1>1, <2>1 DEF Writes
  <2>3. Done(n)' = Done(n) \cup {NextVariable(n)}
    <3>1. /\ Range(todo[n]) = {Head(todo[n])} \cup Range(Tail(todo[n]))
          /\ Head(todo[n]) \notin Range(Tail(todo[n]))
          /\ Range(todo[n]) \subseteq Range(req[n].vars)
      BY <1>1, <1>2, <1>8, OnceEachTail DEF TodoInv
    <3>2. Range(req[n].vars) \ Range(Tail(todo[n]))
            = (Range(req[n].vars) \ Range(todo[n])) \cup {Head(todo[n])}
      BY <3>1
    <3>. QED
      BY <1>2, <2>1, <3>2 DEF Done, NextVariable
  <2>4. CASE req[n].op = "save"
    <3>1. VariablesReplaced(n)
      BY <1>3, <1>8, <2>4 DEF Content
    <3>2. VariablesReplaced(n)'
      BY <1>2, <2>2, <2>3, <3>1 DEF VariablesReplaced
    <3>. QED
      BY <1>2, <2>1, <2>4, <3>2 DEF Content
  <2>5. CASE req[n].op # "save"
    <3>1. TaskAdded(n)
      BY <1>3, <1>8, <2>5 DEF Content
    <3>2. TaskAdded(n)'
      BY <1>2, <2>2, <2>3, <3>1 DEF TaskAdded
    <3>. QED
      BY <1>2, <2>1, <2>5, <3>2 DEF Content
  <2>. QED
    BY <2>4, <2>5
<1>. QED
  BY <1>5, <1>6, <1>7, <1>8 DEF WriteStep

(* A step that publishes nothing does not touch what others have done.     *)
LEMMA ContentKept ==
  ASSUME NEW m \in Calls, Content(m),
         UNCHANGED <<committed, req, conn>>, pc'[m] = pc[m], todo'[m] = todo[m],
         ins'[conn[m]] = ins[conn[m]], del'[conn[m]] = del[conn[m]]
  PROVE  Content(m)'
<1>1. Done(m)' = Done(m)
  BY DEF Done
<1>. QED
  BY <1>1 DEF Content, RowReplaced, VariablesReplaced, TaskAdded

LEMMA ContentStep ==
  ASSUME SessionInv, TodoInv, FreshInv, KeysInv, KeysInv', ContentInv,
         NEW n \in Calls, Running(n), CallStep(n)
  PROVE  ContentInv'
<1>1. /\ UNCHANGED <<req, conn>>
      /\ DOMAIN pc = Calls
      /\ \A m \in Calls \ {n} : pc'[m] = pc[m] /\ todo'[m] = todo[m]
      /\ \A c \in Conns \ {conn[n]} :
           ins'[c] = ins[c] /\ del'[c] = del[c] /\ link'[c] = link[c]
  BY OthersStay, Types
<1>2. ASSUME NEW m \in Calls \ {n}, pc'[m] \in TryBlock, link'[conn[m]] = "up"
      PROVE  Content(m)'
  <2>1. conn[m] \in Conns \ {conn[n]}
    BY <1>1, <1>2, RunningSession DEF Running, Statements
  <2>2. pc[m] \in TryBlock /\ link[conn[m]] = "up"
    BY <1>1, <1>2, <2>1
  <2>3. CASE PublishStep(n)
    BY <2>2, <2>3, ContentOfOthers
  <2>4. CASE ~PublishStep(n)
    <3>1. committed' = committed
      BY <2>4 DEF CallStep, QuietStep, WriteStep, Writes, RefusedStep, Clears
    <3>2. Content(m)
      BY <2>2 DEF ContentInv
    <3>. QED
      BY <1>1, <2>1, <3>1, <3>2, ContentKept
  <2>. QED
    BY <2>3, <2>4
<1>3. ASSUME pc'[n] \in TryBlock, link'[conn[n]] = "up"
      PROVE  Content(n)'
  <2>1. CASE WriteStep(n)
    BY <2>1, ContentWrite
  <2>2. CASE QuietStep(n)
    <3>1. /\ pc'[n] \in {"upsert", "task"}
          /\ ins'[conn[n]] = {} /\ del'[conn[n]] = {}
      BY <1>1, <1>3, <2>2 DEF QuietStep, Goto, Throw, TryBlock
    <3>. QED
      BY <1>1, <3>1 DEF Content
  <2>3. CASE RefusedStep(n)
    BY <1>1, <1>3, <2>3 DEF RefusedStep, Goto, Throw, TryBlock
  <2>4. CASE PublishStep(n)
    <3>1. PICK old, new : Publishes(n, old, new)
      BY <2>4 DEF PublishStep
    <3>. QED
      BY <1>1, <1>3, <3>1 DEF Publishes, TryBlock
  <2>. QED
    BY <2>1, <2>2, <2>3, <2>4 DEF CallStep
<1>. QED
  BY <1>1, <1>2, <1>3 DEF ContentInv

LEMMA ContentCall ==
  ASSUME SessionInv, FreshInv, ContentInv,
         NEW n \in Calls, NEW c \in Conns, NEW rq \in Request, Call(n, c, rq)
  PROVE  ContentInv'
<1>1. /\ \A m \in Calls \ {n} :
           /\ pc'[m] = pc[m] /\ todo'[m] = todo[m]
           /\ req'[m] = req[m] /\ conn'[m] = conn[m]
      /\ pc[n] = "new" /\ pc'[n] = FirstStatement(rq.op)
      /\ UNCHANGED <<committed, ins, del, link>>
  BY Types DEF Call, Goto, pgVars
<1>2. pc'[n] \notin TryBlock
  BY <1>1, RequestFields DEF FirstStatement, TryBlock
<1>3. ASSUME NEW m \in Calls \ {n}, pc[m] \in TryBlock, link[conn[m]] = "up"
      PROVE  Content(m)'
  <2>1. Content(m)
    BY <1>3 DEF ContentInv
  <2>2. Done(m)' = Done(m)
    BY <1>1 DEF Done
  <2>3. req[m].inst \in Instances
    BY <1>3, RunningTyped DEF Running, Statements, SessionInv, IdleInv
  <2>4. \A v \in VariableRows(committed, req[m].inst) : v.value # n
    <3>1. Unpublished(n)
      BY <1>1 DEF Unpublished
    <3>. QED
      BY <2>3, <3>1 DEF FreshInv, VariableRows, Wrote
  <2>5. \A v \in VariableRows(committed, req[m].inst) :
          req[v.value].op = "task" => req'[v.value].op = "task"
    BY <1>1, <2>4, Types DEF Call
  <2>. QED
    BY <1>1, <2>1, <2>2, <2>5 DEF Content, RowReplaced, VariablesReplaced, TaskAdded
<1>. QED
  BY <1>1, <1>2, <1>3 DEF ContentInv

LEMMA ContentInvNext ==
  SessionInv /\ TodoInv /\ FreshInv /\ KeysInv /\ ContentInv /\ [Next]_vars => ContentInv'
<1> SUFFICES ASSUME SessionInv, TodoInv, FreshInv, KeysInv, ContentInv, [Next]_vars
             PROVE  ContentInv'
  OBVIOUS
<1>0. KeysInv'
  BY KeysInvNext
<1>1. ASSUME NEW c \in Conns, LostStep(c) PROVE ContentInv'
  <2> SUFFICES ASSUME NEW m \in Calls, pc[m] \in TryBlock, link'[conn[m]] = "up"
               PROVE  Content(m)'
    BY <1>1 DEF ContentInv, LostStep, Clears
  <2>1. conn[m] \in Conns
    BY RunningSession DEF Running, Statements
  <2>2. conn[m] # c /\ link[conn[m]] = "up"
    BY <1>1, <2>1, Types DEF LostStep
  <2>3. Content(m)
    BY <2>2 DEF ContentInv
  <2>4. /\ UNCHANGED <<committed, req, conn, pc, todo>>
        /\ ins'[conn[m]] = ins[conn[m]] /\ del'[conn[m]] = del[conn[m]]
    BY <1>1, <2>1, <2>2, Types DEF LostStep, Clears
  <2>. QED
    BY <2>3, <2>4, ContentKept
<1>2. CASE UNCHANGED <<committed, ins, del, link, req, conn, pc, todo, loaded>>
  BY <1>2, ContentKept DEF ContentInv
<1>. QED
  BY <1>0, <1>1, <1>2, ContentCall, ContentStep, AllSteps

-----------------------------------------------------------------------------
(* 5. What is stored.                                                      *)

(* The shapes of rows, by their keys.                                      *)
LEMMA KeyShapes ==
  ASSUME NEW r \in Rows, NEW i
  PROVE  /\ r.pk = <<"instance", i>> =>
              i \in Instances /\ r.element \in Calls /\ r.process \in Calls
         /\ \A k : r.pk = <<"variable", i, k>> =>
              i \in Instances /\ k \in Names /\ r.value \in Calls
  BY DEF Rows

LEMMA RowsOfForm ==
  ASSUME NEW n, NEW rq, NEW v \in RowsOf(n, rq)
  PROVE  v.value = n /\ \E k : v.pk = <<"variable", rq.inst, k>>
  BY DEF RowsOf, VariableRow

(* The rows of a call that are in a table are variables of its instance.   *)
LEMMA RowsOfStored ==
  ASSUME NEW S \in SUBSET Rows, NEW n, NEW rq, NEW v \in RowsOf(n, rq) \cap S
  PROVE  v \in VariableRows(S, rq.inst) /\ v.value = n /\ rq.inst \in Instances
         /\ Wrote(n, v)
<1>1. PICK k : v.pk = <<"variable", rq.inst, k>>
  BY RowsOfForm
<1>2. k \in Names /\ rq.inst \in Instances
  BY <1>1, KeyShapes
<1>. QED
  BY <1>1, <1>2, RowsOfForm DEF VariableRows, Wrote

(* A call that has not started has stored nothing.                         *)
LEMMA StoredCall ==
  ASSUME SessionInv, FreshInv, KeysInv, StoredInv,
         NEW n \in Calls, NEW c \in Conns, NEW rq \in Request, Call(n, c, rq)
  PROVE  StoredInv'
<1>1. /\ \A m \in Calls \ {n} : req'[m] = req[m]
      /\ UNCHANGED <<committed, del>>
  BY Types DEF Call, pgVars
<1>2. \A r \in committed : ~Wrote(n, r)
  <2>1. Unpublished(n)
    BY DEF Unpublished, Call
  <2>. QED
    BY <2>1 DEF FreshInv
<1>3. \A i \in Instances : \A r \in InstanceRows(committed, i) : r.element \in Calls \ {n}
  BY <1>2, Types, KeyShapes DEF InstanceRows, Wrote
<1>4. \A i \in Instances : \A v \in VariableRows(committed, i) : v.value \in Calls \ {n}
  BY <1>2, Types, KeyShapes DEF VariableRows, Wrote
<1>5. \A S \in SUBSET committed : RowsOf(n, req'[n]) \cap S = {}
  <2> SUFFICES ASSUME NEW v \in RowsOf(n, req'[n]) \cap committed PROVE FALSE
    OBVIOUS
  <2>. QED
    BY <1>2, RowsOfStored, Types
<1>6. RowOrigin' /\ VariableOrigin'
  BY <1>1, <1>3, <1>4 DEF StoredInv, RowOrigin, VariableOrigin
<1>7. ASSUME NEW S \in SUBSET committed, Whole(S), NEW m \in Calls,
             req'[m].op \in {"save", "task"}
      PROVE  RowsOf(m, req'[m]) \cap S \in {{}, RowsOf(m, req'[m])}
  <2>1. CASE m = n
    BY <1>5, <2>1
  <2>2. CASE m # n
    BY <1>1, <1>7, <2>2 DEF Whole
  <2>. QED
    BY <2>1, <2>2
<1>8. Whole(committed)' /\ \A d \in Conns : Whole(del[d])'
  <2>1. \A d \in Conns : del[d] \subseteq committed
    BY DEF KeysInv
  <2>. QED
    BY <1>1, <1>7, <2>1 DEF Whole, StoredInv
<1>9. TaskIsAtomic'
  BY <1>1, <1>5 DEF StoredInv, TaskIsAtomic
<1>. QED
  BY <1>6, <1>8, <1>9 DEF StoredInv

(* The variables of an instance, in the tables, are those of whole calls.  *)
LEMMA WholeVariables ==
  ASSUME SessionInv, StoredInv, NEW i, NEW m \in Calls, req[m].op \in {"save", "task"}
  PROVE  /\ RowsOf(m, req[m]) \cap InstanceRows(committed, i) = {}
         /\ RowsOf(m, req[m]) \cap VariableRows(committed, i) \in {{}, RowsOf(m, req[m])}
<1>1. \A v \in RowsOf(m, req[m]) \cap committed :
        v \in VariableRows(committed, req[m].inst)
  BY RowsOfStored, Types
<1>2. \A v \in RowsOf(m, req[m]) : \E k : v.pk = <<"variable", req[m].inst, k>>
  BY RowsOfForm
<1>3. RowsOf(m, req[m]) \cap InstanceRows(committed, i) = {}
  BY <1>2 DEF InstanceRows
<1>4. CASE req[m].inst = i
  <2>1. RowsOf(m, req[m]) \cap VariableRows(committed, i) = RowsOf(m, req[m]) \cap committed
    BY <1>1, <1>4 DEF VariableRows
  <2>. QED
    BY <1>3, <2>1 DEF StoredInv, Whole
<1>5. CASE req[m].inst # i
  <2>1. RowsOf(m, req[m]) \cap VariableRows(committed, i) = {}
    BY <1>2, <1>5 DEF VariableRows
  <2>. QED
    BY <1>3, <2>1
<1>. QED
  BY <1>4, <1>5

(* The rows a statement deletes in its transaction.                        *)
LEMMA StoredWrite ==
  ASSUME SessionInv, KeysInv, ContentInv, StoredInv,
         NEW n \in Calls, Running(n), WriteStep(n)
  PROVE  StoredInv'
<1> DEFINE i == req[n].inst
           c == conn[n]
           rows == InstanceRows(committed, i)
           variables == VariableRows(committed, i)
<1>1. /\ c \in Conns /\ DOMAIN del = Conns
      /\ UNCHANGED <<committed, req, conn>>
      /\ \A d \in Conns \ {c} : del'[d] = del[d]
  <2>1. CallStep(n)
    BY DEF CallStep
  <2>. QED
    BY <2>1, RunningSession, Types, OthersStay DEF WriteStep, Writes
<1>2. Content(n)
  BY DEF ContentInv, WriteStep, Writes, TryBlock
<1>3. \A m \in Calls : req[m].op \in {"save", "task"} =>
        /\ RowsOf(m, req[m]) \cap rows = {}
        /\ RowsOf(m, req[m]) \cap variables \in {{}, RowsOf(m, req[m])}
  BY WholeVariables
<1>4. Whole(del'[c])
  <2>1. CASE pc[n] = "upsert"
    <3>1. ins[c] = {} /\ del[c] = {} /\ Own(n) = committed
      BY <1>2, <2>1 DEF Content, Own, Visible
    <3>2. Writes(n, rows, Upserted(rows, i, n))
      BY <2>1, <3>1 DEF WriteStep
    <3>3. rows \subseteq committed
      BY DEF InstanceRows
    <3>4. del'[c] = rows
      BY <1>1, <3>1, <3>2, <3>3 DEF Writes
    <3>. QED
      BY <1>3, <3>4 DEF Whole
  <2>2. CASE pc[n] = "delete"
    <3>1. del[c] = rows /\ ins[c] = Upserted(rows, i, n)
      BY <1>2, <2>2 DEF Content, RowReplaced
    <3>2. VariableRows(Own(n), i) = variables
      <4>1. \A r \in ins[c] \cup del[c] : \A k : r.pk # <<"variable", i, k>>
        BY <3>1, RowForms
      <4>. QED
        BY <4>1 DEF Own, Visible, VariableRows
    <3>3. Writes(n, variables, {})
      BY <2>2, <3>2 DEF WriteStep
    <3>4. variables \subseteq committed
      BY DEF VariableRows
    <3>5. del'[c] = rows \cup variables
      BY <1>1, <3>1, <3>3, <3>4 DEF Writes
    <3>6. \A m \in Calls : req[m].op \in {"save", "task"} =>
            RowsOf(m, req[m]) \cap (rows \cup variables) = RowsOf(m, req[m]) \cap variables
      BY <1>3
    <3>. QED
      BY <1>3, <3>5, <3>6 DEF Whole
  <2>3. CASE pc[n] \in {"task", "insert"}
    <3>1. \E new : Writes(n, {}, new)
      BY <2>3 DEF WriteStep
    <3>2. del'[c] = del[c]
      BY <1>1, <3>1 DEF Writes
    <3>. QED
      BY <1>1, <3>2 DEF StoredInv
  <2>. QED
    BY <2>1, <2>2, <2>3 DEF WriteStep
<1>5. \A d \in Conns : Whole(del[d])'
  BY <1>1, <1>4 DEF StoredInv, Whole
<1>6. /\ RowOrigin' /\ VariableOrigin' /\ Whole(committed)' /\ TaskIsAtomic'
  BY <1>1 DEF StoredInv, RowOrigin, VariableOrigin, Whole, TaskIsAtomic
<1>. QED
  BY <1>5, <1>6 DEF StoredInv

(* What a step publishes is stored whole: the rows of no other call are    *)
(* torn apart.                                                             *)
LEMMA WholeAfter ==
  ASSUME NEW n \in Calls, NEW C, NEW D, NEW N, Whole(C), Whole(D),
         \A v \in N : \A m \in Calls : v \in RowsOf(m, req[m]) => m = n,
         RowsOf(n, req[n]) \subseteq N
  PROVE  Whole((C \ D) \cup N)
<1> SUFFICES ASSUME NEW m \in Calls, req[m].op \in {"save", "task"}
             PROVE  RowsOf(m, req[m]) \cap ((C \ D) \cup N) \in {{}, RowsOf(m, req[m])}
  BY DEF Whole
<1>1. CASE m = n
  BY <1>1
<1>2. CASE m # n
  <2>1. /\ RowsOf(m, req[m]) \cap C \in {{}, RowsOf(m, req[m])}
        /\ RowsOf(m, req[m]) \cap D \in {{}, RowsOf(m, req[m])}
    BY DEF Whole
  <2>2. RowsOf(m, req[m]) \cap N = {}
    BY <1>2
  <2>. QED
    BY <2>1, <2>2
<1>. QED
  BY <1>1, <1>2

(* All of it is done when nothing is left.                                 *)
LEMMA DoneAll ==
  ASSUME NEW n \in Calls, todo[n] = <<>>
  PROVE  Done(n) = RowsOf(n, req[n])
<1>1. Range(todo[n]) = {}
  BY DEF Range
<1>. QED
  BY <1>1 DEF Done, RowsOf

(* COMMIT of a saveProcessInstance.                                        *)
LEMMA StoredSave ==
  ASSUME SessionInv, TodoInv, KeysInv, ContentInv, StoredInv,
         NEW n \in Calls, Running(n), PublishStep(n), pc[n] = "commit", req[n].op = "save"
  PROVE  /\ RowOrigin' /\ VariableOrigin' /\ Whole(committed)' /\ TaskIsAtomic'
<1> DEFINE i == req[n].inst
           gone == del[conn[n]]
           new == RowsOf(n, req[n])
           rows == InstanceRows(committed, i)
           row == Upserted(rows, i, n)
<1>1. /\ req' = req /\ committed' = (committed \ gone) \cup (row \cup new)
      /\ rows \subseteq gone /\ gone \subseteq rows \cup VariableRows(committed, i)
      /\ \A v \in VariableRows(committed, i) \ gone : req[v.value].op = "task"
      /\ i \in Instances /\ committed \subseteq Rows /\ committed' \subseteq Rows
      /\ conn[n] \in Conns
  <2>1. VariablesReplaced(n) /\ committed' = (committed \ gone) \cup ins[conn[n]]
    BY CommitContent
  <2>2. Done(n) = new
    BY DoneAll DEF TodoInv
  <2>3. req' = req /\ i \in Instances
    BY RunningTyped, OthersStay DEF SessionInv, IdleInv, CallStep
  <2>4. conn[n] \in Conns
    BY RunningSession
  <2>5. ins[conn[n]] \subseteq Rows
    BY <2>4, Types
  <2>. QED
    BY <2>1, <2>2, <2>3, <2>4, <2>5, Types DEF VariablesReplaced
<1>2. /\ \A r \in row : r.pk = <<"instance", i>> /\ r.element = n
      /\ \A v \in new : v.value = n /\ \E k : v.pk = <<"variable", i, k>>
      /\ \A r \in gone : r.pk = <<"instance", i>> \/ \E k : r.pk = <<"variable", i, k>>
  <2>1. \A r \in row : r.pk = <<"instance", i>> /\ r.element = n
    BY RowForms
  <2>2. \A v \in new : v.value = n /\ \E k : v.pk = <<"variable", i, k>>
    BY RowsOfForm
  <2>3. \A r \in gone : r.pk = <<"instance", i>> \/ \E k : r.pk = <<"variable", i, k>>
    BY <1>1 DEF InstanceRows, VariableRows
  <2>. QED
    BY <2>1, <2>2, <2>3
<1> HIDE DEF new, row
<1>0. req' = req
  BY <1>1
<1>3. Whole(committed)'
  <2>1. \A v \in row \cup new : \A m \in Calls : v \in RowsOf(m, req[m]) => m = n
    <3> SUFFICES ASSUME NEW v \in row \cup new, NEW m \in Calls, v \in RowsOf(m, req[m])
                 PROVE  m = n
      OBVIOUS
    <3>1. v.value = m /\ \E k : v.pk = <<"variable", req[m].inst, k>>
      BY RowsOfForm
    <3>. QED
      BY <1>2, <3>1
  <2>2. new \subseteq row \cup new /\ Whole(committed) /\ Whole(gone)
    BY <1>1 DEF StoredInv
  <2>3. Whole((committed \ gone) \cup (row \cup new))
    BY <2>1, <2>2, WholeAfter DEF new
  <2>. QED
    BY <1>1, <2>3 DEF Whole
<1>4. RowOrigin'
  <2> SUFFICES ASSUME NEW j \in Instances, NEW r \in InstanceRows(committed', j)
               PROVE  /\ req[r.element].op = "save" /\ req[r.element].inst = j
                      /\ RowsOf(r.element, req[r.element]) \subseteq committed'
                      /\ \A v \in VariableRows(committed', j) :
                           v \in RowsOf(r.element, req[r.element]) \/ req[v.value].op = "task"
    BY <1>0 DEF RowOrigin
  <2>0. r \in committed' /\ r.pk = <<"instance", j>>
    BY DEF InstanceRows
  <2>1. CASE j = i
    <3>1. r \in row
      BY <1>1, <1>2, <2>0, <2>1 DEF InstanceRows
    <3>2. r.element = n /\ new \subseteq committed'
      BY <1>1, <1>2, <3>1
    <3>3. ASSUME NEW v \in VariableRows(committed', j)
          PROVE  v \in new \/ req[v.value].op = "task"
      <4>1. v \in committed' /\ \E k \in Names : v.pk = <<"variable", j, k>>
        BY DEF VariableRows
      <4>2. v \notin row
        BY <1>2, <4>1
      <4>3. v \in new \/ v \in VariableRows(committed, i) \ gone
        BY <1>1, <2>1, <4>1, <4>2 DEF VariableRows
      <4>. QED
        BY <1>1, <4>3
    <3>. QED
      BY <2>1, <3>2, <3>3 DEF new
  <2>2. CASE j # i
    <3>1. r \in InstanceRows(committed, j)
      BY <1>1, <1>2, <2>0, <2>2 DEF InstanceRows
    <3>2. /\ req[r.element].op = "save" /\ req[r.element].inst = j
          /\ RowsOf(r.element, req[r.element]) \subseteq committed
          /\ \A v \in VariableRows(committed, j) :
               v \in RowsOf(r.element, req[r.element]) \/ req[v.value].op = "task"
      BY <3>1 DEF StoredInv, RowOrigin
    <3>3. RowsOf(r.element, req[r.element]) \subseteq committed'
      <4> SUFFICES ASSUME NEW v \in RowsOf(r.element, req[r.element]) PROVE v \in committed'
        OBVIOUS
      <4>1. \E k : v.pk = <<"variable", j, k>>
        BY <3>2, RowsOfForm
      <4>2. v \notin gone
        BY <1>2, <2>2, <4>1
      <4>. QED
        BY <1>1, <3>2, <4>2
    <3>4. VariableRows(committed', j) \subseteq VariableRows(committed, j)
      BY <1>1, <1>2, <2>2 DEF VariableRows
    <3>. QED
      BY <3>2, <3>3, <3>4
  <2>. QED
    BY <2>1, <2>2
<1>5. VariableOrigin'
  <2> SUFFICES ASSUME NEW j \in Instances, NEW v \in VariableRows(committed', j)
               PROVE  req[v.value].op \in {"save", "task"} /\ v \in RowsOf(v.value, req[v.value])
    BY <1>1 DEF VariableOrigin
  <2>1. v \in committed' /\ \E k \in Names : v.pk = <<"variable", j, k>>
    BY DEF VariableRows
  <2>2. v \notin row
    BY <1>2, <2>1
  <2>3. CASE v \in new
    BY <1>2, <2>3 DEF new
  <2>4. CASE v \in committed
    BY <2>1, <2>4 DEF StoredInv, VariableOrigin, VariableRows
  <2>. QED
    BY <1>1, <2>1, <2>2, <2>3, <2>4
<1>6. TaskIsAtomic'
  <2> SUFFICES ASSUME NEW m \in Calls, req[m].op = "task",
                      NEW v \in RowsOf(m, req[m]) \cap committed'
               PROVE  /\ RowsOf(m, req[m]) \subseteq committed'
                      /\ TaskRow(req[m].inst, req[m].task, m) \in committed'
    BY <1>1 DEF TaskIsAtomic
  <2>1. RowsOf(m, req[m]) \subseteq committed'
    BY <1>1, <1>3 DEF Whole
  <2>2. v.value = m /\ \E k : v.pk = <<"variable", req[m].inst, k>>
    BY RowsOfForm
  <2>3. v \in committed
    BY <1>1, <1>2, <2>2
  <2>4. TaskRow(req[m].inst, req[m].task, m) \in committed
    BY <2>3 DEF StoredInv, TaskIsAtomic
  <2>5. TaskRow(req[m].inst, req[m].task, m) \notin gone
    BY <1>2 DEF TaskRow
  <2>. QED
    BY <1>1, <2>1, <2>4, <2>5
<1>. QED
  BY <1>3, <1>4, <1>5, <1>6

(* COMMIT of a saveUserTask.                                               *)
LEMMA StoredTask ==
  ASSUME SessionInv, TodoInv, KeysInv, ContentInv, StoredInv,
         NEW n \in Calls, Running(n), PublishStep(n), pc[n] = "commit", req[n].op = "task"
  PROVE  /\ RowOrigin' /\ VariableOrigin' /\ Whole(committed)' /\ TaskIsAtomic'
<1> DEFINE i == req[n].inst
           new == RowsOf(n, req[n])
           task == TaskRow(i, req[n].task, n)
<1>1. /\ req' = req /\ committed' = committed \cup ({task} \cup new)
      /\ committed \subseteq Rows
  <2>1. /\ TaskAdded(n)
        /\ committed' = (committed \ del[conn[n]]) \cup ins[conn[n]]
    BY CommitContent
  <2>2. Done(n) = new
    BY DoneAll DEF TodoInv
  <2>3. req' = req
    BY OthersStay DEF CallStep
  <2>. QED
    BY <2>1, <2>2, <2>3, Types DEF TaskAdded
<1>2. /\ task.pk = <<"task", n>>
      /\ \A v \in new : v.value = n /\ \E k : v.pk = <<"variable", i, k>>
  BY RowsOfForm DEF TaskRow
<1>0. req' = req
  BY <1>1
<1>3. Whole(committed)'
  <2>1. \A v \in {task} \cup new : \A m \in Calls : v \in RowsOf(m, req[m]) => m = n
    <3> SUFFICES ASSUME NEW v \in {task} \cup new, NEW m \in Calls, v \in RowsOf(m, req[m])
                 PROVE  m = n
      OBVIOUS
    <3>1. v.value = m /\ \E k : v.pk = <<"variable", req[m].inst, k>>
      BY RowsOfForm
    <3>. QED
      BY <1>2, <3>1
  <2>2. Whole({})
    BY DEF Whole
  <2>3. Whole((committed \ {}) \cup ({task} \cup new))
    BY <2>1, <2>2, WholeAfter DEF StoredInv
  <2>. QED
    BY <1>1, <2>3 DEF Whole
<1> HIDE DEF new, task
<1>4. RowOrigin'
  <2> SUFFICES ASSUME NEW j \in Instances, NEW r \in InstanceRows(committed', j)
               PROVE  /\ req[r.element].op = "save" /\ req[r.element].inst = j
                      /\ RowsOf(r.element, req[r.element]) \subseteq committed'
                      /\ \A v \in VariableRows(committed', j) :
                           v \in RowsOf(r.element, req[r.element]) \/ req[v.value].op = "task"
    BY <1>0 DEF RowOrigin
  <2>0. r \in committed' /\ r.pk = <<"instance", j>>
    BY DEF InstanceRows
  <2>1. r \in InstanceRows(committed, j)
    BY <1>1, <1>2, <2>0 DEF InstanceRows
  <2>2. \A v \in VariableRows(committed', j) :
          v \in VariableRows(committed, j) \/ req[v.value].op = "task"
    BY <1>1, <1>2 DEF VariableRows
  <2>3. /\ req[r.element].op = "save" /\ req[r.element].inst = j
        /\ RowsOf(r.element, req[r.element]) \subseteq committed
        /\ \A v \in VariableRows(committed, j) :
             v \in RowsOf(r.element, req[r.element]) \/ req[v.value].op = "task"
    BY <2>1 DEF StoredInv, RowOrigin
  <2>. QED
    BY <1>1, <2>2, <2>3
<1>5. VariableOrigin'
  <2> SUFFICES ASSUME NEW j \in Instances, NEW v \in VariableRows(committed', j)
               PROVE  req[v.value].op \in {"save", "task"} /\ v \in RowsOf(v.value, req[v.value])
    BY <1>1 DEF VariableOrigin
  <2>1. v \in committed' /\ \E k \in Names : v.pk = <<"variable", j, k>>
    BY DEF VariableRows
  <2>2. v # task
    BY <1>2, <2>1
  <2>3. CASE v \in new
    BY <1>2, <2>3 DEF new
  <2>4. CASE v \in committed
    BY <2>1, <2>4 DEF StoredInv, VariableOrigin, VariableRows
  <2>. QED
    BY <1>1, <2>1, <2>2, <2>3, <2>4
<1>6. TaskIsAtomic'
  <2> SUFFICES ASSUME NEW m \in Calls, req[m].op = "task",
                      NEW v \in RowsOf(m, req[m]) \cap committed'
               PROVE  /\ RowsOf(m, req[m]) \subseteq committed'
                      /\ TaskRow(req[m].inst, req[m].task, m) \in committed'
    BY <1>1 DEF TaskIsAtomic
  <2>1. RowsOf(m, req[m]) \subseteq committed'
    BY <1>1, <1>3 DEF Whole
  <2>2. v.value = m /\ \E k : v.pk = <<"variable", req[m].inst, k>>
    BY RowsOfForm
  <2>3. CASE m = n
    BY <1>1, <2>1, <2>3 DEF task
  <2>4. CASE m # n
    <3>1. v \in committed
      BY <1>1, <1>2, <2>2, <2>4
    <3>. QED
      BY <1>1, <2>1, <3>1 DEF StoredInv, TaskIsAtomic
  <2>. QED
    BY <2>3, <2>4
<1>. QED
  BY <1>3, <1>4, <1>5, <1>6

(* The statements outside a transaction leave variables and tasks alone.   *)
LEMMA StoredAtOnce ==
  ASSUME SessionInv, StoredInv, NEW n \in Calls, Running(n), PublishStep(n),
         pc[n] # "commit"
  PROVE  /\ RowOrigin' /\ VariableOrigin' /\ Whole(committed)' /\ TaskIsAtomic'
<1> DEFINE i == req[n].inst
           rows == InstanceRows(committed, i)
<1>0. req' = req
  BY OthersStay DEF CallStep
<1>1. /\ \A v : (\E j, k : v.pk = <<"variable", j, k>>) => (v \in committed' <=> v \in committed)
      /\ \A m : \A v \in committed : v.pk = <<"task", m>> => v \in committed'
      /\ \A j : \A r \in InstanceRows(committed', j) :
           \E s \in InstanceRows(committed, j) : s.element = r.element
  <2>1. CASE pc[n] = "complete"
    <3>1. committed' = (committed \ rows) \cup Completed(rows, i)
      BY <2>1 DEF PublishStep, Publishes
    <3>2. /\ \A r \in rows : r.pk = <<"instance", i>>
          /\ \A r \in Completed(rows, i) :
               r.pk = <<"instance", i>> /\ \E s \in rows : s.element = r.element
      BY DEF InstanceRows, Completed, InstanceRow
    <3>3. ASSUME NEW j, NEW r \in InstanceRows(committed', j)
          PROVE  \E s \in InstanceRows(committed, j) : s.element = r.element
      <4>1. r \in committed' /\ r.pk = <<"instance", j>>
        BY DEF InstanceRows
      <4>2. CASE r \in committed
        BY <4>1, <4>2 DEF InstanceRows
      <4>3. CASE r \in Completed(rows, i)
        BY <3>2, <4>1, <4>3
      <4>. QED
        BY <3>1, <4>1, <4>2, <4>3
    <3>4. \A v : (\E j, k : v.pk = <<"variable", j, k>>) => (v \in committed' <=> v \in committed)
      BY <3>1, <3>2
    <3>5. \A m : \A v \in committed : v.pk = <<"task", m>> => v \in committed'
      BY <3>1, <3>2
    <3>. QED
      BY <3>3, <3>4, <3>5
  <2>2. CASE pc[n] = "error"
    <3>1. committed' = committed \cup {ErrorRow(i, n)}
      BY <2>2 DEF PublishStep, Publishes
    <3>. QED
      BY <3>1 DEF ErrorRow, InstanceRows
  <2>. QED
    BY <2>1, <2>2 DEF PublishStep
<1>2. \A j : VariableRows(committed', j) = VariableRows(committed, j)
  BY <1>1 DEF VariableRows
<1>3. \A m : RowsOf(m, req[m]) \cap committed' = RowsOf(m, req[m]) \cap committed
  BY <1>1, RowsOfForm
<1>4. RowOrigin'
  <2> SUFFICES ASSUME NEW j \in Instances, NEW r \in InstanceRows(committed', j)
               PROVE  /\ req[r.element].op = "save" /\ req[r.element].inst = j
                      /\ RowsOf(r.element, req[r.element]) \subseteq committed'
                      /\ \A v \in VariableRows(committed, j) :
                           v \in RowsOf(r.element, req[r.element]) \/ req[v.value].op = "task"
    BY <1>0, <1>2 DEF RowOrigin
  <2>1. PICK s \in InstanceRows(committed, j) : s.element = r.element
    BY <1>1
  <2>. QED
    BY <1>3, <2>1 DEF StoredInv, RowOrigin
<1>5. VariableOrigin'
  BY <1>0, <1>2 DEF StoredInv, VariableOrigin
<1>6. Whole(committed)'
  BY <1>0, <1>3 DEF StoredInv, Whole
<1>7. TaskIsAtomic'
  <2> SUFFICES ASSUME NEW m \in Calls, req[m].op = "task",
                      RowsOf(m, req[m]) \cap committed' # {}
               PROVE  /\ RowsOf(m, req[m]) \subseteq committed'
                      /\ TaskRow(req[m].inst, req[m].task, m) \in committed'
    BY <1>0 DEF TaskIsAtomic
  <2>1. /\ RowsOf(m, req[m]) \subseteq committed
        /\ TaskRow(req[m].inst, req[m].task, m) \in committed
    BY <1>3 DEF StoredInv, TaskIsAtomic
  <2>2. TaskRow(req[m].inst, req[m].task, m).pk = <<"task", m>>
    BY DEF TaskRow
  <2>. QED
    BY <1>1, <1>3, <2>1, <2>2
<1>. QED
  BY <1>4, <1>5, <1>6, <1>7

LEMMA StoredInvNext ==
  SessionInv /\ TodoInv /\ FreshInv /\ KeysInv /\ ContentInv /\ StoredInv /\ [Next]_vars
    => StoredInv'
<1> SUFFICES ASSUME SessionInv, TodoInv, FreshInv, KeysInv, ContentInv, StoredInv, [Next]_vars
             PROVE  StoredInv'
  OBVIOUS
<1>0. DOMAIN del = Conns
  BY Types
<1>1. ASSUME UNCHANGED <<committed, req>>,
             \A c \in Conns : del'[c] = del[c] \/ del'[c] = {}
      PROVE  StoredInv'
  <2>1. \A c \in Conns : Whole(del[c])'
    BY <1>1 DEF StoredInv, Whole
  <2>. QED
    BY <1>1, <2>1 DEF StoredInv, RowOrigin, VariableOrigin, Whole, TaskIsAtomic
<1>2. ASSUME NEW n \in Calls, Running(n), CallStep(n) PROVE StoredInv'
  <2>1. CASE WriteStep(n)
    BY <1>2, <2>1, StoredWrite
  <2>2. CASE PublishStep(n)
    <3>1. RowOrigin' /\ VariableOrigin' /\ Whole(committed)' /\ TaskIsAtomic'
      BY <1>2, <2>2, StoredSave, StoredTask, StoredAtOnce, CommitContent
    <3>2. req' = req /\ \A c \in Conns : del'[c] = del[c] \/ del'[c] = {}
      <4>1. PICK old, new : Publishes(n, old, new)
        BY <2>2 DEF PublishStep
      <4>. QED
        BY <1>0, <4>1 DEF Publishes
    <3>3. \A c \in Conns : Whole(del[c])'
      BY <3>2 DEF StoredInv, Whole
    <3>. QED
      BY <3>1, <3>3 DEF StoredInv
  <2>3. CASE QuietStep(n) \/ RefusedStep(n)
    BY <1>0, <1>1, <2>3 DEF QuietStep, RefusedStep, Clears
  <2>. QED
    BY <1>2, <2>1, <2>2, <2>3 DEF CallStep
<1>3. ASSUME NEW c \in Conns, LostStep(c) PROVE StoredInv'
  BY <1>0, <1>1, <1>3 DEF LostStep, Clears
<1>4. CASE UNCHANGED <<committed, ins, del, link, req, conn, pc, todo, loaded>>
  BY <1>1, <1>4
<1>. QED
  BY <1>2, <1>3, <1>4, StoredCall, AllSteps

-----------------------------------------------------------------------------
(* 6. What is loaded.                                                      *)
LEMMA LoadedCall ==
  ASSUME SessionInv, LoadedInv,
         NEW n \in Calls, NEW c \in Conns, NEW rq \in Request, Call(n, c, rq)
  PROVE  LoadedInv'
<1>1. /\ \A m \in Calls \ {n} : req'[m] = req[m] /\ pc'[m] = pc[m]
      /\ pc[n] = "new" /\ pc'[n] = FirstStatement(rq.op)
      /\ UNCHANGED loaded
  BY Types DEF Call, Goto
<1>2. pc'[n] # "selectVariables"
  BY <1>1, RequestFields DEF FirstStatement
<1>3. ASSUME NEW l \in Calls PROVE Whole(loaded[l])'
  <2>1. RowsOf(n, req'[n]) \cap loaded[l] = {}
    <3> SUFFICES ASSUME NEW v \in RowsOf(n, req'[n]) \cap loaded[l] PROVE FALSE
      OBVIOUS
    <3>. QED
      BY <1>1, RowsOfStored, Types DEF LoadedInv
  <2>2. \A m \in Calls \ {n} : req'[m].op \in {"save", "task"} =>
          RowsOf(m, req'[m]) \cap loaded[l] \in {{}, RowsOf(m, req'[m])}
    BY <1>1 DEF LoadedInv, Whole
  <2>3. \A m \in Calls : req'[m].op \in {"save", "task"} =>
          RowsOf(m, req'[m]) \cap loaded'[l] \in {{}, RowsOf(m, req'[m])}
    BY <1>1, <2>1, <2>2
  <2>. QED
    BY <2>3 DEF Whole
<1>. QED
  BY <1>1, <1>2, <1>3 DEF LoadedInv

LEMMA LoadedStep ==
  ASSUME SessionInv, FreshInv, StoredInv, LoadedInv,
         NEW n \in Calls, Running(n), CallStep(n)
  PROVE  LoadedInv'
<1> DEFINE i == req[n].inst
<1>1. /\ req' = req
      /\ \A m \in Calls \ {n} : pc'[m] = pc[m]
      /\ pc[n] # "new" /\ DOMAIN pc = Calls /\ DOMAIN loaded = Calls
  BY OthersStay, Types DEF Running, Statements, TryBlock
<1>2. \A m \in Calls : pc[m] = "new" => \A r \in committed : ~Wrote(m, r)
  BY DEF FreshInv, Unpublished
<1>3. pc'[n] # "new"
  <2>1. CASE PublishStep(n)
    <3>1. PICK old, new : Publishes(n, old, new)
      BY <2>1 DEF PublishStep
    <3>. QED
      BY <3>1 DEF Publishes
  <2>2. CASE ~PublishStep(n)
    BY <1>1, <2>2
       DEF CallStep, QuietStep, WriteStep, RefusedStep, Throw, Goto, NextInsert, TryBlock
  <2>. QED
    BY <2>1, <2>2
<1>4. ASSUME \A l \in Calls \ {n} : loaded'[l] = loaded[l],
             loaded'[n] \subseteq loaded[n] \cup committed,
             Whole(loaded'[n]),
             pc'[n] = "selectVariables" => loaded'[n] \subseteq InstanceRows(loaded'[n], i)
      PROVE  LoadedInv'
  <2>1. ASSUME NEW l \in Calls
        PROVE  /\ Whole(loaded'[l])
               /\ \A m \in Calls : pc'[m] = "new" => \A r \in loaded'[l] : ~Wrote(m, r)
               /\ pc'[l] = "selectVariables" =>
                    loaded'[l] \subseteq InstanceRows(loaded'[l], req[l].inst)
    <3>1. \A m \in Calls : pc'[m] = "new" => pc[m] = "new"
      BY <1>1, <1>3
    <3>2. CASE l = n
      BY <1>2, <1>4, <3>1, <3>2 DEF LoadedInv
    <3>3. CASE l # n
      BY <1>1, <1>4, <3>1, <3>3 DEF LoadedInv
    <3>. QED
      BY <3>2, <3>3
  <2>2. \A l \in Calls : Whole(loaded[l])'
    BY <1>1, <2>1 DEF Whole
  <2>. QED
    BY <1>1, <2>1, <2>2 DEF LoadedInv
<1>5. CASE UNCHANGED loaded /\ pc'[n] # "selectVariables"
  BY <1>5, <1>4 DEF LoadedInv
<1>6. ASSUME loaded' = [loaded EXCEPT ![n] =
                          {r \in InstanceRows(committed, i) : r.status = "RUNNING"}]
      PROVE  LoadedInv'
  <2>1. loaded'[n] \subseteq InstanceRows(committed, i)
    BY <1>1, <1>6
  <2>2. \A l \in Calls \ {n} : loaded'[l] = loaded[l]
    BY <1>1, <1>6
  <2>3. Whole(loaded'[n])
    BY <2>1, WholeVariables DEF Whole
  <2>4. loaded'[n] \subseteq committed /\ loaded'[n] \subseteq InstanceRows(loaded'[n], i)
    BY <2>1 DEF InstanceRows
  <2>. QED
    BY <1>4, <2>2, <2>3, <2>4
<1>7. ASSUME pc[n] = "selectVariables", pc'[n] # "selectVariables",
             loaded' = [loaded EXCEPT ![n] = @ \cup VariableRows(committed, i)]
      PROVE  LoadedInv'
  <2>1. loaded'[n] = loaded[n] \cup VariableRows(committed, i)
    BY <1>1, <1>7
  <2>2. \A l \in Calls \ {n} : loaded'[l] = loaded[l]
    BY <1>1, <1>7
  <2>3. \A r \in loaded[n] : r.pk = <<"instance", i>>
    BY <1>7 DEF LoadedInv, InstanceRows
  <2>4. ASSUME NEW m \in Calls, req[m].op \in {"save", "task"}
        PROVE  RowsOf(m, req[m]) \cap loaded'[n] \in {{}, RowsOf(m, req[m])}
    <3>1. RowsOf(m, req[m]) \cap loaded[n] = {}
      BY <2>3, RowsOfForm
    <3>2. RowsOf(m, req[m]) \cap loaded'[n] = RowsOf(m, req[m]) \cap VariableRows(committed, i)
      BY <2>1, <3>1
    <3>. QED
      BY <2>4, <3>2, WholeVariables
  <2>5. Whole(loaded'[n])
    BY <2>4 DEF Whole
  <2>6. loaded'[n] \subseteq loaded[n] \cup committed
    BY <2>1 DEF VariableRows
  <2>. QED
    BY <1>4, <1>7, <2>2, <2>5, <2>6
<1>8. CASE QuietStep(n)
  <2>1. CASE pc[n] = "selectInstance"
    BY <1>1, <1>5, <1>6, <1>8, <2>1 DEF QuietStep, Throw, Goto, TryBlock
  <2>2. CASE pc[n] = "selectVariables"
    BY <1>1, <1>5, <1>7, <1>8, <2>2 DEF QuietStep, Throw, Goto, TryBlock
  <2>3. CASE pc[n] \notin {"selectInstance", "selectVariables"}
    BY <1>1, <1>5, <1>8, <2>3 DEF QuietStep, Throw, Goto, TryBlock
  <2>. QED
    BY <2>1, <2>2, <2>3
<1>9. CASE ~QuietStep(n)
  <2>1. CASE WriteStep(n) \/ RefusedStep(n)
    BY <1>1, <1>5, <2>1
       DEF WriteStep, Writes, RefusedStep, Clears, Throw, Goto, NextInsert, TryBlock
  <2>2. CASE PublishStep(n)
    <3>1. PICK old, new : Publishes(n, old, new)
      BY <2>2 DEF PublishStep
    <3>. QED
      BY <1>5, <3>1 DEF Publishes
  <2>. QED
    BY <1>9, <2>1, <2>2 DEF CallStep
<1>. QED
  BY <1>8, <1>9

LEMMA LoadedInvNext ==
  SessionInv /\ FreshInv /\ StoredInv /\ LoadedInv /\ [Next]_vars => LoadedInv'
<1> SUFFICES ASSUME SessionInv, FreshInv, StoredInv, LoadedInv, [Next]_vars
             PROVE  LoadedInv'
  OBVIOUS
<1>1. ASSUME UNCHANGED <<req, pc, loaded>> PROVE LoadedInv'
  BY <1>1 DEF LoadedInv, Whole
<1>2. ASSUME NEW c \in Conns, LostStep(c) PROVE LoadedInv'
  BY <1>1, <1>2 DEF LostStep, Clears
<1>3. CASE UNCHANGED <<committed, ins, del, link, req, conn, pc, todo, loaded>>
  BY <1>1, <1>3
<1>. QED
  BY <1>2, <1>3, LoadedCall, LoadedStep, AllSteps

-----------------------------------------------------------------------------
(* All the layers together.                                                *)
StorageInv ==
  SessionInv /\ TodoInv /\ FreshInv /\ KeysInv /\ ContentInv /\ StoredInv /\ LoadedInv

LEMMA StorageInvInit == Serial /\ Init => StorageInv
<1> SUFFICES ASSUME Serial, Init PROVE StorageInv
  OBVIOUS
<1>1. /\ committed = {}
      /\ \A c \in Conns : ins[c] = {} /\ del[c] = {} /\ tx[c] = "idle" /\ link[c] = "up"
      /\ \A n \in Calls : pc[n] = "new" /\ loaded[n] = {}
  BY DEF Init, PgInit
<1>2. IdleInv
  <2>1. BrokenIsIdle /\ IdleOutsideTransaction
    BY <1>1 DEF BrokenIsIdle, IdleOutsideTransaction
  <2>. QED
    BY <2>1, TypeInvInit DEF IdleInv
<1>3. SessionInv
  BY <1>1, <1>2 DEF SessionInv, OneCaller, Running, Statements, TryBlock
<1>4. TodoInv /\ ContentInv
  BY <1>1 DEF TodoInv, ContentInv, TryBlock
<1>5. FreshInv
  BY <1>1 DEF FreshInv
<1>6. KeysInv
  BY <1>1 DEF KeysInv, UniqueKeys, Apart, Held
<1>7. Whole({})
  BY DEF Whole
<1>8. StoredInv
  BY <1>1, <1>7
     DEF StoredInv, RowOrigin, VariableOrigin, TaskIsAtomic, InstanceRows, VariableRows
<1>9. LoadedInv
  BY <1>1, <1>7 DEF LoadedInv
<1>. QED
  BY <1>3, <1>4, <1>5, <1>6, <1>8, <1>9 DEF StorageInv

LEMMA StorageInvNext == StorageInv /\ [Next]_vars => StorageInv'
  BY SessionInvNext, TodoInvNext, FreshInvNext, KeysInvNext, ContentInvNext, StoredInvNext,
     LoadedInvNext
     DEF StorageInv

LEMMA StorageInvAlways == Serial /\ Spec => []StorageInv
  BY StorageInvInit, StorageInvNext, PTL DEF Spec

-----------------------------------------------------------------------------
(* What callers may rely on, for any number of connections with one caller *)
(* at a time each.                                                         *)

(* saveProcessInstance is all or nothing: no state has the row of one save *)
(* and variables of another.                                               *)
THEOREM SavedWhole == Serial /\ Spec => []SaveIsAtomic
<1>1. StorageInv => SaveIsAtomic
  BY DEF StorageInv, StoredInv, RowOrigin, SaveIsAtomic
<1>. QED
  BY <1>1, StorageInvAlways, PTL

(* saveUserTask is all or nothing, too.                                    *)
THEOREM TaskWhole == Serial /\ Spec => []TaskIsAtomic
<1>1. StorageInv => TaskIsAtomic
  BY DEF StorageInv, StoredInv
<1>. QED
  BY <1>1, StorageInvAlways, PTL

(* A call that threw on a usable connection may be repeated: it has stored *)
(* nothing.                                                                *)
THEOREM FailedStoresNothing == Serial /\ Spec => []FailedCallStoresNothing
<1>1. StorageInv => FailedCallStoresNothing
  BY DEF StorageInv, FreshInv, FailedCallStoresNothing, Unpublished, Wrote
<1>. QED
  BY <1>1, StorageInvAlways, PTL

(* The two statements of a load never see part of a call.                  *)
THEOREM LoadsWhole == Serial /\ Spec => []LoadSeesWholeCalls
<1>1. StorageInv => LoadSeesWholeCalls
  BY DEF StorageInv, LoadedInv, Whole, LoadSeesWholeCalls
<1>. QED
  BY <1>1, StorageInvAlways, PTL

(* The statement that lets a call return has published all of it.          *)
LEMMA ReturnStep ==
  ASSUME StorageInv, NEW n \in Calls, Running(n), CallStep(n), pc'[n] = "returned"
  PROVE  Stored(n)'
<1> DEFINE i == req[n].inst
           rows == InstanceRows(committed, i)
<1>1. /\ req' = req /\ DOMAIN pc = Calls
      /\ req[n] \in Request /\ req[n].op \in OpsAt(pc[n])
  BY OthersStay, Types, RunningTyped DEF StorageInv, SessionInv, IdleInv
<1>2. CASE ~PublishStep(n)
  <2>1. pc[n] = "selectVariables"
    BY <1>1, <1>2
       DEF CallStep, QuietStep, WriteStep, RefusedStep, Throw, Goto, NextInsert
  <2>. QED
    BY <1>1, <2>1 DEF OpsAt, Stored
<1>3. CASE PublishStep(n) /\ pc[n] = "commit" /\ req[n].op = "save"
  <2>1. /\ VariablesReplaced(n) /\ committed' = (committed \ del[conn[n]]) \cup ins[conn[n]]
        /\ Done(n) = RowsOf(n, req[n])
    BY <1>3, CommitContent, DoneAll DEF StorageInv, TodoInv
  <2>2. RowsOf(n, req[n]) \subseteq committed' /\ Upserted(rows, i, n) \subseteq committed'
    BY <2>1 DEF VariablesReplaced
  <2>3. PICK r \in Upserted(rows, i, n) : r.pk = <<"instance", i>>
    BY RowForms
  <2>4. r.element = n /\ r.status = "RUNNING"
    BY <2>3, RowForms
  <2>5. r \in InstanceRows(committed', i)
    BY <2>2, <2>3 DEF InstanceRows
  <2>. QED
    BY <1>1, <1>3, <2>2, <2>4, <2>5 DEF Stored
<1>4. CASE PublishStep(n) /\ pc[n] = "commit" /\ req[n].op = "task"
  <2>1. /\ TaskAdded(n) /\ committed' = (committed \ del[conn[n]]) \cup ins[conn[n]]
        /\ Done(n) = RowsOf(n, req[n])
    BY <1>4, CommitContent, DoneAll DEF StorageInv, TodoInv
  <2>2. RowsOf(n, req[n]) \cup {TaskRow(i, req[n].task, n)} \subseteq committed'
    BY <2>1 DEF TaskAdded
  <2>. QED
    BY <1>1, <1>4, <2>2 DEF Stored
<1>5. CASE PublishStep(n) /\ pc[n] = "complete"
  <2>1. committed' = (committed \ rows) \cup Completed(rows, i)
    BY <1>5 DEF PublishStep, Publishes
  <2>2. \A r \in Completed(rows, i) : r.status = "COMPLETED"
    BY DEF Completed, InstanceRow
  <2>3. \A r \in InstanceRows(committed', i) : r.status = "COMPLETED"
    BY <2>1, <2>2 DEF InstanceRows
  <2>4. req[n].op = "complete"
    BY <1>1, <1>5 DEF OpsAt
  <2>. QED
    BY <1>1, <2>3, <2>4 DEF Stored
<1>6. CASE PublishStep(n) /\ pc[n] = "error"
  <2>1. ErrorRow(i, n) \in committed'
    BY <1>6 DEF PublishStep, Publishes
  <2>2. req[n].op = "error"
    BY <1>1, <1>6 DEF OpsAt
  <2>. QED
    BY <1>1, <2>1, <2>2 DEF Stored
<1>7. PublishStep(n) =>
        \/ pc[n] \in {"complete", "error"}
        \/ pc[n] = "commit" /\ req[n].op \in {"save", "task"}
  <2>1. PublishStep(n) => pc[n] \in {"commit", "complete", "error"}
    BY DEF PublishStep
  <2>2. PublishStep(n) /\ pc[n] = "commit" => req[n].op \in {"save", "task"}
    BY CommitContent DEF StorageInv
  <2>. QED
    BY <2>1, <2>2
<1>. QED
  BY <1>2, <1>3, <1>4, <1>5, <1>6, <1>7

(* No call returns normally before what it was asked to store is committed.*)
THEOREM ReturnedIsStored == Serial /\ Spec => ReturnMeansStored
<1> DEFINE Promise == \A n \in Calls : pc[n] # "returned" /\ pc'[n] = "returned" => Stored(n)'
<1>1. ASSUME StorageInv, [Next]_vars PROVE [Promise]_vars
  <2> SUFFICES ASSUME NEW n \in Calls, pc[n] # "returned", pc'[n] = "returned"
               PROVE  Stored(n)'
    OBVIOUS
  <2>0. SessionInv
    BY <1>1 DEF StorageInv
  <2>1. ASSUME NEW m \in Calls, NEW c \in Conns, NEW rq \in Request, Call(m, c, rq)
        PROVE  FALSE
    <3>1. pc'[n] = pc[n] \/ pc'[n] = FirstStatement(rq.op)
      BY <2>0, <2>1, Types DEF Call, Goto
    <3>. QED
      BY <3>1, RequestFields DEF FirstStatement
  <2>2. ASSUME NEW m \in Calls, Running(m), CallStep(m)
        PROVE  Stored(n)'
    <3>1. m = n
      BY <2>0, <2>2, OthersStay
    <3>. QED
      BY <1>1, <2>2, <3>1, ReturnStep
  <2>3. ASSUME NEW c \in Conns, LostStep(c) PROVE FALSE
    BY <2>3 DEF LostStep
  <2>. QED
    BY <1>1, <2>0, <2>1, <2>2, <2>3, AllSteps
<1>2. []StorageInv /\ [][Next]_vars => [][Promise]_vars
  BY <1>1, PTL
<1>. QED
  BY <1>2, StorageInvAlways, PTL DEF Spec, ReturnMeansStored

-----------------------------------------------------------------------------
(* What a save replaces, with the history of the calls (DatabaseHistory).  *)

(* A save that has sent its DELETE leaves no variable of an earlier call.  *)
Cleared(n) ==
  \A v \in VariableRows(committed, req[n].inst) \ del[conn[n]] : v.value \notin before[n]

ClearedInv ==
  \A n \in Calls :
    pc[n] \in {"insert", "commit"} /\ req[n].op = "save" /\ link[conn[n]] = "up"
      => Cleared(n)

EarlierEnded == \A n \in Calls : before[n] \subseteq Ended

HistoryInv == EarlierEnded /\ ClearedInv /\ SaveReplacesEarlierCalls

(* A call is made.                                                         *)
LEMMA HistoryCall ==
  ASSUME StorageInv, HistoryInv, HistoryNext,
         NEW n \in Calls, NEW c \in Conns, NEW rq \in Request, Call(n, c, rq)
  PROVE  HistoryInv'
<1>0. SessionInv /\ FreshInv
  BY DEF StorageInv
<1>1. /\ \A m \in Calls \ {n} :
           pc'[m] = pc[m] /\ req'[m] = req[m] /\ conn'[m] = conn[m]
      /\ pc[n] = "new" /\ pc'[n] = FirstStatement(rq.op)
      /\ UNCHANGED <<committed, ins, del, link>>
  BY <1>0, Types DEF Call, Goto, pgVars
<1>2. pc'[n] \notin {"insert", "commit"} \cup Finished
  BY <1>1, RequestFields DEF FirstStatement, Finished
<1>3. /\ Ended \subseteq Ended'
      /\ \A m \in Calls \ {n} : before'[m] = before[m]
      /\ before'[n] \subseteq Ended
  BY <1>1 DEF HistoryNext, Ended, Finished, HistoryInv, EarlierEnded
<1>4. EarlierEnded'
  BY <1>3 DEF HistoryInv, EarlierEnded
<1>5. ClearedInv'
  BY <1>1, <1>2, <1>3 DEF HistoryInv, ClearedInv, Cleared
<1>6. \A i \in Instances : \A r \in InstanceRows(committed, i) : r.element \in Calls \ {n}
  <2>1. Unpublished(n)
    BY <1>1 DEF Unpublished
  <2>2. \A r \in committed : ~Wrote(n, r)
    BY <1>0, <2>1 DEF FreshInv
  <2>. QED
    BY <1>0, <2>2, Types, KeyShapes DEF InstanceRows, Wrote
<1>7. SaveReplacesEarlierCalls'
  BY <1>1, <1>3, <1>6 DEF HistoryInv, SaveReplacesEarlierCalls
<1>. QED
  BY <1>4, <1>5, <1>7 DEF HistoryInv

(* A running call is not an earlier one, for anybody.                      *)
LEMMA HistoryStays ==
  ASSUME StorageInv, HistoryInv, HistoryNext, NEW n \in Calls, Running(n), CallStep(n)
  PROVE  /\ EarlierEnded'
         /\ \A m \in Calls : before'[m] = before[m] /\ n \notin before[m]
<1>1. \A m \in Calls \ {n} : pc'[m] = pc[m]
  BY OthersStay DEF StorageInv
<1>2. pc[n] # "new" /\ pc[n] \notin Finished
  BY DEF Running, Statements, TryBlock, Finished
<1>3. \A m \in Calls : before'[m] = before[m]
  BY <1>1, <1>2 DEF HistoryNext
<1>4. Ended \subseteq Ended' /\ n \notin Ended
  BY <1>1, <1>2 DEF Ended
<1>. QED
  BY <1>3, <1>4 DEF HistoryInv, EarlierEnded

(* The variables a statement publishes are of the call that sends it, and  *)
(* a row of an instance has the element of this call or one it had.        *)
LEMMA NewRows ==
  ASSUME StorageInv, NEW n \in Calls, Running(n), PublishStep(n), NEW j \in Instances
  PROVE  /\ \A v \in VariableRows(committed', j) \ committed : v.value = n
         /\ \A r \in InstanceRows(committed', j) \ committed :
              \/ pc[n] = "commit" /\ req[n].op = "save" /\ req[n].inst = j /\ r.element = n
              \/ pc[n] = "complete" /\ \E s \in InstanceRows(committed, j) : r.element = s.element
<1> DEFINE i == req[n].inst
           rows == InstanceRows(committed, i)
<1>0. SessionInv /\ ContentInv
  BY DEF StorageInv
<1>1. CASE pc[n] = "commit" /\ req[n].op = "save"
  <2>1. committed' \ committed \subseteq Upserted(rows, i, n) \cup Done(n)
    BY <1>0, <1>1, CommitContent DEF VariablesReplaced
  <2>2. /\ \A r \in Upserted(rows, i, n) : r.pk = <<"instance", i>> /\ r.element = n
        /\ \A r \in Done(n) : r.value = n /\ \E k : r.pk = <<"variable", i, k>>
    <3>1. \A r \in Upserted(rows, i, n) : r.pk = <<"instance", i>> /\ r.element = n
      BY RowForms
    <3>2. ASSUME NEW r \in Done(n)
          PROVE  r.value = n /\ \E k : r.pk = <<"variable", i, k>>
      <4>1. PICK k : r = VariableRow(i, k, n)
        BY RowForms
      <4>. QED
        BY <4>1 DEF VariableRow
    <3>. QED
      BY <3>1, <3>2
  <2>3. \A v \in VariableRows(committed', j) \ committed : v.value = n
    BY <2>1, <2>2 DEF VariableRows
  <2>4. ASSUME NEW r \in InstanceRows(committed', j) \ committed
        PROVE  i = j /\ r.element = n
    <3>1. r.pk = <<"instance", j>> /\ r \in committed' \ committed
      BY DEF InstanceRows
    <3>2. r \in Upserted(rows, i, n)
      BY <2>1, <2>2, <3>1
    <3>. QED
      BY <2>2, <3>1, <3>2
  <2>. QED
    BY <1>1, <2>3, <2>4
<1>2. CASE pc[n] = "commit" /\ req[n].op = "task"
  <2>1. committed' \ committed \subseteq {TaskRow(i, req[n].task, n)} \cup Done(n)
    BY <1>0, <1>2, CommitContent DEF TaskAdded
  <2>. QED
    BY <2>1, RowForms DEF VariableRows, InstanceRows, VariableRow, TaskRow
<1>3. CASE pc[n] = "complete"
  <2>1. committed' \ committed \subseteq Completed(rows, i)
    BY <1>3 DEF PublishStep, Publishes
  <2>2. \A r \in Completed(rows, i) :
          r.pk = <<"instance", i>> /\ \E s \in rows : r.element = s.element
    BY DEF Completed, InstanceRow
  <2>3. \A r \in InstanceRows(committed', j) \ committed :
          r \in Completed(rows, i) /\ r.pk = <<"instance", j>>
    BY <2>1 DEF InstanceRows
  <2>4. \A v \in VariableRows(committed', j) : v.pk # <<"instance", i>>
    BY DEF VariableRows
  <2>5. VariableRows(committed', j) \subseteq committed'
    BY DEF VariableRows
  <2>6. VariableRows(committed', j) \subseteq committed
    BY <2>1, <2>2, <2>4, <2>5
  <2>7. <<"instance", i>> = <<"instance", j>> => i = j
    OBVIOUS
  <2>. QED
    BY <1>3, <2>2, <2>3, <2>6, <2>7
<1>4. CASE pc[n] = "error"
  <2>1. committed' \ committed \subseteq {ErrorRow(i, n)}
    BY <1>4 DEF PublishStep, Publishes
  <2>. QED
    BY <2>1 DEF VariableRows, InstanceRows, ErrorRow
<1>. QED
  BY <1>0, <1>1, <1>2, <1>3, <1>4, CommitContent DEF PublishStep

(* After the DELETE of a save nothing of an earlier call is left, and no   *)
(* other call can bring it back.                                           *)
LEMMA ClearedStep ==
  ASSUME StorageInv, HistoryInv, HistoryNext, NEW n \in Calls, Running(n), CallStep(n)
  PROVE  ClearedInv'
<1>0. SessionInv
  BY DEF StorageInv
<1>1. /\ UNCHANGED <<req, conn>>
      /\ \A m \in Calls \ {n} : pc'[m] = pc[m]
      /\ \A d \in Conns \ {conn[n]} : del'[d] = del[d] /\ link'[d] = link[d]
  BY <1>0, OthersStay
<1>2. conn[n] \in Conns /\ DOMAIN pc = Calls /\ DOMAIN del = Conns
  BY <1>0, RunningSession, Types
<1>3. committed' = committed \/ PublishStep(n)
  BY DEF CallStep, QuietStep, WriteStep, Writes, RefusedStep, Clears
<1>4. ASSUME NEW m \in Calls \ {n},
             pc'[m] \in {"insert", "commit"}, req'[m].op = "save", link'[conn'[m]] = "up"
      PROVE  Cleared(m)'
  <2>1. Running(m)
    BY <1>1, <1>4 DEF Running, Statements, TryBlock
  <2>2. conn[m] \in Conns \ {conn[n]} /\ req[m].inst \in Instances
    <3>1. conn[m] \in Conns \ {conn[n]}
      BY <1>0, <2>1, RunningSession
    <3>2. req[m].inst \in Instances
      BY <1>0, <2>1, RunningTyped DEF SessionInv, IdleInv
    <3>. QED
      BY <3>1, <3>2
  <2>3. Cleared(m)
    BY <1>1, <1>4, <2>2 DEF HistoryInv, ClearedInv
  <2>4. \A v \in VariableRows(committed', req[m].inst) : v \in committed \/ v.value = n
    <3>1. CASE committed' = committed
      BY <3>1 DEF VariableRows
    <3>2. CASE PublishStep(n)
      BY <2>2, <3>2, NewRows
    <3>. QED
      BY <1>3, <3>1, <3>2
  <2>5. \A v \in VariableRows(committed', req[m].inst) :
          v \in committed => v \in VariableRows(committed, req[m].inst)
    BY DEF VariableRows
  <2>. QED
    BY <1>1, <2>2, <2>3, <2>4, <2>5, HistoryStays DEF Cleared
<1>5. ASSUME pc'[n] \in {"insert", "commit"}, req'[n].op = "save", link'[conn'[n]] = "up"
      PROVE  Cleared(n)'
  <2>1. WriteStep(n)
    BY <1>2, <1>5
       DEF CallStep, QuietStep, PublishStep, Publishes, RefusedStep, Throw, Goto
  <2>2. CASE pc[n] = "delete"
    <3>1. del'[conn[n]] = del[conn[n]] \cup (VariableRows(Own(n), req[n].inst) \cap committed)
      BY <1>2, <2>1, <2>2 DEF WriteStep, Writes
    <3>2. committed' = committed
      BY <2>1 DEF WriteStep, Writes
    <3>3. VariableRows(committed, req[n].inst) \subseteq del'[conn[n]]
      BY <3>1 DEF VariableRows, Own, Visible
    <3>. QED
      BY <1>1, <3>2, <3>3 DEF Cleared
  <2>3. CASE pc[n] = "insert"
    <3>1. del'[conn[n]] = del[conn[n]] /\ UNCHANGED <<committed, link>>
      BY <1>2, <2>1, <2>3 DEF WriteStep, Writes
    <3>2. Cleared(n)
      BY <1>1, <1>5, <2>3, <3>1 DEF HistoryInv, ClearedInv
    <3>. QED
      BY <1>1, <3>1, <3>2, HistoryStays DEF Cleared
  <2>4. pc[n] # "upsert"
    BY <1>2, <1>5, <2>1 DEF WriteStep, Goto
  <2>5. pc[n] # "task"
    <3>1. req[n].op \in OpsAt(pc[n])
      BY <1>0, RunningTyped DEF SessionInv, IdleInv
    <3>. QED
      BY <1>1, <1>5, <3>1 DEF OpsAt
  <2>. QED
    BY <2>1, <2>2, <2>3, <2>4, <2>5 DEF WriteStep
<1>. QED
  BY <1>4, <1>5 DEF ClearedInv

(* The statement that publishes a save publishes what it has cleared.      *)
LEMMA ReplacedStep ==
  ASSUME StorageInv, HistoryInv, HistoryNext, NEW n \in Calls, Running(n), CallStep(n)
  PROVE  SaveReplacesEarlierCalls'
<1>0. SessionInv /\ ContentInv
  BY DEF StorageInv
<1>0a. \A j \in Instances : \A s \in InstanceRows(committed', j) : s.element \in Calls
  <2>1. StorageInv'
    BY StorageInvNext DEF HistoryNext
  <2>2. committed' \subseteq Rows
    BY <2>1 DEF StorageInv, SessionInv, IdleInv, TypeInv, PgTypeOK
  <2>. QED
    BY <2>2, KeyShapes DEF InstanceRows
<1>1. CASE committed' = committed
  BY <1>0a, <1>1, HistoryStays DEF HistoryInv, SaveReplacesEarlierCalls
<1>2. CASE PublishStep(n)
  <2> SUFFICES ASSUME NEW i \in Instances, NEW r \in InstanceRows(committed', i),
                      NEW v \in VariableRows(committed', i)
               PROVE  v.value \notin before[r.element]
    BY <1>0a, HistoryStays DEF SaveReplacesEarlierCalls
  <2>1. CASE v \notin committed
    <3>1. v.value = n
      BY <1>2, <2>1, NewRows
    <3>. QED
      BY <1>0a, <3>1, HistoryStays
  <2>2. v \in committed => v \in VariableRows(committed, i)
    BY DEF VariableRows
  <2>3. CASE v \in committed /\ r \in committed
    <3>1. r \in InstanceRows(committed, i)
      BY <2>3 DEF InstanceRows
    <3>. QED
      BY <2>2, <2>3, <3>1 DEF HistoryInv, SaveReplacesEarlierCalls
  <2>4. CASE v \in committed /\ r \notin committed
    <3>1. CASE pc[n] = "commit" /\ req[n].op = "save" /\ req[n].inst = i /\ r.element = n
      <4>1. link[conn[n]] = "up" /\ VariablesReplaced(n)
        BY <1>0, <1>2, <3>1, CommitContent
      <4>2. Cleared(n)
        BY <3>1, <4>1 DEF HistoryInv, ClearedInv
      <4>3. CASE v \in del[conn[n]]
        <5>1. v \in Upserted(InstanceRows(committed, i), i, n) \cup Done(n)
          BY <1>0, <1>2, <3>1, <4>1, <4>3, CommitContent DEF VariablesReplaced, VariableRows
        <5>2. v \notin Upserted(InstanceRows(committed, i), i, n)
          <6>1. \A u \in Upserted(InstanceRows(committed, i), i, n) :
                  u.pk = <<"instance", i>>
            BY <3>1, RowForms
          <6>2. v.pk # <<"instance", i>>
            BY DEF VariableRows
          <6>. QED
            BY <6>1, <6>2
        <5>3. PICK k : v = VariableRow(i, k, n)
          BY <3>1, <5>1, <5>2, RowForms
        <5>4. v.value = n
          BY <5>3 DEF VariableRow
        <5>. QED
          BY <3>1, <5>4, HistoryStays
      <4>4. CASE v \notin del[conn[n]]
        BY <2>2, <2>4, <3>1, <4>2, <4>4 DEF Cleared
      <4>. QED
        BY <4>3, <4>4
    <3>2. CASE \E s \in InstanceRows(committed, i) : r.element = s.element
      BY <2>2, <2>4, <3>2 DEF HistoryInv, SaveReplacesEarlierCalls
    <3>. QED
      BY <1>2, <2>4, <3>1, <3>2, NewRows
  <2>. QED
    BY <2>1, <2>3, <2>4
<1>3. committed' = committed \/ PublishStep(n)
  BY DEF CallStep, QuietStep, WriteStep, Writes, RefusedStep, Clears
<1>. QED
  BY <1>1, <1>2, <1>3

(* A save replaces every variable that was stored when it was called: what *)
(* it may miss is of user tasks that run at the same time.                 *)
THEOREM SavesReplace == Serial /\ HistorySpec => []SaveReplacesEarlierCalls
<1>1. Serial /\ HistoryInit => StorageInv /\ HistoryInv
  <2> SUFFICES ASSUME Serial, HistoryInit PROVE StorageInv /\ HistoryInv
    OBVIOUS
  <2>1. StorageInv
    BY StorageInvInit DEF HistoryInit
  <2>2. committed = {} /\ \A n \in Calls : pc[n] = "new" /\ before[n] = {}
    BY DEF HistoryInit, Init, PgInit
  <2>. QED
    BY <2>1, <2>2
       DEF HistoryInv, EarlierEnded, ClearedInv, SaveReplacesEarlierCalls, InstanceRows
<1>2. ASSUME StorageInv, HistoryInv, [HistoryNext]_historyVars
      PROVE  StorageInv' /\ HistoryInv'
  <2>1. [Next]_vars
    BY <1>2 DEF HistoryNext, historyVars
  <2>2. StorageInv'
    BY <1>2, <2>1, StorageInvNext
  <2>3. ASSUME UNCHANGED <<committed, del, link, req, conn, pc>>, UNCHANGED before
        PROVE  HistoryInv'
    BY <1>2, <2>3
       DEF HistoryInv, EarlierEnded, ClearedInv, Cleared, SaveReplacesEarlierCalls, Ended
  <2>4. ASSUME UNCHANGED historyVars PROVE HistoryInv'
    BY <2>3, <2>4 DEF historyVars, vars, pgVars
  <2>5. ASSUME HistoryNext PROVE HistoryInv'
    <3>1. ASSUME NEW n \in Calls, Running(n), CallStep(n) PROVE HistoryInv'
      BY <1>2, <2>5, <3>1, HistoryStays, ClearedStep, ReplacedStep DEF HistoryInv
    <3>2. ASSUME pc' = pc PROVE \A n \in Calls : before'[n] = before[n]
      BY <2>5, <3>2 DEF HistoryNext
    <3>3. ASSUME NEW c \in Conns, LostStep(c) PROVE HistoryInv'
      <4>1. /\ UNCHANGED <<committed, req, conn, pc>>
            /\ \A d \in Conns : link'[d] = "up" => link[d] = "up" /\ del'[d] = del[d]
        BY <1>2, <3>3, Types DEF LostStep, Clears, StorageInv
      <4>2. \A n \in Calls : pc[n] \in {"insert", "commit"} => conn[n] \in Conns
        BY <1>2, Types DEF StorageInv
      <4>3. \A i \in Instances : \A r \in InstanceRows(committed, i) : r.element \in Calls
        BY <1>2, Types, KeyShapes DEF InstanceRows, StorageInv
      <4>. QED
        BY <1>2, <3>2, <4>1, <4>2, <4>3
           DEF HistoryInv, EarlierEnded, ClearedInv, Cleared, SaveReplacesEarlierCalls, Ended
    <3>4. ASSUME UNCHANGED <<committed, ins, del, link, req, conn, pc, todo, loaded>>
          PROVE  HistoryInv'
      <4>1. \A i \in Instances : \A r \in InstanceRows(committed, i) : r.element \in Calls
        BY <1>2, Types, KeyShapes DEF InstanceRows, StorageInv
      <4>. QED
        BY <1>2, <3>2, <3>4, <4>1
           DEF HistoryInv, EarlierEnded, ClearedInv, Cleared, SaveReplacesEarlierCalls, Ended
    <3>. QED
      BY <1>2, <2>1, <2>5, <3>1, <3>3, <3>4, HistoryCall, AllSteps DEF StorageInv
  <2>. QED
    BY <1>2, <2>2, <2>4, <2>5
<1>3. HistoryInv => SaveReplacesEarlierCalls
  BY DEF HistoryInv
<1>. QED
  BY <1>1, <1>2, <1>3, PTL DEF HistorySpec

-----------------------------------------------------------------------------
(* Database implements InstanceStore.                                      *)

(* How far call n has come, for its caller.                                *)
Phase(n) ==
  CASE pc[n] \in {"rollback", "threw"} -> "threw"
    [] pc[n] = "selectVariables"       -> "found"
    [] pc[n] \in {"new", "returned"}   -> pc[n]
    [] OTHER                           -> "open"

Phases == [n \in Calls |-> Phase(n)]

(* The schema of the abstract store is the schema of the database.         *)
LEMMA SameSchema ==
  /\ Store!Request = Request /\ Store!NoRequest = NoRequest
  /\ \A S, i : Store!InstanceRows(S, i) = InstanceRows(S, i)
  /\ \A S, i : Store!VariableRows(S, i) = VariableRows(S, i)
  /\ \A rq, k : Store!KeyFor(rq, k) = KeyFor(rq, k)
  /\ \A f : Store!Range(f) = Range(f)
  /\ \A n, rq : Store!RowsOf(n, rq) = RowsOf(n, rq)
  /\ \A old, i, n : Store!Upserted(old, i, n) = Upserted(old, i, n)
  /\ \A old, i : Store!Completed(old, i) = Completed(old, i)
  /\ \A i, t, n : Store!TaskRow(i, t, n) = TaskRow(i, t, n)
  /\ \A i, n : Store!ErrorRow(i, n) = ErrorRow(i, n)
<1>1. Store!Request = Request /\ Store!NoRequest = NoRequest
  BY DEF Store!Request, Request, Store!NoRequest, NoRequest
<1>2. /\ \A S, i : Store!InstanceRows(S, i) = InstanceRows(S, i)
      /\ \A S, i : Store!VariableRows(S, i) = VariableRows(S, i)
  BY DEF Store!InstanceRows, InstanceRows, Store!VariableRows, VariableRows
<1>3. /\ \A rq, k : Store!KeyFor(rq, k) = KeyFor(rq, k)
      /\ \A f : Store!Range(f) = Range(f)
      /\ \A i, k, n : Store!VariableRow(i, k, n) = VariableRow(i, k, n)
      /\ \A i, p, e, s : Store!InstanceRow(i, p, e, s) = InstanceRow(i, p, e, s)
  BY DEF Store!KeyFor, KeyFor, Store!Range, Range, Store!VariableRow, VariableRow,
         Store!InstanceRow, InstanceRow
<1>4. \A n, rq : Store!RowsOf(n, rq) = RowsOf(n, rq)
  BY <1>3 DEF Store!RowsOf, RowsOf
<1>5. /\ \A old, i, n : Store!Upserted(old, i, n) = Upserted(old, i, n)
      /\ \A old, i : Store!Completed(old, i) = Completed(old, i)
  BY <1>3 DEF Store!Upserted, Upserted, Store!Completed, Completed
<1>6. /\ \A i, t, n : Store!TaskRow(i, t, n) = TaskRow(i, t, n)
      /\ \A i, n : Store!ErrorRow(i, n) = ErrorRow(i, n)
  BY DEF Store!TaskRow, TaskRow, Store!ErrorRow, ErrorRow
<1>. QED
  BY <1>1, <1>2, <1>3, <1>4, <1>5, <1>6

(* The abstract actions, over the phases.                                  *)
LEMMA StoreActions ==
  ASSUME NEW n \in Calls
  PROVE  /\ \A rq : Phases[n] = "new" /\ req' = [req EXCEPT ![n] = rq]
                    /\ Phases' = [Phases EXCEPT ![n] = "open"]
                    /\ UNCHANGED <<committed, loaded>>
                    => Store!Invoke(n, rq)
         /\ Phases[n] \in {"open", "found"} /\ Phases' = [Phases EXCEPT ![n] = "threw"]
              /\ UNCHANGED <<committed, req, loaded>>
              => Store!Refuse(n)
         /\ Phases[n] = "found" /\ Phases' = [Phases EXCEPT ![n] = "returned"]
              /\ loaded' = [loaded EXCEPT ![n] = @ \cup VariableRows(committed, req[n].inst)]
              /\ UNCHANGED <<committed, req>>
              => Store!ReadVariables(n)
         /\ Phases[n] = "open"
              /\ (\/ req[n].op = "save" /\ Store!SaveEffect(n)
                  \/ req[n].op = "task" /\ Store!TaskEffect(n)
                  \/ req[n].op = "complete" /\ Store!CompleteEffect(n)
                  \/ req[n].op = "error" /\ Store!ErrorEffect(n))
              /\ (\E outcome \in {"returned", "threw"} :
                    Phases' = [Phases EXCEPT ![n] = outcome])
              /\ UNCHANGED <<req, loaded>>
              => Store!Write(n)
<1>1. \A rq : Phases[n] = "new" /\ req' = [req EXCEPT ![n] = rq]
                    /\ Phases' = [Phases EXCEPT ![n] = "open"]
                    /\ UNCHANGED <<committed, loaded>>
                    => Store!Invoke(n, rq)
  BY DEF Store!Invoke, Phases, Phase
<1>2. Phases[n] \in {"open", "found"} /\ Phases' = [Phases EXCEPT ![n] = "threw"]
              /\ UNCHANGED <<committed, req, loaded>>
              => Store!Refuse(n)
  BY DEF Store!Refuse, Phases, Phase
<1>3. Phases[n] = "found" /\ Phases' = [Phases EXCEPT ![n] = "returned"]
              /\ loaded' = [loaded EXCEPT ![n] = @ \cup VariableRows(committed, req[n].inst)]
              /\ UNCHANGED <<committed, req>>
              => Store!ReadVariables(n)
  BY SameSchema DEF Store!ReadVariables, Phases, Phase
<1>4. Phases[n] = "open"
              /\ (\/ req[n].op = "save" /\ Store!SaveEffect(n)
                  \/ req[n].op = "task" /\ Store!TaskEffect(n)
                  \/ req[n].op = "complete" /\ Store!CompleteEffect(n)
                  \/ req[n].op = "error" /\ Store!ErrorEffect(n))
              /\ (\E outcome \in {"returned", "threw"} :
                    Phases' = [Phases EXCEPT ![n] = outcome])
              /\ UNCHANGED <<req, loaded>>
              => Store!Write(n)
  BY DEF Store!Write, Phases, Phase
<1>. QED
  BY <1>1, <1>2, <1>3, <1>4

(* A step of call n is a step of n in the store, too.                      *)
LEMMA PhaseStep ==
  ASSUME NEW n \in Calls, \A m \in Calls \ {n} : pc'[m] = pc[m]
  PROVE  /\ Phases[n] = Phase(n)
         /\ Phases' = [Phases EXCEPT ![n] = Phase(n)']
         /\ Phase(n)' = Phase(n) => Phases' = Phases
<1>1. \A m \in Calls \ {n} : Phase(m)' = Phase(m)
  BY DEF Phase
<1>. QED
  BY <1>1 DEF Phases

(* COMMIT of a save: the variables it has not deleted are kept.            *)
LEMMA SaveTakesEffect ==
  ASSUME StorageInv, NEW n \in Calls, Running(n), PublishStep(n), pc[n] = "commit",
         req[n].op = "save"
  PROVE  Store!SaveEffect(n)
<1> DEFINE i == req[n].inst
           gone == del[conn[n]]
           new == RowsOf(n, req[n])
           rows == InstanceRows(committed, i)
           variables == VariableRows(committed, i)
           row == Upserted(rows, i, n)
           kept == variables \ gone
<1>1. /\ VariablesReplaced(n) /\ committed' = (committed \ gone) \cup ins[conn[n]]
      /\ Done(n) = new
  BY CommitContent, DoneAll DEF StorageInv, TodoInv
<1>2. /\ committed' = (committed \ gone) \cup row \cup new
      /\ gone = rows \cup (variables \ kept)
      /\ new \subseteq ins[conn[n]]
  BY <1>1 DEF VariablesReplaced
<1>3. \A v \in kept : req[v.value].op = "task" /\ \A w \in new : v.pk # w.pk
  <2>1. conn[n] \in Conns
    BY RunningSession DEF StorageInv
  <2>2. Apart(committed \ gone, ins[conn[n]])
    BY <2>1 DEF StorageInv, KeysInv
  <2>3. kept \subseteq committed \ gone
    BY DEF VariableRows
  <2>. QED
    BY <1>1, <1>2, <2>2, <2>3 DEF VariablesReplaced, Apart
<1>4. committed' = (committed \ (rows \cup (variables \ kept))) \cup row \cup new
  BY <1>2
<1> DEFINE concurrent == {v \in variables : req[v.value].op = "task"}
           keep == {v \in concurrent : \A w \in new : v.pk # w.pk}
<1>5. kept \in SUBSET keep
  BY <1>3
<1>6. Store!SaveEffect(n) <=>
        \E k \in SUBSET keep :
          committed' = (committed \ (rows \cup (variables \ k))) \cup row \cup new
  BY SameSchema DEF Store!SaveEffect
<1> HIDE DEF kept, keep
<1>. QED
  BY <1>4, <1>5, <1>6

(* COMMIT of a user task.                                                  *)
LEMMA TaskTakesEffect ==
  ASSUME StorageInv, NEW n \in Calls, Running(n), PublishStep(n), pc[n] = "commit",
         req[n].op = "task"
  PROVE  Store!TaskEffect(n)
<1> DEFINE i == req[n].inst
           new == RowsOf(n, req[n])
           task == TaskRow(i, req[n].task, n)
<1>1. /\ InstanceRows(committed, i) # {}
      /\ ins[conn[n]] = {task} \cup new /\ del[conn[n]] = {}
      /\ committed' = committed \cup ({task} \cup new)
      /\ conn[n] \in Conns /\ ins[conn[n]] \subseteq Rows
  <2>1. /\ TaskAdded(n) /\ committed' = (committed \ del[conn[n]]) \cup ins[conn[n]]
        /\ Done(n) = new
    BY CommitContent, DoneAll DEF StorageInv, TodoInv
  <2>2. conn[n] \in Conns
    BY RunningSession DEF StorageInv
  <2>3. ins[conn[n]] \subseteq Rows
    BY <2>2, Types DEF StorageInv
  <2>. QED
    BY <2>1, <2>2, <2>3 DEF TaskAdded
<1>2. \A k \in Range(req[n].vars) : KeyFor(req[n], k) # TooLong
  <2> SUFFICES ASSUME NEW k \in Range(req[n].vars) PROVE KeyFor(req[n], k) # TooLong
    OBVIOUS
  <2> DEFINE v == VariableRow(i, KeyFor(req[n], k), n)
  <2>1. v \in Rows
    BY <1>1 DEF RowsOf
  <2>2. v.pk = <<"variable", i, KeyFor(req[n], k)>>
    BY DEF VariableRow
  <2> HIDE DEF v
  <2>3. KeyFor(req[n], k) \in Names
    BY <2>1, <2>2, KeyShapes
  <2>. QED
    BY <2>3, TooLongAssumption
<1>3. \A v \in committed, w \in new : v.pk # w.pk
  <2>1. Apart(committed \ {}, {task} \cup new)
    BY <1>1 DEF StorageInv, KeysInv
  <2>. QED
    BY <2>1 DEF Apart
<1>4. Store!TaskEffect(n) <=>
        /\ InstanceRows(committed, i) # {}
        /\ \A k \in Range(req[n].vars) : KeyFor(req[n], k) # TooLong
        /\ \A v \in committed, w \in new : v.pk # w.pk
        /\ committed' = committed \cup new \cup {task}
  BY SameSchema DEF Store!TaskEffect
<1>5. committed' = committed \cup new \cup {task}
  BY <1>1
<1> HIDE DEF new, task
<1>. QED
  BY <1>1, <1>2, <1>3, <1>4, <1>5

LEMMA WriteTakesEffect ==
  ASSUME StorageInv, NEW n \in Calls, Running(n), PublishStep(n)
  PROVE  Store!Write(n)
<1>1. PICK old, new : Publishes(n, old, new)
  BY DEF PublishStep
<1>2. /\ \A m \in Calls \ {n} : pc'[m] = pc[m]
      /\ UNCHANGED <<req, loaded>> /\ pc'[n] \in {"returned", "rollback", "threw"}
      /\ pc[n] \in {"commit", "complete", "error"}
      /\ req[n].op \in OpsAt(pc[n])
  <2>1. \A m \in Calls \ {n} : pc'[m] = pc[m]
    BY OthersStay DEF CallStep, StorageInv
  <2>2. req[n].op \in OpsAt(pc[n])
    BY RunningTyped DEF StorageInv, SessionInv, IdleInv
  <2>3. pc[n] \in {"commit", "complete", "error"}
    BY DEF PublishStep
  <2>. QED
    BY <1>1, <2>1, <2>2, <2>3 DEF Publishes
<1>3. Phases[n] = "open" /\ \E outcome \in {"returned", "threw"} :
                             Phases' = [Phases EXCEPT ![n] = outcome]
  <2>1. Phase(n) = "open" /\ Phase(n)' \in {"returned", "threw"}
    BY <1>2 DEF Phase
  <2>. QED
    BY <1>2, <2>1, PhaseStep
<1>4. \/ req[n].op = "save" /\ Store!SaveEffect(n)
      \/ req[n].op = "task" /\ Store!TaskEffect(n)
      \/ req[n].op = "complete" /\ Store!CompleteEffect(n)
      \/ req[n].op = "error" /\ Store!ErrorEffect(n)
  <2>1. CASE pc[n] = "commit"
    BY <1>2, <2>1, SaveTakesEffect, TaskTakesEffect DEF OpsAt
  <2>2. CASE pc[n] = "complete"
    <3>1. Store!CompleteEffect(n)
      BY <2>2, SameSchema DEF Store!CompleteEffect, PublishStep, Publishes
    <3>. QED
      BY <1>2, <2>2, <3>1 DEF OpsAt
  <2>3. CASE pc[n] = "error"
    <3>1. Store!ErrorEffect(n)
      BY <2>3, SameSchema DEF Store!ErrorEffect, PublishStep, Publishes
    <3>. QED
      BY <1>2, <2>3, <3>1 DEF OpsAt
  <2>. QED
    BY <1>2, <2>1, <2>2, <2>3
<1>. QED
  BY <1>2, <1>3, <1>4, StoreActions

(* A refused call has thrown, for its caller, before the ROLLBACK.         *)
LEMMA ThrowRefuses ==
  ASSUME StorageInv, NEW n \in Calls, Running(n), CallStep(n), Throw(n),
         UNCHANGED <<committed, req, loaded>>
  PROVE  Store!Refuse(n) \/ UNCHANGED <<committed, req, Phases, loaded>>
<1>1. DOMAIN pc = Calls /\ \A m \in Calls \ {n} : pc'[m] = pc[m]
  BY OthersStay, Types DEF StorageInv
<1>2. Phase(n)' = "threw"
  BY <1>1 DEF Phase, Throw, Goto
<1>3. Phase(n) \in {"open", "found", "threw"}
  BY DEF Phase, Running, Statements, TryBlock
<1>4. CASE Phase(n) = "threw"
  BY <1>1, <1>2, <1>4, PhaseStep
<1>5. CASE Phase(n) \in {"open", "found"}
  <2>1. Phases[n] \in {"open", "found"} /\ Phases' = [Phases EXCEPT ![n] = "threw"]
    BY <1>1, <1>2, <1>5, PhaseStep
  <2>. QED
    BY <2>1, StoreActions
<1>. QED
  BY <1>3, <1>4, <1>5

LEMMA StoreStep ==
  ASSUME StorageInv, NEW n \in Calls, Running(n), CallStep(n)
  PROVE  Store!StoreStep(n) \/ UNCHANGED <<committed, req, Phases, loaded>>
<1> DEFINE i == req[n].inst
           found == {r \in InstanceRows(committed, i) : r.status = "RUNNING"}
<1>1. /\ DOMAIN pc = Calls /\ DOMAIN loaded = Calls
      /\ \A m \in Calls \ {n} : pc'[m] = pc[m]
      /\ req[n].op \in OpsAt(pc[n])
  BY OthersStay, Types, RunningTyped DEF StorageInv, SessionInv, IdleInv
<1>2. CASE PublishStep(n)
  BY <1>2, WriteTakesEffect DEF Store!StoreStep
<1>3. CASE WriteStep(n)
  <2>1. Phase(n)' = "open" /\ Phase(n) = "open"
    BY <1>1, <1>3 DEF WriteStep, Goto, NextInsert, Phase
  <2>. QED
    BY <1>1, <1>3, <2>1, PhaseStep DEF WriteStep, Writes
<1>4. CASE Throw(n) /\ UNCHANGED <<committed, req, loaded>>
  BY <1>4, ThrowRefuses DEF Store!StoreStep
<1>5. CASE RefusedStep(n)
  BY <1>4, <1>5 DEF RefusedStep, Clears
<1>6. CASE QuietStep(n)
  <2>1. CASE pc[n] = "begin" /\ UNCHANGED loaded /\ pc'[n] \in {"upsert", "task"}
    <3>1. Phase(n)' = "open" /\ Phase(n) = "open"
      BY <2>1 DEF Phase
    <3>. QED
      BY <1>1, <1>6, <2>1, <3>1, PhaseStep DEF QuietStep
  <2>2. CASE /\ pc[n] = "selectInstance" /\ loaded' = [loaded EXCEPT ![n] = found]
             /\ Goto(n, IF found = {} THEN "threw" ELSE "selectVariables")
    <3>1. Phase(n) = "open" /\ Phase(n)' = IF found = {} THEN "threw" ELSE "found"
      BY <1>1, <2>2 DEF Phase, Goto
    <3>2. /\ Phases[n] = "open"
          /\ Phases' = [Phases EXCEPT ![n] = IF found = {} THEN "threw" ELSE "found"]
      BY <1>1, <3>1, PhaseStep
    <3>3. req[n].op = "load" /\ UNCHANGED <<committed, req>>
      BY <1>1, <1>6, <2>2 DEF OpsAt, QuietStep
    <3>4. Store!ReadInstance(n)
      BY <2>2, <3>2, <3>3, SameSchema DEF Store!ReadInstance, Phases, Phase
    <3>. QED
      BY <3>4 DEF Store!StoreStep
  <2>3. CASE /\ pc[n] = "selectVariables" /\ Goto(n, "returned")
             /\ loaded' = [loaded EXCEPT ![n] = @ \cup VariableRows(committed, i)]
    <3>1. Phase(n) = "found" /\ Phase(n)' = "returned"
      BY <1>1, <2>3 DEF Phase, Goto
    <3>2. Phases[n] = "found" /\ Phases' = [Phases EXCEPT ![n] = "returned"]
      BY <1>1, <3>1, PhaseStep
    <3>3. Store!ReadVariables(n)
      BY <1>6, <2>3, <3>2, StoreActions DEF QuietStep
    <3>. QED
      BY <3>3 DEF Store!StoreStep
  <2>4. CASE pc[n] = "rollback" /\ Goto(n, "threw") /\ UNCHANGED loaded
    <3>1. Phase(n) = "threw" /\ Phase(n)' = "threw"
      BY <1>1, <2>4 DEF Phase, Goto
    <3>. QED
      BY <1>1, <1>6, <2>4, <3>1, PhaseStep DEF QuietStep
  <2>5. UNCHANGED <<committed, req>>
    BY <1>6 DEF QuietStep
  <2>. QED
    BY <1>1, <1>4, <1>6, <2>1, <2>2, <2>3, <2>4, <2>5 DEF QuietStep, Goto
<1>. QED
  BY <1>2, <1>3, <1>5, <1>6 DEF CallStep

(* Every step of the database is a step of the store, or none.             *)
LEMMA StoreNextStep ==
  ASSUME StorageInv, [Next]_vars
  PROVE  Store!StoreNext \/ UNCHANGED <<committed, req, Phases, loaded>>
<1>1. ASSUME NEW n \in Calls, NEW c \in Conns, NEW rq \in Request, Call(n, c, rq)
      PROVE  Store!StoreNext
  <2>1. /\ \A m \in Calls \ {n} : pc'[m] = pc[m]
        /\ pc[n] = "new" /\ pc'[n] \in {"begin", "selectInstance", "complete", "error"}
    BY <1>1, Types, RequestFields DEF Call, Goto, FirstStatement, StorageInv
  <2>2. Phase(n) = "new" /\ Phase(n)' = "open"
    BY <2>1 DEF Phase
  <2>3. Phases[n] = "new" /\ Phases' = [Phases EXCEPT ![n] = "open"]
    BY <2>1, <2>2, PhaseStep
  <2>4. Store!Invoke(n, rq)
    BY <1>1, <2>3, StoreActions DEF Call, pgVars
  <2>. QED
    BY <2>4, SameSchema DEF Store!StoreNext
<1>2. ASSUME NEW n \in Calls, Running(n), CallStep(n)
      PROVE  Store!StoreNext \/ UNCHANGED <<committed, req, Phases, loaded>>
  BY <1>2, StoreStep DEF Store!StoreNext
<1>3. ASSUME UNCHANGED <<committed, req, pc, loaded>>
      PROVE  UNCHANGED <<committed, req, Phases, loaded>>
  BY <1>3 DEF Phases, Phase
<1>4. ASSUME NEW c \in Conns, LostStep(c)
      PROVE  UNCHANGED <<committed, req, Phases, loaded>>
  BY <1>3, <1>4 DEF LostStep, Clears
<1>5. CASE UNCHANGED <<committed, ins, del, link, req, conn, pc, todo, loaded>>
  BY <1>3, <1>5
<1>. QED
  BY <1>1, <1>2, <1>4, <1>5, AllSteps DEF StorageInv

(* Database promises what InstanceStore states: every write takes effect   *)
(* once and as a whole, or not at all, and only an exception leaves open   *)
(* which.                                                                  *)
THEOREM StoreRefinement == Serial /\ Spec => ImplementsStore
<1>1. Init => Store!StoreInit
  <2> SUFFICES ASSUME Init PROVE Store!StoreInit
    OBVIOUS
  <2>1. committed = {} /\ req = [n \in Calls |-> NoRequest] /\ loaded = [n \in Calls |-> {}]
    BY DEF Init, PgInit
  <2>2. \A n \in Calls : Phase(n) = "new"
    BY DEF Init, Phase
  <2>3. Phases = [n \in Calls |-> "new"]
    BY <2>2 DEF Phases
  <2>. QED
    BY <2>1, <2>3, SameSchema DEF Store!StoreInit, Phases, Phase
<1>2. StorageInv /\ [Next]_vars => [Store!StoreNext]_(Store!storeVars)
  <2> SUFFICES ASSUME StorageInv, [Next]_vars, ~Store!StoreNext
               PROVE  UNCHANGED (Store!storeVars)
    OBVIOUS
  <2>1. UNCHANGED <<committed, req, Phases, loaded>>
    BY StoreNextStep
  <2>. QED
    BY <2>1 DEF Store!storeVars, Phases, Phase
<1>. QED
  BY <1>1, <1>2, StorageInvAlways, PTL DEF Spec, ImplementsStore, Store!StoreSpec
=============================================================================
