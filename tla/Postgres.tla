------------------------------ MODULE Postgres ------------------------------
(***************************************************************************)
(* The PostgreSQL server and the libpq connections, as db::Database uses   *)
(* them.  Neither is part of this repository: the module is external and   *)
(* keeps only what the callers can tell apart.                             *)
(*                                                                         *)
(* A table row is a record whose field pk holds its table and the value of *)
(* its unique key.  committed is what every new statement may read; a      *)
(* transaction keeps the rows it has deleted and inserted to itself until  *)
(* it ends (READ COMMITTED, the server's default, which nothing in the     *)
(* repository changes).  Two sessions never hold uncommitted versions of   *)
(* the same unique key: the second one waits.                              *)
(***************************************************************************)

CONSTANT Conns           \* the connections (PGconn objects) of the clients

VARIABLES
  committed,             \* the rows every session can see
  ins,                   \* ins[c]: rows inserted by the open transaction of c
  del,                   \* del[c]: committed rows deleted by it
  tx,                    \* tx[c]: is c in a transaction block, has it failed
  link                   \* link[c]: is the connection usable

pgVars == <<committed, ins, del, tx, link>>

TxStates == {"idle", "open", "failed"}

(* Nothing in the repository resets a broken connection.                   *)
LinkStates == {"up", "broken"}

PgInit ==
  /\ committed = {}
  /\ ins = [c \in Conns |-> {}]
  /\ del = [c \in Conns |-> {}]
  /\ tx = [c \in Conns |-> "idle"]
  /\ link = [c \in Conns |-> "up"]

-----------------------------------------------------------------------------
(* What the statements of session c read.  A session sees its own          *)
(* uncommitted rows.                                                       *)
Visible(c) == (committed \ del[c]) \cup ins[c]

(* The sessions that hold uncommitted versions of rows with these keys: a  *)
(* statement of c that writes one of them waits until they have ended.     *)
Holders(c, keys) ==
  {d \in Conns \ {c} : \E r \in ins[d] \cup del[d] : r.pk \in keys}

(* A statement other than COMMIT and ROLLBACK is refused in a failed       *)
(* transaction block.                                                      *)
CanRun(c) == link[c] = "up" /\ tx[c] # "failed"

(* The successful statement that replaces the visible rows old by new:     *)
(* part of the open transaction of c, else committed at once.  Whether the *)
(* reply arrives (link) is left to the caller, as for COMMIT.              *)
Change(c, old, new) ==
  /\ CanRun(c)
  /\ IF tx[c] = "open"
     THEN /\ ins' = [ins EXCEPT ![c] = (@ \ old) \cup new]
          /\ del' = [del EXCEPT ![c] = @ \cup (old \cap committed)]
          /\ UNCHANGED committed
     ELSE /\ committed' = (committed \ old) \cup new
          /\ UNCHANGED <<ins, del>>
  /\ UNCHANGED tx

(* BEGIN; inside a transaction block it is only a warning.                 *)
Begin(c) ==
  /\ CanRun(c)
  /\ tx' = [tx EXCEPT ![c] = "open"]
  /\ UNCHANGED <<committed, ins, del, link>>

(* The transaction of c ends and its uncommitted rows are forgotten.       *)
Discard(c) ==
  /\ ins' = [ins EXCEPT ![c] = {}]
  /\ del' = [del EXCEPT ![c] = {}]
  /\ tx' = [tx EXCEPT ![c] = "idle"]

(* COMMIT answers PGRES_COMMAND_OK in every state of the session: in a     *)
(* failed block there is nothing left to publish, outside a block it is    *)
(* only a warning.  Whether the reply arrives is left to the caller.       *)
Commit(c) ==
  /\ link[c] = "up"
  /\ committed' = (committed \ del[c]) \cup ins[c]
  /\ Discard(c)

Rollback(c) ==
  /\ link[c] = "up"
  /\ Discard(c)
  /\ UNCHANGED <<committed, link>>

(* A statement answered with an error: a constraint, a deadlock the server *)
(* resolves, a lock or statement timeout, a full disk.  It changes no row. *)
(* A transaction block is aborted on the spot, its row locks are released, *)
(* and it stays failed until the client ends it.                           *)
Fail(c) ==
  /\ link[c] = "up"
  /\ ins' = [ins EXCEPT ![c] = {}]
  /\ del' = [del EXCEPT ![c] = {}]
  /\ tx' = [tx EXCEPT ![c] = IF @ = "idle" THEN "idle" ELSE "failed"]
  /\ UNCHANGED <<committed, link>>

(* The session of c ends (the server, the network): the server rolls back, *)
(* and from now on PQexec fails or PQstatus is not CONNECTION_OK.          *)
Drop(c) ==
  /\ link[c] = "up"
  /\ link' = [link EXCEPT ![c] = "broken"]
  /\ Discard(c)
  /\ UNCHANGED committed
=============================================================================
