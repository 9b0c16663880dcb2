------------------------------- MODULE Setup --------------------------------
(***************************************************************************)
(* Several programs create and destroy engines on one database             *)
(* (BpmnEngine::create..., src/src/bpmn/engine.cpp:14-48; the constructor  *)
(* of Database and initializeSchema, src/src/db/orm.cpp:21-36, 115-171).   *)
(*                                                                         *)
(* The constructor of an engine makes a Database twice: a temporary one,   *)
(* which is closed again, and the one it keeps.  Each connects and creates *)
(* the five tables, one autocommitted CREATE TABLE IF NOT EXISTS after the *)
(* other.  The server (external) first looks whether the table exists and  *)
(* then inserts it into its catalogue: of the programs that found the      *)
(* table missing one succeeds, the others get a unique violation.          *)
(*                                                                         *)
(* A constructor that throws runs no destructor: the connection of the     *)
(* Database stays open until the program ends.                             *)
(***************************************************************************)
EXTENDS Config, Sequences, FiniteSets, SequencesExt

CONSTANTS
  Callers,         \* the programs
  Sources,         \* the settings they are started with
  Server,          \* the settings under which the database is reached
  LibpqDefault,    \* what libpq uses for settings that are not given
  Capacity,        \* max_connections of the server
  MaxFailures      \* bound: calls that fail and programs that die

ASSUME SetupBounds ==
  /\ Capacity \in Nat /\ MaxFailures \in Nat
  /\ IsFiniteSet(Callers) /\ Callers # {}

(* The host, the port, the database and the user have plain names.         *)
ASSUME ServerAssumption ==
  \A key \in Keys \ {"password"} : Server[key] # Empty /\ Plain(Server[key])

(* The values of a source are texts, for some of the keys.                 *)
ASSUME SourcesAssumption ==
  \A s \in Sources :
    /\ DOMAIN s.values \subseteq Keys
    /\ \A key \in DOMAIN s.values : s.values[key] \in Seq(STRING)

VARIABLES
  tables,          \* the tables of the database
  source,          \* source[c]: the settings c was started with
  pc,              \* pc[c]: where the constructor of c's engine is
  round,           \* round[c]: 1 for the temporary Database, 2 for the other
  next,            \* next[c]: the number of the table c is about to create
  engine,          \* engine[c]: has c an engine
  leaked,          \* leaked[c]: connections of c nobody can close
  orphan,          \* statements the server still executes for nobody
  failures         \* how many there have been

program == <<pc, round, next, engine, leaked>>
setupVars == <<program, tables, source, orphan, failures>>

(* The order of initializeSchema; the REFERENCES of the second, third and  *)
(* fourth name the first.                                                  *)
Table == <<"process_instances", "process_variables", "user_tasks",
           "process_errors", "process_definitions">>
Tables == ToSet(Table)

(* Points between two steps of the constructor: before PQconnectdb, before *)
(* the next statement is sent, and while the server creates a table it has *)
(* found missing.  In "outside" no constructor runs.                       *)
Points == {"outside", "connecting", "creating", "inserting"}

Connected(c) == pc[c] \in {"creating", "inserting"} \/ engine[c]

(* The connections nobody closes, and all the server has.                  *)
Leaks == UNION {{c} \X (1 .. leaked[c]) : c \in Callers}
Sessions ==
  Cardinality({c \in Callers : Connected(c)}) + Cardinality(Leaks) + Cardinality(orphan)

(* The server answers only to its own settings.                            *)
Accepted ==
  {s \in Sources : Understood(Given(s), LibpqDefault) = Server}

-----------------------------------------------------------------------------
SetupInit ==
  /\ tables = {}
  /\ source \in [Callers -> Sources]
  /\ pc = [c \in Callers |-> "outside"]
  /\ round = [c \in Callers |-> 1]
  /\ next = [c \in Callers |-> 1]
  /\ engine = [c \in Callers |-> FALSE]
  /\ leaked = [c \in Callers |-> 0]
  /\ orphan = {}
  /\ failures = 0

Fail ==
  /\ failures < MaxFailures
  /\ failures' = failures + 1

(* The constructor ends without an engine.                                 *)
Leave(c) ==
  /\ pc' = [pc EXCEPT ![c] = "outside"]
  /\ round' = [round EXCEPT ![c] = 1]
  /\ next' = [next EXCEPT ![c] = 1]

(* createFromConfig and createFromEnvironment, up to PQconnectdb.  When    *)
(* the settings cannot be read they throw before there is a connection,    *)
(* and the program has to be started again with others.                    *)
Create(c) ==
  /\ pc[c] = "outside"
  /\ ~engine[c]
  /\ CanRead(source[c])
  /\ pc' = [pc EXCEPT ![c] = "connecting"]
  /\ UNCHANGED <<round, next, engine, leaked, tables, source, orphan, failures>>

(* PQconnectdb of the constructor of Database.                             *)
Connect(c) ==
  /\ pc[c] = "connecting"
  /\ source[c] \in Accepted
  /\ Sessions < Capacity
  /\ pc' = [pc EXCEPT ![c] = "creating"]
  /\ UNCHANGED <<round, next, engine, leaked, tables, source, orphan, failures>>

(* PQconnectdb fails: wrong settings, too many connections, or no answer.  *)
(* The constructor throws; the caller may try again.                       *)
ConnectFails(c) ==
  /\ pc[c] = "connecting"
  /\ IF source[c] \in Accepted /\ Sessions < Capacity
     THEN Fail ELSE UNCHANGED failures
  /\ Leave(c)
  /\ UNCHANGED <<engine, leaked, tables, source, orphan>>

(* Operators whose name ends in _Fault are plausible defects of the one    *)
(* defined after them.                                                     *)

(* One table too many.                                                     *)
LastTable_Fault == 6

LastTable == 5

(* A table exists, and so the statement is done, and the Database after    *)
(* the last one.                                                           *)
NextTable(c) ==
  LET done == next[c] = LastTable
  IN /\ next' = [next EXCEPT ![c] = IF done THEN 1 ELSE @ + 1]
     /\ round' = [round EXCEPT ![c] = IF done THEN 3 - @ ELSE @]
     /\ pc' = [pc EXCEPT ![c] = IF ~done THEN "creating"
                                ELSE IF round[c] = 1 THEN "connecting" ELSE "outside"]
     /\ engine' = [engine EXCEPT ![c] = done /\ round[c] = 2]

(* The temporary Database does not close its connection.                   *)
StatementDone_Fault(c) ==
  /\ NextTable(c)
  /\ leaked' = [leaked EXCEPT ![c] =
                  IF next[c] = LastTable /\ round[c] = 1 THEN @ + 1 ELSE @]

(* The temporary Database is destroyed at once, which closes its           *)
(* connection; the other is the engine's.                                  *)
StatementDone(c) == NextTable(c) /\ UNCHANGED leaked

(* An error of the server is taken for success.                            *)
StatementThrows_Fault(c) == StatementDone(c)

(* executeQuery throws out of the constructor of Database, whose           *)
(* destructor does not run.                                                *)
StatementThrows(c) ==
  /\ Leave(c)
  /\ leaked' = [leaked EXCEPT ![c] = @ + 1]
  /\ UNCHANGED engine

(* CREATE TABLE without IF NOT EXISTS.                                     *)
CreateTable_Fault(c) ==
  /\ pc[c] = "creating"
  /\ IF Table[next[c]] \in tables
     THEN StatementThrows(c)
     ELSE /\ pc' = [pc EXCEPT ![c] = "inserting"]
          /\ UNCHANGED <<round, next, engine, leaked>>
  /\ UNCHANGED <<tables, source, orphan, failures>>

(* The server finds the table, or that it is missing.                      *)
CreateTable(c) ==
  /\ pc[c] = "creating"
  /\ IF Table[next[c]] \in tables
     THEN StatementDone(c)
     ELSE /\ pc' = [pc EXCEPT ![c] = "inserting"]
          /\ UNCHANGED <<round, next, engine, leaked>>
  /\ UNCHANGED <<tables, source, orphan, failures>>

(* ... and enters it, unless somebody else has meanwhile.                  *)
InsertTable(c) ==
  /\ pc[c] = "inserting"
  /\ IF Table[next[c]] \in tables
     THEN StatementThrows(c) /\ UNCHANGED tables
     ELSE StatementDone(c) /\ tables' = tables \cup {Table[next[c]]}
  /\ UNCHANGED <<source, orphan, failures>>

(* The server refuses a statement: no permission, no space, ...            *)
StatementRefused(c) ==
  /\ pc[c] \in {"creating", "inserting"}
  /\ Fail
  /\ StatementThrows(c)
  /\ UNCHANGED <<tables, source, orphan>>

(* What the server goes on with when the connection of c is lost.          *)
LeftBehind(c) ==
  IF pc[c] = "inserting"
  THEN {[number |-> failures, table |-> Table[next[c]]]} ELSE {}

(* The connection breaks; checkConnection or PQexec sees it.  The server   *)
(* may go on with the statement or not.                                    *)
ConnectionBreaks(c) ==
  /\ pc[c] \in {"creating", "inserting"}
  /\ Fail
  /\ orphan' \in {orphan, orphan \cup LeftBehind(c)}
  /\ Leave(c)
  /\ UNCHANGED <<engine, leaked, tables, source>>

(* ~BpmnEngine closes the connection of its Database.                      *)
Destroy(c) ==
  /\ engine[c]
  /\ engine' = [engine EXCEPT ![c] = FALSE]
  /\ UNCHANGED <<pc, round, next, leaked, tables, source, orphan, failures>>

(* The program dies and is started again.  Its connections close, except   *)
(* one on which the server is at work: it notices when it has finished.    *)
Crash(c) ==
  /\ Fail
  /\ Leave(c)
  /\ engine' = [engine EXCEPT ![c] = FALSE]
  /\ leaked' = [leaked EXCEPT ![c] = 0]
  /\ orphan' = orphan \cup LeftBehind(c)
  /\ UNCHANGED <<tables, source>>

OrphanEnds(o) ==
  /\ o \in orphan
  /\ orphan' = orphan \ {o}
  /\ tables' = tables \cup {o.table}
  /\ UNCHANGED <<program, source, failures>>

-----------------------------------------------------------------------------
SetupStep(c) ==
  Create(c) \/ Connect(c) \/ ConnectFails(c) \/ CreateTable(c) \/ InsertTable(c)

SetupNext ==
  \/ \E c \in Callers :
       \/ Create(c)
       \/ Connect(c)
       \/ ConnectFails(c)
       \/ CreateTable(c)
       \/ InsertTable(c)
       \/ StatementRefused(c)
       \/ ConnectionBreaks(c)
       \/ Destroy(c)
       \/ Crash(c)
  \/ \E o \in orphan : OrphanEnds(o)

SetupSpec == SetupInit /\ [][SetupNext]_setupVars

(* Callers that get an exception try again, and every call of libpq        *)
(* returns; nobody has to destroy an engine, and nothing has to fail.      *)
SetupFairSpec ==
  /\ SetupSpec
  /\ \A c \in Callers : WF_setupVars(SetupStep(c))
  /\ WF_setupVars(\E o \in orphan : OrphanEnds(o))

-----------------------------------------------------------------------------
SetupTypeOK ==
  /\ tables \subseteq Tables
  /\ source \in [Callers -> Sources]
  /\ pc \in [Callers -> Points]
  /\ round \in [Callers -> {1, 2}]
  /\ next \in [Callers -> 1 .. Len(Table)]
  /\ engine \in [Callers -> BOOLEAN]
  /\ leaked \in [Callers -> Nat]
  /\ orphan \subseteq [number : Nat, table : Tables]
  /\ failures \in 0 .. MaxFailures

(* Whoever has an engine has the whole schema, and whoever is about to     *)
(* create a table has the ones before it, in particular the one its        *)
(* REFERENCES names, whichever program has created them and whatever of    *)
(* the statements failed or went on without its program.                   *)
SchemaReady ==
  \A c \in Callers :
    /\ engine[c] => tables = Tables
    /\ pc[c] \in {"creating", "inserting"} =>
         \A k \in 1 .. next[c] - 1 : Table[k] \in tables

(* Programs that start at the same time do not exhaust the server: for     *)
(* every table all of them but one may lose the race and leave a           *)
(* connection behind, once, however often they try again.  A program that  *)
(* dies, or a statement that fails, adds one at most.                      *)
LeaksBounded ==
  Cardinality(Leaks) <= Len(Table) * (Cardinality(Callers) - 1) + failures

(* What the caller asks for, but for the password, which names nothing.    *)
MeansServer(s) ==
  /\ s.from = "file" => s.readable /\ s.numbers = {}
  /\ \A key \in Keys \ {"password"} : Given(s)[key] = Server[key]

(* Values without blanks, quotes and backslashes (and "=") are safe: an    *)
(* engine made of them works on the database and as the user its caller    *)
(* has named, never on another one because a value was unreadable, or      *)
(* empty, so that libpq took the next setting for it.  Of other values     *)
(* nothing is claimed: they are read as something else, or as settings.    *)
BuiltAsConfigured ==
  \A c \in Callers :
    engine[c] /\ (\A key \in Keys : Plain(Given(source[c])[key]))
      => MeansServer(source[c])

(* A caller with the right settings that keeps trying gets its engine,     *)
(* after every failure and every crash.                                    *)
EveryCallerServed ==
  \A c \in Callers :
    CanRead(source[c]) /\ Given(source[c]) = Server
      ~> engine[c]
=============================================================================
