# A verification of the BPMN engine

TLA+ models of `bpmn-cpp-lib`, a C++17 library that parses BPMN process
definitions, runs process instances and stores them in PostgreSQL. TLC checks
small instances of every model; TLAPS proves all their safety properties
for every instance. Paths are relative to the repository; the sources are
in `src/bpmn`, `src/db` and `include`.

## The system

| Component | State | Operations | Model |
| --- | --- | --- | --- |
| `db::Database` (`orm.cpp`) | one `PGconn`; tables `process_instances`, `process_variables`, `user_tasks`, `process_errors`, `process_definitions` | `saveProcessInstance`, `loadProcessInstance`, `completeProcessInstance`, `saveUserTask`, `saveError`, `loadProcessDefinition`, `initializeSchema` | `Database`, `DatabaseHistory`, `Schema`, `InstanceStore`, `DatabaseProofs`, `DatabaseSerialProofs`; set-up: `Setup`, `SetupProofs` |
| `db::ProcessDb`, `db::FormDb` (`db/models`) | the tables `process_definitions`, `process_forms` | `findById`, `create`, `update`, `deleteById`, `batchCreate`, `batchUpdate`, `loadForms` | `Records`, `RecordsProofs` |
| `bpmn::ProcessExecutor` (`executor.cpp`) | `lastState_`, a static cache of definitions, a reference to a `Database` | `startProcess`, `startProcessById`, `resumeProcess`, `getExecutionState`, `completeTask`; element handlers (not modelled) | `Executor`, `ExecutorProofs` |
| `bpmn::Process` (`model.cpp`) | vectors and maps of elements and flows | `addElement`, `addSequenceFlow`, `getElement`, queries, destructor | `ProcessModel` |
| `bpmn::BpmnParser` (`parser.cpp`) | the document read last | `parse`, `parseFromString` | `Parser`, `ParserProofs` |
| `bpmn::BpmnEngine` (`engine.cpp`) | `processCache_` under `engineMutex_`; a parser, an executor, a `Database` | `create...`, `startProcess`, `startProcessFromFile`, `completeTask`, `signalEvent`, `getProcessState`, ..., `terminateProcess`, destructor | `Engine`, `EngineThreads`, `EngineProofs`, `Setup` |
| `db::DatabaseConfig` (`config.cpp`) | five settings | `fromJson`, `fromEnvironment`, `getConnectionString` | `Config` |
| `services/*`, `container.h`, demo | | never called | not modelled |

How they interact. An engine is made from a `DatabaseConfig`: its constructor creates the
tables over a temporary `Database` and then again over the one it keeps. The engine parses a definition into a `Process` and keeps it in its
cache; its calls of the executor are comments in this version. The executor is
therefore used on its own: it saves an `ExecutionState` through
`Database::saveProcessInstance` and then executes elements, which it looks up in a cache
of definitions that nothing fills. `Database`, `ProcessDb` and `FormDb` talk to
PostgreSQL through libpq (external; module `Postgres`). Two executors, or two
processes, meet in the tables; threads that share one `Database` meet on its
connection, because neither `Database` nor `ProcessExecutor` has a lock.

What is hard here:

- concurrency: calls on several connections that write the rows of one instance;
  threads on one connection; threads on one engine; programs that create the
  tables at the same time;
- failure: a statement in the middle of a transaction, a broken connection, an answer to
  `COMMIT` that is lost, `ROLLBACK` that throws in a handler; a constructor that throws
  and leaves its connection open; a program that dies while the server creates a table;
- ordering: a load of two `SELECT`s beside a save; two batches that lock the same
  records in opposite orders;
- ownership: elements with two owners, exceptions that pass through half-made objects.

What makes each component correct:

- `Database`: a write is all or nothing, a normal return means it is stored, an
  exception on a sound connection means it is not; a load returns all variables of a
  write or none (its row may be of another write); a save replaces what was stored
  before; no transaction outlives its call; every call ends.
- `ProcessDb`, `FormDb`: batches are atomic and isolated; the number returned is true.
- `ProcessExecutor`: what `startProcess` stored survives every resume and failure; a
  resume creates nothing.
- `Process`, `BpmnParser`: the process is that of the document; memory is sound.
- `BpmnEngine`: an instance stays until somebody terminates it, and is terminated once;
  every method looks as if it happened at once, and ends; whoever gets an engine has the
  schema and the database it asked for, and whoever keeps asking gets one; connections
  are not lost without bound.

## The modules

`Postgres` (external) is the server as its clients see it: committed rows, the
uncommitted rows of each session, READ COMMITTED reads, waiting for rows and unique
keys another session has written, failed transaction blocks, broken connections.
An error in a block releases the block's locks at once; a broken connection never recovers
(nothing calls `PQreset`).

`Schema` has the tables of `initializeSchema` as sets of row records, and the requests.
Values are fresh: a row holds the number of the call that supplied it, so that a
property can say whose data is stored. `taskKey` is the name `saveUserTask` makes of
a variable; a name too long for `VARCHAR(255)` is `TooLong`.

`Database` has an actor per call. `pc[n]` is the SQL statement call `n` sends next
(`begin`, `upsert`, `delete`, `task`, `insert`, `commit`, `rollback`,
`selectInstance`, `selectVariables`, `complete`, `error`), `todo[n]` the
variables still to insert, `loaded[n]` what a load has read. One action per statement;
`StatementFails` and `ConnectionFails` are the exceptions of `executeQuery...` and
`checkConnection`, `Throw` is the `catch` block. With `Serial` the callers of one
connection take turns. Without it they interleave statement by statement; since libpq
forbids concurrent use of a connection this is the mildest of the outcomes,
enough to refute atomicity but not the last word on what can happen.

`InstanceStore` is the promise of `Database`: each write is one step that happens or does
not, a load reads the row and then the variables. It says plainly what is
weak: an exception leaves open whether the write took effect, a save may overlook
variables of user tasks, a save brings a completed instance back to `RUNNING`.

`DatabaseHistory` adds to `Database` the auxiliary variable `before`: the calls that had
ended when a call was made. With it one can say which variables a save may overlook: only those of
a user task that runs at the same time.

`Executor` runs over `InstanceStore` (it extends it, and its calls take the store's steps).
`at[e]` is where an operation of executor `e` waits, `given[n]` the `ExecutionState`
call `n` stores. `ExecuteElement` always throws, as in the code: `ProcessCache` is empty.
Definitions that `startProcessById` loads are taken to be XML, which `parse` refuses, and not
paths of files.

`Records` models the record classes over `Postgres` in the same style as `Database`. The
constant `columns` says which columns the tables have: `SchemaColumns` for those of
`initializeSchema`, or columns that fit for tables made by somebody else. Callers
of one connection take turns.

`ProcessModel` has the methods of `Process` as operators on a record with the fields of
the class; `Parser` folds them over a document and keeps track of the memory in `heap`.
A document has the processes in the namespace of BPMN, which the parser finds, and the
others (`foreign`), which it does not; `AsPath(d)` is its text where a path is expected.
Undefined behaviour (an object deleted twice) sets `heap`; afterwards the program may
stop or go on, and what the models and their properties say is said of the program that goes
on with its other memory untouched.

`Engine` is the engine as its callers see it: it extends `Parser` and adds the cache and
the calls of any number of threads; a method is one step, some time after it was called.
`before[n]` are the calls that had ended when call `n` was made. The five methods that
only look an instance up, because their calls of the executor are comments, are one
operation, `lookUp`.

`EngineThreads` is the code of the methods: `Lock` (the `lock_guard`), the parser's
`Read` and `ParseDoc`, `Insert`; `FindInstance` and `Erase`; the loop of
`getActiveInstances`, `List`; and `LeaveMethod`, which unlocks on every way out. `pc[n]`
is the point in the body and `local[n]` what its local variables hold: the text,
the process, the iterator, the list. `saved` is auxiliary: the cache and the
parser as the owner of the mutex found them. The refinement mapping shows these until
the mutex is free again, and with it `EngineThreads` implements `Engine`.

`Config` says which settings a file or the environment gives an engine, the connection
string made of them, and what libpq (external) reads in it. A text is a sequence of
symbols: blanks, `=`, quotes and backslashes, and anything else as a whole.
`ReadSymbol` is libpq's reader, one symbol at a time. `getConnectionString` quotes nothing, so
that a value with a blank may be read as several settings, the last of which wins, and an
empty value takes the next `key=value` for its own. The default of a setting is one constant
(`LibpqDefault`), although libpq derives the database from the user if it has neither.

`Setup` has programs that create and destroy engines on one server. `round[c]` is the
first or second `Database` of the constructor, `next[c]` the table whose turn it is.
PostgreSQL makes `CREATE TABLE IF NOT EXISTS` two steps: it looks (`CreateTable`) and
enters the table into its catalogue (`InsertTable`), where the second of two programs
gets a unique violation. Since the statements are autocommitted, waiting for the
first to commit and failing then is the same as failing. `leaked[c]` counts the
connections of constructors that threw: `~Database` does not run for them. `Crash`
ends a program and starts it again; `orphan` are statements the server has received
and goes on with although their client is gone.

Operators named `..._Fault` are plausible defects. No specification uses them; each is
paired with the property that notices it in `PROJECT.json`.

## What is checked

Bounds: "3 calls" is the number of method calls in one run.

| Run | Bounds | Shows |
| --- | --- | --- |
| `database_serial` | 3 calls, 2 connections, 1 instance, 3 names, all operations | `SaveIsAtomic`, `TaskIsAtomic`, `FailedCallStoresNothing`, `LoadSeesWholeCalls`, `IdleOutsideTransaction`, `ReturnMeansStored`, and `ImplementsStore`: `Database` refines `InstanceStore` |
| `database_shared_save` | the same, 1 connection shared by all | `SaveIsAtomic` does not hold without serialised callers: **violation** |
| `database_fair` | 3 saves and user tasks, 2 connections, with the history | `EveryCallEnds`, `SaveReplacesEarlierCalls` |
| `executor` | 5 calls of the store, 2 executors, 2 instances, 2 processes, one without start event | `StartDataSurvives`, `ResumeNeverCreates` |
| `executor_start` | 5 calls | `startProcess` stores and throws: **violation** |
| `records` | 3 calls, 2 connections, 2 ids, batches of up to 2 records | `BatchCreateIsAtomic`, `BatchUpdatesDoNotMix`, `ResultIsTrue`, `FailedCallStoresNothing`, `ConnectionLeftIdle` |
| `records_schema` | the same, the tables of `initializeSchema` | `create` is refused: **violation** |
| `parser` | documents with up to 3 nodes, 2 processes and one outside the namespace, their texts and other texts as paths, in any order | `ParseIsFaithful`, `NoDanglingElement` |
| `parser_text` | the same | a document a test passes as a text, without the namespace, is refused: **violation** |
| `parser_flows` | the same | no flow of any document enters the process: **violation** |
| `engine_threads` | 3 calls, 2 ids, 3 texts (a process with an element, one without, and one that is not XML) | `StartedProcessKept`, `TerminatedAtMostOnce`, `TerminatedIsGone`, `BodyUndisturbed`, `ImplementsEngine`, `EveryMethodEnds` |
| `setup` | 2 programs, 9 kinds of settings (missing, empty, not strings, quoted, a setting inside another), 8 connections, 1 failure or crash | `SchemaReady`, `LeaksBounded`, `BuiltAsConfigured`, `EveryCallerServed` |

Why the bounds are enough. The conflicts of the database are between two calls, on one
instance; a third call creates the instance first, or observes. The names are a
variable, what a user task makes of it and what the next one makes of that, the
shortest chain on which the length limit, the unique key and the deadlock of a save
with a user task occur. In `records` three calls are a batch that creates two
records and two that update both, in equal or opposite order. Two executors with
five store calls are one start and two resumes that overlap. A parser with
three nodes sees a skipped node between, before and after two elements of the same id.
Three calls of an engine are one that starts an instance and two that race for it, or two
starts under one id and a third call. In `setup` two programs race for each of the five
tables, once or again after a retry; the failure is any statement, connection or
program. The bound of `LeaksBounded` is reached (five connections without a failure), and
`Capacity` is the least that suffices: with N programs and F failures a server
needs 5(N-1) + F connections for the leaks and N for the engines, and with one fewer
`EveryCallerServed` fails, because nobody can close the leaked ones. Setting
`MaxFailures = 2` and `Capacity = 9` gives the same answers in a few minutes.

Connections, instances, executors, ids are interchangeable wherever a run
declares symmetry; the runs of liveness properties declare none.

The system may stop when its callers stop calling or the bound on calls is
reached, so deadlock is not checked; that no call waits forever is what
`EveryCallEnds`, `EveryMethodEnds` and `EveryCallerServed` say.

Fairness. `EveryStatementEnds` assumes for each call that it keeps taking steps while the server
answers: `PQexec` blocks until an answer comes, and the server executes a statement,
refuses one it must refuse (a failed block, a violated constraint), or resolves a
deadlock by failing a statement in it (`MustFail`). Failures that need not happen are
never relied on. `ThreadsSpec` assumes that
threads keep running; weak fairness suffices for the mutex, since a bounded number of
calls cannot take it away from a waiting one forever. `SetupFairSpec` assumes that a
caller tries again after an exception, that libpq returns and that the server ends
what it has begun; failures and crashes are bounded, `Destroy` need never happen.

The violations are disagreements between the code and its tests or comments;
`PROJECT.json` quotes each one under "findings". In short: transactions on a shared
connection are not transactions (`orm.cpp:180`), starting always throws after saving
(`executor.cpp:36`), the record classes do not fit the schema (`process.cpp:59`), no
sequence flow is ever accepted (`model.cpp:8`), and `parse` refuses the text
`tests/unit/test_parser.cpp:13-19` gives it, which it takes for the path of a file; as the
content of one it would be refused too, for its process is not in the namespace the parser
asks for (`parser.cpp:16`, `parser.cpp:51`).

The models keep other behaviour that the tests or the callers may not expect, without a
run of its own, for one reading of the code settles it:

- elements have two owners and `~Process` deletes each of them twice (`model.cpp:31`,
  `HeapAfterDestroying`);
- `getExecutionState` ignores its argument (`executor.cpp:52`, `GetExecutionState`);
- a document without a process frees the XPath context twice (`parser.cpp:55` and `:85`,
  `HeapAfterParse`);
- settings are not quoted, so that a setting inside the value of another one overrides those
  before it (`config.cpp:38-44`, `Understood`): a user `u dbname=other` works on another
  database. `BuiltAsConfigured` claims nothing of such values;
- a parsed process has no start event (`parser.cpp:119`);
- an id that repeats replaces the process under it (`engine.cpp:64`, `StartProcess`);
- `completeTask` accepts any task and `getProcessState` always answers "active"
  (`engine.cpp:107`, `engine.cpp:144`).

The documents of `tests/integration/test_engine.cpp` begin with a line break before `<?xml`,
which is not well formed: the parser refuses them.

## What is proved

TLAPS checks the following for every value of the constants that satisfies the named
assumptions. The modules `...Proofs` hold one inductive invariant per component, in layers;
each layer is proved with the help of those before it. TLC checked the layers on the
instances of the runs before they were proved.

| Module | Theorem | States |
| --- | --- | --- |
| `DatabaseProofs` | `Typed`, `IdleConnections` | `TypeOK`, `IdleOutsideTransaction`, with and without `Serial` |
| `DatabaseSerialProofs` | `SavedWhole`, `TaskWhole`, `FailedStoresNothing`, `LoadsWhole` | `SaveIsAtomic`, `TaskIsAtomic`, `FailedCallStoresNothing`, `LoadSeesWholeCalls`, with `Serial` |
| | `ReturnedIsStored`, `StoreRefinement` | `ReturnMeansStored`, `ImplementsStore`, with `Serial` |
| | `SavesReplace` | `SaveReplacesEarlierCalls`, with `Serial` |
| `ExecutorProofs` | `ExecutorTyped`, `StartDataKept`, `ResumesCreateNothing` | `ExecTypeOK`, `StartDataSurvives`, `ResumeNeverCreates` |
| `RecordsProofs` | `TypeCorrect`, `LeftIdle`, `FailedStoresNothing` | `TypeOK`, `ConnectionLeftIdle`, `FailedCallStoresNothing` |
| | `CreatesWhole`, `TrueResults`, `UpdatesDoNotMix` | `BatchCreateIsAtomic`, `ResultIsTrue`, `BatchUpdatesDoNotMix` |
| `EngineProofs` | `BodiesUndisturbed`, `Refinement` | `BodyUndisturbed`, `ImplementsEngine` |
| | `StartedKept`, `OneTermination`, `TerminatedNotFound` | `StartedProcessKept`, `TerminatedAtMostOnce`, `TerminatedIsGone` |
| `ParserProofs` | `ParsesFaithfully`, `NothingDangles` | `ParseIsFaithful`, `NoDanglingElement` |
| | `FlowsAreLost` | no process `parse` returns holds a flow: what `parser_flows` finds, for every document |
| `SetupProofs` | `SetupTyped`, `SchemaThere`, `EnginesAsConfigured`, `LeaksAreBounded` | `SetupTypeOK`, `SchemaReady`, `BuiltAsConfigured`, `LeaksBounded` |

`PostgresProofs` has the lemmas about the external server that the modules on `Database`
and `Records` share: what one statement does to what a session sees, and that the keys of
what is stored and of what is held uncommitted stay unique and apart (`KeysInv`).

**Assumptions.** Of `Schema`: calls are numbers, `TooLong` is not a name that fits,
`taskKey` is injective below the length limit, and the variables of one call have no name
twice (they come from a `std::map`). Of `Executor`: `init_data` and `user_task_result` are
names. Of `Records`: calls are
numbers, batches sequences of ids, columns sets of strings, kinds `process` and `form`. Of `Engine`: calls
are numbers other than 0, which stands for a free mutex. Of `Parser`: documents are in
`Document`, that is `NoDoc` or finite sequences of processes, inside the namespace and outside,
of child nodes and of flows with any ids (`DocumentsAssumption`). Of `Setup`: finitely many
programs, numbers for the capacity and the failures (`SetupBounds`); the values a source has
are sequences of symbols (`SourcesAssumption`); and the host, port, database and user of the
server are not empty and have no blanks, quotes, backslashes or `=` (`ServerAssumption`). The last
one is about the caller's server, not about the code: an empty setting makes libpq take the
next `key=value` for its value, and an engine is refused only because nothing of that name
exists; with a database called `user=postgres` the property would be false.

**Database.** `Typed` needs `ControlOK`, which request a call has at which statement:
without it `Head(todo[n])` need not be a name. `IdleConnections` adds that a broken
connection is in no transaction, so that a call may give up on it without a `ROLLBACK`;
it covers threads that share a connection, which no passing run does. The others hold for
callers that take turns, and `database_shared_save` shows that this is needed. Their
invariant `StorageInv` has seven layers:

1. `SessionInv`: one running call per connection; the transaction of a connection is open
   exactly while its call is in the try block, and holds rows at no other time;
2. `TodoInv`: the variables left are some of the call's, each once;
3. `FreshInv`: nothing stored was written by a call whose last statement is still to come
   or was refused. This is `FailedCallStoresNothing`, said of running calls as well;
4. `KeysInv` (of `PostgresProofs`): stored keys are unique, and nobody holds a key that
   another session holds;
5. `ContentInv`: what the open transaction of a call has replaced and inserted so far. The
   delicate part is what others commit meanwhile: between the `DELETE` of a save and its
   `COMMIT` only user tasks of the instance can add variables, because every other save is
   waiting for the row of the instance (`OnlyTasksStore`, `ContentOfOthers`);
6. `StoredInv`: every stored row comes with the others of its call. `SaveIsAtomic` and
   `TaskIsAtomic` are parts of it;
7. `LoadedInv`: the same of what a load has read in its two statements.

For `StoreRefinement`, the statement that publishes (`COMMIT`, or the autocommitted
`UPDATE` or `INSERT`) is mapped to the step of the abstract write and every other one to a
stutter or to the abstract reply; layers 4 and 5 say that what is published is
what the abstract step would write at that moment.

For `SavesReplace`, `ClearedInv` says that a save that has sent its `DELETE` leaves no
variable of a call that had ended before it began. Nobody can bring one back: what another
session publishes meanwhile is of a call that still runs (`NewRows`).

**Executor.** `ExecInv` says that the state each save carries is that of the one start of
its instance (`StateOf`), that a resume saves only an instance it has found
(`CallsInv`), that an instance is started once, that the rows and what a load has read
come from saves of the same instance (`TableInv`, `LoadsInv`). The delicate step is
`SaveLoaded`: the two `SELECT`s of a load may have seen different saves, and the invariant
is what makes the mixed state carry the same process, element and `init_data`. The proof is
over `InstanceStore`, which `Database` implements.

**Records.** `RecordsInv`: where a call is (`CallsInv`), whose transaction is open
(`SessionInv`), unique keys (`KeysInv`), that a stored row was published by a call that
returned or lost its connection (`OriginInv`), and what a batch has done so far
(`ProgressInv`). The latter counts: the rows held are among the records done, at most as
many as `count`, exactly as many if no record is listed twice, and all of them if `count`
has kept up with `next`. `BatchUpdatesDoNotMix` follows: when the second of two rivals
commits, it replaces all rows of those ids, so nothing of the first is left
(`SecondReturns`); later steps never bring rows of a returned call back (`ReturnedFades`).
The theorems hold for any `columns`, those of `initializeSchema` included.

**Engine.** `ThreadsInv` is mutual exclusion (`MutexInv`: a call is in its body if and only
if it owns the mutex) and, for each point of a body, what the method has done since it took
the mutex (`BodyInv`, in terms of `saved`). `Refinement` needs both: the steps of a body are
hidden by the mapping as long as the mutex is held, and at `LeaveMethod` the body as a
whole is the one step of `Engine`. The three properties about the life of an instance follow
from `StoryInv`, about the cache as everybody but the owner sees it: an instance is listed
at most as often as it was started and not terminated (`CountInv`), it is that of one of its
callers until it is terminated (`KeptInv`), and a call made after its termination has not
found it (`GoneInv`).

**Setup.** `SchemaReady` is not inductive: a program that connects begins with the first
table only because nobody without a connection is anywhere else, and one without its
second `Database` has no engine. `ConstructorOK` adds that, and that the second `Database`
of a constructor begins when all the tables are there. Tables are never dropped, so a step
of another program, or of a statement that outlives its program, disturbs nobody
(`TablesGrow`). For `BuiltAsConfigured`, `SettingsOK` says that who is connected has
settings the server accepts. `AcceptedMeans` shows that, if they are plain, those are the settings the
caller means, by following libpq's reader through the connection string block by block, from
the place where one setting ends to the place where the next one does: after plain values
that are not empty everything read is as given (`Sound`); behind the first empty value a `key=value` has been
stored as a value and stays stored (`Damaged`), which the server, not being called that, refuses.
`LeaksBounded` is not inductive either, because a constructor that has lost a
race leaks only later. `CountOK` bounds the sum of the connections leaked, the losers that
do not know it yet and the statements that outlive their program by (N-1) per table that
exists, plus one per failure: entering a table makes losers of at most N-1 programs,
or N if the statement outlived its own, whose failure pays for the last one.

**Parser.** `parseProcess` and `parseDocument` are folds over sequences of any length, so
these proofs are about what a loop has done after `k` rounds. `ParseRounds` unfolds the
fold: the community modules define it as the function chosen by a recursive equation, and
`LoopExists` shows, node by node, that there is one. `Round` is the loop invariant: either
two of the first `k` nodes that make elements have the same id and the exception has been thrown, or none
have, and the vector and the map both hold exactly the elements of these nodes, the vector
in their order (`FreshRound`, `NextRound`). The flows leave the process as it is
(`FlowRefused`, `NoFlowAdded`), because `getElement` looks in `element_map`, which
`addElement` does not write; this gives `FlowsAreLost` as well. `DocumentOutcome` puts the
two together. `ParseIsFaithful` claims nothing of the texts `Mistaken` names, a document in the
place of a path or without the namespace: those are what `parser_text` refutes. It is not inductive, because it says nothing of the document a
dropped result came from; `ResultInv` adds that the result is what the document of the
last call comes to, and that only a process is ever dropped. The inductions use that a nonempty
set of numbers has a least one (`Induction`): the library's induction theorem takes an
operator, which the provers cannot instantiate, but a set will do.

**Only model-checked.** All liveness (`EveryCallEnds`, `EveryMethodEnds`,
`EveryCallerServed`), which is out of the prover's reach, as is `ENABLED`. The runs that
expect a violation are counterexamples and need no proof.

## Not modelled

- the element handlers of the executor (`executor.cpp:109-230`, with their helpers up to
  `:286`). They cannot run, for three reasons that do not depend on each other: nothing
  writes the static cache `getProcessDefinition` reads; nothing fills the `element_map`
  in which `getElement` looks; and `saveState` has moved the process id out of the state
  before `executeElement` uses it. A model would have to repair all three, and
  would then be one of another program. `Executor` keeps the point where they would begin;
- the queries and setters of `Process` that only the handlers call, or nobody;
- connections of engines that break after the engine is made: `Database` has those;
- libpq, PostgreSQL, libxml2 beyond what the callers can tell apart;
- data races as such: statements on a shared connection interleave but are whole;
- memory that leaks (the documents of the parser) and the contents of strings;
- the service classes, `Container` and the demo: nothing of them runs.

## Plan

Every safety property a passing run checks is proved. Nothing is known yet about `heap`, which
`Parser` and `Engine` track: the code damages it as soon as a process with an element is
destroyed or a document without a process is parsed, so there is no invariant to state
before that is repaired. If it is, the order is: `heap = "sound"` as an invariant of `Parser`,
then of `Engine`, and the flows of a document in `ParseIsFaithful`. If the three obstacles
of the element handlers are removed, they are the next component to model.
