---------------------------- MODULE SetupProofs -----------------------------
(***************************************************************************)
(* Theorems about Setup, for every set of programs, settings, capacity of  *)
(* the server and number of failures.                                      *)
(***************************************************************************)
EXTENDS Setup, FiniteSetTheorems, WellFoundedInduction, TLAPS

(* What the invariant says of the constructors and the tables.  In the     *)
(* second Database of a constructor the whole schema is there; an engine   *)
(* exists only when its constructor has ended; who has no connection       *)
(* begins with the first table.                                            *)
ConstructorOK ==
  /\ pc \in [Callers -> Points]
  /\ round \in [Callers -> {1, 2}]
  /\ next \in [Callers -> 1 .. 5]
  /\ engine \in [Callers -> BOOLEAN]
  /\ tables \subseteq Tables
  /\ SchemaReady
  /\ \A c \in Callers : round[c] = 2 => tables = Tables
  /\ \A c \in Callers : engine[c] => pc[c] = "outside"
  /\ \A c \in Callers : pc[c] \in {"outside", "connecting"} => next[c] = 1

(* The rest of the types.                                                  *)
RestTypeOK ==
  /\ source \in [Callers -> Sources]
  /\ leaked \in [Callers -> Nat]
  /\ orphan \subseteq [number : Nat, table : Tables]
  /\ failures \in 0 .. MaxFailures

(* Who is connected, or about to be, has settings the server accepts.      *)
SettingsOK ==
  \A c \in Callers :
    /\ pc[c] # "outside" \/ engine[c] => CanRead(source[c])
    /\ Connected(c) => source[c] \in Accepted

(* The constructors that have lost the race for a table and do not know    *)
(* it yet: each will leave a connection behind.                            *)
Losers == {c \in Callers : pc[c] = "inserting" /\ Table[next[c]] \in tables}

(* A table that is entered makes losers of all programs but the one that   *)
(* enters it.  A failure leaves a connection behind, or a statement that   *)
(* makes losers of all programs when it enters its table.                  *)
CountOK ==
  /\ IsFiniteSet(Leaks) /\ IsFiniteSet(orphan)
  /\ Cardinality(Leaks) + Cardinality(Losers) + Cardinality(orphan)
       <= (Cardinality(Callers) - 1) * Cardinality(tables) + failures

-----------------------------------------------------------------------------
(* The five tables.                                                        *)
LEMMA TableNumbers ==
  /\ Len(Table) = 5
  /\ \A k \in 1 .. 5 : Table[k] \in Tables
  /\ \A t \in Tables : \E k \in 1 .. 5 : Table[k] = t
<1>1. Len(Table) = 5 /\ DOMAIN Table = 1 .. 5
  BY DEF Table
<1>2. Tables = {Table[k] : k \in 1 .. 5}
  BY <1>1 DEF Tables, ToSet
<1>. QED
  BY <1>1, <1>2

(* A constructor that ends without an engine.                              *)
LEMMA LeaveKeeps ==
  ASSUME ConstructorOK, NEW c \in Callers, Leave(c),
         engine' = engine \/ engine' = [engine EXCEPT ![c] = FALSE],
         tables' = tables
  PROVE  ConstructorOK'
<1>1. /\ pc' \in [Callers -> Points]
      /\ round' \in [Callers -> {1, 2}]
      /\ next' \in [Callers -> 1 .. 5]
      /\ engine' \in [Callers -> BOOLEAN]
      /\ tables' \subseteq Tables
  <2>1. pc' \in [Callers -> Points]
    BY DEF ConstructorOK, Leave, Points
  <2>2. round' \in [Callers -> {1, 2}]
    BY DEF ConstructorOK, Leave
  <2>3. next' \in [Callers -> 1 .. 5]
    BY DEF ConstructorOK, Leave
  <2>4. CASE engine' = engine
    BY <2>1, <2>2, <2>3, <2>4 DEF ConstructorOK
  <2>5. CASE engine' = [engine EXCEPT ![c] = FALSE]
    <3>1. engine' \in [Callers -> BOOLEAN]
      BY <2>5, Zenon DEF ConstructorOK
    <3>. QED
      BY <2>1, <2>2, <2>3, <3>1 DEF ConstructorOK
  <2>. QED
    BY <2>4, <2>5
<1>2. ASSUME NEW d \in Callers
      PROVE  /\ engine'[d] => tables' = Tables /\ pc'[d] = "outside"
             /\ round'[d] = 2 => tables' = Tables
             /\ pc'[d] \in {"creating", "inserting"} =>
                  \A k \in 1 .. next'[d] - 1 : Table[k] \in tables'
             /\ pc'[d] \in {"outside", "connecting"} => next'[d] = 1
  <2>1. CASE d = c
    BY <2>1 DEF ConstructorOK, SchemaReady, Leave
  <2>2. CASE d # c
    BY <2>2 DEF ConstructorOK, SchemaReady, Leave
  <2>. QED
    BY <2>1, <2>2
<1>. QED
  BY <1>1, <1>2 DEF ConstructorOK, SchemaReady

(* More tables disturb nobody.                                             *)
LEMMA TablesGrow ==
  ASSUME ConstructorOK, tables \subseteq tables', tables' \subseteq Tables,
         UNCHANGED <<pc, round, next, engine>>
  PROVE  ConstructorOK'
  BY DEF ConstructorOK, SchemaReady

(* A statement that is done: its table is there, and the ones before it    *)
(* were.                                                                   *)
LEMMA NextTableKeeps ==
  ASSUME ConstructorOK, NEW c \in Callers, NextTable(c),
         pc[c] \in {"creating", "inserting"},
         tables \subseteq tables', tables' \subseteq Tables,
         Table[next[c]] \in tables'
  PROVE  ConstructorOK'
<1>. DEFINE done == next[c] = 5
<1>1. /\ pc' = [pc EXCEPT ![c] = IF ~done THEN "creating"
                                 ELSE IF round[c] = 1 THEN "connecting" ELSE "outside"]
      /\ round' = [round EXCEPT ![c] = IF done THEN 3 - @ ELSE @]
      /\ next' = [next EXCEPT ![c] = IF done THEN 1 ELSE @ + 1]
      /\ engine' = [engine EXCEPT ![c] = done /\ round[c] = 2]
  BY DEF NextTable, LastTable
<1>2. round[c] \in {1, 2} /\ next[c] \in 1 .. 5
  BY DEF ConstructorOK
<1>3. /\ pc' \in [Callers -> Points]
      /\ round' \in [Callers -> {1, 2}]
      /\ next' \in [Callers -> 1 .. 5]
      /\ engine' \in [Callers -> BOOLEAN]
  <2>1. pc' \in [Callers -> Points]
    BY <1>1 DEF ConstructorOK, Points
  <2>2. round' \in [Callers -> {1, 2}]
    BY <1>1, <1>2 DEF ConstructorOK
  <2>3. next' \in [Callers -> 1 .. 5]
    BY <1>1, <1>2 DEF ConstructorOK
  <2>4. engine' \in [Callers -> BOOLEAN]
    BY <1>1 DEF ConstructorOK
  <2>. QED
    BY <2>1, <2>2, <2>3, <2>4
<1>4. \A k \in 1 .. next[c] : Table[k] \in tables'
  BY <1>2 DEF ConstructorOK, SchemaReady
<1>5. done => tables' = Tables
  BY <1>4, TableNumbers
<1>6. ASSUME NEW d \in Callers
      PROVE  /\ engine'[d] => tables' = Tables /\ pc'[d] = "outside"
             /\ round'[d] = 2 => tables' = Tables
             /\ pc'[d] \in {"creating", "inserting"} =>
                  \A k \in 1 .. next'[d] - 1 : Table[k] \in tables'
             /\ pc'[d] \in {"outside", "connecting"} => next'[d] = 1
  <2>1. CASE d = c
    <3>1. engine'[c] => tables' = Tables /\ pc'[c] = "outside"
      BY <1>1, <1>2, <1>5 DEF ConstructorOK
    <3>2. round'[c] = 2 => tables' = Tables
      BY <1>1, <1>2, <1>5 DEF ConstructorOK
    <3>3. pc'[c] \in {"creating", "inserting"} =>
            \A k \in 1 .. next'[c] - 1 : Table[k] \in tables'
      BY <1>1, <1>2, <1>4 DEF ConstructorOK
    <3>4. pc'[c] \in {"outside", "connecting"} => next'[c] = 1
      BY <1>1, <1>2 DEF ConstructorOK
    <3>. QED
      BY <2>1, <3>1, <3>2, <3>3, <3>4
  <2>2. CASE d # c
    BY <2>2, <1>1 DEF ConstructorOK, SchemaReady
  <2>. QED
    BY <2>1, <2>2
<1>. QED
  BY <1>3, <1>6 DEF ConstructorOK, SchemaReady

-----------------------------------------------------------------------------
(* Every step keeps what is known of the constructors.                     *)
LEMMA ConstructorStep ==
  ASSUME ConstructorOK, RestTypeOK, SetupNext
  PROVE  ConstructorOK'
<1>1. ASSUME NEW c \in Callers, Create(c) PROVE ConstructorOK'
  BY <1>1 DEF Create, ConstructorOK, SchemaReady, Points
<1>2. ASSUME NEW c \in Callers, Connect(c) PROVE ConstructorOK'
  <2>1. pc[c] = "connecting" /\ pc' = [pc EXCEPT ![c] = "creating"]
        /\ UNCHANGED <<round, next, engine, tables>>
    BY <1>2 DEF Connect
  <2>. QED
    BY <2>1 DEF ConstructorOK, SchemaReady, Points
<1>3. ASSUME NEW c \in Callers, ConnectFails(c) PROVE ConstructorOK'
  BY <1>3, LeaveKeeps DEF ConnectFails
<1>4. ASSUME NEW c \in Callers, CreateTable(c) PROVE ConstructorOK'
  <2>1. CASE Table[next[c]] \in tables
    BY <1>4, <2>1, NextTableKeeps DEF CreateTable, StatementDone, ConstructorOK
  <2>2. CASE Table[next[c]] \notin tables
    BY <1>4, <2>2 DEF CreateTable, ConstructorOK, SchemaReady, Points
  <2>. QED
    BY <2>1, <2>2
<1>5. ASSUME NEW c \in Callers, InsertTable(c) PROVE ConstructorOK'
  <2>1. CASE Table[next[c]] \in tables
    BY <1>5, <2>1, LeaveKeeps DEF InsertTable, StatementThrows
  <2>2. CASE Table[next[c]] \notin tables
    <3>1. tables' = tables \cup {Table[next[c]]} /\ NextTable(c) /\ pc[c] = "inserting"
      BY <1>5, <2>2 DEF InsertTable, StatementDone
    <3>2. tables' \subseteq Tables
      BY <3>1, TableNumbers DEF ConstructorOK
    <3>. QED
      BY <3>1, <3>2, NextTableKeeps
  <2>. QED
    BY <2>1, <2>2
<1>6. ASSUME NEW c \in Callers, StatementRefused(c) PROVE ConstructorOK'
  BY <1>6, LeaveKeeps DEF StatementRefused, StatementThrows
<1>7. ASSUME NEW c \in Callers, ConnectionBreaks(c) PROVE ConstructorOK'
  BY <1>7, LeaveKeeps DEF ConnectionBreaks
<1>8. ASSUME NEW c \in Callers, Destroy(c) PROVE ConstructorOK'
  BY <1>8 DEF Destroy, ConstructorOK, SchemaReady
<1>9. ASSUME NEW c \in Callers, Crash(c) PROVE ConstructorOK'
  BY <1>9, LeaveKeeps DEF Crash
<1>10. ASSUME NEW o \in orphan, OrphanEnds(o) PROVE ConstructorOK'
  <2>1. o.table \in Tables
    BY DEF RestTypeOK
  <2>2. tables' = tables \cup {o.table} /\ UNCHANGED <<pc, round, next, engine>>
    BY <1>10 DEF OrphanEnds, program
  <2>3. tables' \subseteq Tables
    BY <2>1, <2>2 DEF ConstructorOK
  <2>. QED
    BY <2>2, <2>3, TablesGrow
<1>. QED
  BY <1>1, <1>2, <1>3, <1>4, <1>5, <1>6, <1>7, <1>8, <1>9, <1>10 DEF SetupNext

(* Every step keeps the types of the settings, the leaks, the orphans and  *)
(* the failures.                                                           *)
LEMMA RestStep ==
  ASSUME ConstructorOK, RestTypeOK, SetupNext
  PROVE  RestTypeOK'
<1>1. Fail => failures' \in 0 .. MaxFailures
  BY SetupBounds DEF Fail, RestTypeOK
<1>2. ASSUME NEW c \in Callers PROVE LeftBehind(c) \subseteq [number : Nat, table : Tables]
  BY TableNumbers DEF LeftBehind, ConstructorOK, RestTypeOK
<1>3. ASSUME NEW c \in Callers, leaked' = [leaked EXCEPT ![c] = @ + 1]
      PROVE  leaked' \in [Callers -> Nat]
  BY <1>3 DEF RestTypeOK
<1>4. ASSUME NEW c \in Callers, Create(c) \/ Connect(c) \/ Destroy(c) PROVE RestTypeOK'
  BY <1>4 DEF Create, Connect, Destroy, RestTypeOK
<1>5. ASSUME NEW c \in Callers, ConnectFails(c) PROVE RestTypeOK'
  BY <1>5, <1>1 DEF ConnectFails, RestTypeOK
<1>6. ASSUME NEW c \in Callers, CreateTable(c) PROVE RestTypeOK'
  BY <1>6 DEF CreateTable, StatementDone, RestTypeOK
<1>7. ASSUME NEW c \in Callers, InsertTable(c) PROVE RestTypeOK'
  BY <1>7, <1>3 DEF InsertTable, StatementDone, StatementThrows, RestTypeOK
<1>8. ASSUME NEW c \in Callers, StatementRefused(c) PROVE RestTypeOK'
  BY <1>8, <1>1, <1>3 DEF StatementRefused, StatementThrows, RestTypeOK
<1>9. ASSUME NEW c \in Callers, ConnectionBreaks(c) PROVE RestTypeOK'
  BY <1>9, <1>1, <1>2 DEF ConnectionBreaks, RestTypeOK
<1>10. ASSUME NEW c \in Callers, Crash(c) PROVE RestTypeOK'
  BY <1>10, <1>1, <1>2 DEF Crash, RestTypeOK
<1>11. ASSUME NEW o \in orphan, OrphanEnds(o) PROVE RestTypeOK'
  BY <1>11 DEF OrphanEnds, program, RestTypeOK
<1>. QED
  BY <1>4, <1>5, <1>6, <1>7, <1>8, <1>9, <1>10, <1>11 DEF SetupNext

-----------------------------------------------------------------------------
(* The invariant of every run.                                             *)
LEMMA SetupInvariant == SetupSpec => [](ConstructorOK /\ RestTypeOK)
<1>1. SetupInit => ConstructorOK /\ RestTypeOK
  BY SetupBounds DEF SetupInit, ConstructorOK, RestTypeOK, SchemaReady, Points
<1>2. ConstructorOK /\ RestTypeOK /\ [SetupNext]_setupVars => (ConstructorOK /\ RestTypeOK)'
  <2>1. CASE SetupNext
    BY <2>1, ConstructorStep, RestStep
  <2>2. CASE UNCHANGED setupVars
    BY <2>2 DEF setupVars, program, ConstructorOK, RestTypeOK, SchemaReady
  <2>. QED
    BY <2>1, <2>2
<1>. QED
  BY <1>1, <1>2, PTL DEF SetupSpec

(* The state of every program, the tables and what the server still does   *)
(* keep their types, however many programs, failures and crashes there     *)
(* are.                                                                    *)
THEOREM SetupTyped == SetupSpec => []SetupTypeOK
<1>1. ConstructorOK /\ RestTypeOK => SetupTypeOK
  BY TableNumbers DEF ConstructorOK, RestTypeOK, SetupTypeOK
<1>. QED
  BY <1>1, SetupInvariant, PTL

(* Whoever has an engine has the whole schema, and every CREATE TABLE is   *)
(* sent after the tables it needs, however many programs race, fail and    *)
(* die.                                                                    *)
THEOREM SchemaThere == SetupSpec => []SchemaReady
<1>1. ConstructorOK => SchemaReady
  BY DEF ConstructorOK
<1>. QED
  BY <1>1, SetupInvariant, PTL

-----------------------------------------------------------------------------
(* The settings.                                                           *)

(* Induction over the numbers, for a set instead of a predicate: every     *)
(* nonempty set of numbers has a least one.                                *)
LEMMA Induction ==
  ASSUME NEW S, 0 \in S, \A n \in Nat : n \in S => n + 1 \in S
  PROVE  Nat \subseteq S
<1> SUFFICES ASSUME Nat \ S # {} PROVE FALSE
  OBVIOUS
<1> DEFINE Less == OpToRel(<, Nat)
<1>1. IsWellFoundedOn(Less, Nat)
  BY NatLessThanWellFounded, Zenon
<1>2. \A m, n \in Nat : m < n => <<m, n>> \in Less
  BY DEF OpToRel
<1> HIDE DEF Less
<1>3. PICK n \in Nat \ S : \A m \in Nat \ S : ~(<<m, n>> \in Less)
  BY <1>1, WFMin, Zenon
<1>4. n # 0 /\ n - 1 \in Nat /\ n - 1 < n
  BY <1>3
<1>5. n - 1 \in S
  BY <1>2, <1>3, <1>4
<1>. QED
  BY <1>3, <1>4, <1>5

(* What ReadFrom is chosen among.                                          *)
IsReading(r, text, n, f) ==
  f = [i \in 0 .. n |-> IF i = 0 THEN r ELSE ReadSymbol(f[i - 1], text[i])]

LEMMA ReadingExists ==
  ASSUME NEW r, NEW text, NEW n \in Nat
  PROVE  \E f : IsReading(r, text, n, f)
<1> DEFINE S == {k \in Nat : \E f : IsReading(r, text, k, f)}
<1>1. 0 \in S
  <2> DEFINE f == [i \in 0 .. 0 |-> r]
  <2>1. f = [i \in 0 .. 0 |-> IF i = 0 THEN r ELSE ReadSymbol(f[i - 1], text[i])]
    OBVIOUS
  <2>. QED
    BY <2>1 DEF IsReading
<1>2. ASSUME NEW k \in Nat, k \in S PROVE k + 1 \in S
  <2>1. PICK f : IsReading(r, text, k, f)
    BY <1>2
  <2>2. f = [i \in 0 .. k |-> IF i = 0 THEN r ELSE ReadSymbol(f[i - 1], text[i])]
    BY <2>1 DEF IsReading
  <2> DEFINE g == [i \in 0 .. k + 1 |->
                    IF i = k + 1 THEN ReadSymbol(f[k], text[k + 1]) ELSE f[i]]
  <2>3. ASSUME NEW i \in 0 .. k + 1
        PROVE  g[i] = IF i = 0 THEN r ELSE ReadSymbol(g[i - 1], text[i])
    <3>1. CASE i = k + 1
      <4>1. g[i] = ReadSymbol(f[k], text[i]) /\ g[i - 1] = f[k] /\ i # 0
        BY <3>1
      <4>. QED
        BY <4>1, Zenon
    <3>2. CASE i # k + 1
      <4>1. i \in 0 .. k /\ g[i] = f[i] /\ (i # 0 => g[i - 1] = f[i - 1])
        BY <3>2
      <4>2. f[i] = IF i = 0 THEN r ELSE ReadSymbol(f[i - 1], text[i])
        BY <2>2, <4>1, Zenon
      <4>. QED
        BY <4>1, <4>2, Zenon
    <3>. QED
      BY <3>1, <3>2
  <2>4. g = [i \in 0 .. k + 1 |-> IF i = 0 THEN r ELSE ReadSymbol(g[i - 1], text[i])]
    BY <2>3, Zenon
  <2>5. IsReading(r, text, k + 1, g)
    BY <2>4, Zenon DEF IsReading
  <2>. QED
    BY <2>5
<1> HIDE DEF S
<1>3. Nat \subseteq S
  BY <1>1, <1>2, Induction, Zenon
<1>. QED
  BY <1>3 DEF S

(* f tells where the first n symbols of the text lead from r.              *)
Rounds(r, text, n, f) ==
  f[0] = r /\ \A i \in 1 .. n : f[i] = ReadSymbol(f[i - 1], text[i])

LEMMA ReadRounds ==
  ASSUME NEW r, NEW text, Len(text) \in Nat
  PROVE  Rounds(r, text, Len(text), ReadFrom(r, text))
<1>1. \E f : IsReading(r, text, Len(text), f)
  BY ReadingExists
<1>2. ReadFrom(r, text) = CHOOSE f : IsReading(r, text, Len(text), f)
  BY DEF ReadFrom, IsReading
<1>3. IsReading(r, text, Len(text), ReadFrom(r, text))
  BY <1>1, <1>2
<1>4. PICK f : f = ReadFrom(r, text)
  OBVIOUS
<1>5. f = [i \in 0 .. Len(text) |-> IF i = 0 THEN r ELSE ReadSymbol(f[i - 1], text[i])]
  BY <1>3, <1>4 DEF IsReading
<1>6. 0 \in 0 .. Len(text) /\ \A i \in 1 .. Len(text) : i \in 0 .. Len(text) /\ i # 0
  OBVIOUS
<1>7. f[0] = r
  BY <1>5, <1>6, Zenon
<1>8. \A i \in 1 .. Len(text) : f[i] = ReadSymbol(f[i - 1], text[i])
  BY <1>5, <1>6, Zenon
<1>. QED
  BY <1>4, <1>7, <1>8, Zenon DEF Rounds

(* f is a reading of a, and g of the part b of a that begins behind the    *)
(* first m symbols.                                                        *)
ReadsOn(r, a, f, m, b, g, n) ==
  /\ m \in Nat /\ n \in Nat
  /\ Rounds(r, a, m + n, f) /\ Rounds(f[m], b, n, g)
  /\ \A i \in 1 .. n : a[m + i] = b[i]

LEMMA ReadingsAgree ==
  ASSUME NEW r, NEW a, NEW f, NEW m, NEW b, NEW g, NEW n, ReadsOn(r, a, f, m, b, g, n)
  PROVE  f[m + n] = g[n]
<1>0. /\ m \in Nat /\ n \in Nat /\ f[m] = g[0]
      /\ \A i \in 1 .. m + n : f[i] = ReadSymbol(f[i - 1], a[i])
      /\ \A i \in 1 .. n : g[i] = ReadSymbol(g[i - 1], b[i]) /\ a[m + i] = b[i]
  BY DEF ReadsOn, Rounds
<1> DEFINE S == {i \in Nat : i <= n => f[m + i] = g[i]}
<1>1. 0 \in S
  BY <1>0
<1>2. ASSUME NEW i \in Nat, i \in S PROVE i + 1 \in S
  <2>1. CASE i + 1 <= n
    <3>1. /\ i + 1 \in 1 .. n /\ m + (i + 1) \in 1 .. m + n
          /\ m + (i + 1) - 1 = m + i /\ (i + 1) - 1 = i
      BY <1>0, <2>1
    <3>2. f[m + i] = g[i]
      BY <1>0, <1>2, <2>1
    <3>3. /\ f[m + (i + 1)] = ReadSymbol(f[m + i], a[m + (i + 1)])
          /\ g[i + 1] = ReadSymbol(g[i], b[i + 1])
          /\ a[m + (i + 1)] = b[i + 1]
      BY <1>0, <3>1
    <3>4. f[m + (i + 1)] = g[i + 1]
      BY <3>2, <3>3, Zenon
    <3>. QED
      BY <3>4
  <2>2. CASE ~(i + 1 <= n)
    BY <1>2, <2>2
  <2>. QED
    BY <2>1, <2>2
<1> HIDE DEF S
<1>3. Nat \subseteq S
  BY <1>1, <1>2, Induction, Zenon
<1>. QED
  BY <1>0, <1>3 DEF S

(* A text is read by reading its parts, and its symbols.                   *)
LEMMA ReadParts ==
  ASSUME NEW S, NEW r, NEW s \in Seq(S), NEW t \in Seq(S)
  PROVE  Read(r, s \o t) = Read(Read(r, s), t)
<1>1. PICK w : w = s \o t
  OBVIOUS
<1>2. PICK m : m = Len(s)
  OBVIOUS
<1>3. PICK n : n = Len(t)
  OBVIOUS
<1>4. PICK f : f = ReadFrom(r, w)
  OBVIOUS
<1>5. PICK g : g = ReadFrom(r, s)
  OBVIOUS
<1>6. PICK h : h = ReadFrom(g[m], t)
  OBVIOUS
<1>7. /\ m \in Nat /\ n \in Nat /\ Len(w) = m + n /\ Len(w) \in Nat
      /\ 0 + m = m /\ 0 \in Nat
      /\ \A i \in 1 .. m : w[0 + i] = s[i]
      /\ \A i \in 1 .. n : w[m + i] = t[i]
  BY <1>1, <1>2, <1>3
<1>8. Rounds(r, w, m + n, f)
  BY <1>4, <1>7, ReadRounds, Zenon
<1>9. Rounds(r, s, m, g)
  BY <1>2, <1>5, <1>7, ReadRounds, Zenon
<1>10. Rounds(g[m], t, n, h)
  BY <1>3, <1>6, <1>7, ReadRounds, Zenon
<1>11. Read(r, s \o t) = f[m + n] /\ Read(Read(r, s), t) = h[n]
  BY <1>1, <1>2, <1>3, <1>4, <1>5, <1>6, <1>7, Zenon DEF Read
<1>12. f[m] = g[m]
  <2>1. Rounds(r, w, 0 + m, f) /\ Rounds(f[0], s, m, g)
    <3>1. \A i \in 1 .. m : i \in 1 .. m + n
      BY <1>7
    <3>. QED
      BY <1>7, <1>8, <1>9, <3>1 DEF Rounds
  <2>2. ReadsOn(r, w, f, 0, s, g, m)
    BY <1>7, <2>1 DEF ReadsOn
  <2>3. f[0 + m] = g[m]
    BY <2>2, ReadingsAgree
  <2>. QED
    BY <1>7, <2>3
<1>13. f[m + n] = h[n]
  <2>1. ReadsOn(r, w, f, m, t, h, n)
    BY <1>7, <1>8, <1>10, <1>12 DEF ReadsOn
  <2>. QED
    BY <2>1, ReadingsAgree
<1>. QED
  BY <1>11, <1>13

LEMMA OneSymbol ==
  ASSUME NEW S, NEW t \in S
  PROVE  <<t>> \in Seq(S) /\ Len(<<t>>) = 1 /\ <<t>>[1] = t
OBVIOUS

LEMMA ReadOne ==
  ASSUME NEW r, NEW t
  PROVE  Read(r, <<t>>) = ReadSymbol(r, t)
<1>1. PICK w : w = <<t>>
  OBVIOUS
<1>2. Len(w) = 1 /\ w[1] = t
  BY <1>1, OneSymbol
<1>3. PICK f : f = ReadFrom(r, w)
  OBVIOUS
<1>4. Rounds(r, w, Len(w), f)
  <2>1. Len(w) \in Nat
    BY <1>2
  <2>. QED
    BY <1>3, <2>1, ReadRounds, Zenon
<1>5. 1 \in 1 .. Len(w) /\ 1 - 1 = 0
  BY <1>2
<1>6. f[1] = ReadSymbol(r, t)
  BY <1>2, <1>4, <1>5, Zenon DEF Rounds
<1>. QED
  BY <1>1, <1>2, <1>3, <1>6, Zenon DEF Read

-----------------------------------------------------------------------------
(* Where libpq can be.                                                     *)
Reader(at, name, value, options) ==
  [at |-> at, name |-> name, value |-> value, options |-> options]

(* (A string is not known to be in STRING.)                                *)
Symbols ==
  STRING \cup Keys \cup Special
    \cup {"localhost", "5432", "bpmn_engine", "postgres", "password"}

Texts == Seq(Symbols)
Options == [Keys -> Texts]

HasEquals(text) == \E i \in 1 .. Len(text) : text[i] = "="

LEMMA KeyNumbers ==
  /\ \A k \in 1 .. 5 : Key[k] \in Keys
  /\ \A key \in Keys : \E k \in 1 .. 5 : Key[k] = key
  /\ \A j, k \in 1 .. 5 : Key[j] = Key[k] => j = k
  /\ \A key \in Keys : key \notin Special
  /\ \A k \in 1 .. 5 : k <= 4 <=> Key[k] # "password"
<1>1. /\ Key[1] = "host" /\ Key[2] = "port" /\ Key[3] = "dbname"
      /\ Key[4] = "user" /\ Key[5] = "password"
  BY DEF Key
<1>2. \A k \in 1 .. 5 : k \in {1, 2, 3, 4, 5}
  OBVIOUS
<1>3. \A j, k \in 1 .. 5 : Key[j] = Key[k] => j = k
  BY <1>1, <1>2
<1>4. \A k \in 1 .. 5 : k <= 4 <=> Key[k] # "password"
  BY <1>1, <1>2
<1>5. \A k \in 1 .. 5 : Key[k] \in Keys
  BY <1>1, <1>2 DEF Keys
<1>6. \A key \in Keys : \E k \in 1 .. 5 : Key[k] = key
  BY <1>1 DEF Keys
<1>7. \A key \in Keys : key \notin Special
  BY DEF Keys, Special
<1>. QED
  BY <1>3, <1>4, <1>5, <1>6, <1>7

(* The symbols of a block.                                                 *)
LEMMA ReadName ==
  ASSUME NEW key \in Keys, NEW o
  PROVE  /\ ReadSymbol(Reader("between", Empty, Empty, o), key) = Reader("name", <<key>>, Empty, o)
         /\ ReadSymbol(Reader("name", <<key>>, Empty, o), "=") = Reader("before", <<key>>, Empty, o)
<1>1. key \notin Special
  BY KeyNumbers
<1>2. Append(Empty, key) = <<key>>
  BY DEF Empty
<1>3. ReadSymbol(Reader("between", Empty, Empty, o), key) = Reader("name", <<key>>, Empty, o)
  <2>1. PICK r : r = Reader("between", Empty, Empty, o)
    OBVIOUS
  <2>2. r.at = "between"
    BY <2>1 DEF Reader
  <2>3. ReadSymbol(r, key) = [r EXCEPT !.at = "name", !.name = Append(@, key)]
    BY <1>1, <2>2, Zenon DEF ReadSymbol, Special
  <2>. QED
    BY <1>2, <2>1, <2>3 DEF Reader
<1>4. ReadSymbol(Reader("name", <<key>>, Empty, o), "=") = Reader("before", <<key>>, Empty, o)
  BY DEF ReadSymbol, Reader, Goto
<1>. QED
  BY <1>3, <1>4

LEMMA ReadValue ==
  ASSUME NEW key \in Keys, NEW o, NEW v, NEW t, t # "blank", t # "backslash"
  PROVE  /\ ReadSymbol(Reader("value", <<key>>, v, o), t)
               = Reader("value", <<key>>, Append(v, t), o)
         /\ t # "quote" => ReadSymbol(Reader("before", <<key>>, Empty, o), t)
                             = Reader("value", <<key>>, <<t>>, o)
<1>1. Append(Empty, t) = <<t>>
  BY DEF Empty
<1>2. ReadSymbol(Reader("value", <<key>>, v, o), t)
         = Reader("value", <<key>>, Append(v, t), o)
  BY DEF ReadSymbol, Reader, Take
<1>3. t # "quote" => ReadSymbol(Reader("before", <<key>>, Empty, o), t)
                       = Reader("value", <<key>>, <<t>>, o)
  BY <1>1 DEF ReadSymbol, Reader, Take
<1>. QED
  BY <1>2, <1>3

LEMMA StoreValue ==
  ASSUME NEW key \in Keys, NEW o, NEW v, NEW at
  PROVE  Store(Reader(at, <<key>>, v, o))
           = Reader("between", Empty, Empty, [o EXCEPT ![key] = v])
<1>1. /\ Reader(at, <<key>>, v, o).name = <<key>>
      /\ Reader(at, <<key>>, v, o).options = o
      /\ Reader(at, <<key>>, v, o).value = v
  BY DEF Reader
<1>2. <<key>>[1] = key
  OBVIOUS
<1>3. Store(Reader(at, <<key>>, v, o)) = [Start EXCEPT !.options = [o EXCEPT ![key] = v]]
  BY <1>1, <1>2 DEF Store
<1>. QED
  BY <1>3 DEF Start, Reader

LEMMA ReadBlank ==
  ASSUME NEW key \in Keys, NEW o, NEW v
  PROVE  /\ ReadSymbol(Reader("value", <<key>>, v, o), "blank")
               = Reader("between", Empty, Empty, [o EXCEPT ![key] = v])
         /\ ReadSymbol(Reader("before", <<key>>, Empty, o), "blank")
               = Reader("before", <<key>>, Empty, o)
<1>1. ReadSymbol(Reader("value", <<key>>, v, o), "blank") = Store(Reader("value", <<key>>, v, o))
  BY DEF ReadSymbol, Reader
<1>2. ReadSymbol(Reader("before", <<key>>, Empty, o), "blank")
        = Reader("before", <<key>>, Empty, o)
  BY DEF ReadSymbol, Reader
<1>. QED
  BY <1>1, <1>2, StoreValue

LEMMA ReadNothing ==
  ASSUME NEW r
  PROVE  Read(r, Empty) = r
<1>1. Len(Empty) = 0
  BY DEF Empty
<1>2. Rounds(r, Empty, Len(Empty), ReadFrom(r, Empty))
  BY <1>1, ReadRounds
<1>. QED
  BY <1>1, <1>2 DEF Rounds, Read

LEMMA ReadTexts ==
  ASSUME NEW r, NEW s \in Texts, NEW t \in Texts
  PROVE  s \o t \in Texts /\ Read(r, s \o t) = Read(Read(r, s), t)
<1>1. s \in Seq(Symbols) /\ t \in Seq(Symbols)
  BY Zenon DEF Texts
<1>2. Read(r, s \o t) = Read(Read(r, s), t)
  BY <1>1, ReadParts
<1>3. s \o t \in Texts
  BY DEF Texts
<1>. QED
  BY <1>2, <1>3

LEMMA HeadAndTail ==
  ASSUME NEW S, NEW v \in Seq(S), v # <<>>
  PROVE  /\ v[1] \in S /\ 1 \in 1 .. Len(v) /\ Tail(v) \in Seq(S) /\ v = <<v[1]>> \o Tail(v)
         /\ \A i \in 1 .. Len(Tail(v)) : i + 1 \in 1 .. Len(v) /\ Tail(v)[i] = v[i + 1]
OBVIOUS

(* A value without blanks and backslashes is read as it is, ...            *)
LEMMA ReadRest ==
  ASSUME NEW key \in Keys, NEW o, NEW u \in Texts, NEW v \in Texts,
         \A i \in 1 .. Len(v) : v[i] # "blank" /\ v[i] # "backslash"
  PROVE  Read(Reader("value", <<key>>, u, o), v) = Reader("value", <<key>>, u \o v, o)
<1>1. PICK n : n = Len(v)
  OBVIOUS
<1>2. PICK r : r = Reader("value", <<key>>, u, o)
  OBVIOUS
<1>3. PICK f : f = ReadFrom(r, v)
  OBVIOUS
<1>4. n \in Nat /\ Rounds(r, v, n, f)
  <2>1. n \in Nat
    BY <1>1 DEF Texts
  <2>. QED
    BY <1>1, <1>3, <2>1, ReadRounds, Zenon
<1>5. /\ f[0] = r
      /\ \A i \in 1 .. n : f[i] = ReadSymbol(f[i - 1], v[i])
  BY <1>4 DEF Rounds
<1> DEFINE Come(i) == Reader("value", <<key>>, u \o SubSeq(v, 1, i), o)
           S == {i \in Nat : i <= n => f[i] = Come(i)}
<1>6. 0 \in S
  <2>1. u \o SubSeq(v, 1, 0) = u
    BY DEF Texts
  <2>. QED
    BY <1>2, <1>5, <2>1
<1>7. ASSUME NEW i \in Nat, i \in S PROVE i + 1 \in S
  <2>1. CASE i + 1 <= n
    <3>1. i + 1 \in 1 .. n /\ (i + 1) - 1 = i
      BY <2>1
    <3>2. f[i] = Come(i)
      BY <1>4, <1>7, <2>1
    <3>3. f[i + 1] = ReadSymbol(f[i], v[i + 1])
      BY <1>5, <3>1
    <3>4. v[i + 1] # "blank" /\ v[i + 1] # "backslash"
      BY <1>1, <3>1
    <3>5. ReadSymbol(Come(i), v[i + 1])
            = Reader("value", <<key>>, Append(u \o SubSeq(v, 1, i), v[i + 1]), o)
      BY <3>4, ReadValue, Zenon
    <3>6. Append(u \o SubSeq(v, 1, i), v[i + 1]) = u \o SubSeq(v, 1, i + 1)
      BY <1>1, <3>1 DEF Texts
    <3>7. f[i + 1] = Come(i + 1)
      BY <3>2, <3>3, <3>5, <3>6, Zenon
    <3>. QED
      BY <3>7
  <2>2. CASE ~(i + 1 <= n)
    BY <1>7, <2>2
  <2>. QED
    BY <2>1, <2>2
<1> HIDE DEF S
<1>8. Nat \subseteq S
  BY <1>6, <1>7, Induction, Zenon
<1>9. f[n] = Come(n)
  BY <1>4, <1>8 DEF S
<1>10. SubSeq(v, 1, n) = v
  BY <1>1 DEF Texts
<1>. QED
  BY <1>1, <1>2, <1>3, <1>9, <1>10, Zenon DEF Read

(* ... also from its beginning, unless it begins with a quote.             *)
LEMMA ReadPlain ==
  ASSUME NEW key \in Keys, NEW o, NEW v \in Texts, v # Empty, Plain(v)
  PROVE  Read(Reader("before", <<key>>, Empty, o), v) = Reader("value", <<key>>, v, o)
<1>1. PICK t : t = v[1]
  OBVIOUS
<1>2. PICK w : w = Tail(v)
  OBVIOUS
<1>3. /\ <<t>> \in Texts /\ w \in Texts /\ v = <<t>> \o w
      /\ t \notin Special /\ \A i \in 1 .. Len(w) : w[i] \notin Special
  <2>1. v \in Seq(Symbols) /\ v # <<>>
    BY Zenon DEF Texts, Empty
  <2>2. /\ t \in Symbols /\ 1 \in 1 .. Len(v) /\ w \in Seq(Symbols) /\ v = <<t>> \o w
        /\ \A i \in 1 .. Len(w) : i + 1 \in 1 .. Len(v) /\ w[i] = v[i + 1]
    BY <1>1, <1>2, <2>1, HeadAndTail, Zenon
  <2>3. <<t>> \in Texts /\ w \in Texts
    BY <2>2, OneSymbol, Zenon DEF Texts
  <2>4. t \notin Special /\ \A i \in 1 .. Len(w) : w[i] \notin Special
    BY <1>1, <2>2, Zenon DEF Plain
  <2>. QED
    BY <2>2, <2>3, <2>4
<1>4. /\ t # "blank" /\ t # "backslash" /\ t # "quote"
      /\ \A i \in 1 .. Len(w) : w[i] # "blank" /\ w[i] # "backslash"
  BY <1>3 DEF Special
<1>5. PICK r : r = Reader("before", <<key>>, Empty, o)
  OBVIOUS
<1>6. Read(r, v) = Read(Read(r, <<t>>), w)
  BY <1>3, ReadTexts
<1>7. Read(r, <<t>>) = Reader("value", <<key>>, <<t>>, o)
  <2>1. Read(r, <<t>>) = ReadSymbol(r, t)
    BY ReadOne, Zenon
  <2>2. ReadSymbol(r, t) = Reader("value", <<key>>, <<t>>, o)
    BY <1>4, <1>5, ReadValue
  <2>. QED
    BY <2>1, <2>2
<1>8. Read(Reader("value", <<key>>, <<t>>, o), w) = Reader("value", <<key>>, <<t>> \o w, o)
  BY <1>3, <1>4, ReadRest, Zenon
<1>. QED
  BY <1>3, <1>5, <1>6, <1>7, <1>8, Zenon

LEMMA TextOfSymbols ==
  /\ Empty \in Texts /\ <<"blank">> \in Texts
  /\ \A key \in Keys : <<key>> \in Texts /\ <<key, "=">> \in Texts
  /\ \A key \in Keys : <<key, "=">> = <<key>> \o <<"=">>
  /\ <<"=">> \in Texts
<1>1. Keys \subseteq Symbols /\ Special \subseteq Symbols
  BY Zenon DEF Symbols
<1>2. "blank" \in Symbols /\ "=" \in Symbols
  BY <1>1 DEF Special
<1>3. Empty \in Texts
  BY DEF Empty, Texts
<1>4. <<"blank">> \in Texts /\ <<"=">> \in Texts /\ \A key \in Keys : <<key>> \in Texts
  BY <1>1, <1>2, OneSymbol, Zenon DEF Texts
<1>5. ASSUME NEW key \in Keys
      PROVE  <<key, "=">> = <<key>> \o <<"=">> /\ <<key>> \o <<"=">> \in Texts
  <2>1. PICK S : S = Symbols
    OBVIOUS
  <2>2. PICK e : e = "="
    OBVIOUS
  <2>3. key \in S /\ e \in S
    BY <1>1, <1>2, <2>1, <2>2
  <2>4. <<key, e>> = <<key>> \o <<e>> /\ <<key>> \o <<e>> \in Seq(S)
    BY <2>3
  <2>. QED
    BY <2>1, <2>2, <2>4 DEF Texts
<1>. QED
  BY <1>3, <1>4, <1>5

(* Nothing but the value of a setting follows its name.                    *)
LEMMA ReadBlock ==
  ASSUME NEW config, NEW k \in 1 .. 5, config[Key[k]] \in Texts, NEW r
  PROVE  /\ Block(config, k) \in Texts
         /\ Read(r, Block(config, k))
              = Read(ReadSymbol(ReadSymbol(r, Key[k]), "="), config[Key[k]])
<1>1. PICK key \in Keys : key = Key[k]
  BY KeyNumbers
<1>2. PICK v \in Texts : v = config[key]
  BY <1>1
<1>3. Block(config, k) = <<key, "=">> \o v
  BY <1>1, <1>2 DEF Block
<1>4. Block(config, k) \in Texts
  BY <1>3, TextOfSymbols DEF Texts
<1>5. PICK name : name = <<key, "=">>
  OBVIOUS
<1>6. PICK a : a = <<key>>
  OBVIOUS
<1>7. PICK b : b = <<"=">>
  OBVIOUS
<1>8. name \in Texts /\ a \in Texts /\ b \in Texts /\ name = a \o b
  BY <1>5, <1>6, <1>7, TextOfSymbols
<1>9. Read(r, name \o v) = Read(Read(r, name), v)
  BY <1>8, ReadTexts
<1>10. Read(r, a \o b) = Read(Read(r, a), b)
  BY <1>8, ReadTexts
<1>11. Read(r, a) = ReadSymbol(r, key)
  BY <1>6, ReadOne
<1>12. Read(Read(r, a), b) = ReadSymbol(Read(r, a), "=")
  BY <1>7, ReadOne
<1>13. Read(r, name) = ReadSymbol(ReadSymbol(r, key), "=")
  BY <1>8, <1>10, <1>11, <1>12
<1>. QED
  BY <1>1, <1>2, <1>3, <1>4, <1>5, <1>9, <1>13

-----------------------------------------------------------------------------
(* What is known between two blocks.  Sound: the settings of the first k   *)
(* blocks are the given ones.  Damaged: one of them has a "=" in it.       *)
Sound(config, k, o) ==
  \A j \in 1 .. k : o[Key[j]] = config[Key[j]] /\ config[Key[j]] # Empty
Damaged(k, o) == \E j \in 1 .. k : HasEquals(o[Key[j]])
Known(config, k, o) == o \in Options /\ (Sound(config, k, o) \/ Damaged(k, o))

AtBlank(config, k, r) ==
  \/ \E o : Known(config, k, o) /\ r = Reader("between", Empty, Empty, o)
  \/ k > 0 /\ \E o \in Options : r = Reader("before", <<Key[k]>>, Empty, o)

(* ... and behind the last symbol of block k.  The setting before it may   *)
(* have taken it for its value.                                            *)
AtEnd(config, k, r) ==
  \/ \E o : /\ Known(config, k - 1, o)
            /\ config[Key[k]] = Empty /\ r = Reader("before", <<Key[k]>>, Empty, o)
  \/ \E o : /\ Known(config, k - 1, o)
            /\ config[Key[k]] # Empty /\ r = Reader("value", <<Key[k]>>, config[Key[k]], o)
  \/ k > 1 /\ \E o \in Options, v \in Texts :
       HasEquals(v) /\ r = Reader("value", <<Key[k - 1]>>, v, o)

PlainConfig(config) ==
  \A k \in 1 .. 5 : config[Key[k]] \in Texts /\ Plain(config[Key[k]])

LEMMA AppendAndMore ==
  ASSUME NEW S, NEW a \in Seq(S), NEW e \in S, NEW v \in Seq(S)
  PROVE  LET u == Append(a, e)
         IN /\ u \in Seq(S) /\ u \o v \in Seq(S)
            /\ Len(a) + 1 \in 1 .. Len(u \o v) /\ (u \o v)[Len(a) + 1] = e
<1>1. PICK u : u = Append(a, e)
  OBVIOUS
<1>2. u \in Seq(S) /\ Len(u) = Len(a) + 1 /\ u[Len(a) + 1] = e /\ Len(a) \in Nat
  BY <1>1
<1>3. u \o v \in Seq(S) /\ Len(u \o v) = Len(u) + Len(v) /\ Len(v) \in Nat
  BY <1>2
<1>4. Len(a) + 1 \in 1 .. Len(u \o v)
  BY <1>2, <1>3
<1>5. (u \o v)[Len(a) + 1] = u[Len(a) + 1]
  BY <1>2, <1>3
<1>. QED
  BY <1>1, <1>2, <1>3, <1>4, <1>5

LEMMA EqualsStays ==
  ASSUME NEW key \in Keys, NEW v \in Texts
  PROVE  LET u == Append(<<key>>, "=")
         IN u \in Texts /\ u \o v \in Texts /\ HasEquals(u \o v)
<1>1. PICK a : a = <<key>>
  OBVIOUS
<1>2. PICK e \in Symbols : e = "="
  BY Zenon DEF Symbols, Special
<1>3. PICK u : u = Append(a, e)
  OBVIOUS
<1>4. a \in Seq(Symbols) /\ v \in Seq(Symbols)
  BY <1>1, TextOfSymbols DEF Texts
<1>5. /\ u \in Seq(Symbols) /\ u \o v \in Seq(Symbols)
      /\ Len(a) + 1 \in 1 .. Len(u \o v) /\ (u \o v)[Len(a) + 1] = e
  BY <1>3, <1>4, AppendAndMore
<1>6. HasEquals(u \o v)
  BY <1>2, <1>5 DEF HasEquals
<1>. QED
  BY <1>1, <1>2, <1>3, <1>5, <1>6 DEF Texts

(* Block k is read.                                                        *)
LEMMA BlockRead ==
  ASSUME NEW config, PlainConfig(config), NEW k \in 1 .. 5, NEW r,
         AtBlank(config, k - 1, r)
  PROVE  AtEnd(config, k, Read(r, Block(config, k)))
<1>1. PICK key \in Keys : key = Key[k]
  BY KeyNumbers
<1>2. PICK v \in Texts : v = config[key] /\ Plain(v)
  BY <1>1 DEF PlainConfig
<1>3. Read(r, Block(config, k)) = Read(ReadSymbol(ReadSymbol(r, key), "="), v)
  BY <1>1, <1>2, ReadBlock
<1>4. \A i \in 1 .. Len(v) : v[i] # "blank" /\ v[i] # "backslash"
  BY <1>2 DEF Plain, Special
<1>5. CASE \E o : Known(config, k - 1, o) /\ r = Reader("between", Empty, Empty, o)
  <2>1. PICK o : Known(config, k - 1, o) /\ r = Reader("between", Empty, Empty, o)
    BY <1>5
  <2>2. ReadSymbol(ReadSymbol(r, key), "=") = Reader("before", <<key>>, Empty, o)
    BY <2>1, ReadName
  <2>3. CASE v = Empty
    <3>1. Read(Reader("before", <<key>>, Empty, o), Empty) = Reader("before", <<key>>, Empty, o)
      BY ReadNothing
    <3>2. Read(r, Block(config, k)) = Reader("before", <<key>>, Empty, o)
      BY <1>3, <2>2, <2>3, <3>1
    <3>. QED
      BY <1>1, <1>2, <2>1, <2>3, <3>2 DEF AtEnd
  <2>4. CASE v # Empty
    <3>1. Read(r, Block(config, k)) = Reader("value", <<key>>, v, o)
      BY <1>2, <1>3, <2>2, <2>4, ReadPlain
    <3>. QED
      BY <1>1, <1>2, <2>1, <2>4, <3>1 DEF AtEnd
  <2>. QED
    BY <2>3, <2>4
<1>6. CASE k - 1 > 0 /\ \E o \in Options : r = Reader("before", <<Key[k - 1]>>, Empty, o)
  <2>1. PICK o \in Options : r = Reader("before", <<Key[k - 1]>>, Empty, o)
    BY <1>6
  <2>2. PICK former \in Keys : former = Key[k - 1]
    BY <1>6, KeyNumbers
  <2>3. key # "blank" /\ key # "backslash" /\ key # "quote"
    BY KeyNumbers DEF Special
  <2>4. ReadSymbol(r, key) = Reader("value", <<former>>, <<key>>, o)
    BY <2>1, <2>2, <2>3, ReadValue
  <2>5. PICK u : u = Append(<<key>>, "=")
    OBVIOUS
  <2>6. u \in Texts /\ u \o v \in Texts /\ HasEquals(u \o v)
    BY <2>5, EqualsStays
  <2>7. ReadSymbol(Reader("value", <<former>>, <<key>>, o), "=")
          = Reader("value", <<former>>, u, o)
    BY <2>5, ReadValue
  <2>8. Read(Reader("value", <<former>>, u, o), v) = Reader("value", <<former>>, u \o v, o)
    BY <1>4, <2>6, ReadRest
  <2>9. Read(r, Block(config, k)) = Reader("value", <<former>>, u \o v, o)
    BY <1>3, <2>4, <2>7, <2>8
  <2>10. k > 1
    BY <1>6
  <2>. QED
    BY <2>2, <2>6, <2>9, <2>10 DEF AtEnd
<1>. QED
  BY <1>5, <1>6 DEF AtBlank

(* The value of a setting is stored when it ends.                          *)
LEMMA Stored ==
  ASSUME NEW config, PlainConfig(config), NEW k \in 1 .. 5, NEW o, NEW v \in Texts,
         \/ Known(config, k - 1, o) /\ v = config[Key[k]] /\ v # Empty
         \/ o \in Options /\ HasEquals(v)
  PROVE  Known(config, k, [o EXCEPT ![Key[k]] = v])
<1>1. PICK p : p = [o EXCEPT ![Key[k]] = v]
  OBVIOUS
<1>2. o \in Options /\ Key[k] \in Keys
  BY KeyNumbers DEF Known
<1>3. p \in Options /\ p[Key[k]] = v
  BY <1>1, <1>2 DEF Options
<1>4. \A j \in 1 .. k - 1 : j \in 1 .. k /\ p[Key[j]] = o[Key[j]]
  <2> TAKE j \in 1 .. k - 1
  <2>1. j \in 1 .. 5 /\ j # k /\ j \in 1 .. k
    OBVIOUS
  <2>2. Key[j] \in Keys /\ Key[j] # Key[k]
    BY <2>1, KeyNumbers
  <2>. QED
    BY <1>1, <1>2, <2>1, <2>2 DEF Options
<1>5. \A j \in 1 .. k : j = k \/ j \in 1 .. k - 1
  OBVIOUS
<1>6. CASE o \in Options /\ HasEquals(v)
  BY <1>1, <1>3, <1>6 DEF Known, Damaged
<1>7. CASE Known(config, k - 1, o) /\ v = config[Key[k]] /\ v # Empty
  <2>1. CASE Sound(config, k - 1, o)
    <3>1. Sound(config, k, p)
      BY <1>3, <1>4, <1>5, <1>7, <2>1 DEF Sound
    <3>. QED
      BY <1>1, <1>3, <3>1 DEF Known
  <2>2. CASE Damaged(k - 1, o)
    <3>1. Damaged(k, p)
      BY <1>4, <2>2 DEF Damaged
    <3>. QED
      BY <1>1, <1>3, <3>1 DEF Known
  <2>. QED
    BY <1>7, <2>1, <2>2 DEF Known
<1>. QED
  BY <1>6, <1>7

(* The blank behind block k.                                               *)
LEMMA BlankRead ==
  ASSUME NEW config, PlainConfig(config), NEW k \in 1 .. 4, NEW r, AtEnd(config, k, r)
  PROVE  AtBlank(config, k, Read(r, <<"blank">>))
<1>1. k \in 1 .. 5 /\ k > 0 /\ Key[k] \in Keys
  BY KeyNumbers
<1>2. Read(r, <<"blank">>) = ReadSymbol(r, "blank")
  BY ReadOne
<1>3. CASE \E o : /\ Known(config, k - 1, o)
                  /\ config[Key[k]] = Empty /\ r = Reader("before", <<Key[k]>>, Empty, o)
  <2>1. PICK o : Known(config, k - 1, o) /\ r = Reader("before", <<Key[k]>>, Empty, o)
    BY <1>3
  <2>2. ReadSymbol(r, "blank") = r
    BY <1>1, <2>1, ReadBlank
  <2>. QED
    BY <1>1, <1>2, <2>1, <2>2 DEF AtBlank, Known
<1>4. CASE \E o : /\ Known(config, k - 1, o)
                  /\ config[Key[k]] # Empty /\ r = Reader("value", <<Key[k]>>, config[Key[k]], o)
  <2>1. PICK o : /\ Known(config, k - 1, o) /\ config[Key[k]] # Empty
                 /\ r = Reader("value", <<Key[k]>>, config[Key[k]], o)
    BY <1>4
  <2>2. ReadSymbol(r, "blank")
          = Reader("between", Empty, Empty, [o EXCEPT ![Key[k]] = config[Key[k]]])
    BY <1>1, <2>1, ReadBlank
  <2>3. Known(config, k, [o EXCEPT ![Key[k]] = config[Key[k]]])
    BY <1>1, <2>1, Stored DEF PlainConfig
  <2>. QED
    BY <1>2, <2>2, <2>3 DEF AtBlank
<1>5. CASE k > 1 /\ \E o \in Options, v \in Texts :
             HasEquals(v) /\ r = Reader("value", <<Key[k - 1]>>, v, o)
  <2>1. PICK o \in Options, v \in Texts :
          HasEquals(v) /\ r = Reader("value", <<Key[k - 1]>>, v, o)
    BY <1>5
  <2>2. k - 1 \in 1 .. 5 /\ Key[k - 1] \in Keys
    BY <1>5, KeyNumbers
  <2>3. PICK p : p = [o EXCEPT ![Key[k - 1]] = v]
    OBVIOUS
  <2>4. ReadSymbol(r, "blank") = Reader("between", Empty, Empty, p)
    BY <2>1, <2>2, <2>3, ReadBlank
  <2>5. Damaged(k, p) /\ p \in Options
    <3>1. k - 1 \in 1 .. k /\ p[Key[k - 1]] = v
      BY <2>2, <2>3, <1>5 DEF Options
    <3>2. p \in Options
      BY <2>2, <2>3 DEF Options
    <3>. QED
      BY <2>1, <3>1, <3>2 DEF Damaged
  <2>6. Known(config, k, p)
    BY <2>5 DEF Known
  <2>. QED
    BY <1>2, <2>4, <2>6 DEF AtBlank
<1>. QED
  BY <1>3, <1>4, <1>5 DEF AtEnd

(* The end of the text behind the last block.                              *)
LEMMA EndRead ==
  ASSUME NEW config, PlainConfig(config), NEW r, AtEnd(config, 5, r)
  PROVE  /\ ReadEnd(r).at = "between"
         /\ Sound(config, 4, ReadEnd(r).options) \/ Damaged(4, ReadEnd(r).options)
<1>1. 5 \in 1 .. 5 /\ 4 \in 1 .. 5 /\ 5 - 1 = 4
  OBVIOUS
<1>2. Key[5] \in Keys /\ Key[4] \in Keys /\ \A j \in 1 .. 4 : Key[j] \in Keys /\ Key[j] # Key[5]
  BY KeyNumbers
<1>3. ASSUME NEW o \in Options, NEW at \in {"before", "value"}, NEW key \in Keys, NEW v,
             r = Reader(at, <<key>>, v, o)
      PROVE  ReadEnd(r) = Reader("between", Empty, Empty, [o EXCEPT ![key] = v])
  <2>1. ReadEnd(r) = Store(r)
    BY <1>3 DEF ReadEnd, Reader
  <2>. QED
    BY <1>3, <2>1, StoreValue
<1>4. ASSUME NEW o, Known(config, 4, o), NEW at \in {"before", "value"}, NEW v,
             r = Reader(at, <<Key[5]>>, v, o)
      PROVE  /\ ReadEnd(r).at = "between"
             /\ Sound(config, 4, ReadEnd(r).options) \/ Damaged(4, ReadEnd(r).options)
  <2>1. PICK p : p = [o EXCEPT ![Key[5]] = v]
    OBVIOUS
  <2>2. ReadEnd(r) = Reader("between", Empty, Empty, p) /\ o \in Options
    BY <1>2, <1>3, <1>4, <2>1 DEF Known
  <2>3. ReadEnd(r).at = "between" /\ ReadEnd(r).options = p
    BY <2>2 DEF Reader
  <2>4. \A j \in 1 .. 4 : p[Key[j]] = o[Key[j]]
    BY <1>2, <2>1, <2>2 DEF Options
  <2>5. Sound(config, 4, p) \/ Damaged(4, p)
    BY <1>4, <2>4 DEF Known, Sound, Damaged
  <2>. QED
    BY <2>3, <2>5
<1>5. CASE \E o \in Options, v \in Texts :
             HasEquals(v) /\ r = Reader("value", <<Key[4]>>, v, o)
  <2>1. PICK o \in Options, v \in Texts :
          HasEquals(v) /\ r = Reader("value", <<Key[4]>>, v, o)
    BY <1>5
  <2>2. PICK p : p = [o EXCEPT ![Key[4]] = v]
    OBVIOUS
  <2>3. ReadEnd(r) = Reader("between", Empty, Empty, p)
    BY <1>2, <1>3, <2>1, <2>2
  <2>4. ReadEnd(r).at = "between" /\ ReadEnd(r).options = p
    BY <2>3 DEF Reader
  <2>5. p[Key[4]] = v /\ 4 \in 1 .. 4
    BY <1>2, <2>2 DEF Options
  <2>6. Damaged(4, p)
    BY <2>1, <2>5 DEF Damaged
  <2>. QED
    BY <2>4, <2>6
<1>. QED
  BY <1>1, <1>4, <1>5 DEF AtEnd

(* All of them.                                                            *)
LEMMA AllRead ==
  ASSUME NEW config, PlainConfig(config)
  PROVE  AtEnd(config, 5, Read(Start, ConnectionString(config)))
<1>1. PICK b : b = <<"blank">>
  OBVIOUS
<1>2. PICK B : B = [k \in 1 .. 5 |-> Block(config, k)]
  OBVIOUS
<1>3. b \in Texts /\ \A k \in 1 .. 5 : B[k] = Block(config, k) /\ B[k] \in Texts
  BY <1>1, <1>2, TextOfSymbols, ReadBlock DEF PlainConfig
<1>4. AtBlank(config, 0, Start)
  <2>1. PICK o : o = [key \in Keys |-> Empty]
    OBVIOUS
  <2>2. o \in Options
    BY <2>1, TextOfSymbols DEF Options
  <2>3. Known(config, 0, o)
    BY <2>2 DEF Known, Sound
  <2>. QED
    BY <2>1, <2>3 DEF AtBlank, Start, Reader
<1>5. \A k \in 1 .. 5 : \A r :
        AtBlank(config, k - 1, r) => AtEnd(config, k, Read(r, B[k]))
  BY <1>3, BlockRead
<1>6. \A k \in 1 .. 4 : \A r : AtEnd(config, k, r) => AtBlank(config, k, Read(r, b))
  BY <1>1, BlankRead
<1>7. /\ 1 \in 1 .. 5 /\ 2 \in 1 .. 5 /\ 3 \in 1 .. 5 /\ 4 \in 1 .. 5 /\ 5 \in 1 .. 5
      /\ 1 \in 1 .. 4 /\ 2 \in 1 .. 4 /\ 3 \in 1 .. 4 /\ 4 \in 1 .. 4
      /\ 1 - 1 = 0 /\ 2 - 1 = 1 /\ 3 - 1 = 2 /\ 4 - 1 = 3 /\ 5 - 1 = 4
  OBVIOUS
<1> DEFINE a1 == B[1]
           a2 == a1 \o b
           a3 == a2 \o B[2]
           a4 == a3 \o b
           a5 == a4 \o B[3]
           a6 == a5 \o b
           a7 == a6 \o B[4]
           a8 == a7 \o b
           a9 == a8 \o B[5]
<1>8. ConnectionString(config) = a9
  BY <1>1, <1>3, <1>7 DEF ConnectionString
<1>9. \A s, t \in Texts : s \o t \in Texts /\ Read(Start, s \o t) = Read(Read(Start, s), t)
  BY ReadTexts
<1>10. a1 \in Texts /\ AtEnd(config, 1, Read(Start, a1))
  BY <1>3, <1>4, <1>5, <1>7
<1>11. a2 \in Texts /\ AtBlank(config, 1, Read(Start, a2))
  BY <1>3, <1>6, <1>7, <1>9, <1>10
<1>12. a3 \in Texts /\ AtEnd(config, 2, Read(Start, a3))
  BY <1>3, <1>5, <1>7, <1>9, <1>11
<1>13. a4 \in Texts /\ AtBlank(config, 2, Read(Start, a4))
  BY <1>3, <1>6, <1>7, <1>9, <1>12
<1>14. a5 \in Texts /\ AtEnd(config, 3, Read(Start, a5))
  BY <1>3, <1>5, <1>7, <1>9, <1>13
<1>15. a6 \in Texts /\ AtBlank(config, 3, Read(Start, a6))
  BY <1>3, <1>6, <1>7, <1>9, <1>14
<1>16. a7 \in Texts /\ AtEnd(config, 4, Read(Start, a7))
  BY <1>3, <1>5, <1>7, <1>9, <1>15
<1>17. a8 \in Texts /\ AtBlank(config, 4, Read(Start, a8))
  BY <1>3, <1>6, <1>7, <1>9, <1>16
<1>18. AtEnd(config, 5, Read(Start, a9))
  BY <1>3, <1>5, <1>7, <1>9, <1>17
<1>. QED
  BY <1>8, <1>18

-----------------------------------------------------------------------------
(* The settings of a source are texts.                                     *)
LEMMA MoreSymbols ==
  ASSUME NEW S, NEW T, S \subseteq T, NEW s \in Seq(S)
  PROVE  s \in Seq(T)
OBVIOUS

LEMMA DefaultTexts == \A key \in Keys : Default[key] \in Texts
<1>1. {"localhost", "5432", "bpmn_engine", "postgres", "password"} \subseteq Symbols
  BY Zenon DEF Symbols
<1>2. \A t \in {"localhost", "5432", "bpmn_engine", "postgres", "password"} : <<t>> \in Texts
  BY <1>1, OneSymbol, Zenon DEF Texts
<1>3. /\ <<"localhost">> \in Texts /\ <<"5432">> \in Texts /\ <<"bpmn_engine">> \in Texts
      /\ <<"postgres">> \in Texts /\ <<"password">> \in Texts
  BY <1>2, Zenon
<1>4. /\ Default["host"] = <<"localhost">> /\ Default["port"] = <<"5432">>
      /\ Default["dbname"] = <<"bpmn_engine">> /\ Default["user"] = <<"postgres">>
      /\ Default["password"] = <<"password">>
  BY DEF Default
<1>. QED
  BY <1>3, <1>4 DEF Keys

LEMMA GivenTexts ==
  ASSUME NEW s \in Sources, NEW key \in Keys
  PROVE  Given(s)[key] \in Texts
<1>1. Given(s)[key] = IF key \in DOMAIN s.values THEN s.values[key] ELSE Default[key]
  BY DEF Given
<1>2. STRING \subseteq Symbols
  BY Zenon DEF Symbols
<1>3. CASE key \in DOMAIN s.values
  <2>1. s.values[key] \in Seq(STRING)
    BY <1>3, SourcesAssumption
  <2>2. s.values[key] \in Seq(Symbols)
    BY <1>2, <2>1, MoreSymbols
  <2>. QED
    BY <1>1, <1>3, <2>2 DEF Texts
<1>4. CASE key \notin DOMAIN s.values
  BY <1>1, <1>4, DefaultTexts
<1>. QED
  BY <1>3, <1>4

(* What the server is told when it accepts the settings of a caller is     *)
(* what the caller asked for: had a setting swallowed the next one, its    *)
(* value would have a "=".                                                 *)
LEMMA AcceptedMeans ==
  ASSUME NEW s \in Accepted, CanRead(s), \A key \in Keys : Plain(Given(s)[key])
  PROVE  MeansServer(s)
<1>1. PICK config : config = Given(s)
  OBVIOUS
<1>2. s \in Sources /\ Understood(config, LibpqDefault) = Server
  BY <1>1 DEF Accepted
<1>3. \A k \in 1 .. 5 : Key[k] \in Keys
  BY KeyNumbers
<1>4. PlainConfig(config)
  BY <1>1, <1>2, <1>3, GivenTexts DEF PlainConfig
<1>5. PICK r : r = ReadEnd(Read(Start, ConnectionString(config)))
  OBVIOUS
<1>6. r.at = "between" /\ (Sound(config, 4, r.options) \/ Damaged(4, r.options))
  BY <1>4, <1>5, AllRead, EndRead
<1>7. Server = [key \in Keys |-> IF r.options[key] = Empty THEN LibpqDefault[key]
                                 ELSE r.options[key]]
  BY <1>2, <1>5, <1>6 DEF Understood
<1>8. \A j \in 1 .. 4 : /\ Key[j] \in Keys \ {"password"}
                        /\ r.options[Key[j]] # Empty => Server[Key[j]] = r.options[Key[j]]
  BY <1>7, KeyNumbers
<1>9. ~Damaged(4, r.options)
  <2>1. SUFFICES ASSUME NEW j \in 1 .. 4, HasEquals(r.options[Key[j]]) PROVE FALSE
    BY DEF Damaged
  <2>2. PICK i \in 1 .. Len(r.options[Key[j]]) : r.options[Key[j]][i] = "="
    BY <2>1 DEF HasEquals
  <2>3. r.options[Key[j]] # Empty
    BY <2>2 DEF Empty
  <2>4. Plain(r.options[Key[j]])
    BY <1>8, <2>3, ServerAssumption
  <2>. QED
    BY <2>2, <2>4 DEF Plain, Special
<1>10. \A j \in 1 .. 4 : config[Key[j]] = Server[Key[j]]
  BY <1>6, <1>8, <1>9 DEF Sound
<1>11. \A key \in Keys \ {"password"} : \E j \in 1 .. 4 : Key[j] = key
  <2> TAKE key \in Keys \ {"password"}
  <2>1. PICK j \in 1 .. 5 : Key[j] = key
    BY KeyNumbers
  <2>2. j <= 4
    BY <2>1, KeyNumbers
  <2>. QED
    BY <2>1, <2>2
<1>12. \A key \in Keys \ {"password"} : Given(s)[key] = Server[key]
  BY <1>1, <1>10, <1>11
<1>13. s.from = "file" => s.readable /\ s.numbers = {}
  BY DEF CanRead, CanReadJson
<1>. QED
  BY <1>12, <1>13 DEF MeansServer

-----------------------------------------------------------------------------

LEMMA SettingsStep ==
  ASSUME ConstructorOK, SettingsOK, SetupNext
  PROVE  SettingsOK'
<1>1. ASSUME NEW c \in Callers, Leave(c), source' = source,
             engine' = engine \/ engine' = [engine EXCEPT ![c] = FALSE]
      PROVE  SettingsOK'
  <2>1. \A d \in Callers : engine'[d] => engine[d]
    BY <1>1 DEF ConstructorOK
  <2>2. \A d \in Callers : pc'[d] # "outside" => pc'[d] = pc[d]
    BY <1>1 DEF ConstructorOK, Leave
  <2>. QED
    BY <1>1, <2>1, <2>2 DEF SettingsOK, Connected
<1>2. ASSUME NEW c \in Callers, NextTable(c), pc[c] \in {"creating", "inserting"},
             source' = source
      PROVE  SettingsOK'
  <2>1. /\ CanRead(source[c]) /\ source[c] \in Accepted
    BY <1>2 DEF SettingsOK, Connected
  <2>2. \A d \in Callers \ {c} : pc'[d] = pc[d] /\ engine'[d] = engine[d]
    BY <1>2 DEF NextTable, ConstructorOK
  <2>. QED
    BY <1>2, <2>1, <2>2 DEF SettingsOK, Connected
<1>3. ASSUME NEW c \in Callers, Create(c) PROVE SettingsOK'
  <2>1. /\ CanRead(source[c]) /\ UNCHANGED <<source, engine>>
        /\ pc' = [pc EXCEPT ![c] = "connecting"] /\ ~engine[c]
    BY <1>3 DEF Create
  <2>. QED
    BY <2>1 DEF SettingsOK, Connected, ConstructorOK
<1>4. ASSUME NEW c \in Callers, Connect(c) PROVE SettingsOK'
  <2>1. /\ source[c] \in Accepted /\ UNCHANGED <<source, engine>>
        /\ pc' = [pc EXCEPT ![c] = "creating"] /\ pc[c] = "connecting"
    BY <1>4 DEF Connect
  <2>. QED
    BY <2>1 DEF SettingsOK, Connected, ConstructorOK
<1>5. ASSUME NEW c \in Callers, CreateTable(c) PROVE SettingsOK'
  <2>1. CASE Table[next[c]] \in tables
    BY <1>2, <1>5, <2>1 DEF CreateTable, StatementDone
  <2>2. CASE Table[next[c]] \notin tables
    <3>1. /\ UNCHANGED <<source, engine>> /\ pc[c] = "creating"
          /\ pc' = [pc EXCEPT ![c] = "inserting"]
      BY <1>5, <2>2 DEF CreateTable
    <3>. QED
      BY <3>1 DEF SettingsOK, Connected, ConstructorOK
  <2>. QED
    BY <2>1, <2>2
<1>6. ASSUME NEW c \in Callers, InsertTable(c) PROVE SettingsOK'
  BY <1>1, <1>2, <1>6 DEF InsertTable, StatementThrows, StatementDone
<1>7. ASSUME NEW c \in Callers,
             ConnectFails(c) \/ StatementRefused(c) \/ ConnectionBreaks(c) \/ Crash(c)
      PROVE  SettingsOK'
  BY <1>1, <1>7 DEF ConnectFails, StatementRefused, StatementThrows, ConnectionBreaks, Crash
<1>8. ASSUME NEW c \in Callers, Destroy(c) PROVE SettingsOK'
  <2>1. UNCHANGED <<source, pc>> /\ \A d \in Callers : engine'[d] => engine[d]
    BY <1>8 DEF Destroy, ConstructorOK
  <2>. QED
    BY <2>1 DEF SettingsOK, Connected
<1>9. ASSUME NEW o \in orphan, OrphanEnds(o) PROVE SettingsOK'
  BY <1>9 DEF OrphanEnds, program, SettingsOK, Connected
<1>. QED
  BY <1>3, <1>4, <1>5, <1>6, <1>7, <1>8, <1>9 DEF SetupNext

(* An engine made of plain values works on the database its caller has     *)
(* named.  libpq reads the connection string symbol by symbol and comes to *)
(* the values that were written, or one setting has swallowed the next;    *)
(* then its value has a "=", which the server's own do not have.           *)
THEOREM EnginesAsConfigured == SetupSpec => []BuiltAsConfigured
<1>1. SetupInit => SettingsOK
  BY DEF SetupInit, SettingsOK, Connected
<1>2. ConstructorOK /\ SettingsOK /\ [SetupNext]_setupVars => SettingsOK'
  <2>1. CASE SetupNext
    BY <2>1, SettingsStep
  <2>2. CASE UNCHANGED setupVars
    BY <2>2 DEF setupVars, program, SettingsOK, Connected
  <2>. QED
    BY <2>1, <2>2
<1>3. SettingsOK => BuiltAsConfigured
  BY AcceptedMeans DEF SettingsOK, Connected, BuiltAsConfigured
<1>. QED
  BY <1>1, <1>2, <1>3, SetupInvariant, PTL DEF SetupSpec

-----------------------------------------------------------------------------
(* The connections nobody closes.                                          *)

LEMMA OneMore ==
  ASSUME NEW S, NEW x, IsFiniteSet(S)
  PROVE  /\ IsFiniteSet(S \cup {x})
         /\ Cardinality(S) \in Nat /\ Cardinality(S \cup {x}) \in Nat
         /\ Cardinality(S \cup {x}) <= Cardinality(S) + 1
<1>1. /\ IsFiniteSet(S \cup {x})
      /\ Cardinality(S \cup {x}) = IF x \in S THEN Cardinality(S) ELSE Cardinality(S) + 1
  BY FS_AddElement
<1>2. Cardinality(S) \in Nat
  BY FS_CardinalityType
<1>. QED
  BY <1>1, <1>2

LEMMA FiveElements ==
  ASSUME NEW a, NEW b, NEW c, NEW d, NEW e
  PROVE  IsFiniteSet({a, b, c, d, e}) /\ Cardinality({a, b, c, d, e}) <= 5
<1>1. IsFiniteSet({a}) /\ Cardinality({a}) = 1
  BY FS_Singleton
<1>2. PICK A : A = {a}
  OBVIOUS
<1>3. PICK B : B = A \cup {b}
  OBVIOUS
<1>4. PICK C : C = B \cup {c}
  OBVIOUS
<1>5. PICK D : D = C \cup {d}
  OBVIOUS
<1>6. PICK E : E = D \cup {e}
  OBVIOUS
<1>7. IsFiniteSet(A) /\ Cardinality(A) <= 1
  BY <1>1, <1>2
<1>8. IsFiniteSet(B) /\ Cardinality(B) <= 2
  <2>1. IsFiniteSet(A \cup {b}) /\ Cardinality(A \cup {b}) <= Cardinality(A) + 1
    BY <1>7, OneMore
  <2>2. Cardinality(A) \in Nat /\ Cardinality(A \cup {b}) \in Nat
    BY <1>7, OneMore
  <2>. QED
    BY <1>3, <1>7, <2>1, <2>2
<1>9. IsFiniteSet(C) /\ Cardinality(C) <= 3
  <2>1. IsFiniteSet(B \cup {c}) /\ Cardinality(B \cup {c}) <= Cardinality(B) + 1
    BY <1>8, OneMore
  <2>2. Cardinality(B) \in Nat /\ Cardinality(B \cup {c}) \in Nat
    BY <1>8, OneMore
  <2>. QED
    BY <1>4, <1>8, <2>1, <2>2
<1>10. IsFiniteSet(D) /\ Cardinality(D) <= 4
  <2>1. IsFiniteSet(C \cup {d}) /\ Cardinality(C \cup {d}) <= Cardinality(C) + 1
    BY <1>9, OneMore
  <2>2. Cardinality(C) \in Nat /\ Cardinality(C \cup {d}) \in Nat
    BY <1>9, OneMore
  <2>. QED
    BY <1>5, <1>9, <2>1, <2>2
<1>11. IsFiniteSet(E) /\ Cardinality(E) <= 5
  <2>1. IsFiniteSet(D \cup {e}) /\ Cardinality(D \cup {e}) <= Cardinality(D) + 1
    BY <1>10, OneMore
  <2>2. Cardinality(D) \in Nat /\ Cardinality(D \cup {e}) \in Nat
    BY <1>10, OneMore
  <2>. QED
    BY <1>6, <1>10, <2>1, <2>2
<1>12. E = {a, b, c, d, e}
  BY <1>2, <1>3, <1>4, <1>5, <1>6
<1>. QED
  BY <1>11, <1>12

LEMMA TablesFinite == IsFiniteSet(Tables) /\ Cardinality(Tables) <= 5
<1>1. \A t \in Tables : \E k \in {1, 2, 3, 4, 5} : Table[k] = t
  BY TableNumbers
<1>2. \A k \in {1, 2, 3, 4, 5} : Table[k] \in Tables
  BY TableNumbers
<1>3. Tables = {Table[1], Table[2], Table[3], Table[4], Table[5]}
  BY <1>1, <1>2
<1>. QED
  BY <1>3, FiveElements

(* The numbers of the counting.                                            *)
LEMMA CountedSets ==
  ASSUME ConstructorOK, CountOK
  PROVE  /\ Cardinality(Callers) \in Nat /\ Cardinality(Callers) >= 1
         /\ IsFiniteSet(tables) /\ Cardinality(tables) \in 0 .. 5
         /\ IsFiniteSet(Losers) /\ Cardinality(Losers) \in Nat
         /\ Cardinality(Leaks) \in Nat /\ Cardinality(orphan) \in Nat
<1>1. Cardinality(Callers) \in Nat /\ Cardinality(Callers) >= 1
  BY SetupBounds, FS_CardinalityType, FS_EmptySet
<1>2. tables \in SUBSET Tables /\ Losers \in SUBSET Callers
  BY DEF ConstructorOK, Losers
<1>3. IsFiniteSet(tables) /\ Cardinality(tables) <= 5
  <2>1. IsFiniteSet(tables) /\ Cardinality(tables) <= Cardinality(Tables)
    BY <1>2, TablesFinite, FS_Subset
  <2>. QED
    BY <2>1, TablesFinite, FS_CardinalityType
<1>4. IsFiniteSet(Losers)
  BY <1>2, SetupBounds, FS_Subset
<1>5. Cardinality(tables) \in Nat /\ Cardinality(Losers) \in Nat
  BY <1>3, <1>4, FS_CardinalityType
<1>6. Cardinality(Leaks) \in Nat /\ Cardinality(orphan) \in Nat
  BY FS_CardinalityType DEF CountOK
<1>. QED
  BY <1>1, <1>3, <1>4, <1>5, <1>6

LEMMA Products ==
  ASSUME NEW n \in Nat, n >= 1
  PROVE  /\ \A t \in 0 .. 4 : (n - 1) * (t + 1) = (n - 1) * t + (n - 1)
         /\ \A t \in 0 .. 5 : (n - 1) * t <= 5 * (n - 1)
<1>1. ASSUME NEW t \in 0 .. 4 PROVE (n - 1) * (t + 1) = (n - 1) * t + (n - 1)
  <2>1. t \in {0, 1, 2, 3, 4}
    OBVIOUS
  <2>. QED
    BY <2>1
<1>2. ASSUME NEW t \in 0 .. 5 PROVE (n - 1) * t <= 5 * (n - 1)
  <2>1. t \in {0, 1, 2, 3, 4, 5}
    OBVIOUS
  <2>. QED
    BY <2>1
<1>. QED
  BY <1>1, <1>2

LEMMA LeakElements ==
  /\ \A x : x \in Leaks <=> \E c \in Callers : \E k \in 1 .. leaked[c] : x = <<c, k>>
  /\ \A x : x \in Leaks' <=> \E c \in Callers : \E k \in 1 .. leaked'[c] : x = <<c, k>>
  BY DEF Leaks

(* A constructor that throws leaves one connection behind.                 *)
LEMMA OneLeakMore ==
  ASSUME RestTypeOK, IsFiniteSet(Leaks), NEW c \in Callers,
         leaked' = [leaked EXCEPT ![c] = @ + 1]
  PROVE  IsFiniteSet(Leaks') /\ Cardinality(Leaks') <= Cardinality(Leaks) + 1
<1> DEFINE x == <<c, leaked[c] + 1>>
<1>1. leaked[c] \in Nat /\ leaked'[c] = leaked[c] + 1
  BY DEF RestTypeOK
<1>2. \A d \in Callers \ {c} : leaked'[d] = leaked[d]
  BY DEF RestTypeOK
<1>3. ASSUME NEW y \in Leaks' PROVE y \in Leaks \cup {x}
  <2>1. PICK d \in Callers : \E k \in 1 .. leaked'[d] : y = <<d, k>>
    BY <1>3, LeakElements
  <2>2. PICK k \in 1 .. leaked'[d] : y = <<d, k>>
    BY <2>1
  <2>3. CASE d = c /\ k = leaked[c] + 1
    BY <2>2, <2>3
  <2>4. CASE ~(d = c /\ k = leaked[c] + 1)
    <3>1. k \in 1 .. leaked[d]
      BY <1>1, <1>2, <2>2, <2>4
    <3>. QED
      BY <2>2, <3>1, LeakElements
  <2>. QED
    BY <2>3, <2>4
<1>4. Leaks' \in SUBSET (Leaks \cup {x})
  BY <1>3
<1> HIDE DEF x
<1>5. /\ IsFiniteSet(Leaks \cup {x})
      /\ Cardinality(Leaks) \in Nat /\ Cardinality(Leaks \cup {x}) \in Nat
      /\ Cardinality(Leaks \cup {x}) <= Cardinality(Leaks) + 1
  BY OneMore
<1>6. IsFiniteSet(Leaks') /\ Cardinality(Leaks') <= Cardinality(Leaks \cup {x})
  BY <1>4, <1>5, FS_Subset
<1>7. Cardinality(Leaks') \in Nat
  BY <1>6, FS_CardinalityType
<1>. QED
  BY <1>5, <1>6, <1>7

(* A step that enters no table and pays for what it leaves behind.         *)
LEMMA PaidFor ==
  ASSUME ConstructorOK, RestTypeOK, RestTypeOK', CountOK, tables' = tables,
         Losers' \subseteq Losers,
         IsFiniteSet(Leaks'), IsFiniteSet(orphan'),
         NEW a \in {0, 1}, NEW b \in {0, 1}, a + b <= 1,
         Cardinality(Leaks') <= Cardinality(Leaks) + a,
         Cardinality(orphan') <= Cardinality(orphan) + b,
         failures' >= failures + a + b
  PROVE  CountOK'
<1>1. /\ Cardinality(Leaks') \in Nat /\ Cardinality(orphan') \in Nat
      /\ failures \in Nat /\ failures' \in Nat
  BY SetupBounds, FS_CardinalityType DEF RestTypeOK
<1>2. /\ Cardinality(Losers') <= Cardinality(Losers) /\ Cardinality(Losers') \in Nat
      /\ Cardinality(Losers) \in Nat
  <2>1. IsFiniteSet(Losers) /\ Losers' \in SUBSET Losers
    BY CountedSets
  <2>2. IsFiniteSet(Losers') /\ Cardinality(Losers') <= Cardinality(Losers)
    BY <2>1, FS_Subset
  <2>. QED
    BY <2>1, <2>2, FS_CardinalityType
<1> DEFINE paid == (Cardinality(Callers) - 1) * Cardinality(tables)
<1>3. paid \in Int
  BY CountedSets
<1>4. Cardinality(Leaks) + Cardinality(Losers) + Cardinality(orphan) <= paid + failures
  BY DEF CountOK
<1>5. Cardinality(Leaks) \in Nat /\ Cardinality(orphan) \in Nat
  BY CountedSets
<1> HIDE DEF paid
<1>6. Cardinality(Leaks') + Cardinality(Losers') + Cardinality(orphan') <= paid + failures'
  BY <1>1, <1>2, <1>3, <1>4, <1>5
<1>7. (Cardinality(Leaks) + Cardinality(Losers) + Cardinality(orphan)
        <= (Cardinality(Callers) - 1) * Cardinality(tables) + failures)'
  BY <1>6 DEF paid
<1>. QED
  BY <1>7 DEF CountOK

LEMMA NatsAdd ==
  ASSUME NEW leaks \in Nat, NEW losers \in Nat, NEW orphans \in Nat, NEW paid \in Int,
         NEW n \in Nat, NEW f \in Nat, n >= 1,
         leaks + losers + orphans <= paid + f,
         NEW l \in Nat, NEW o \in Nat,
         \/ l <= losers + (n - 1) /\ o <= orphans
         \/ l <= losers + n /\ o <= orphans - 1
  PROVE  leaks + l + o <= (paid + (n - 1)) + f
  OBVIOUS

(* A table is entered, by a constructor that is no loser then, or by a     *)
(* statement whose program is gone.                                        *)
LEMMA TableEntered ==
  ASSUME ConstructorOK, RestTypeOK, CountOK, UNCHANGED <<leaked, failures>>,
         NEW t \in Tables, t \notin tables, tables' = tables \cup {t},
         NEW who \in SUBSET Callers, Losers' \subseteq Losers \cup who,
         IsFiniteSet(orphan'),
         \/ /\ Cardinality(who) <= Cardinality(Callers) - 1
            /\ Cardinality(orphan') <= Cardinality(orphan)
         \/ Cardinality(orphan') <= Cardinality(orphan) - 1
  PROVE  CountOK'
<1> DEFINE n == Cardinality(Callers)
           k == Cardinality(tables)
<1>1. /\ n \in Nat /\ n >= 1 /\ k \in 0 .. 5 /\ IsFiniteSet(tables)
      /\ IsFiniteSet(Losers) /\ Cardinality(Losers) \in Nat
      /\ Cardinality(Leaks) \in Nat /\ Cardinality(orphan) \in Nat
  BY CountedSets
<1>2. failures \in Nat /\ Cardinality(orphan') \in Nat
  BY SetupBounds, FS_CardinalityType DEF RestTypeOK
<1>3. Cardinality(tables') = k + 1 /\ k + 1 <= 5
  <2>1. IsFiniteSet(tables \cup {t}) /\ Cardinality(tables \cup {t}) = k + 1
    BY <1>1, FS_AddElement
  <2>2. tables \cup {t} \in SUBSET Tables
    BY DEF ConstructorOK
  <2>3. Cardinality(tables \cup {t}) <= Cardinality(Tables)
    BY <2>2, TablesFinite, FS_Subset
  <2>4. Cardinality(Tables) \in Nat
    BY TablesFinite, FS_CardinalityType
  <2>. QED
    BY <1>1, <2>1, <2>3, <2>4, TablesFinite
<1>4. /\ IsFiniteSet(who) /\ Cardinality(who) <= n /\ Cardinality(who) \in Nat
  <2>1. IsFiniteSet(who) /\ Cardinality(who) <= n
    BY SetupBounds, FS_Subset
  <2>. QED
    BY <2>1, FS_CardinalityType
<1>5. /\ Cardinality(Losers') <= Cardinality(Losers) + Cardinality(who)
      /\ Cardinality(Losers') \in Nat
  <2>1. /\ IsFiniteSet(Losers \cup who)
        /\ Cardinality(Losers \cup who)
             = Cardinality(Losers) + Cardinality(who) - Cardinality(Losers \cap who)
    BY <1>1, <1>4, FS_Union
  <2>2. Cardinality(Losers \cap who) \in Nat
    BY <1>1, FS_Intersection, FS_CardinalityType
  <2>3. Losers' \in SUBSET (Losers \cup who)
    OBVIOUS
  <2>4. IsFiniteSet(Losers') /\ Cardinality(Losers') <= Cardinality(Losers \cup who)
    BY <2>1, <2>3, FS_Subset
  <2>5. Cardinality(Losers') \in Nat
    BY <2>4, FS_CardinalityType
  <2>6. Cardinality(Losers \cup who) \in Int
    BY <2>1, FS_CardinalityType
  <2>. QED
    BY <1>1, <1>4, <2>1, <2>2, <2>4, <2>5, <2>6
<1>6. (n - 1) * (k + 1) = (n - 1) * k + (n - 1)
  BY <1>1, <1>3, Products
<1>7. Leaks' = Leaks
  BY DEF Leaks
<1>8. Cardinality(Leaks) + Cardinality(Losers) + Cardinality(orphan) <= (n - 1) * k + failures
  BY DEF CountOK
<1>9. (n - 1) * k \in Int
  BY <1>1
<1>10. \/ /\ Cardinality(Losers') <= Cardinality(Losers) + (n - 1)
          /\ Cardinality(orphan') <= Cardinality(orphan)
       \/ /\ Cardinality(Losers') <= Cardinality(Losers) + n
          /\ Cardinality(orphan') <= Cardinality(orphan) - 1
  BY <1>1, <1>4, <1>5
<1> HIDE DEF n, k
<1>11. Cardinality(Leaks) + Cardinality(Losers') + Cardinality(orphan')
         <= ((n - 1) * k + (n - 1)) + failures
  BY <1>1, <1>2, <1>5, <1>8, <1>9, <1>10, NatsAdd
<1>12. Cardinality(Leaks') + Cardinality(Losers') + Cardinality(orphan')
         <= (n - 1) * Cardinality(tables') + failures'
  BY <1>3, <1>6, <1>7, <1>11
<1>13. (Cardinality(Leaks) + Cardinality(Losers) + Cardinality(orphan)
         <= (Cardinality(Callers) - 1) * Cardinality(tables) + failures)'
  BY <1>12 DEF n
<1>14. IsFiniteSet(Leaks')
  BY <1>7 DEF CountOK
<1>. QED
  BY <1>13, <1>14 DEF CountOK

(* What the server goes on with is one statement at most.                  *)
LEMMA OneOrphanMore ==
  ASSUME IsFiniteSet(orphan), NEW c \in Callers,
         orphan' \in {orphan, orphan \cup LeftBehind(c)}
  PROVE  IsFiniteSet(orphan') /\ Cardinality(orphan') <= Cardinality(orphan) + 1
<1>1. Cardinality(orphan) \in Nat
  BY FS_CardinalityType
<1>2. CASE orphan' = orphan
  BY <1>1, <1>2
<1>3. CASE orphan' # orphan
  <2>1. PICK x : orphan' = orphan \cup {x}
    BY <1>3 DEF LeftBehind
  <2>. QED
    BY <2>1, OneMore
<1>. QED
  BY <1>2, <1>3

LEMMA CountStep ==
  ASSUME ConstructorOK, RestTypeOK, CountOK, SetupNext
  PROVE  CountOK'
<1>1. ConstructorOK' /\ RestTypeOK'
  BY ConstructorStep, RestStep
<1>2. /\ IsFiniteSet(Leaks) /\ IsFiniteSet(orphan)
      /\ Cardinality(Leaks) \in Nat /\ Cardinality(orphan) \in Nat
      /\ failures \in Nat
  BY CountedSets DEF CountOK, RestTypeOK
<1>3. leaked' = leaked => Leaks' = Leaks
  BY DEF Leaks
<1>4. ASSUME NEW c \in Callers, pc' = [pc EXCEPT ![c] = pc'[c]], pc'[c] # "inserting",
             \A d \in Callers \ {c} : next'[d] = next[d]
      PROVE  Losers' \subseteq {d \in Callers \ {c} :
                                  pc[d] = "inserting" /\ Table[next[d]] \in tables'}
  BY <1>4 DEF Losers, ConstructorOK
<1>5. ASSUME NEW c \in Callers, Leave(c)
      PROVE  Losers' \subseteq {d \in Callers \ {c} :
                                  pc[d] = "inserting" /\ Table[next[d]] \in tables'}
  BY <1>4, <1>5 DEF Leave, ConstructorOK
<1>6. ASSUME NEW c \in Callers, NextTable(c)
      PROVE  Losers' \subseteq {d \in Callers \ {c} :
                                  pc[d] = "inserting" /\ Table[next[d]] \in tables'}
  <2>1. pc' = [pc EXCEPT ![c] = pc'[c]] /\ pc'[c] \in {"creating", "connecting", "outside"}
    BY <1>6 DEF NextTable, ConstructorOK
  <2>2. \A d \in Callers \ {c} : next'[d] = next[d]
    BY <1>6 DEF NextTable, ConstructorOK
  <2>. QED
    BY <1>4, <2>1, <2>2
<1>7. ASSUME UNCHANGED <<tables, leaked, orphan, failures>>, Losers' \subseteq Losers
      PROVE  CountOK'
  <2>1. /\ Cardinality(Leaks') <= Cardinality(Leaks) + 0
        /\ Cardinality(orphan') <= Cardinality(orphan) + 0
        /\ failures' >= failures + 0 + 0
    BY <1>2, <1>3, <1>7
  <2>. QED
    BY <1>1, <1>2, <1>3, <1>7, <2>1, PaidFor
<1>8. ASSUME NEW c \in Callers, Create(c) \/ Connect(c) PROVE CountOK'
  <2>1. /\ UNCHANGED <<tables, leaked, orphan, failures, next>>
        /\ pc' = [pc EXCEPT ![c] = pc'[c]] /\ pc'[c] # "inserting"
    BY <1>8 DEF Create, Connect, ConstructorOK
  <2>2. Losers' \subseteq Losers
    BY <1>4, <2>1 DEF Losers
  <2>. QED
    BY <1>7, <2>1, <2>2
<1>9. ASSUME NEW c \in Callers, ConnectFails(c) PROVE CountOK'
  <2>1. /\ Leave(c) /\ UNCHANGED <<tables, leaked, orphan>>
        /\ failures' >= failures + 0 + 0
    BY <1>2, <1>9 DEF ConnectFails, Fail
  <2>2. Losers' \subseteq Losers
    BY <1>5, <2>1 DEF Losers
  <2>3. /\ Cardinality(Leaks') <= Cardinality(Leaks) + 0
        /\ Cardinality(orphan') <= Cardinality(orphan) + 0
    BY <1>2, <1>3, <2>1
  <2>. QED
    BY <1>1, <1>2, <1>3, <2>1, <2>2, <2>3, PaidFor
<1>10. ASSUME NEW c \in Callers, CreateTable(c) PROVE CountOK'
  <2>1. CASE Table[next[c]] \in tables
    <3>1. NextTable(c) /\ UNCHANGED <<tables, leaked, orphan, failures>>
      BY <1>10, <2>1 DEF CreateTable, StatementDone
    <3>2. Losers' \subseteq Losers
      BY <1>6, <3>1 DEF Losers
    <3>. QED
      BY <1>7, <3>1, <3>2
  <2>2. CASE Table[next[c]] \notin tables
    <3>1. /\ pc' = [pc EXCEPT ![c] = "inserting"]
          /\ UNCHANGED <<tables, leaked, orphan, failures, next>>
      BY <1>10, <2>2 DEF CreateTable
    <3>2. Losers' \subseteq Losers
      BY <2>2, <3>1 DEF Losers, ConstructorOK
    <3>. QED
      BY <1>7, <3>1, <3>2
  <2>. QED
    BY <2>1, <2>2
<1>11. ASSUME NEW c \in Callers, InsertTable(c) PROVE CountOK'
  <2>1. pc[c] = "inserting" /\ next[c] \in 1 .. 5
    BY <1>11 DEF InsertTable, ConstructorOK
  <2>2. CASE Table[next[c]] \in tables
    <3>1. /\ Leave(c) /\ leaked' = [leaked EXCEPT ![c] = @ + 1]
          /\ UNCHANGED <<tables, orphan, failures>>
      BY <1>11, <2>2 DEF InsertTable, StatementThrows
    <3>2. c \in Losers /\ Losers' \subseteq Losers \ {c}
      BY <1>5, <2>1, <2>2, <3>1 DEF Losers
    <3>3. IsFiniteSet(Leaks') /\ Cardinality(Leaks') <= Cardinality(Leaks) + 1
      BY <1>2, <3>1, OneLeakMore
    <3>4. /\ IsFiniteSet(Losers) /\ Cardinality(Losers) \in Nat
      BY CountedSets
    <3>5. /\ IsFiniteSet(Losers \ {c}) /\ Cardinality(Losers \ {c}) = Cardinality(Losers) - 1
      BY <3>2, <3>4, FS_RemoveElement
    <3>6. /\ IsFiniteSet(Losers') /\ Cardinality(Losers') <= Cardinality(Losers \ {c})
      BY <3>2, <3>5, FS_Subset
    <3>7. Cardinality(Losers') \in Nat /\ Cardinality(Leaks') \in Nat
      BY <3>3, <3>6, FS_CardinalityType
    <3>8. Cardinality(Leaks') + Cardinality(Losers') <= Cardinality(Leaks) + Cardinality(Losers)
      BY <1>2, <3>3, <3>4, <3>5, <3>6, <3>7
    <3> DEFINE paid == (Cardinality(Callers) - 1) * Cardinality(tables)
    <3>9. paid \in Int
      BY CountedSets
    <3>10. Cardinality(Leaks) + Cardinality(Losers) + Cardinality(orphan) <= paid + failures
      BY DEF CountOK
    <3> HIDE DEF paid
    <3>11. Cardinality(Leaks') + Cardinality(Losers') + Cardinality(orphan) <= paid + failures
      BY <1>2, <3>4, <3>7, <3>8, <3>9, <3>10
    <3>12. (Cardinality(Leaks) + Cardinality(Losers) + Cardinality(orphan)
             <= (Cardinality(Callers) - 1) * Cardinality(tables) + failures)'
      BY <3>1, <3>11 DEF paid
    <3>. QED
      BY <1>2, <3>1, <3>3, <3>12 DEF CountOK
  <2>3. CASE Table[next[c]] \notin tables
    <3>1. /\ NextTable(c) /\ UNCHANGED <<leaked, orphan, failures>>
          /\ tables' = tables \cup {Table[next[c]]}
      BY <1>11, <2>3 DEF InsertTable, StatementDone
    <3>2. Losers' \subseteq Losers \cup (Callers \ {c})
      BY <1>6, <3>1
    <3>3. Cardinality(Callers \ {c}) = Cardinality(Callers) - 1
      BY SetupBounds, FS_RemoveElement
    <3>4. /\ Cardinality(Callers \ {c}) <= Cardinality(Callers) - 1
          /\ Cardinality(orphan') <= Cardinality(orphan) /\ IsFiniteSet(orphan')
      BY <1>2, <3>1, <3>3, CountedSets
    <3>5. Table[next[c]] \in Tables
      BY <2>1, TableNumbers
    <3>. QED
      BY <2>3, <3>1, <3>2, <3>4, <3>5, TableEntered
  <2>. QED
    BY <2>2, <2>3
<1>12. ASSUME NEW c \in Callers, StatementRefused(c) PROVE CountOK'
  <2>1. /\ Leave(c) /\ leaked' = [leaked EXCEPT ![c] = @ + 1]
        /\ UNCHANGED <<tables, orphan>> /\ failures' = failures + 1
    BY <1>12 DEF StatementRefused, StatementThrows, Fail
  <2>2. Losers' \subseteq Losers
    BY <1>5, <2>1 DEF Losers
  <2>3. IsFiniteSet(Leaks') /\ Cardinality(Leaks') <= Cardinality(Leaks) + 1
    BY <1>2, <2>1, OneLeakMore
  <2>4. Cardinality(orphan') <= Cardinality(orphan) + 0 /\ failures' >= failures + 1 + 0
    BY <1>2, <2>1
  <2>. QED
    BY <1>1, <1>2, <2>1, <2>2, <2>3, <2>4, PaidFor
<1>13. ASSUME NEW c \in Callers, ConnectionBreaks(c) PROVE CountOK'
  <2>1. /\ Leave(c) /\ UNCHANGED <<tables, leaked>> /\ failures' = failures + 1
        /\ orphan' \in {orphan, orphan \cup LeftBehind(c)}
    BY <1>13 DEF ConnectionBreaks, Fail
  <2>2. Losers' \subseteq Losers
    BY <1>5, <2>1 DEF Losers
  <2>3. IsFiniteSet(orphan') /\ Cardinality(orphan') <= Cardinality(orphan) + 1
    BY <1>2, <2>1, OneOrphanMore
  <2>4. Cardinality(Leaks') <= Cardinality(Leaks) + 0 /\ failures' >= failures + 0 + 1
    BY <1>2, <1>3, <2>1
  <2>. QED
    BY <1>1, <1>2, <1>3, <2>1, <2>2, <2>3, <2>4, PaidFor
<1>14. ASSUME NEW c \in Callers, Destroy(c) PROVE CountOK'
  BY <1>7, <1>14 DEF Destroy, Losers
<1>15. ASSUME NEW c \in Callers, Crash(c) PROVE CountOK'
  <2>1. /\ Leave(c) /\ leaked' = [leaked EXCEPT ![c] = 0] /\ failures' = failures + 1
        /\ tables' = tables /\ orphan' = orphan \cup LeftBehind(c)
    BY <1>15 DEF Crash, Fail
  <2>2. Losers' \subseteq Losers
    BY <1>5, <2>1 DEF Losers
  <2>3. IsFiniteSet(orphan') /\ Cardinality(orphan') <= Cardinality(orphan) + 1
    BY <1>2, <2>1, OneOrphanMore
  <2>4. \A d \in Callers : 1 .. leaked'[d] \subseteq 1 .. leaked[d]
    BY <2>1 DEF RestTypeOK
  <2>5. Leaks' \in SUBSET Leaks
    BY <2>4, LeakElements
  <2>6. IsFiniteSet(Leaks') /\ Cardinality(Leaks') <= Cardinality(Leaks)
    BY <1>2, <2>5, FS_Subset
  <2>7. Cardinality(Leaks') <= Cardinality(Leaks) + 0 /\ failures' >= failures + 0 + 1
    BY <1>2, <2>1, <2>6
  <2>. QED
    BY <1>1, <2>1, <2>2, <2>3, <2>6, <2>7, PaidFor
<1>16. ASSUME NEW o \in orphan, OrphanEnds(o) PROVE CountOK'
  <2>1. /\ orphan' = orphan \ {o} /\ tables' = tables \cup {o.table}
        /\ UNCHANGED <<pc, next, leaked, failures>> /\ o.table \in Tables
    BY <1>16 DEF OrphanEnds, program, RestTypeOK
  <2>2. IsFiniteSet(orphan') /\ Cardinality(orphan') = Cardinality(orphan) - 1
    BY <1>2, <2>1, FS_RemoveElement
  <2>3. CASE o.table \in tables
    <3>1. tables' = tables /\ Losers' \subseteq Losers
      BY <2>1, <2>3 DEF Losers
    <3>2. /\ Cardinality(Leaks') <= Cardinality(Leaks) + 0
          /\ Cardinality(orphan') <= Cardinality(orphan) + 0
          /\ failures' >= failures + 0 + 0
      BY <1>2, <1>3, <2>1, <2>2
    <3>. QED
      BY <1>1, <1>2, <1>3, <2>1, <2>2, <3>1, <3>2, PaidFor
  <2>4. CASE o.table \notin tables
    <3>1. Callers \in SUBSET Callers /\ Losers' \subseteq Losers \cup Callers
      BY DEF Losers
    <3>2. Cardinality(orphan') <= Cardinality(orphan) - 1
      BY <1>2, <2>2
    <3>. QED
      BY <2>1, <2>2, <2>4, <3>1, <3>2, TableEntered
  <2>. QED
    BY <2>3, <2>4
<1>. QED
  BY <1>8, <1>9, <1>10, <1>11, <1>12, <1>13, <1>14, <1>15, <1>16 DEF SetupNext

(* However many programs start, and however often they try again, the      *)
(* constructors that lose a race leave at most one connection behind for   *)
(* every table and every program but one, and a failure one more.          *)
THEOREM LeaksAreBounded == SetupSpec => []LeaksBounded
<1>1. ASSUME SetupInit PROVE CountOK
  <2>1. Leaks = {} /\ Losers = {} /\ orphan = {} /\ tables = {} /\ failures = 0
    <3>1. \A c \in Callers : leaked[c] = 0 /\ pc[c] = "outside"
      BY <1>1 DEF SetupInit
    <3>2. Leaks = {}
      BY <3>1, LeakElements
    <3>. QED
      BY <1>1, <3>1, <3>2 DEF SetupInit, Losers
  <2>2. IsFiniteSet({}) /\ Cardinality({}) = 0
    BY FS_EmptySet
  <2>3. Cardinality(Callers) \in Nat
    BY SetupBounds, FS_CardinalityType
  <2>. QED
    BY <2>1, <2>2, <2>3 DEF CountOK
<1>2. ConstructorOK /\ RestTypeOK /\ CountOK /\ [SetupNext]_setupVars => CountOK'
  <2>1. CASE SetupNext
    BY <2>1, CountStep
  <2>2. CASE UNCHANGED setupVars
    <3>1. UNCHANGED <<pc, next, leaked, tables, orphan, failures>>
      BY <2>2 DEF setupVars, program
    <3>2. Leaks' = Leaks /\ Losers' = Losers
      BY <3>1 DEF Leaks, Losers
    <3>. QED
      BY <3>1, <3>2 DEF CountOK
  <2>. QED
    BY <2>1, <2>2
<1>3. ASSUME ConstructorOK, RestTypeOK, CountOK PROVE LeaksBounded
  <2> DEFINE n == Cardinality(Callers)
             k == Cardinality(tables)
  <2>1. /\ n \in Nat /\ n >= 1 /\ k \in 0 .. 5 /\ Cardinality(Losers) \in Nat
        /\ Cardinality(Leaks) \in Nat /\ Cardinality(orphan) \in Nat
    BY <1>3, CountedSets
  <2>2. (n - 1) * k <= 5 * (n - 1) /\ (n - 1) * k \in Int
    BY <2>1, Products
  <2>3. Cardinality(Leaks) + Cardinality(Losers) + Cardinality(orphan) <= (n - 1) * k + failures
    BY <1>3 DEF CountOK
  <2>4. failures \in Nat
    BY <1>3, SetupBounds DEF RestTypeOK
  <2> HIDE DEF n, k
  <2>5. Cardinality(Leaks) <= 5 * (n - 1) + failures
    BY <2>1, <2>2, <2>3, <2>4
  <2>. QED
    BY <2>5, TableNumbers DEF LeaksBounded, n
<1>. QED
  BY <1>1, <1>2, <1>3, SetupInvariant, PTL DEF SetupSpec
=============================================================================
