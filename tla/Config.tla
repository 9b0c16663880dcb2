------------------------------- MODULE Config -------------------------------
(***************************************************************************)
(* db::DatabaseConfig (src/src/db/config.cpp): where the settings of an    *)
(* engine come from, the connection string made of them, and what libpq    *)
(* (external) reads in it.  A text is a sequence of symbols: a character   *)
(* that libpq treats in a way of its own, a name of a setting, or          *)
(* whatever else a value consists of.                                      *)
(***************************************************************************)
EXTENDS Naturals, Sequences

Empty == <<>>
Special == {"blank", "=", "quote", "backslash"}

(* A text that libpq reads as it is.                                       *)
Plain(text) == \A i \in 1 .. Len(text) : text[i] \notin Special

(* The settings, in the order of getConnectionString.                      *)
Key == <<"host", "port", "dbname", "user", "password">>
Keys == {"host", "port", "dbname", "user", "password"}

(* The initial values of the members.                                      *)
Default ==
  [host |-> <<"localhost">>, port |-> <<"5432">>, dbname |-> <<"bpmn_engine">>,
   user |-> <<"postgres">>, password |-> <<"password">>]

(* A source of settings is a file or the environment.  values: the texts   *)
(* it has for some of the keys; numbers: the keys for which a file has a   *)
(* number, null, ...; readable: there is a file, and it is a JSON object.  *)
Given(s) ==
  [key \in Keys |->
    IF key \in DOMAIN s.values THEN s.values[key] ELSE Default[key]]

(* Operators whose name ends in _Fault are plausible defects of the one    *)
(* defined after them.                                                     *)

(* A value of a file that is not a string counts as one that is missing.   *)
CanReadJson_Fault(s) == s.readable

(* fromJson throws unless every value it asks for is a string or missing.  *)
CanReadJson(s) == s.readable /\ s.numbers = {}

CanRead(s) == s.from = "environment" \/ CanReadJson(s)

(* Nothing is quoted or escaped.                                           *)
Block(config, k) == <<Key[k], "=">> \o config[Key[k]]
ConnectionString(config) ==
  Block(config, 1) \o <<"blank">> \o Block(config, 2) \o <<"blank">>
    \o Block(config, 3) \o <<"blank">> \o Block(config, 4) \o <<"blank">>
    \o Block(config, 5)

-----------------------------------------------------------------------------
(* How libpq reads a connection string.  at: between two settings, in a    *)
(* name, behind one, before a value, in one, behind a backslash in one, in *)
(* quotes, or behind a backslash there.  A setting that is given twice has *)
(* the later value.  (Names of settings that do not concern us do not      *)
(* occur in the texts.)                                                    *)
Start ==
  [at |-> "between", name |-> Empty, value |-> Empty, options |-> [key \in Keys |-> Empty]]

Goto(r, at) == [r EXCEPT !.at = at]
Take(r, at, t) == [r EXCEPT !.at = at, !.value = Append(@, t)]

Store(r) ==
  IF \E key \in Keys : r.name = <<key>>
  THEN [Start EXCEPT !.options = [r.options EXCEPT ![r.name[1]] = r.value]]
  ELSE Goto(r, "refused")

ReadSymbol(r, t) ==
  CASE r.at \in {"between", "name"} ->
         CASE t = "=" -> Goto(r, "before")
           [] t = "blank" -> IF r.at = "between" THEN r ELSE Goto(r, "behind")
           [] OTHER -> [r EXCEPT !.at = "name", !.name = Append(@, t)]
    [] r.at = "behind" ->
         CASE t = "=" -> Goto(r, "before")
           [] t = "blank" -> r
           [] OTHER -> Goto(r, "refused")
    [] r.at \in {"before", "value"} ->
         CASE t = "blank" -> IF r.at = "before" THEN r ELSE Store(r)
           [] t = "backslash" -> Goto(r, "escaped")
           [] t = "quote" /\ r.at = "before" -> Goto(r, "quoted")
           [] OTHER -> Take(r, "value", t)
    [] r.at = "escaped" -> Take(r, "value", t)
    [] r.at = "quoted" ->
         CASE t = "quote" -> Store(r)
           [] t = "backslash" -> Goto(r, "quoted, escaped")
           [] OTHER -> Take(r, "quoted", t)
    [] r.at = "quoted, escaped" -> Take(r, "quoted", t)
    [] OTHER -> r

(* ReadFrom(r, text)[i]: where i symbols of the text lead from r.          *)
ReadFrom(r, text) ==
  LET read[i \in 0 .. Len(text)] ==
        IF i = 0 THEN r ELSE ReadSymbol(read[i - 1], text[i])
  IN read

Read(r, text) == ReadFrom(r, text)[Len(text)]

ReadEnd(r) == IF r.at \in {"before", "value", "escaped"} THEN Store(r) ELSE r

(* libpqDefault: what libpq uses for settings that are not given or empty. *)
(* Nothing is understood of a text it refuses.                             *)
Understood(config, libpqDefault) ==
  LET r == ReadEnd(Read(Start, ConnectionString(config)))
  IN IF r.at # "between" THEN Empty
     ELSE [key \in Keys |-> IF r.options[key] = Empty THEN libpqDefault[key]
                            ELSE r.options[key]]
=============================================================================
