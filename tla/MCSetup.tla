------------------------------ MODULE MCSetup -------------------------------
(* Small instances of Setup for TLC.                                       *)
EXTENDS Setup, TLC

(* The server is reached under the defaults, with another user.            *)
MCServer == [Default EXCEPT !.user = <<"bpmn">>]
MCLibpqDefault ==
  [host |-> <<"localhost">>, port |-> <<"5432">>, dbname |-> <<"postgres">>,
   user |-> <<"postgres">>, password |-> Empty]

MCEnvironment(values) ==
  [from |-> "environment", readable |-> TRUE, values |-> values, numbers |-> {}]
MCFile(readable, numbers, values) ==
  [from |-> "file", readable |-> readable, values |-> values, numbers |-> numbers]

(* The settings of the server; a file that is not there; a numeric port;   *)
(* an empty host, after which the port is swallowed, and an empty user; a  *)
(* quote, and two; another database, which a setting in the user           *)
(* overrides; nothing set.                                                 *)
MCSources ==
  {MCEnvironment("user" :> <<"bpmn">>),
   MCFile(FALSE, {}, <<>>),
   MCFile(TRUE, {"port"}, "user" :> <<"bpmn">>),
   MCEnvironment("user" :> <<"bpmn">> @@ "host" :> Empty),
   MCEnvironment("user" :> Empty @@ "password" :> Empty),
   MCEnvironment("user" :> <<"quote", "bpmn">>),
   MCEnvironment("user" :> <<"quote", "bpmn", "quote">>),
   MCEnvironment("user" :> <<"bpmn", "blank", "dbname", "=", "bpmn_engine">>
                 @@ "dbname" :> <<"other">>),
   MCFile(TRUE, {}, <<>>)}
=============================================================================
