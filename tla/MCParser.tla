------------------------------ MODULE MCParser ------------------------------
(* Small documents for TLC.                                                *)
EXTENDS Parser

CONSTANT MaxNodes    \* bound of the child nodes of a process

MCNodes == [kind : {"userTask", "text"}, id : {"", "a", "b"}]

MCProcesses == [id : {"p"}, nodes : UNION {[1..n -> MCNodes] : n \in 0..MaxNodes}]

MCOther == [id |-> "q", nodes |-> <<[kind |-> "endEvent", id |-> "c"]>>]

MCFlow == [id |-> "f", source |-> "a", target |-> "b"]

(* The text of tests/unit/test_parser.cpp:14.                              *)
MCText == [id |-> "test", nodes |-> <<[kind |-> "startEvent", id |-> "start"]>>]

MCXml(processes, foreign, flows) ==
  [wellFormed : {TRUE}, processes : processes, foreign : foreign, flows : flows]

(* Not XML; no process of BPMN, and none at all; one process and a flow;   *)
(* two processes, of BPMN or not.                                          *)
MCDocuments ==
       {NoDoc}
  \cup MCXml({<<>>}, {<<>>, <<MCText>>}, {<<MCFlow>>})
  \cup MCXml({<<p>> : p \in MCProcesses}, {<<>>}, {<<MCFlow>>})
  \cup MCXml({<<p, MCOther>> : p \in {q \in MCProcesses : Len(q.nodes) < 2}},
             {<<>>, <<MCText>>}, {<<>>})
=============================================================================
