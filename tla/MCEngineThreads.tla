--------------------------- MODULE MCEngineThreads ---------------------------
(* Small instances of EngineThreads for TLC.                               *)
EXTENDS EngineThreads, TLC

MCDocument(id, nodes) ==
  [wellFormed |-> TRUE, processes |-> <<[id |-> id, nodes |-> nodes]>>,
   foreign |-> <<>>, flows |-> <<>>]

(* Not XML, a process with an element, and one without.                    *)
MCDocuments ==
  {NoDoc, MCDocument("p", <<[kind |-> "userTask", id |-> "a"]>>), MCDocument("q", <<>>)}
=============================================================================
