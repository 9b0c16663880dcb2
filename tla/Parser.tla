------------------------------- MODULE Parser -------------------------------
(***************************************************************************)
(* bpmn::BpmnParser (src/src/bpmn/parser.cpp): it turns an XML document    *)
(* into a Process.  A document is what libxml2 (external) reports of it:   *)
(* whether it is well formed, its process elements with their child nodes, *)
(* and its sequenceFlow elements, wherever they are.  processes are the    *)
(* ones in the namespace of BPMN; foreign are the others, which no XPath   *)
(* expression of the parser finds.  "" is the value getAttribute returns   *)
(* for an attribute that is missing.                                       *)
(***************************************************************************)
EXTENDS ProcessModel

CONSTANT Documents       \* the documents callers have the parser read

NoDoc == [wellFormed |-> FALSE]

(* What libxml2 reports of an element: its tag and its attributes.         *)
ProcessNode == [id : STRING, nodes : Seq([kind : STRING, id : STRING])]

FlowNode == [id : STRING, source : STRING, target : STRING]

Document ==
  {NoDoc} \cup [wellFormed : {TRUE}, processes : Seq(ProcessNode),
                foreign : Seq(ProcessNode), flows : Seq(FlowNode)]

(* A text for parse, which takes it for the path of a file.                *)
AsPath(d) == [wellFormed |-> FALSE, text |-> d]

ASSUME DocumentsAssumption == Documents \subseteq Document

VARIABLES
  doc_,                  \* the document of the parser
  result,                \* what the last call of parse has come to
  heap                   \* is the memory of the program sound

parserVars == <<doc_, result, heap>>

(* What parse gives its caller instead of a process, and what is left of a *)
(* process that has been destroyed.                                        *)
Threw == [threw |-> TRUE]
Dropped == [dropped |-> TRUE]

(* The element parseStartEvent, parseUserTask, ... makes of child node k.  *)
Element(nodes, k) == [kind |-> nodes[k].kind, id |-> nodes[k].id, node |-> k]

(* Nodes of other kinds, and nodes without an id, are skipped.             *)
MakesElement(node) == node.kind \in ElementKinds /\ node.id # ""

(* One round of the loop of parseProcess; the exception of addElement ends *)
(* the loop.                                                               *)
ParseNode(nodes, parsed, k) ==
  LET e == Element(nodes, k)
  IN IF parsed.threw \/ ~MakesElement(nodes[k]) THEN parsed
     ELSE IF CanAddElement(parsed.process, e)
          THEN [parsed EXCEPT !.process = AddElement(@, e)]
          ELSE [parsed EXCEPT !.threw = TRUE]

ParseProcess(process) ==
  FoldLeftDomain(LAMBDA parsed, k : ParseNode(process.nodes, parsed, k),
                 [threw |-> FALSE, process |-> NewProcess(process.id)],
                 process.nodes)

(* A flow addSequenceFlow refuses is dropped without a trace.              *)
ParseSequenceFlow(p, flow) ==
  IF "" \notin {flow.id, flow.source, flow.target} /\ CanAddFlow(p, flow)
  THEN AddFlow(p, flow) ELSE p

(* parseDocument: the first process of the document, and the flows of all  *)
(* of them.                                                                *)
ParseDocument(d) ==
  LET parsed == ParseProcess(d.processes[1])
  IN IF d.processes = <<>> THEN Threw
     ELSE IF parsed.threw THEN Threw
     ELSE FoldLeft(ParseSequenceFlow, parsed.process, d.flows)

Parsed(d) == IF d.wellFormed THEN ParseDocument(d) ELSE Threw

(* ~Process for a process nobody else uses.                                *)
HeapAfterDestroying(p, h) ==
  IF h = "sound" /\ ~DestructionSound(p) THEN "element deleted twice" ELSE h

(* When parseDocument throws: without a process, the XPath context is freed*)
(* where the exception is thrown and again where it is caught; after a     *)
(* duplicate id the Process made so far is destroyed.                      *)
HeapAfterParse(d) ==
  CASE ~d.wellFormed \/ Parsed(d) # Threw -> heap
    [] d.wellFormed /\ d.processes = <<>> ->
         IF heap = "sound" THEN "context freed twice" ELSE heap
    [] OTHER -> HeapAfterDestroying(ParseProcess(d.processes[1]).process, heap)

-----------------------------------------------------------------------------
ParserInit ==
  /\ doc_ = NoDoc
  /\ result = [of |-> NoDoc, parsed |-> Threw]
  /\ heap = "sound"

(* When the document is not read, the document of the former call is       *)
(* parsed again.                                                           *)
ReadDocument_Fault(d) == IF d.wellFormed THEN d ELSE doc_

(* xmlReadFile and xmlReadMemory return no document of a text that is not  *)
(* well formed.                                                            *)
ReadDocument(d) == IF d.wellFormed THEN d ELSE NoDoc

(* parseFromString, or parse with the path of a file with this content.    *)
Parse(d) ==
  /\ doc_' = ReadDocument(d)
  /\ result' = [of |-> d, parsed |-> Parsed(doc_')]
  /\ heap' = HeapAfterParse(doc_')

(* parse with anything that is not the path of a file, a document also.    *)
ParseNoFile(d) ==
  /\ doc_' = NoDoc
  /\ result' = [of |-> AsPath(d), parsed |-> Threw]
  /\ UNCHANGED heap

(* The caller is done with the process parse has returned.  (What runs on  *)
(* after the memory is damaged may also abort, which is no step here.)     *)
DropProcess ==
  /\ result.parsed \notin {Threw, Dropped}
  /\ result' = [result EXCEPT !.parsed = Dropped]
  /\ heap' = HeapAfterDestroying(result.parsed, heap)
  /\ UNCHANGED doc_

ParserNext ==
  \/ \E d \in Documents : Parse(d) \/ ParseNoFile(d)
  \/ DropProcess

ParserSpec == ParserInit /\ [][ParserNext]_parserVars

-----------------------------------------------------------------------------
(* A text that is not taken for a document with a process, although it is  *)
(* one: parse looks for a file of this name, or its process elements are   *)
(* not in the namespace of BPMN.                                           *)
Mistaken(d) ==
  \/ d \in {AsPath(e) : e \in Documents \ {NoDoc}}
  \/ d.wellFormed /\ d.processes = <<>> /\ d.foreign # <<>>

(* A document is refused if and only if it holds no process of BPMN or the *)
(* first one holds two elements of one id; else every element of that      *)
(* process, and nothing else, is in the result, in the order of the nodes. *)
(* In particular the document of an earlier call plays no part.  Nothing   *)
(* is claimed of the texts a test expects to be parsed and the code does   *)
(* not take for documents, see TextParsed.                                 *)
ParseIsFaithful ==
  LET d == result.of
      nodes == d.processes[1].nodes
      made == {k \in DOMAIN nodes : MakesElement(nodes[k])}
      refused ==
        \/ ~d.wellFormed
        \/ d.processes = <<>>
        \/ \E j, k \in made : j # k /\ nodes[j].id = nodes[k].id
      elements == result.parsed.elements
  IN ~Mistaken(d) =>
       /\ refused <=> result.parsed = Threw
       /\ ~refused /\ result.parsed # Dropped =>
          /\ result.parsed.id = d.processes[1].id
          /\ ToSet(elements) = {Element(nodes, k) : k \in made}
          /\ \A j, k \in DOMAIN elements : j < k => elements[j].node < elements[k].node

(* No element of a process is freed while the process is in use: the       *)
(* vector that does not share the ownership never outlives the map entry.  *)
NoDanglingElement ==
  result.parsed \in {Threw, Dropped} \/ Dangling(result.parsed) = {}

-----------------------------------------------------------------------------
(* "Parse all sequence flows from the entire document" (parser.cpp:71):    *)
(* a flow between two elements of the process becomes a flow of the        *)
(* process (tests/unit/test_executor.cpp:24-25).                           *)
FlowsParsed ==
  result.parsed \notin {Threw, Dropped} =>
    \A k \in DOMAIN result.of.flows :
      LET f == result.of.flows[k]
          ids == {e.id : e \in ToSet(result.parsed.elements)}
      IN f.id # "" /\ {f.source, f.target} \subseteq ids =>
           \E g \in ToSet(result.parsed.flows) : g.id = f.id

(* tests/unit/test_parser.cpp:13-19 passes the text of a document with one *)
(* process, which has no namespace, to parse and expects that nothing is   *)
(* thrown ("EXPECT_NO_THROW") and the process: as a path it is refused,    *)
(* and in a file it would be.                                              *)
TextParsed ==
  \A d \in Documents \ {NoDoc} :
    result.of \in {d, AsPath(d)} /\ d.processes = <<>> /\ Len(d.foreign) = 1 =>
      result.parsed # Threw
=============================================================================
