---------------------------- MODULE ProcessModel ----------------------------
(***************************************************************************)
(* bpmn::Process (src/src/bpmn/model.cpp): a process definition and the    *)
(* elements it owns.  Its methods are operators on records.                *)
(*                                                                         *)
(* A field that holds pointers holds the elements they point to.  Calls    *)
(* that throw are told by their guards: see CanAddElement, CanAddFlow.     *)
(***************************************************************************)
EXTENDS Naturals, Sequences, SequencesExt

(* The classes derived from FlowElement that a process is made of.         *)
ElementKinds == {"startEvent", "endEvent", "userTask", "serviceTask",
                 "parallelGateway", "exclusiveGateway"}

NoElement == [kind |-> "none"]

NewProcess(id) ==
  [id           |-> id,
   elements     |-> <<>>,     \* the vector of unique_ptr
   elementsById |-> {},       \* the map of shared_ptr, keyed by the id
   element_map  |-> {},       \* the map of plain pointers, keyed by the id
   flows        |-> <<>>]

(* The element a map keyed by id holds for this id.                        *)
Find(map, id) ==
  IF \E e \in map : e.id = id THEN CHOOSE e \in map : e.id = id ELSE NoElement

GetElement(p, id) == Find(p.element_map, id)

-----------------------------------------------------------------------------
(* Operators whose name ends in _Fault are plausible defects of the one    *)
(* defined after them.                                                     *)

(* Duplicates are not rejected.                                            *)
CanAddElement_Fault(p, e) == TRUE

(* addElement throws when the id is taken.                                 *)
CanAddElement(p, e) == Find(p.elementsById, e.id) = NoElement

(* Both overloads: the vector and the map each become an owner of the      *)
(* element.  element_map, which getElement searches, is not written.       *)
AddElement(p, e) ==
  [p EXCEPT !.elements = Append(@, e),
            !.elementsById = {d \in @ : d.id # e.id} \cup {e}]

(* addSequenceFlow throws when an end is not found or the id is taken.     *)
CanAddFlow(p, f) ==
  /\ GetElement(p, f.source) # NoElement
  /\ GetElement(p, f.target) # NoElement
  /\ \A k \in DOMAIN p.flows : p.flows[k].id # f.id

AddFlow(p, f) == [p EXCEPT !.flows = Append(@, f)]

-----------------------------------------------------------------------------
(* The elements whose last shared_ptr is gone, because the map entry was   *)
(* overwritten: the vector points to freed memory.                         *)
Dangling(p) == ToSet(p.elements) \ p.elementsById

(* How often ~Process deletes an element nobody outside has a shared_ptr   *)
(* to: once with elementsById, and again with elements.                    *)
Deletions(p, e) ==
  (IF e \in p.elementsById THEN 1 ELSE 0)
  + Len(SelectSeq(p.elements, LAMBDA d : d = e))

DestructionSound(p) == \A e \in ToSet(p.elements) : Deletions(p, e) = 1
=============================================================================
