---------------------------- MODULE ParserProofs -----------------------------
(***************************************************************************)
(* Theorems about Parser, for documents of any length.                     *)
(***************************************************************************)
EXTENDS Parser, WellFoundedInduction, TLAPS

(* Induction over the numbers, for a set instead of a predicate: every     *)
(* nonempty set of numbers has a least one.                                *)
LEMMA Induction ==
  ASSUME NEW S, 0 \in S, \A n \in Nat : n \in S => n + 1 \in S
  PROVE  Nat \subseteq S
<1> SUFFICES ASSUME Nat \ S # {} PROVE FALSE
  OBVIOUS
<1> DEFINE Less == OpToRel(<, Nat)
<1>1. IsWellFoundedOn(Less, Nat)
  BY NatLessThanWellFounded, Zenon
<1>2. \A m, n \in Nat : m < n => <<m, n>> \in Less
  BY DEF OpToRel
<1> HIDE DEF Less
<1>3. PICK n \in Nat \ S : \A m \in Nat \ S : ~(<<m, n>> \in Less)
  BY <1>1, WFMin, Zenon
<1>4. n # 0 /\ n - 1 \in Nat /\ n - 1 < n
  BY <1>3
<1>5. n - 1 \in S
  BY <1>2, <1>3, <1>4
<1>. QED
  BY <1>3, <1>4, <1>5

(* Max, which the folds of the community modules use, where it is defined. *)
LEMMA LastIsMax ==
  ASSUME NEW n \in Nat, NEW s \in SUBSET (1 .. n + 1), n + 1 \in s
  PROVE  Max(s) = n + 1
<1>1. \A y \in s : n + 1 >= y
  OBVIOUS
<1>2. \A x \in s : (\A y \in s : x >= y) => x = n + 1
  OBVIOUS
<1>. QED
  BY <1>1, <1>2 DEF Max

(* A nonempty set of positions has a last one.                             *)
LEMMA HasMax ==
  ASSUME NEW n \in Nat, NEW s \in SUBSET (1 .. n), s # {}
  PROVE  \E x \in s : \A y \in s : x >= y
<1> DEFINE P(t) == t = {} \/ \E x \in t : \A y \in t : x >= y
           S == {k \in Nat : \A t \in SUBSET (1 .. k) : P(t)}
<1>1. 0 \in S
  OBVIOUS
<1>2. ASSUME NEW k \in Nat, k \in S PROVE k + 1 \in S
  <2> SUFFICES ASSUME NEW t \in SUBSET (1 .. k + 1) PROVE P(t)
    OBVIOUS
  <2>1. CASE k + 1 \in t
    BY <2>1
  <2>2. CASE k + 1 \notin t
    <3>1. t \in SUBSET (1 .. k)
      BY <2>2
    <3>. QED
      BY <1>2, <3>1
  <2>. QED
    BY <2>1, <2>2
<1> HIDE DEF S
<1>3. n \in S
  BY <1>1, <1>2, Induction, Zenon
<1>. QED
  BY <1>3 DEF S

-----------------------------------------------------------------------------
(* The loop over the nodes.                                                *)
Fresh(process) == [threw |-> FALSE, process |-> NewProcess(process.id)]

(* iter tells what the loop has come to after the nodes in s.              *)
IsLoop(process, n, iter) ==
  iter = [s \in SUBSET (1 .. n) |->
            IF s = {} THEN Fresh(process)
            ELSE ParseNode(process.nodes, iter[s \ {Max(s)}], Max(s))]

(* There is such a function, node by node; the fold is chosen among them. *)
LEMMA LoopExists ==
  ASSUME NEW process, NEW n \in Nat
  PROVE  \E iter : IsLoop(process, n, iter)
<1> DEFINE S == {k \in Nat : \E iter : IsLoop(process, k, iter)}
<1>1. 0 \in S
  <2> DEFINE iter == [s \in SUBSET (1 .. 0) |-> Fresh(process)]
  <2>1. \A s \in SUBSET (1 .. 0) : s = {}
    OBVIOUS
  <2>2. IsLoop(process, 0, iter)
    BY <2>1 DEF IsLoop
  <2>. QED
    BY <2>2
<1>2. ASSUME NEW k \in Nat, k \in S PROVE k + 1 \in S
  <2>1. PICK f : IsLoop(process, k, f)
    BY <1>2
  <2> DEFINE AtLast(s) == ParseNode(process.nodes, f[s \ {k + 1}], k + 1)
             g == [s \in SUBSET (1 .. k + 1) |-> IF k + 1 \in s THEN AtLast(s) ELSE f[s]]
             h == [s \in SUBSET (1 .. k + 1) |->
                     IF s = {} THEN Fresh(process)
                     ELSE ParseNode(process.nodes, g[s \ {Max(s)}], Max(s))]
  <2>2. ASSUME NEW s \in SUBSET (1 .. k + 1) PROVE g[s] = h[s]
    <3>1. CASE k + 1 \in s
      <4>1. Max(s) = k + 1
        BY <3>1, LastIsMax
      <4>2. s \ {k + 1} \in SUBSET (1 .. k + 1) /\ k + 1 \notin s \ {k + 1}
        OBVIOUS
      <4>3. g[s \ {k + 1}] = f[s \ {k + 1}]
        BY <4>2
      <4>4. g[s] = AtLast(s)
        BY <3>1
      <4>5. h[s] = ParseNode(process.nodes, g[s \ {Max(s)}], Max(s))
        BY <3>1
      <4>. QED
        BY <4>1, <4>3, <4>4, <4>5
    <3>2. CASE k + 1 \notin s
      <4>1. s \in SUBSET (1 .. k)
        BY <3>2
      <4>2. g[s] = f[s]
        BY <3>2
      <4>3. f[s] = IF s = {} THEN Fresh(process)
                   ELSE ParseNode(process.nodes, f[s \ {Max(s)}], Max(s))
        BY <2>1, <4>1, Zenon DEF IsLoop
      <4>4. s \ {Max(s)} \in SUBSET (1 .. k + 1) /\ k + 1 \notin s \ {Max(s)}
        BY <3>2
      <4>5. g[s \ {Max(s)}] = f[s \ {Max(s)}]
        BY <4>4
      <4>6. h[s] = IF s = {} THEN Fresh(process)
                   ELSE ParseNode(process.nodes, g[s \ {Max(s)}], Max(s))
        OBVIOUS
      <4>. QED
        BY <4>2, <4>3, <4>5, <4>6
    <3>. QED
      BY <3>1, <3>2
  <2>3. g = h
    BY <2>2
  <2>4. IsLoop(process, k + 1, g)
    BY <2>3 DEF IsLoop
  <2>. QED
    BY <2>4
<1> HIDE DEF S
<1>3. n \in S
  BY <1>1, <1>2, Induction, Zenon
<1>. QED
  BY <1>3 DEF S

(* parseProcess, round by round.                                           *)
LEMMA ParseRounds ==
  ASSUME NEW process, NEW n \in Nat, DOMAIN process.nodes = 1 .. n
  PROVE  \E after :
           /\ after[0] = Fresh(process)
           /\ \A k \in 1 .. n : after[k] = ParseNode(process.nodes, after[k - 1], k)
           /\ ParseProcess(process) = after[n]
<1> DEFINE nodes == process.nodes
           seq == [i \in DOMAIN nodes |-> i]
           Is(iter) == iter = [s \in SUBSET DOMAIN seq |->
                                 IF s = {} THEN Fresh(process)
                                 ELSE ParseNode(nodes, iter[s \ {Max(s)}], seq[Max(s)])]
           loop == CHOOSE iter : Is(iter)
           after == [k \in 0 .. n |-> loop[1 .. k]]
<1>1. ParseProcess(process) = loop[DOMAIN seq]
  BY DEF ParseProcess, FoldLeftDomain, FoldLeft, MapThenFoldSet, Fresh
<1>2. DOMAIN seq = 1 .. n
  OBVIOUS
<1>3. ASSUME NEW s \in SUBSET (1 .. n), s # {} PROVE Max(s) \in s
  <2>1. s \in SUBSET Int /\ s # {}
    BY <1>3
  <2>2. \E x \in s : \A y \in s : x >= y
    BY <1>3, HasMax
  <2>. QED
    BY <2>2 DEF Max
<1>4. \A iter : IsLoop(process, n, iter) <=> Is(iter)
  <2> SUFFICES ASSUME NEW iter
               PROVE  IsLoop(process, n, iter) <=> Is(iter)
    OBVIOUS
  <2>1. \A s \in SUBSET (1 .. n) : s # {} => seq[Max(s)] = Max(s)
    BY <1>2, <1>3
  <2>2. [s \in SUBSET (1 .. n) |->
           IF s = {} THEN Fresh(process)
           ELSE ParseNode(nodes, iter[s \ {Max(s)}], Max(s))]
        = [s \in SUBSET DOMAIN seq |->
             IF s = {} THEN Fresh(process)
             ELSE ParseNode(nodes, iter[s \ {Max(s)}], seq[Max(s)])]
    BY <1>2, <2>1
  <2>. QED
    BY <2>2 DEF IsLoop
<1>5. IsLoop(process, n, loop)
  BY <1>4, LoopExists
<1> HIDE DEF loop
<1>6. loop[{}] = Fresh(process)
  BY <1>5 DEF IsLoop
<1>7. after[0] = Fresh(process)
  BY <1>6
<1>8. ASSUME NEW k \in 1 .. n
      PROVE  after[k] = ParseNode(nodes, after[k - 1], k)
  <2>1. /\ 1 .. k \in SUBSET (1 .. n) /\ 1 .. k # {}
        /\ (1 .. k) \ {k} = 1 .. k - 1
    OBVIOUS
  <2>2. Max(1 .. k) = k
    <3>1. k - 1 \in Nat /\ k \in 1 .. k /\ (k - 1) + 1 = k
      OBVIOUS
    <3>. QED
      BY <3>1, LastIsMax
  <2>3. loop[1 .. k] = ParseNode(nodes, loop[(1 .. k) \ {Max(1 .. k)}], Max(1 .. k))
    BY <1>5, <2>1, Zenon DEF IsLoop
  <2>4. k \in 0 .. n /\ k - 1 \in 0 .. n
    OBVIOUS
  <2>. QED
    BY <2>1, <2>2, <2>3, <2>4
<1>9. ParseProcess(process) = after[n]
  BY <1>1, <1>2
<1>. QED
  BY <1>7, <1>8, <1>9

(* parseDocument with flows none of which is accepted.                     *)
LEMMA NoFlowAdded ==
  ASSUME NEW p, NEW flows, NEW n \in Nat, DOMAIN flows = 1 .. n,
         \A k \in 1 .. n : ParseSequenceFlow(p, flows[k]) = p
  PROVE  FoldLeft(ParseSequenceFlow, p, flows) = p
<1> DEFINE Is(iter) == iter = [s \in SUBSET DOMAIN flows |->
                                 IF s = {} THEN p
                                 ELSE ParseSequenceFlow(iter[s \ {Max(s)}], flows[Max(s)])]
           loop == CHOOSE iter : Is(iter)
           still == [s \in SUBSET DOMAIN flows |-> p]
           S == {k \in Nat : k <= n => loop[1 .. k] = p}
<1>1. FoldLeft(ParseSequenceFlow, p, flows) = loop[DOMAIN flows]
  BY DEF FoldLeft, MapThenFoldSet
<1>2. Is(still)
  <2>1. ASSUME NEW s \in SUBSET DOMAIN flows, s # {}
        PROVE  ParseSequenceFlow(still[s \ {Max(s)}], flows[Max(s)]) = p
    <3>1. Max(s) \in 1 .. n
      BY <2>1, HasMax DEF Max
    <3>. QED
      BY <2>1, <3>1
  <2>. QED
    BY <2>1
<1>3. Is(loop)
  BY <1>2
<1> HIDE DEF loop, still
<1>4. 0 \in S
  BY <1>3
<1>5. ASSUME NEW k \in Nat, k \in S PROVE k + 1 \in S
  <2> SUFFICES ASSUME k + 1 <= n PROVE loop[1 .. k + 1] = p
    OBVIOUS
  <2>1. /\ 1 .. k + 1 \in SUBSET (1 .. n) /\ 1 .. k + 1 # {}
        /\ (1 .. k + 1) \ {k + 1} = 1 .. k
    OBVIOUS
  <2>2. Max(1 .. k + 1) = k + 1
    BY LastIsMax
  <2>3. loop[1 .. k + 1] =
          ParseSequenceFlow(loop[(1 .. k + 1) \ {Max(1 .. k + 1)}], flows[Max(1 .. k + 1)])
    BY <1>3, <2>1, Zenon
  <2>4. loop[1 .. k] = p
    BY <1>5
  <2>. QED
    BY <2>1, <2>2, <2>3, <2>4
<1> HIDE DEF S
<1>6. n \in S
  BY <1>4, <1>5, Induction, Zenon
<1>. QED
  BY <1>1, <1>6 DEF S

-----------------------------------------------------------------------------
(* What the loop has made of the first k nodes.                            *)
Made(nodes, k) == {j \in 1 .. k : MakesElement(nodes[j])}

(* addElement has refused one of them.                                    *)
Clash(nodes, k) ==
  \E i, j \in Made(nodes, k) : i # j /\ nodes[i].id = nodes[j].id

(* The process with the elements es, each of which has two owners.         *)
Filled(id, es) ==
  [id |-> id, elements |-> es, elementsById |-> ToSet(es), element_map |-> {}, flows |-> <<>>]

(* The vector holds the elements of the first k nodes, in their order.     *)
Holds(es, nodes, k) ==
  /\ es \in Seq({Element(nodes, j) : j \in Made(nodes, k)})
  /\ ToSet(es) = {Element(nodes, j) : j \in Made(nodes, k)}
  /\ \A i, j \in DOMAIN es : i < j => es[i].node < es[j].node

(* What the loop has come to after k nodes.                                *)
Round(process, parsed, k) ==
  \E es, t :
    /\ parsed = [threw |-> t, process |-> Filled(process.id, es)]
    /\ t \in BOOLEAN
    /\ t => Clash(process.nodes, k)
    /\ ~t => ~Clash(process.nodes, k) /\ Holds(es, process.nodes, k)

(* Its fields, and that it is neither of the results that are no process.  *)
LEMMA FilledFields ==
  ASSUME NEW id, NEW es
  PROVE  /\ Filled(id, es).id = id
         /\ Filled(id, es).elements = es
         /\ Filled(id, es).elementsById = ToSet(es)
         /\ Filled(id, es).element_map = {}
         /\ Filled(id, es).flows = <<>>
         /\ Filled(id, es) # Threw
         /\ Filled(id, es) # Dropped
<1>1. "id" \in DOMAIN Filled(id, es) /\ "id" \notin DOMAIN Threw /\ "id" \notin DOMAIN Dropped
  BY DEF Filled, Threw, Dropped
<1>. QED
  BY <1>1 DEF Filled

(* addElement writes two fields of the process.                            *)
Fields(i, a, b, c, d) ==
  [id |-> i, elements |-> a, elementsById |-> b, element_map |-> c, flows |-> d]

Update(p, x, y) == [p EXCEPT !.elements = x, !.elementsById = y]

(* The other three fields stay.                                            *)
LEMMA UpdateFields ==
  ASSUME NEW i, NEW a, NEW b, NEW c, NEW d, NEW x, NEW y
  PROVE  Update(Fields(i, a, b, c, d), x, y) = Fields(i, x, y, c, d)
<1> DEFINE r == [id |-> i, elements |-> a, elementsById |-> b, element_map |-> c, flows |-> d]
           q == [r EXCEPT !.elements = x]
           t == [id |-> i, elements |-> x, elementsById |-> b, element_map |-> c, flows |-> d]
           u == [id |-> i, elements |-> x, elementsById |-> y, element_map |-> c, flows |-> d]
<1>1. [r EXCEPT !.elements = x, !.elementsById = y] = [q EXCEPT !.elementsById = y]
  OBVIOUS
<1>2. q = t
  OBVIOUS
<1>3. [t EXCEPT !.elementsById = y] = u
  OBVIOUS
<1>4. r = Fields(i, a, b, c, d) /\ u = Fields(i, x, y, c, d)
  BY DEF Fields
<1> HIDE DEF r, q, t, u
<1>. QED
  BY <1>1, <1>2, <1>3, <1>4 DEF Update

(* addElement of an id that is not taken makes both owners again.          *)
LEMMA AddFilled ==
  ASSUME NEW id, NEW es, NEW e, \A d \in ToSet(es) : d.id # e.id,
         ToSet(Append(es, e)) = ToSet(es) \cup {e}
  PROVE  AddElement(Filled(id, es), e) = Filled(id, Append(es, e))
<1> DEFINE p == Filled(id, es)
           new == Append(es, e)
           byId == {d \in p.elementsById : d.id # e.id} \cup {e}
<1>1. p.elements = es /\ byId = ToSet(new)
  BY FilledFields
<1>2. p = Fields(id, es, ToSet(es), {}, <<>>)
  BY Zenon DEF Filled, Fields
<1>3. Filled(id, new) = Fields(id, new, ToSet(new), {}, <<>>)
  BY Zenon DEF Filled, Fields
<1>4. AddElement(p, e) = Update(p, Append(p.elements, e), byId)
  BY Zenon DEF AddElement, Update, byId
<1> HIDE DEF p, byId
<1>5. Update(p, new, byId) = Fields(id, new, byId, {}, <<>>)
  BY <1>2, UpdateFields
<1>6. AddElement(p, e) = Filled(id, new)
  BY <1>1, <1>3, <1>4, <1>5
<1>. QED
  BY <1>6 DEF p

(* A set of elements holds the id or Find says that there is none.         *)
LEMMA FindElement ==
  ASSUME NEW nodes, NEW k, NEW id
  PROVE  LET es == {Element(nodes, j) : j \in Made(nodes, k)}
         IN  Find(es, id) = NoElement <=> \A j \in Made(nodes, k) : nodes[j].id # id
<1> DEFINE es == {Element(nodes, j) : j \in Made(nodes, k)}
<1>1. CASE \E e \in es : e.id = id
  <2>1. Find(es, id) \in es
    BY <1>1 DEF Find
  <2>2. Find(es, id).kind \in ElementKinds
    <3>1. \A j \in Made(nodes, k) : Element(nodes, j).kind \in ElementKinds
      BY DEF Element, Made, MakesElement
    <3>2. \A e \in es : e.kind \in ElementKinds
      BY <3>1
    <3> HIDE DEF es
    <3>. QED
      BY <2>1, <3>2
  <2>3. "none" \notin ElementKinds
    BY DEF ElementKinds
  <2>4. Find(es, id) # NoElement
    BY <2>2, <2>3 DEF NoElement
  <2>5. \E j \in Made(nodes, k) : nodes[j].id = id
    BY <1>1 DEF Element
  <2>. QED
    BY <2>4, <2>5
<1>2. CASE ~\E e \in es : e.id = id
  <2>1. Find(es, id) = NoElement
    BY <1>2 DEF Find
  <2>2. \A j \in Made(nodes, k) : Element(nodes, j) \in es /\ Element(nodes, j).id = nodes[j].id
    BY DEF Element
  <2>. QED
    BY <1>2, <2>1, <2>2
<1>. QED
  BY <1>1, <1>2

(* The loop starts with no element.                                        *)
LEMMA FreshRound ==
  ASSUME NEW process
  PROVE  Round(process, Fresh(process), 0)
<1>1. Fresh(process) = [threw |-> FALSE, process |-> Filled(process.id, <<>>)]
  <2>1. ToSet(<<>>) = {}
    BY DEF ToSet
  <2>. QED
    BY <2>1 DEF Fresh, NewProcess, Filled
<1>2. Made(process.nodes, 0) = {}
  BY DEF Made
<1>3. ~Clash(process.nodes, 0) /\ Holds(<<>>, process.nodes, 0)
  BY <1>2 DEF Clash, Holds, ToSet
<1>. QED
  BY <1>1, <1>3 DEF Round

(* addElement keeps the order and the owners.                              *)
LEMMA AppendHolds ==
  ASSUME NEW nodes, NEW k \in Nat, NEW es, Holds(es, nodes, k),
         MakesElement(nodes[k + 1])
  PROVE  LET e == Element(nodes, k + 1)
         IN  /\ Holds(Append(es, e), nodes, k + 1)
             /\ ToSet(Append(es, e)) = ToSet(es) \cup {e}
<1> DEFINE e == Element(nodes, k + 1)
           E(m) == {Element(nodes, j) : j \in Made(nodes, m)}
           new == Append(es, e)
<1>1. Made(nodes, k + 1) = Made(nodes, k) \cup {k + 1}
  BY DEF Made
<1>2. E(k + 1) = E(k) \cup {e}
  BY <1>1
<1>3. es \in Seq(E(k)) /\ ToSet(es) = E(k)
  BY DEF Holds
<1> HIDE DEF E, e
<1>4. es \in Seq(E(k + 1)) /\ e \in E(k + 1)
  <2>1. \A j \in 1 .. Len(es) : es[j] \in E(k + 1)
    BY <1>2, <1>3
  <2>. QED
    BY <1>2, <1>3, <2>1
<1>5. /\ new \in Seq(E(k + 1))
      /\ Len(new) = Len(es) + 1 /\ Len(es) \in Nat
      /\ DOMAIN es = 1 .. Len(es) /\ DOMAIN new = 1 .. Len(es) + 1
      /\ \A j \in 1 .. Len(es) : new[j] = es[j]
      /\ new[Len(es) + 1] = e
  BY <1>4
<1>6. ToSet(new) = ToSet(es) \cup {e}
  BY <1>5 DEF ToSet
<1>7. ASSUME NEW i \in DOMAIN new, NEW j \in DOMAIN new, i < j
      PROVE  new[i].node < new[j].node
  <2>1. \A m \in DOMAIN es : es[m].node \in 1 .. k
    <3> TAKE m \in DOMAIN es
    <3>1. es[m] \in E(k)
      BY <1>3, <1>5
    <3>2. PICK l \in Made(nodes, k) : es[m] = Element(nodes, l)
      BY <3>1 DEF E
    <3>. QED
      BY <3>2 DEF Element, Made
  <2>2. e.node = k + 1
    BY DEF Element, e
  <2>3. CASE j = Len(es) + 1
    <3>1. new[i] = es[i] /\ i \in DOMAIN es
      BY <1>5, <1>7, <2>3
    <3>. QED
      BY <1>5, <2>1, <2>2, <2>3, <3>1
  <2>4. CASE j # Len(es) + 1
    <3>1. /\ new[i] = es[i] /\ i \in DOMAIN es
          /\ new[j] = es[j] /\ j \in DOMAIN es
      BY <1>5, <1>7, <2>4
    <3>. QED
      BY <1>7, <3>1 DEF Holds
  <2>. QED
    BY <2>3, <2>4
<1>8. Holds(new, nodes, k + 1)
  <2>1. ToSet(new) = E(k + 1)
    BY <1>2, <1>3, <1>6
  <2>. QED
    BY <1>5, <1>7, <2>1 DEF Holds, E
<1>. QED
  BY <1>6, <1>8 DEF e

(* One more node keeps the loop what Round says it is.                     *)
LEMMA NextRound ==
  ASSUME NEW process, NEW k \in Nat, NEW parsed, Round(process, parsed, k)
  PROVE  Round(process, ParseNode(process.nodes, parsed, k + 1), k + 1)
<1> DEFINE nodes == process.nodes
           e == Element(nodes, k + 1)
           next == ParseNode(nodes, parsed, k + 1)
<1>1. PICK es, t :
        /\ parsed = [threw |-> t, process |-> Filled(process.id, es)]
        /\ t \in BOOLEAN
        /\ t => Clash(nodes, k)
        /\ ~t => ~Clash(nodes, k) /\ Holds(es, nodes, k)
  BY DEF Round
<1>2. Made(nodes, k + 1) = Made(nodes, k) \cup (IF MakesElement(nodes[k + 1]) THEN {k + 1} ELSE {})
  BY DEF Made
<1>3. CASE t
  <2>1. next = parsed
    BY <1>1, <1>3 DEF ParseNode
  <2>2. Clash(nodes, k + 1)
    BY <1>1, <1>2, <1>3 DEF Clash
  <2>. QED
    BY <1>1, <1>3, <2>1, <2>2 DEF Round
<1>4. CASE ~t /\ ~MakesElement(nodes[k + 1])
  <2>1. next = parsed
    BY <1>4 DEF ParseNode
  <2>2. Made(nodes, k + 1) = Made(nodes, k)
    BY <1>2, <1>4
  <2>. QED
    BY <1>1, <1>4, <2>1, <2>2 DEF Round, Clash, Holds
<1>5. CASE ~t /\ MakesElement(nodes[k + 1])
  <2>1. /\ ~Clash(nodes, k) /\ Holds(es, nodes, k)
        /\ Made(nodes, k + 1) = Made(nodes, k) \cup {k + 1}
        /\ k + 1 \notin Made(nodes, k)
    BY <1>1, <1>2, <1>5 DEF Made
  <2>2. CanAddElement(parsed.process, e) <=> ~Clash(nodes, k + 1)
    <3>1. parsed.process.elementsById = {Element(nodes, j) : j \in Made(nodes, k)}
      BY <1>1, <2>1, FilledFields DEF Holds
    <3>2. e.id = nodes[k + 1].id
      BY DEF Element
    <3>3. CanAddElement(parsed.process, e)
            <=> \A j \in Made(nodes, k) : nodes[j].id # nodes[k + 1].id
      BY <3>1, <3>2, FindElement DEF CanAddElement
    <3>. QED
      BY <2>1, <3>3 DEF Clash
  <2>3. CASE ~Clash(nodes, k + 1)
    <3> DEFINE new == Append(es, e)
    <3>1. next = [parsed EXCEPT !.process = AddElement(@, e)]
      BY <1>1, <1>5, <2>2, <2>3 DEF ParseNode
    <3>2. Holds(new, nodes, k + 1) /\ ToSet(new) = ToSet(es) \cup {e}
      BY <1>5, <2>1, AppendHolds
    <3>3. \A d \in ToSet(es) : d.id # e.id
      BY <2>1, <2>3 DEF Holds, Element, Clash
    <3>4. AddElement(Filled(process.id, es), e) = Filled(process.id, new)
      BY <3>2, <3>3, AddFilled
    <3>5. next = [threw |-> FALSE, process |-> Filled(process.id, new)]
      BY <1>1, <1>5, <3>1, <3>4
    <3>. QED
      BY <2>3, <3>2, <3>5 DEF Round
  <2>4. CASE Clash(nodes, k + 1)
    <3>1. next = [threw |-> TRUE, process |-> Filled(process.id, es)]
      BY <1>1, <1>5, <2>2, <2>4 DEF ParseNode
    <3>. QED
      BY <2>4, <3>1 DEF Round
  <2>. QED
    BY <2>3, <2>4
<1>. QED
  BY <1>1, <1>3, <1>4, <1>5

(* parseProcess: what its loop has made of all the nodes.                  *)
LEMMA ParseOutcome ==
  ASSUME NEW process, NEW n \in Nat, DOMAIN process.nodes = 1 .. n
  PROVE  Round(process, ParseProcess(process), n)
<1>1. PICK after :
        /\ after[0] = Fresh(process)
        /\ \A k \in 1 .. n : after[k] = ParseNode(process.nodes, after[k - 1], k)
        /\ ParseProcess(process) = after[n]
  BY ParseRounds
<1> DEFINE S == {k \in Nat : k <= n => Round(process, after[k], k)}
<1>2. 0 \in S
  BY <1>1, FreshRound
<1>3. ASSUME NEW k \in Nat, k \in S PROVE k + 1 \in S
  <2> SUFFICES ASSUME k + 1 <= n PROVE Round(process, after[k + 1], k + 1)
    OBVIOUS
  <2>1. Round(process, after[k], k)
    BY <1>3
  <2>2. k + 1 \in 1 .. n /\ (k + 1) - 1 = k
    OBVIOUS
  <2>3. after[k + 1] = ParseNode(process.nodes, after[k], k + 1)
    BY <1>1, <2>2
  <2>. QED
    BY <2>1, <2>3, NextRound
<1> HIDE DEF S
<1>4. n \in S
  BY <1>2, <1>3, Induction, Zenon
<1>. QED
  BY <1>1, <1>4 DEF S

-----------------------------------------------------------------------------
(* The document as a whole.                                                *)
(* parse throws.                                                           *)
Refused(d) ==
  \/ ~d.wellFormed
  \/ d.processes = <<>>
  \/ Clash(d.processes[1].nodes, Len(d.processes[1].nodes))

(* No flow has ends: getElement searches a map nobody writes.              *)
LEMMA FlowRefused ==
  ASSUME NEW id, NEW es, NEW flow
  PROVE  ParseSequenceFlow(Filled(id, es), flow) = Filled(id, es)
<1>1. GetElement(Filled(id, es), flow.source) = NoElement
  BY FilledFields DEF GetElement, Find
<1>. QED
  BY <1>1 DEF ParseSequenceFlow, CanAddFlow

(* What callers pass to the parser: documents, and texts instead of paths. *)
Passed == Document \cup {AsPath(d) : d \in Document}

(* What libxml2 reports are sequences.                                     *)
LEMMA DocumentNodes ==
  ASSUME NEW d \in Passed, d.wellFormed, d.processes # <<>>
  PROVE  /\ Len(d.flows) \in Nat /\ DOMAIN d.flows = 1 .. Len(d.flows)
         /\ LET nodes == d.processes[1].nodes
            IN  Len(nodes) \in Nat /\ DOMAIN nodes = 1 .. Len(nodes)
<1>1. d # NoDoc /\ d \in Document
  BY DEF NoDoc, Passed, AsPath
<1>2. d \in [wellFormed : {TRUE}, processes : Seq(ProcessNode),
            foreign : Seq(ProcessNode), flows : Seq(FlowNode)]
  BY <1>1, Zenon DEF Document
<1>3. d.processes \in Seq(ProcessNode) /\ d.flows \in Seq(FlowNode)
  BY <1>2
<1>4. d.processes[1] \in ProcessNode
  BY <1>3
<1>. QED
  BY <1>3, <1>4 DEF ProcessNode

(* What a document that is read comes to.                                  *)
LEMMA DocumentOutcome ==
  ASSUME NEW d \in Passed
  PROVE  /\ Refused(d) => Parsed(d) = Threw
         /\ ~Refused(d) =>
              \E es : /\ Parsed(d) = Filled(d.processes[1].id, es)
                      /\ Holds(es, d.processes[1].nodes, Len(d.processes[1].nodes))
<1> DEFINE process == d.processes[1]
           n == Len(process.nodes)
           parsed == ParseProcess(process)
<1>1. CASE ~d.wellFormed
  BY <1>1 DEF Refused, Parsed
<1>2. CASE d.wellFormed /\ d.processes = <<>>
  BY <1>2 DEF Refused, Parsed, ParseDocument
<1>3. CASE d.wellFormed /\ d.processes # <<>>
  <2>1. n \in Nat /\ DOMAIN process.nodes = 1 .. n
    BY <1>3, DocumentNodes
  <2>2. Round(process, parsed, n)
    BY <2>1, ParseOutcome
  <2>3. PICK es, t :
          /\ parsed = [threw |-> t, process |-> Filled(process.id, es)]
          /\ t \in BOOLEAN
          /\ t => Clash(process.nodes, n)
          /\ ~t => ~Clash(process.nodes, n) /\ Holds(es, process.nodes, n)
    BY <2>2 DEF Round
  <2>4. Parsed(d) = IF parsed.threw THEN Threw
                    ELSE FoldLeft(ParseSequenceFlow, parsed.process, d.flows)
    BY <1>3 DEF Parsed, ParseDocument
  <2>5. CASE t
    BY <1>3, <2>3, <2>4, <2>5 DEF Refused
  <2>6. CASE ~t
    <3> DEFINE p == Filled(process.id, es)
    <3>1. Len(d.flows) \in Nat /\ DOMAIN d.flows = 1 .. Len(d.flows)
      BY <1>3, DocumentNodes
    <3>2. \A k \in 1 .. Len(d.flows) : ParseSequenceFlow(p, d.flows[k]) = p
      BY FlowRefused
    <3> HIDE DEF p
    <3>3. FoldLeft(ParseSequenceFlow, p, d.flows) = p
      BY <3>1, <3>2, NoFlowAdded
    <3>4. Parsed(d) = p
      BY <2>3, <2>4, <2>6, <3>3 DEF p
    <3>. QED
      BY <1>3, <2>3, <2>6, <3>4 DEF Refused, p
  <2>. QED
    BY <2>5, <2>6
<1>. QED
  BY <1>1, <1>2, <1>3

(* A process parse returns is neither of the two other results, and its    *)
(* vector and its map own the same elements.                               *)
LEMMA NotThrown ==
  ASSUME NEW d \in Passed, ~Refused(d)
  PROVE  Parsed(d) \notin {Threw, Dropped} /\ Dangling(Parsed(d)) = {}
<1>1. PICK es : Parsed(d) = Filled(d.processes[1].id, es)
  BY DocumentOutcome
<1>2. Dangling(Filled(d.processes[1].id, es)) = {}
  BY FilledFields DEF Dangling
<1>. QED
  BY <1>1, <1>2, FilledFields

-----------------------------------------------------------------------------
(* The inductive invariant: the result is what the document of the last    *)
(* call comes to, whatever the parser read before it, until the caller     *)
(* drops it; a result that is no process cannot be dropped.                *)
ResultInv ==
  /\ result = [of |-> result.of, parsed |-> result.parsed]
  /\ result.of \in Passed
  /\ \/ result.parsed = Parsed(result.of)
     \/ result.parsed = Dropped /\ ~Refused(result.of)

(* It holds before the first call.                                         *)
LEMMA ResultInit == ParserInit => ResultInv
<1> SUFFICES ASSUME ParserInit PROVE ResultInv
  OBVIOUS
<1>1. result = [of |-> NoDoc, parsed |-> Threw]
  BY DEF ParserInit
<1>2. NoDoc \in Passed /\ Parsed(NoDoc) = Threw
  BY DEF Passed, Document, Parsed, NoDoc
<1>. QED
  BY <1>1, <1>2 DEF ResultInv

(* Every call of the parser or of its caller keeps it.                     *)
LEMMA ResultStep == ResultInv /\ [ParserNext]_parserVars => ResultInv'
<1> SUFFICES ASSUME ResultInv, [ParserNext]_parserVars PROVE ResultInv'
  OBVIOUS
<1>1. Parsed(NoDoc) = Threw
  BY DEF Parsed, NoDoc
<1>2. ASSUME NEW d \in Documents, Parse(d) PROVE ResultInv'
  <2>1. Parsed(ReadDocument(d)) = Parsed(d)
    BY <1>1 DEF ReadDocument, Parsed
  <2>2. result' = [of |-> d, parsed |-> Parsed(d)]
    BY <1>2, <2>1 DEF Parse
  <2>. QED
    BY <2>2, DocumentsAssumption DEF ResultInv, Passed
<1>3. ASSUME NEW d \in Documents, ParseNoFile(d) PROVE ResultInv'
  <2>1. AsPath(d) \in Passed /\ Parsed(AsPath(d)) = Threw
    BY DocumentsAssumption DEF Passed, AsPath, Parsed
  <2>2. result' = [of |-> AsPath(d), parsed |-> Threw]
    BY <1>3 DEF ParseNoFile
  <2>. QED
    BY <2>1, <2>2 DEF ResultInv
<1>4. CASE DropProcess
  <2>1. result.parsed \notin {Threw, Dropped} /\ result' = [result EXCEPT !.parsed = Dropped]
    BY <1>4 DEF DropProcess
  <2>2. result.of \in Passed /\ result.parsed = Parsed(result.of)
    BY <2>1 DEF ResultInv
  <2>3. ~Refused(result.of)
    BY <2>1, <2>2, DocumentOutcome
  <2>4. result' = [of |-> result.of, parsed |-> Dropped]
    BY <2>1 DEF ResultInv
  <2>. QED
    BY <2>2, <2>3, <2>4 DEF ResultInv
<1>5. CASE UNCHANGED parserVars
  BY <1>5 DEF parserVars, ResultInv
<1>. QED
  BY <1>2, <1>3, <1>4, <1>5 DEF ParserNext

(* No element of a process that parse has returned is freed while the      *)
(* process is in use, for documents of any size: addElement gives each     *)
(* element to the vector and to the map, and a second element of an id,    *)
(* which would take the place of the first in the map, is refused before.  *)
THEOREM NothingDangles == ParserSpec => []NoDanglingElement
<1>1. ResultInv => NoDanglingElement
  <2> SUFFICES ASSUME ResultInv, result.parsed \notin {Threw, Dropped}
               PROVE  Dangling(result.parsed) = {}
    BY DEF NoDanglingElement
  <2>1. result.of \in Passed /\ result.parsed = Parsed(result.of)
    BY DEF ResultInv
  <2>2. ~Refused(result.of)
    BY <2>1, DocumentOutcome
  <2>. QED
    BY <2>1, <2>2, NotThrown
<1>. QED
  BY <1>1, ResultInit, ResultStep, PTL DEF ParserSpec

(* What parse returns says exactly what the document said, for documents   *)
(* of any size and after any calls on the same parser: it throws if and    *)
(* only if there is no first process or that process uses an id twice, and *)
(* else the elements are those of the nodes, each once, in their order.    *)
(* Texts mistaken for paths, or without the namespace, are excepted.       *)
THEOREM ParsesFaithfully == ParserSpec => []ParseIsFaithful
<1>1. ResultInv => ParseIsFaithful
  <2> SUFFICES ASSUME ResultInv PROVE ParseIsFaithful
    OBVIOUS
  <2> DEFINE d == result.of
             nodes == d.processes[1].nodes
             n == Len(nodes)
             made == {k \in DOMAIN nodes : MakesElement(nodes[k])}
             refused == \/ ~d.wellFormed
                        \/ d.processes = <<>>
                        \/ \E j, k \in made : j # k /\ nodes[j].id = nodes[k].id
             elements == result.parsed.elements
  <2>1. d \in Passed
    BY DEF ResultInv
  <2>2. d.wellFormed /\ d.processes # <<>> => made = Made(nodes, n)
    <3> SUFFICES ASSUME d.wellFormed, d.processes # <<>> PROVE made = Made(nodes, n)
      OBVIOUS
    <3>1. DOMAIN nodes = 1 .. n
      BY <2>1, DocumentNodes
    <3>. QED
      BY <3>1 DEF Made
  <2> HIDE DEF d
  <2>3. refused <=> Refused(d)
    BY <2>2 DEF Refused, Clash
  <2>4. refused <=> result.parsed = Threw
    <3>1. CASE Refused(d)
      <4>1. Parsed(d) = Threw /\ result.parsed = Parsed(d)
        BY <2>1, <3>1, DocumentOutcome DEF ResultInv, d
      <4>. QED
        BY <2>3, <3>1, <4>1
    <3>2. CASE ~Refused(d)
      <4>1. Parsed(d) # Threw
        BY <2>1, <3>2, NotThrown
      <4>2. result.parsed \in {Parsed(d), Dropped}
        BY DEF ResultInv, d
      <4>3. Dropped # Threw
        BY DEF Dropped, Threw
      <4>. QED
        BY <2>3, <3>2, <4>1, <4>2, <4>3
    <3>. QED
      BY <3>1, <3>2
  <2>5. ASSUME ~refused, result.parsed # Dropped
        PROVE  /\ result.parsed.id = d.processes[1].id
               /\ ToSet(elements) = {Element(nodes, k) : k \in made}
               /\ \A j, k \in DOMAIN elements : j < k => elements[j].node < elements[k].node
    <3>1. ~Refused(d) /\ result.parsed = Parsed(d)
      BY <2>3, <2>5 DEF ResultInv, d
    <3>2. PICK es : /\ Parsed(d) = Filled(d.processes[1].id, es)
                    /\ Holds(es, nodes, n)
      BY <2>1, <3>1, DocumentOutcome
    <3>3. result.parsed.id = d.processes[1].id /\ elements = es
      BY <3>1, <3>2, FilledFields
    <3>4. made = Made(nodes, n)
      BY <2>2, <2>5
    <3> HIDE DEF nodes, made, elements
    <3>. QED
      BY <3>2, <3>3, <3>4 DEF Holds
  <2>. QED
    BY <2>4, <2>5 DEF ParseIsFaithful, d
<1>. QED
  BY <1>1, ResultInit, ResultStep, PTL DEF ParserSpec

(* No process that parse returns holds a sequence flow, whatever flows the *)
(* document names: every one of them is refused, and nobody is told.       *)
THEOREM FlowsAreLost ==
  ParserSpec => [](result.parsed \notin {Threw, Dropped} => result.parsed.flows = <<>>)
<1> DEFINE Lost == result.parsed \notin {Threw, Dropped} => result.parsed.flows = <<>>
<1>1. ResultInv => Lost
  <2> SUFFICES ASSUME ResultInv, result.parsed \notin {Threw, Dropped}
               PROVE  result.parsed.flows = <<>>
    OBVIOUS
  <2>1. result.of \in Passed /\ result.parsed = Parsed(result.of)
    BY DEF ResultInv
  <2>2. PICK es : Parsed(result.of) = Filled(result.of.processes[1].id, es)
    BY <2>1, DocumentOutcome
  <2>. QED
    BY <2>1, <2>2, FilledFields
<1>. QED
  BY <1>1, ResultInit, ResultStep, PTL DEF ParserSpec
=============================================================================
