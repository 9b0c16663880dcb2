---------------------------- MODULE EngineProofs -----------------------------
(***************************************************************************)
(* Theorems about EngineThreads, for every set of calls, instance ids and  *)
(* documents.                                                              *)
(***************************************************************************)
EXTENDS EngineThreads, FiniteSetTheorems, TLAPS

Points == {"outside", "read", "parse", "insert", "find", "erase", "list",
           "leave", "unwind"}

(* A call is in the body of its method if and only if it holds the mutex.  *)
MutexInv ==
  /\ engineMutex_ \in Calls \cup {NoCall}
  /\ pc \in [Calls -> Points]
  /\ state \in [Calls -> {"new", "called", "returned", "threw"}]
  /\ req \in [Calls -> Request \cup {NoRequest}]
  /\ DOMAIN local = Calls
  /\ DOMAIN value = Calls
  /\ DOMAIN processCache_ = Instances
  /\ \A n \in Calls :
       /\ pc[n] # "outside" <=> engineMutex_ = n
       /\ pc[n] # "outside" => state[n] = "called"
       /\ state[n] # "new" => req[n] \in Request

(* HeapAfterParse when the memory was h.                                   *)
ParsedHeap(d, h) ==
  CASE ~d.wellFormed \/ Parsed(d) # Threw -> h
    [] d.wellFormed /\ d.processes = <<>> ->
         IF h = "sound" THEN "context freed twice" ELSE h
    [] OTHER -> HeapAfterDestroying(ParseProcess(d.processes[1]).process, h)

(* HeapAfterCaching when the memory was h and the cache was c.             *)
CachedHeap(c, i, h) ==
  IF c[i] # NoProcess THEN HeapAfterDestroying(c[i], h) ELSE h

(* What the parser of a starting call n reads: the text of the caller, or  *)
(* nothing where there is no file.                                         *)
MayRead(n, d) ==
  d = req[n].doc \/ (req[n].op = "startProcessFromFile" /\ d = NoDoc)

(* The owner n of the mutex has changed nothing ...                        *)
CacheKept == processCache_ = saved.cache
ParserKept == doc_ = saved.doc /\ result = saved.result
HeapKept == heap = saved.heap
AllKept == CacheKept /\ ParserKept /\ HeapKept

(* ... or what it has changed is the work of the statements it has passed. *)
HasParsed(n, d) ==
  /\ MayRead(n, d)
  /\ doc_ = ReadDocument(d)
  /\ result = [of |-> d, parsed |-> Parsed(doc_)]

AtRead(n) == req[n].op \in Starting /\ AllKept

AtParse(n) ==
  /\ req[n].op \in Starting
  /\ MayRead(n, local[n])
  /\ doc_ = ReadDocument(local[n])
  /\ result = saved.result
  /\ CacheKept /\ HeapKept

AtInsert(n) ==
  /\ req[n].op \in Starting
  /\ HasParsed(n, req[n].doc)
  /\ result.parsed # Threw
  /\ local[n] = result.parsed
  /\ CacheKept /\ HeapKept

AtFind(n) == req[n].op \notin Starting \cup {"getActiveInstances"} /\ AllKept

AtErase(n) ==
  /\ req[n].op = "terminateProcess"
  /\ local[n] = req[n].inst
  /\ Active(local[n])
  /\ AllKept

AtList(n) ==
  /\ req[n].op = "getActiveInstances"
  /\ local[n] \subseteq ActiveInstances
  /\ AllKept

HasStarted(n) ==
  /\ req[n].op \in Starting
  /\ HasParsed(n, req[n].doc)
  /\ result.parsed # Threw
  /\ local[n] \in Instances
  /\ processCache_ = [saved.cache EXCEPT ![local[n]] = result.parsed]
  /\ heap = CachedHeap(saved.cache, local[n], saved.heap)

HasFound(n) ==
  /\ req[n].op \in {"lookUp", "getProcessState"}
  /\ Active(req[n].inst)
  /\ local[n] = Answer(req[n].op)
  /\ AllKept

HasTested(n) ==
  /\ req[n].op = "isProcessActive"
  /\ local[n] = Active(req[n].inst)
  /\ AllKept

HasTerminated(n) ==
  /\ req[n].op = "terminateProcess"
  /\ saved.cache[req[n].inst] # NoProcess
  /\ processCache_ = [saved.cache EXCEPT ![req[n].inst] = NoProcess]
  /\ heap = HeapAfterDestroying(saved.cache[req[n].inst], saved.heap)
  /\ local[n] = "none"
  /\ ParserKept

HasListed(n) ==
  /\ req[n].op = "getActiveInstances"
  /\ local[n] = ActiveInstances
  /\ AllKept

HasNotStarted(n) ==
  /\ req[n].op \in Starting
  /\ \E d \in {req[n].doc, NoDoc} : HasParsed(n, d) /\ heap = ParsedHeap(doc_, saved.heap)
  /\ result.parsed = Threw
  /\ CacheKept

HasNotFound(n) ==
  /\ req[n].op \in {"lookUp", "getProcessState", "terminateProcess"}
  /\ ~Active(req[n].inst)
  /\ AllKept

(* The part of a method that has been executed is what the mutex hides.    *)
Body(n) ==
  CASE pc[n] = "read"    -> AtRead(n)
    [] pc[n] = "parse"   -> AtParse(n)
    [] pc[n] = "insert"  -> AtInsert(n)
    [] pc[n] = "find"    -> AtFind(n)
    [] pc[n] = "erase"   -> AtErase(n)
    [] pc[n] = "list"    -> AtList(n)
    [] pc[n] = "leave"   -> \/ HasStarted(n)
                            \/ HasFound(n)
                            \/ HasTested(n)
                            \/ HasTerminated(n)
                            \/ HasListed(n)
    [] pc[n] = "unwind"  -> HasNotStarted(n) \/ HasNotFound(n)
    [] OTHER             -> TRUE

BodyInv == \A n \in Calls : Body(n)

ThreadsInv == MutexInv /\ BodyInv

(* What everybody but the owner of the mutex knows of the cache.           *)
SeenCache == Seen(processCache_, saved.cache)
Listed(i) == IF SeenCache[i] # NoProcess THEN 1 ELSE 0

Made == {n \in Calls : state[n] # "new"}

(* The story of every instance.  before[n] holds calls that have ended; an *)
(* instance is listed at most as often as it was started and not           *)
(* terminated.                                                             *)
BeforeInv ==
  /\ DOMAIN SeenCache = Instances
  /\ before \in [Calls -> SUBSET Calls]
  /\ \A n \in Calls : before[n] \subseteq Ended
  /\ IsFiniteSet(Made)

CountInv ==
  \A i \in Instances :
    Cardinality(Terminations(i)) + Listed(i) <= Cardinality(Starts(i))

KeptInv ==
  \A i \in Instances :
    Starts(i) # {} /\ Terminations(i) = {} =>
      SeenCache[i] \in {Parsed(req[n].doc) : n \in Starts(i)}

(* Call n has not found an instance terminated before it was made.         *)
Missed(n, i) ==
  CASE req[n].op \in {"lookUp", "getProcessState", "terminateProcess"} ->
         req[n].inst # i
    [] req[n].op = "isProcessActive"    -> req[n].inst = i => value[n] = FALSE
    [] req[n].op = "getActiveInstances" -> i \notin value[n]
    [] OTHER                            -> TRUE

GoneInv ==
  \A i \in Instances, n \in Calls :
    /\ Cardinality(Starts(i)) = 1
    /\ Terminations(i) \cap before[n] # {}
    /\ state[n] = "returned"
    => Missed(n, i)

StoryInv == BeforeInv /\ CountInv /\ KeptInv /\ GoneInv

-----------------------------------------------------------------------------
(* The mutex and the points of the calls.                                  *)
LEMMA MutexInit == ThreadsInit => MutexInv
  BY EngineNoCall DEF ThreadsInit, EngineInit, MutexInv, Points, NoCall

LEMMA MutexCall ==
  ASSUME MutexInv, NEW n \in Calls, NEW rq \in Request, CallMethod(n, rq)
  PROVE  MutexInv'
<1>1. /\ UNCHANGED <<engineMutex_, pc, local, value, processCache_>>
      /\ state[n] = "new"
      /\ state' = [state EXCEPT ![n] = "called"]
      /\ req' = [req EXCEPT ![n] = rq]
  BY DEF CallMethod, Invoke, threadVars
<1>. QED
  BY <1>1 DEF MutexInv

LEMMA FirstPoints ==
  ASSUME NEW op
  PROVE  FirstPoint(op) \in {"read", "list", "find"}
  BY DEF FirstPoint

LEMMA MutexLock ==
  ASSUME MutexInv, NEW n \in Calls, Lock(n)
  PROVE  MutexInv'
<1>1. /\ UNCHANGED <<state, req, value, processCache_>>
      /\ state[n] = "called"
      /\ engineMutex_ = NoCall
      /\ engineMutex_' = n
      /\ pc' = [pc EXCEPT ![n] = FirstPoint(req[n].op)]
      /\ local' = [local EXCEPT ![n] = NoLocal]
  BY DEF Lock, MayLock, Goto, allVars, engineVars
<1>2. FirstPoint(req[n].op) \in Points \ {"outside"}
  BY FirstPoints DEF Points
<1>3. \A m \in Calls : pc[m] = "outside"
  BY <1>1, EngineNoCall DEF MutexInv, NoCall
<1>. QED
  BY <1>1, <1>2, <1>3 DEF MutexInv

(* A step inside a body.                                                   *)
LEMMA MutexBody ==
  ASSUME MutexInv, NEW n \in Calls, pc[n] # "outside",
         NEW p \in Points \ {"outside"}, NEW v, Goto(n, p, v),
         UNCHANGED <<state, req, value, engineMutex_>>,
         DOMAIN processCache_' = Instances
  PROVE  MutexInv' /\ pc'[n] = p /\ local'[n] = v
  BY DEF MutexInv, Goto

LEMMA MutexLeave ==
  ASSUME MutexInv, NEW n \in Calls, LeaveMethod(n)
  PROVE  MutexInv'
<1>1. /\ UNCHANGED <<req, processCache_>>
      /\ pc[n] \in {"leave", "unwind"}
      /\ engineMutex_' = NoCall
      /\ pc' = [pc EXCEPT ![n] = "outside"]
      /\ local' = [local EXCEPT ![n] = NoLocal]
  BY DEF LeaveMethod, Unlock, Goto
<1>2. \/ state' = [state EXCEPT ![n] = "returned"] /\ value' = [value EXCEPT ![n] = local[n]]
      \/ state' = [state EXCEPT ![n] = "threw"] /\ value' = value
  BY DEF LeaveMethod, Return, Throw
<1>3. \A m \in Calls \ {n} : pc[m] = "outside"
  BY <1>1 DEF MutexInv
<1>4. state' \in [Calls -> {"new", "called", "returned", "threw"}]
  BY <1>2 DEF MutexInv
<1>5. DOMAIN value' = Calls
  BY <1>2 DEF MutexInv
<1>6. \A m \in Calls : state'[m] # "new" => state[m] # "new"
  BY <1>1, <1>2 DEF MutexInv
<1>7. /\ engineMutex_' \in Calls \cup {NoCall}
      /\ pc' \in [Calls -> Points]
      /\ DOMAIN local' = Calls
  BY <1>1 DEF MutexInv, Points
<1>8. \A m \in Calls : pc'[m] = "outside" /\ engineMutex_' # m
  BY <1>1, <1>3, EngineNoCall DEF MutexInv, NoCall
<1>. QED
  BY <1>1, <1>4, <1>5, <1>6, <1>7, <1>8 DEF MutexInv

(* Nobody but the owner of the mutex is in a body.                         *)
LEMMA OthersOutside ==
  ASSUME MutexInv, NEW n \in Calls, pc[n] # "outside"
  PROVE  \A m \in Calls \ {n} : pc[m] = "outside"
  BY DEF MutexInv

LEMMA BodyOfOwner ==
  ASSUME MutexInv', NEW n \in Calls, pc'[n] # "outside", Body(n)'
  PROVE  BodyInv'
<1>1. \A m \in Calls \ {n} : pc'[m] = "outside"
  BY DEF MutexInv
<1>2. \A m \in Calls \ {n} : Body(m)'
  BY <1>1 DEF Body
<1>. QED
  BY <1>2 DEF BodyInv

-----------------------------------------------------------------------------
(* The parser refuses what is not well formed, and a document without a    *)
(* process.                                                                *)
LEMMA ParsedFacts ==
  /\ \A d : Parsed(ReadDocument(d)) = Parsed(d)
  /\ \A d : ReadDocument(ReadDocument(d)) = ReadDocument(d)
  /\ Parsed(NoDoc) = Threw
  /\ ReadDocument(NoDoc) = NoDoc
  /\ \A d, h : Parsed(d) # Threw => ParsedHeap(d, h) = h
  /\ \A h : ParsedHeap(NoDoc, h) = h
<1>1. ~NoDoc.wellFormed
  BY DEF NoDoc
<1>2. \A d : ~d.wellFormed => Parsed(d) = Threw
  BY DEF Parsed
<1>3. \A d : ReadDocument(d) = IF d.wellFormed THEN d ELSE NoDoc
  BY DEF ReadDocument
<1>4. \A d, h : Parsed(d) # Threw => d.wellFormed
  BY <1>2
<1>5. \A d : d.wellFormed /\ d.processes = <<>> => Parsed(d) = Threw
  BY Zenon DEF Parsed, ParseDocument
<1>6. \A d, h : Parsed(d) # Threw => ParsedHeap(d, h) = h
  BY <1>4, <1>5 DEF ParsedHeap
<1>7. \A h : ParsedHeap(NoDoc, h) = h
  BY <1>1 DEF ParsedHeap
<1>. QED
  BY <1>1, <1>2, <1>3, <1>6, <1>7

-----------------------------------------------------------------------------
(* What a body has done so far.                                            *)
LEMMA BodyCall ==
  ASSUME ThreadsInv, NEW n \in Calls, NEW rq \in Request, CallMethod(n, rq)
  PROVE  BodyInv'
<1>1. /\ UNCHANGED <<parserVars, processCache_, threadVars>>
      /\ state[n] = "new"
      /\ req' = [req EXCEPT ![n] = rq]
  BY DEF CallMethod, Invoke
<1>2. UNCHANGED <<doc_, result, heap, processCache_, pc, local, saved>>
  BY <1>1 DEF parserVars, threadVars
<1> SUFFICES ASSUME NEW m \in Calls PROVE Body(m)'
  BY DEF BodyInv
<1>3. CASE m = n
  <2>1. pc[n] = "outside"
    BY <1>1 DEF ThreadsInv, MutexInv
  <2>. QED
    BY <1>2, <1>3, <2>1 DEF Body
<1>4. CASE m # n
  <2>1. req'[m] = req[m]
    BY <1>1, <1>4
  <2>2. Body(m)
    BY DEF ThreadsInv, BodyInv
  <2>. QED
    BY <1>2, <2>1, <2>2
       DEF Body, AtRead, AtParse, AtInsert, AtFind, AtErase, AtList, HasStarted, HasFound,
           HasTested, HasTerminated, HasListed, HasNotStarted, HasNotFound, HasParsed,
           MayRead, AllKept, CacheKept, ParserKept, HeapKept, Active, ActiveInstances
<1>. QED
  BY <1>3, <1>4

LEMMA BodyLock ==
  ASSUME ThreadsInv, NEW n \in Calls, Lock(n)
  PROVE  BodyInv'
<1>1. MutexInv'
  BY MutexLock DEF ThreadsInv
<1>2. /\ UNCHANGED <<doc_, result, heap, processCache_, req>>
      /\ pc'[n] = FirstPoint(req[n].op)
      /\ local'[n] = NoLocal
      /\ saved' = [cache |-> processCache_, doc |-> doc_, result |-> result, heap |-> heap]
  BY DEF Lock, Goto, allVars, engineVars, parserVars, ThreadsInv, MutexInv
<1>3. AllKept'
  BY <1>2 DEF AllKept, CacheKept, ParserKept, HeapKept
<1>4. Body(n)'
  BY <1>2, <1>3 DEF Body, FirstPoint, AtRead, AtFind, AtList, NoLocal, Starting
<1>5. pc'[n] # "outside"
  BY <1>2, FirstPoints
<1>. QED
  BY <1>1, <1>4, <1>5, BodyOfOwner

LEMMA BodyRead ==
  ASSUME ThreadsInv, NEW n \in Calls, Read(n)
  PROVE  MutexInv' /\ BodyInv'
<1>1. PICK d \in {req[n].doc} \cup
                 (IF req[n].op = "startProcessFromFile" THEN {NoDoc} ELSE {}) :
         doc_' = ReadDocument(d) /\ Goto(n, "parse", d)
  BY DEF Read
<1>2. /\ pc[n] = "read"
      /\ UNCHANGED <<result, heap, processCache_, req, state, value, engineMutex_, saved>>
  BY DEF Read, engineVars
<1>3. MutexInv' /\ pc'[n] = "parse" /\ local'[n] = d
  BY <1>1, <1>2, MutexBody DEF ThreadsInv, MutexInv, Points
<1>4. AtRead(n)
  BY <1>2 DEF ThreadsInv, BodyInv, Body
<1>5. AtParse(n)'
  BY <1>1, <1>2, <1>3, <1>4
     DEF AtRead, AtParse, MayRead, AllKept, CacheKept, ParserKept, HeapKept
<1>. QED
  BY <1>3, <1>5, BodyOfOwner DEF Body

LEMMA BodyParse ==
  ASSUME ThreadsInv, NEW n \in Calls, ParseDoc(n)
  PROVE  MutexInv' /\ BodyInv'
<1>1. /\ pc[n] = "parse"
      /\ result' = [of |-> local[n], parsed |-> Parsed(doc_)]
      /\ heap' = ParsedHeap(doc_, heap)
      /\ UNCHANGED <<doc_, processCache_, req, state, value, engineMutex_, saved>>
  BY DEF ParseDoc, engineVars, ParsedHeap, HeapAfterParse
<1>2. AtParse(n)
  BY <1>1 DEF ThreadsInv, BodyInv, Body
<1>3. CASE Parsed(doc_) = Threw
  <2>1. Goto(n, "unwind", NoLocal)
    BY <1>1, <1>3 DEF ParseDoc
  <2>2. MutexInv' /\ pc'[n] = "unwind"
    BY <1>1, <2>1, MutexBody DEF ThreadsInv, MutexInv, Points
  <2>3. HasNotStarted(n)'
    BY <1>1, <1>2, <1>3
       DEF AtParse, HasNotStarted, HasParsed, MayRead, CacheKept, HeapKept
  <2>. QED
    BY <2>2, <2>3, BodyOfOwner DEF Body
<1>4. CASE Parsed(doc_) # Threw
  <2>1. Goto(n, "insert", Parsed(doc_))
    BY <1>1, <1>4 DEF ParseDoc
  <2>2. MutexInv' /\ pc'[n] = "insert" /\ local'[n] = Parsed(doc_)
    BY <1>1, <2>1, MutexBody DEF ThreadsInv, MutexInv, Points
  <2>3. local[n] = req[n].doc
    BY <1>2, <1>4, ParsedFacts DEF AtParse, MayRead
  <2>4. heap' = heap
    BY <1>1, <1>4, ParsedFacts
  <2>5. AtInsert(n)'
    BY <1>1, <1>2, <1>4, <2>2, <2>3, <2>4
       DEF AtParse, AtInsert, HasParsed, MayRead, CacheKept, HeapKept
  <2>. QED
    BY <2>2, <2>5, BodyOfOwner DEF Body
<1>. QED
  BY <1>3, <1>4

LEMMA BodyInsert ==
  ASSUME ThreadsInv, NEW n \in Calls, Insert(n)
  PROVE  MutexInv' /\ BodyInv'
<1>1. PICK i \in Instances :
         /\ processCache_' = [processCache_ EXCEPT ![i] = local[n]]
         /\ heap' = HeapAfterCaching(i, heap)
         /\ Goto(n, "leave", i)
  BY DEF Insert
<1>2. /\ pc[n] = "insert"
      /\ UNCHANGED <<doc_, result, req, state, value, engineMutex_, saved>>
  BY DEF Insert
<1>3. MutexInv' /\ pc'[n] = "leave" /\ local'[n] = i
  BY <1>1, <1>2, MutexBody DEF ThreadsInv, MutexInv, Points
<1>4. AtInsert(n)
  BY <1>2 DEF ThreadsInv, BodyInv, Body
<1>5. heap' = CachedHeap(processCache_, i, heap)
  BY <1>1 DEF HeapAfterCaching, CachedHeap, Active
<1>6. HasStarted(n)'
  BY <1>1, <1>2, <1>3, <1>4, <1>5
     DEF AtInsert, HasStarted, HasParsed, MayRead, CacheKept, HeapKept
<1>. QED
  BY <1>3, <1>6, BodyOfOwner DEF Body

LEMMA BodyFind ==
  ASSUME ThreadsInv, NEW n \in Calls, FindInstance(n)
  PROVE  MutexInv' /\ BodyInv'
<1> DEFINE op == req[n].op
           i == req[n].inst
<1>1. /\ pc[n] = "find"
      /\ UNCHANGED <<doc_, result, heap, processCache_, req, state, value, engineMutex_, saved>>
  BY DEF FindInstance, allVars, engineVars, parserVars
<1>2. AtFind(n)
  BY <1>1 DEF ThreadsInv, BodyInv, Body
<1>3. AllKept'
  BY <1>1, <1>2 DEF AtFind, AllKept, CacheKept, ParserKept, HeapKept
<1>4. op \in {"lookUp", "getProcessState", "terminateProcess", "isProcessActive"}
  <2>1. req[n] \in Request
    BY <1>1 DEF ThreadsInv, MutexInv
  <2>. QED
    BY <1>2, <2>1 DEF AtFind, Request, Starting
<1>5. ASSUME NEW p \in {"erase", "leave", "unwind"}, NEW v, Goto(n, p, v)
      PROVE  MutexInv' /\ pc'[n] = p /\ local'[n] = v
  BY <1>1, <1>5, MutexBody DEF ThreadsInv, MutexInv, Points
<1>6. CASE Active(i) /\ op = "terminateProcess"
  <2>1. Goto(n, "erase", i)
    BY <1>6 DEF FindInstance
  <2>2. MutexInv' /\ pc'[n] = "erase" /\ local'[n] = i
    BY <1>5, <2>1
  <2>3. AtErase(n)'
    BY <1>1, <1>3, <1>6, <2>2 DEF AtErase, Active
  <2>. QED
    BY <2>2, <2>3, BodyOfOwner DEF Body
<1>7. CASE Active(i) /\ op # "terminateProcess"
  <2>1. Goto(n, "leave", Answer(op))
    BY <1>7 DEF FindInstance
  <2>2. MutexInv' /\ pc'[n] = "leave" /\ local'[n] = Answer(op)
    BY <1>5, <2>1
  <2>3. HasFound(n)' \/ HasTested(n)'
    BY <1>1, <1>3, <1>4, <1>7, <2>2 DEF HasFound, HasTested, Active, Answer
  <2>. QED
    BY <2>2, <2>3, BodyOfOwner DEF Body
<1>8. CASE ~Active(i) /\ op = "isProcessActive"
  <2>1. Goto(n, "leave", FALSE)
    BY <1>8 DEF FindInstance
  <2>2. MutexInv' /\ pc'[n] = "leave" /\ local'[n] = FALSE
    BY <1>5, <2>1
  <2>3. HasTested(n)'
    BY <1>1, <1>3, <1>8, <2>2 DEF HasTested, Active
  <2>. QED
    BY <2>2, <2>3, BodyOfOwner DEF Body
<1>9. CASE ~Active(i) /\ op # "isProcessActive"
  <2>1. Goto(n, "unwind", NoLocal)
    BY <1>9 DEF FindInstance
  <2>2. MutexInv' /\ pc'[n] = "unwind"
    BY <1>5, <2>1
  <2>3. HasNotFound(n)'
    BY <1>1, <1>3, <1>4, <1>9 DEF HasNotFound, Active
  <2>. QED
    BY <2>2, <2>3, BodyOfOwner DEF Body
<1>. QED
  BY <1>6, <1>7, <1>8, <1>9

LEMMA BodyErase ==
  ASSUME ThreadsInv, NEW n \in Calls, Erase(n)
  PROVE  MutexInv' /\ BodyInv'
<1>1. /\ pc[n] = "erase"
      /\ processCache_' = [processCache_ EXCEPT ![local[n]] = NoProcess]
      /\ heap' = IF Active(local[n])
                 THEN HeapAfterDestroying(processCache_[local[n]], heap)
                 ELSE "iterator dangling"
      /\ Goto(n, "leave", "none")
      /\ UNCHANGED <<doc_, result, req, state, value, engineMutex_, saved>>
  BY DEF Erase
<1>2. AtErase(n)
  BY <1>1 DEF ThreadsInv, BodyInv, Body
<1>3. MutexInv' /\ pc'[n] = "leave" /\ local'[n] = "none"
  BY <1>1, MutexBody DEF ThreadsInv, MutexInv, Points
<1>4. HasTerminated(n)'
  BY <1>1, <1>2, <1>3
     DEF AtErase, HasTerminated, AllKept, CacheKept, ParserKept, HeapKept, Active
<1>. QED
  BY <1>3, <1>4, BodyOfOwner DEF Body

LEMMA BodyList ==
  ASSUME ThreadsInv, NEW n \in Calls, List(n)
  PROVE  MutexInv' /\ BodyInv'
<1>1. /\ pc[n] = "list"
      /\ UNCHANGED <<doc_, result, heap, processCache_, req, state, value, engineMutex_, saved>>
  BY DEF List, allVars, engineVars, parserVars
<1>2. AtList(n)
  BY <1>1 DEF ThreadsInv, BodyInv, Body
<1>3. AllKept' /\ ActiveInstances' = ActiveInstances
  BY <1>1, <1>2
     DEF AtList, AllKept, CacheKept, ParserKept, HeapKept, ActiveInstances, Active
<1>4. CASE ActiveInstances \subseteq local[n]
  <2>1. Goto(n, "leave", local[n])
    BY <1>4 DEF List
  <2>2. MutexInv' /\ pc'[n] = "leave" /\ local'[n] = local[n]
    BY <1>1, <2>1, MutexBody DEF ThreadsInv, MutexInv, Points
  <2>3. HasListed(n)'
    BY <1>1, <1>2, <1>3, <1>4, <2>2 DEF AtList, HasListed
  <2>. QED
    BY <2>2, <2>3, BodyOfOwner DEF Body
<1>5. CASE ~(ActiveInstances \subseteq local[n])
  <2>1. PICK i \in ActiveInstances \ local[n] : Goto(n, "list", local[n] \cup {i})
    BY <1>5 DEF List
  <2>2. MutexInv' /\ pc'[n] = "list" /\ local'[n] = local[n] \cup {i}
    BY <1>1, <2>1, MutexBody DEF ThreadsInv, MutexInv, Points
  <2>3. AtList(n)'
    BY <1>1, <1>2, <1>3, <2>1, <2>2 DEF AtList
  <2>. QED
    BY <2>2, <2>3, BodyOfOwner DEF Body
<1>. QED
  BY <1>4, <1>5

LEMMA BodyLeave ==
  ASSUME ThreadsInv, NEW n \in Calls, LeaveMethod(n)
  PROVE  BodyInv'
<1>1. pc[n] # "outside" /\ pc' = [pc EXCEPT ![n] = "outside"]
  BY DEF LeaveMethod, Goto
<1>2. \A m \in Calls : pc'[m] = "outside"
  BY <1>1, OthersOutside DEF ThreadsInv, MutexInv
<1>. QED
  BY <1>2 DEF BodyInv, Body

LEMMA ThreadsInvInit == ThreadsInit => ThreadsInv
<1>1. ThreadsInit => BodyInv
  BY DEF ThreadsInit, BodyInv, Body
<1>. QED
  BY <1>1, MutexInit DEF ThreadsInv

LEMMA ThreadsInvNext == ThreadsInv /\ [ThreadsNext]_detailVars => ThreadsInv'
<1> SUFFICES ASSUME ThreadsInv, [ThreadsNext]_detailVars PROVE ThreadsInv'
  OBVIOUS
<1>1. ASSUME NEW n \in Calls, NEW rq \in Request, CallMethod(n, rq)
      PROVE  ThreadsInv'
  BY <1>1, MutexCall, BodyCall DEF ThreadsInv
<1>2. ASSUME NEW n \in Calls, MethodStep(n)
      PROVE  ThreadsInv'
  BY <1>2, MutexLock, BodyLock, BodyRead, BodyParse, BodyInsert, BodyFind, BodyErase,
     BodyList, MutexLeave, BodyLeave DEF MethodStep, ThreadsInv
<1>3. CASE UNCHANGED detailVars
  <2>1. UNCHANGED <<doc_, result, heap, processCache_, req, state, value, engineMutex_,
                    pc, local, saved>>
    BY <1>3 DEF detailVars, allVars, engineVars, parserVars, threadVars
  <2>2. MutexInv'
    BY <2>1 DEF ThreadsInv, MutexInv
  <2>3. BodyInv'
    BY <2>1
       DEF ThreadsInv, BodyInv, Body, AtRead, AtParse, AtInsert, AtFind, AtErase, AtList,
           HasStarted, HasFound, HasTested, HasTerminated, HasListed, HasNotStarted,
           HasNotFound, HasParsed, MayRead, AllKept, CacheKept, ParserKept, HeapKept, Active,
           ActiveInstances
  <2>. QED
    BY <2>2, <2>3 DEF ThreadsInv
<1>. QED
  BY <1>1, <1>2, <1>3 DEF ThreadsNext

LEMMA ThreadsInvariant == ThreadsSpec => []ThreadsInv
  BY ThreadsInvInit, ThreadsInvNext, PTL DEF ThreadsSpec

(* The process startProcess puts into the cache was made of its caller's   *)
(* text, it gives up only because of that text, and terminateProcess       *)
(* erases what it has found, for any number of threads: the mutex covers   *)
(* the parser and the iterator as well.                                    *)
THEOREM BodiesUndisturbed == ThreadsSpec => []BodyUndisturbed
<1>1. ThreadsInv => BodyUndisturbed
  <2> SUFFICES ASSUME ThreadsInv, NEW n \in Calls
               PROVE  /\ pc[n] = "insert" => local[n] = Parsed(req[n].doc)
                      /\ pc[n] = "unwind" /\ req[n].op = "startProcess" =>
                           Parsed(req[n].doc) = Threw
                      /\ pc[n] = "erase" => Active(local[n])
    BY DEF BodyUndisturbed
  <2>1. pc[n] = "insert" => AtInsert(n)
    BY DEF ThreadsInv, BodyInv, Body
  <2>2. pc[n] = "erase" => AtErase(n)
    BY DEF ThreadsInv, BodyInv, Body
  <2>3. ASSUME pc[n] = "unwind", req[n].op = "startProcess"
        PROVE  Parsed(req[n].doc) = Threw
    <3>1. HasNotStarted(n) \/ HasNotFound(n)
      BY <2>3 DEF ThreadsInv, BodyInv, Body
    <3>2. HasNotStarted(n)
      BY <2>3, <3>1 DEF HasNotFound
    <3>3. PICK d : HasParsed(n, d)
      BY <3>2 DEF HasNotStarted
    <3>4. d = req[n].doc /\ result.parsed = Parsed(d)
      BY <2>3, <3>3, ParsedFacts DEF HasParsed, MayRead
    <3>. QED
      BY <3>2, <3>4 DEF HasNotStarted
  <2>. QED
    BY <2>1, <2>2, <2>3, ParsedFacts DEF AtInsert, AtErase, HasParsed
<1>. QED
  BY <1>1, ThreadsInvariant, PTL

-----------------------------------------------------------------------------
(* The definitions of Parser and ProcessModel do not depend on the mapping *)
(* of the variables.                                                       *)
LEMMA SameParser ==
  /\ Atomic!NoDoc = NoDoc
  /\ Atomic!Threw = Threw
  /\ Atomic!NoProcess = NoProcess
  /\ Atomic!NoRequest = NoRequest
  /\ Atomic!NoValue = NoValue
  /\ Atomic!Request = Request
  /\ \A d : Atomic!ReadDocument(d) = ReadDocument(d)
  /\ \A d : Atomic!Parsed(d) = Parsed(d)
  /\ \A p, h : Atomic!HeapAfterDestroying(p, h) = HeapAfterDestroying(p, h)
  /\ \A d : Atomic!HeapAfterParse(d) = ParsedHeap(d, Seen(heap, saved.heap))
<1>1. /\ Atomic!NoDoc = NoDoc
      /\ Atomic!Threw = Threw
      /\ Atomic!NoProcess = NoProcess
      /\ Atomic!NoRequest = NoRequest
      /\ Atomic!NoValue = NoValue
      /\ Atomic!Request = Request
  BY DEF Atomic!NoDoc, NoDoc, Atomic!Threw, Threw, Atomic!NoProcess, NoProcess,
         Atomic!NoRequest, NoRequest, Atomic!NoValue, NoValue, Atomic!Request, Request
<1>2. \A d : Atomic!ReadDocument(d) = ReadDocument(d)
  BY <1>1 DEF Atomic!ReadDocument, ReadDocument
<1>3. (\A p : Atomic!ParseProcess(p) = ParseProcess(p))
      /\ (\A d : Atomic!Parsed(d) = Parsed(d))
  BY Zenon
     DEF Parsed, Atomic!Parsed, ParseDocument, Atomic!ParseDocument,
         ParseProcess, Atomic!ParseProcess, ParseNode, Atomic!ParseNode,
         ParseSequenceFlow, Atomic!ParseSequenceFlow, Threw, Atomic!Threw,
         FoldLeftDomain, Atomic!FoldLeftDomain, FoldLeft, Atomic!FoldLeft,
         MapThenFoldSet, Atomic!MapThenFoldSet, Max, Atomic!Max,
         NewProcess, Atomic!NewProcess, CanAddElement, Atomic!CanAddElement,
         AddElement, Atomic!AddElement, CanAddFlow, Atomic!CanAddFlow,
         AddFlow, Atomic!AddFlow, GetElement, Atomic!GetElement, Find, Atomic!Find,
         Element, Atomic!Element, MakesElement, Atomic!MakesElement,
         NoElement, Atomic!NoElement, ElementKinds, Atomic!ElementKinds
<1>4. \A p, h : Atomic!HeapAfterDestroying(p, h) = HeapAfterDestroying(p, h)
  BY Zenon
     DEF Atomic!HeapAfterDestroying, HeapAfterDestroying, Atomic!DestructionSound,
         DestructionSound, Atomic!Deletions, Deletions, ToSet, Atomic!ToSet
<1>5. \A d : Atomic!HeapAfterParse(d) = ParsedHeap(d, Seen(heap, saved.heap))
  BY <1>1, <1>3, <1>4 DEF Atomic!HeapAfterParse, ParsedHeap
<1>. QED
  BY <1>1, <1>2, <1>3, <1>4, <1>5

(* While a body runs nothing of it is seen.                                *)
LEMMA HiddenStep ==
  ASSUME ThreadsInv, NEW n \in Calls,
         \/ Read(n) \/ ParseDoc(n) \/ Insert(n) \/ FindInstance(n) \/ Erase(n) \/ List(n)
  PROVE  UNCHANGED Atomic!allVars
<1>1. /\ pc[n] # "outside"
      /\ UNCHANGED <<req, state, value, before, engineMutex_, saved>>
  BY DEF Read, ParseDoc, Insert, FindInstance, Erase, List, allVars, engineVars
<1>2. engineMutex_ = n /\ n # NoCall
  BY <1>1, EngineNoCall DEF ThreadsInv, MutexInv, NoCall
<1>. QED
  BY <1>1, <1>2 DEF Seen, Atomic!allVars, Atomic!engineVars, Atomic!parserVars

LEMMA LockStep ==
  ASSUME ThreadsInv, NEW n \in Calls, Lock(n)
  PROVE  UNCHANGED Atomic!allVars
<1>1. /\ UNCHANGED <<doc_, result, heap, processCache_, req, state, value, before>>
      /\ engineMutex_ = NoCall /\ engineMutex_' = n
      /\ saved' = [cache |-> processCache_, doc |-> doc_, result |-> result, heap |-> heap]
  BY DEF Lock, MayLock, allVars, engineVars, parserVars
<1>2. n # NoCall
  BY EngineNoCall DEF NoCall
<1>. QED
  BY <1>1, <1>2 DEF Seen, Atomic!allVars, Atomic!engineVars, Atomic!parserVars

LEMMA CallStep ==
  ASSUME ThreadsInv, NEW n \in Calls, NEW rq \in Request, CallMethod(n, rq)
  PROVE  Atomic!Invoke(n, rq)
<1>1. /\ UNCHANGED <<processCache_, value, doc_, result, heap, engineMutex_, saved>>
      /\ state[n] = "new"
      /\ \A m \in Calls : m < n => state[m] # "new"
      /\ req' = [req EXCEPT ![n] = rq]
      /\ state' = [state EXCEPT ![n] = "called"]
      /\ before' = [before EXCEPT ![n] = Ended]
  BY DEF CallMethod, Invoke, threadVars, parserVars
<1>2. Atomic!Ended = Ended
  BY DEF Atomic!Ended, Ended
<1>. QED
  BY <1>1, <1>2 DEF Atomic!Invoke, Atomic!parserVars, Seen

(* When it leaves, the whole method is seen at once.                       *)
LEMMA LeaveStep ==
  ASSUME ThreadsInv, NEW n \in Calls, LeaveMethod(n)
  PROVE  \/ Atomic!StartProcess(n)
         \/ Atomic!StartWithoutFile(n)
         \/ Atomic!LookUp(n)
         \/ Atomic!GetProcessState(n)
         \/ Atomic!TerminateProcess(n)
         \/ Atomic!GetActiveInstances(n)
         \/ Atomic!IsProcessActive(n)
<1>1. /\ UNCHANGED <<req, before, processCache_, doc_, result, heap>>
      /\ pc[n] \in {"leave", "unwind"}
      /\ engineMutex_' = NoCall
  BY DEF LeaveMethod, Unlock, parserVars
<1>2. engineMutex_ # NoCall /\ state[n] = "called" /\ req[n] \in Request
  BY <1>1, EngineNoCall DEF ThreadsInv, MutexInv, NoCall
(* What was seen before, and what is seen now.                             *)
<1>3. /\ Seen(processCache_, saved.cache) = saved.cache
      /\ Seen(doc_, saved.doc) = saved.doc
      /\ Seen(result, saved.result) = saved.result
      /\ Seen(heap, saved.heap) = saved.heap
      /\ Seen(processCache_, saved.cache)' = processCache_
      /\ Seen(doc_, saved.doc)' = doc_
      /\ Seen(result, saved.result)' = result
      /\ Seen(heap, saved.heap)' = heap
  BY <1>1, <1>2 DEF Seen
<1>4. CASE pc[n] = "leave"
  <2>1. Atomic!Return(n, local[n])
    BY <1>4 DEF LeaveMethod, Return, Atomic!Return
  <2>2. HasStarted(n) \/ HasFound(n) \/ HasTested(n) \/ HasTerminated(n) \/ HasListed(n)
    BY <1>4 DEF ThreadsInv, BodyInv, Body
  <2>3. CASE HasStarted(n)
    <3>1. Atomic!Called(n, {"startProcess", "startProcessFromFile"})
      BY <1>2, <2>3 DEF HasStarted, Starting, Atomic!Called
    <3>2. Atomic!HeapAfterCaching(local[n], saved.heap)
            = CachedHeap(saved.cache, local[n], saved.heap)
      BY <1>3, SameParser DEF Atomic!HeapAfterCaching, Atomic!Active, CachedHeap
    <3>. QED
      BY <1>1, <1>3, <2>1, <2>3, <3>1, <3>2, SameParser
         DEF HasStarted, HasParsed, Atomic!StartProcess
  <2>4. CASE HasFound(n)
    BY <1>1, <1>2, <1>3, <2>1, <2>4, SameParser
       DEF HasFound, Answer, AllKept, CacheKept, ParserKept, HeapKept, Active, Atomic!Active,
           Atomic!LookUp, Atomic!GetProcessState, Atomic!Called, Atomic!parserVars
  <2>5. CASE HasTested(n)
    BY <1>1, <1>2, <1>3, <2>1, <2>5, SameParser
       DEF HasTested, AllKept, CacheKept, ParserKept, HeapKept, Active, Atomic!Active,
           Atomic!IsProcessActive, Atomic!Called, Atomic!parserVars
  <2>6. CASE HasTerminated(n)
    BY <1>1, <1>2, <1>3, <2>1, <2>6, SameParser
       DEF HasTerminated, ParserKept, Atomic!Active, Atomic!TerminateProcess, Atomic!Called
  <2>7. CASE HasListed(n)
    <3>1. Atomic!ActiveInstances = ActiveInstances
      BY <1>3, <2>7, SameParser
         DEF HasListed, AllKept, CacheKept, Atomic!ActiveInstances, ActiveInstances,
             Atomic!Active, Active
    <3>. QED
      BY <1>1, <1>2, <1>3, <2>1, <2>7, <3>1
         DEF HasListed, AllKept, CacheKept, ParserKept, HeapKept,
             Atomic!GetActiveInstances, Atomic!Called, Atomic!parserVars
  <2>. QED
    BY <2>2, <2>3, <2>4, <2>5, <2>6, <2>7
<1>5. CASE pc[n] = "unwind"
  <2>1. Atomic!Throw(n)
    BY <1>5 DEF LeaveMethod, Throw, Atomic!Throw
  <2>2. HasNotStarted(n) \/ HasNotFound(n)
    BY <1>5 DEF ThreadsInv, BodyInv, Body
  <2>3. CASE HasNotStarted(n)
    <3>1. Atomic!Called(n, {"startProcess", "startProcessFromFile"})
      BY <1>2, <2>3 DEF HasNotStarted, Starting, Atomic!Called
    <3>2. PICK d \in {req[n].doc, NoDoc} :
             HasParsed(n, d) /\ heap = ParsedHeap(doc_, saved.heap)
      BY <2>3 DEF HasNotStarted
    <3>3. Parsed(doc_) = Threw /\ processCache_ = saved.cache
      BY <2>3, <3>2 DEF HasNotStarted, HasParsed, CacheKept
    <3>4. CASE d = req[n].doc
      BY <1>1, <1>3, <2>1, <3>1, <3>2, <3>3, <3>4, SameParser
         DEF HasParsed, Atomic!StartProcess
    <3>5. CASE d = NoDoc /\ req[n].op = "startProcessFromFile"
      BY <1>1, <1>2, <1>3, <2>1, <3>2, <3>3, <3>5, SameParser, ParsedFacts
         DEF HasParsed, Atomic!StartWithoutFile, Atomic!Called
    <3>. QED
      BY <3>2, <3>4, <3>5 DEF HasParsed, MayRead
  <2>4. CASE HasNotFound(n)
    BY <1>1, <1>2, <1>3, <2>1, <2>4, SameParser
       DEF HasNotFound, AllKept, CacheKept, ParserKept, HeapKept, Active, Atomic!Active,
           Atomic!LookUp, Atomic!GetProcessState, Atomic!TerminateProcess, Atomic!Called,
           Atomic!parserVars
  <2>. QED
    BY <2>2, <2>3, <2>4
<1>. QED
  BY <1>1, <1>4, <1>5

(* Every step of a thread is a whole method of Engine, or none.            *)
LEMMA StepIsAtomic ==
  ASSUME ThreadsInv, [ThreadsNext]_detailVars
  PROVE  [Atomic!EngineNext]_Atomic!allVars
<1>1. ASSUME NEW n \in Calls, NEW rq \in Request, CallMethod(n, rq)
      PROVE  Atomic!EngineNext
  BY <1>1, CallStep, SameParser DEF Atomic!EngineNext
<1>2. ASSUME NEW n \in Calls, MethodStep(n)
      PROVE  [Atomic!EngineNext]_Atomic!allVars
  BY <1>2, LockStep, HiddenStep, LeaveStep DEF MethodStep, Atomic!EngineNext
<1>3. CASE UNCHANGED detailVars
  BY <1>3
     DEF detailVars, allVars, engineVars, parserVars, threadVars, Seen,
         Atomic!allVars, Atomic!engineVars, Atomic!parserVars
<1>. QED
  BY <1>1, <1>2, <1>3 DEF ThreadsNext

(* Methods that run step by step, under the mutex, cannot be told from     *)
(* methods that take effect at once: every run of any number of threads is *)
(* one of Engine.                                                          *)
THEOREM Refinement == ThreadsSpec => ImplementsEngine
<1>1. ThreadsInit => Atomic!EngineInit
  BY SameParser
     DEF ThreadsInit, EngineInit, ParserInit, Atomic!EngineInit, Atomic!ParserInit, Seen
<1>. QED
  BY <1>1, StepIsAtomic, ThreadsInvariant, PTL
     DEF ThreadsSpec, ImplementsEngine, Atomic!EngineSpec

-----------------------------------------------------------------------------
(* What a step does to the story: a call is made, or one ends.             *)
MadeBy(n) ==
  /\ SeenCache' = SeenCache
  /\ value' = value
  /\ state[n] = "new"
  /\ state' = [state EXCEPT ![n] = "called"]
  /\ \A m \in Calls \ {n} : req'[m] = req[m]
  /\ before' = [before EXCEPT ![n] = Ended]

Ends(n, how) ==
  /\ state[n] = "called"
  /\ req[n] \in Request
  /\ state' = [state EXCEPT ![n] = how]
  /\ UNCHANGED <<req, before>>

StartedBy(n) ==
  /\ req[n].op \in Starting
  /\ \E i \in Instances :
       /\ SeenCache' = [SeenCache EXCEPT ![i] = Parsed(req[n].doc)]
       /\ value' = [value EXCEPT ![n] = i]

TerminatedBy(n) ==
  /\ req[n].op = "terminateProcess"
  /\ SeenCache[req[n].inst] # NoProcess
  /\ SeenCache' = [SeenCache EXCEPT ![req[n].inst] = NoProcess]
  /\ value' = [value EXCEPT ![n] = "none"]

LookedUpBy(n) ==
  /\ SeenCache' = SeenCache
  /\ \E v : value' = [value EXCEPT ![n] = v]
  /\ \/ /\ req[n].op \in {"lookUp", "getProcessState"}
        /\ SeenCache[req[n].inst] # NoProcess
     \/ /\ req[n].op = "isProcessActive"
        /\ value'[n] = (SeenCache[req[n].inst] # NoProcess)
     \/ /\ req[n].op = "getActiveInstances"
        /\ value'[n] = {i \in Instances : SeenCache[i] # NoProcess}

GaveUp == SeenCache' = SeenCache /\ value' = value

LEMMA StoryStep ==
  ASSUME ThreadsInv, [ThreadsNext]_detailVars
  PROVE  \/ UNCHANGED <<SeenCache, state, req, value, before>>
         \/ \E n \in Calls :
              \/ MadeBy(n)
              \/ /\ Ends(n, "returned")
                 /\ StartedBy(n) \/ TerminatedBy(n) \/ LookedUpBy(n)
              \/ Ends(n, "threw") /\ GaveUp
<1>1. CASE UNCHANGED Atomic!allVars
  BY <1>1 DEF Atomic!allVars, Atomic!engineVars, SeenCache
<1>2. ASSUME NEW n \in Calls, NEW rq \in Request, CallMethod(n, rq)
      PROVE  MadeBy(n)
  <2>1. Atomic!Invoke(n, rq) /\ DOMAIN req = Calls
    BY <1>2, CallStep DEF ThreadsInv, MutexInv
  <2>2. Atomic!Ended = Ended
    BY DEF Atomic!Ended, Ended
  <2>. QED
    BY <2>1, <2>2 DEF Atomic!Invoke, MadeBy, SeenCache
<1>3. ASSUME NEW n \in Calls, LeaveMethod(n)
      PROVE  \/ /\ Ends(n, "returned")
                /\ StartedBy(n) \/ TerminatedBy(n) \/ LookedUpBy(n)
             \/ Ends(n, "threw") /\ GaveUp
  <2>1. /\ state[n] = "called"
        /\ req[n] \in Request
        /\ DOMAIN value = Calls
    BY <1>3 DEF LeaveMethod, ThreadsInv, MutexInv
  <2>2. ASSUME Atomic!StartProcess(n)
        PROVE  \/ Ends(n, "returned") /\ StartedBy(n)
               \/ Ends(n, "threw") /\ GaveUp
    <3>1. (Seen(result, saved.result)').parsed = Parsed(req[n].doc)
      BY <2>2, SameParser, ParsedFacts DEF Atomic!StartProcess
    <3>2. CASE Parsed(req[n].doc) = Threw
      BY <2>1, <2>2, <3>1, <3>2, SameParser
         DEF Atomic!StartProcess, Atomic!Throw, Ends, GaveUp, SeenCache
    <3>3. CASE Parsed(req[n].doc) # Threw
      BY <2>1, <2>2, <3>1, <3>3, SameParser
         DEF Atomic!StartProcess, Atomic!Called, Atomic!Return, Ends, StartedBy, SeenCache,
             Starting
    <3>. QED
      BY <3>2, <3>3
  <2>3. ASSUME Atomic!StartWithoutFile(n)
        PROVE  Ends(n, "threw") /\ GaveUp
    BY <2>1, <2>3 DEF Atomic!StartWithoutFile, Atomic!Throw, Ends, GaveUp, SeenCache
  <2>4. ASSUME Atomic!LookUp(n) \/ Atomic!GetProcessState(n)
        PROVE  \/ Ends(n, "returned") /\ LookedUpBy(n)
               \/ Ends(n, "threw") /\ GaveUp
    BY <2>1, <2>4, SameParser
       DEF Atomic!LookUp, Atomic!GetProcessState, Atomic!Called, Atomic!Return, Atomic!Throw,
           Atomic!Active, Ends, LookedUpBy, GaveUp, SeenCache
  <2>5. ASSUME Atomic!TerminateProcess(n)
        PROVE  \/ Ends(n, "returned") /\ TerminatedBy(n)
               \/ Ends(n, "threw") /\ GaveUp
    BY <2>1, <2>5, SameParser
       DEF Atomic!TerminateProcess, Atomic!Called, Atomic!Return, Atomic!Throw,
           Atomic!Active, Ends, TerminatedBy, GaveUp, SeenCache
  <2>6. ASSUME Atomic!GetActiveInstances(n)
        PROVE  Ends(n, "returned") /\ LookedUpBy(n)
    BY <2>1, <2>6, SameParser
       DEF Atomic!GetActiveInstances, Atomic!Called, Atomic!Return, Atomic!Active,
           Atomic!ActiveInstances, Ends, LookedUpBy, SeenCache
  <2>7. ASSUME Atomic!IsProcessActive(n)
        PROVE  Ends(n, "returned") /\ LookedUpBy(n)
    BY <2>1, <2>7, SameParser
       DEF Atomic!IsProcessActive, Atomic!Called, Atomic!Return, Atomic!Active, Ends,
           LookedUpBy, SeenCache
  <2>. QED
    BY <1>3, <2>2, <2>3, <2>4, <2>5, <2>6, <2>7, LeaveStep
<1>4. ASSUME NEW n \in Calls, MethodStep(n), ~LeaveMethod(n)
      PROVE  UNCHANGED Atomic!allVars
  BY <1>4, LockStep, HiddenStep DEF MethodStep
<1>5. CASE UNCHANGED detailVars
  BY <1>5
     DEF detailVars, allVars, engineVars, parserVars, threadVars, SeenCache, Seen
<1>. QED
  BY <1>1, <1>2, <1>3, <1>4, <1>5 DEF ThreadsNext

(* What the counts of the story rest on.                                   *)
LEMMA OneMore ==
  ASSUME NEW S, NEW x, IsFiniteSet(S), x \notin S
  PROVE  /\ IsFiniteSet(S \cup {x})
         /\ Cardinality(S) \in Nat
         /\ Cardinality(S \cup {x}) = Cardinality(S) + 1
  BY FS_AddElement, FS_CardinalityType

LEMMA FiniteStory ==
  ASSUME IsFiniteSet(Made)
  PROVE  \A i : /\ IsFiniteSet(Starts(i))
                /\ IsFiniteSet(Terminations(i))
                /\ Cardinality(Starts(i)) \in Nat
                /\ Cardinality(Terminations(i)) \in Nat
                /\ Cardinality(Starts(i)) = 0 <=> Starts(i) = {}
                /\ Cardinality(Terminations(i)) = 0 <=> Terminations(i) = {}
<1> SUFFICES ASSUME NEW i
             PROVE  /\ IsFiniteSet(Starts(i))
                    /\ IsFiniteSet(Terminations(i))
                    /\ Cardinality(Starts(i)) \in Nat
                    /\ Cardinality(Terminations(i)) \in Nat
                    /\ Cardinality(Starts(i)) = 0 <=> Starts(i) = {}
                    /\ Cardinality(Terminations(i)) = 0 <=> Terminations(i) = {}
  OBVIOUS
<1>1. Starts(i) \subseteq Made /\ Terminations(i) \subseteq Made
  BY DEF Starts, Terminations, Made
<1>2. IsFiniteSet(Starts(i)) /\ IsFiniteSet(Terminations(i))
  BY <1>1, FS_Subset
<1>. QED
  BY <1>2, FS_CardinalityType, FS_EmptySet

LEMMA StoryMade ==
  ASSUME MutexInv, StoryInv, NEW n \in Calls, MadeBy(n)
  PROVE  StoryInv'
<1>1. \A i : Starts(i)' = Starts(i) /\ Terminations(i)' = Terminations(i)
  BY DEF MutexInv, MadeBy, Starts, Terminations
<1>2. Ended' = Ended
  BY DEF MutexInv, MadeBy, Ended
<1>3. Made' = Made \cup {n} /\ n \notin Made
  BY DEF MutexInv, MadeBy, Made
<1>4. BeforeInv'
  <2>1. IsFiniteSet(Made')
    BY <1>3, OneMore DEF StoryInv, BeforeInv
  <2>2. Ended \subseteq Calls
    BY DEF Ended
  <2>. QED
    BY <1>2, <2>1, <2>2 DEF StoryInv, BeforeInv, MadeBy
<1>5. CountInv'
  BY <1>1 DEF StoryInv, CountInv, MadeBy, Listed
<1>6. KeptInv'
  <2> SUFFICES ASSUME NEW i \in Instances, Starts(i) # {}, Terminations(i) = {}
               PROVE  SeenCache[i] \in {Parsed(req'[m].doc) : m \in Starts(i)}
    BY <1>1 DEF KeptInv, MadeBy
  <2>1. PICK m \in Starts(i) : SeenCache[i] = Parsed(req[m].doc)
    BY DEF StoryInv, KeptInv
  <2>2. m \in Calls \ {n}
    BY <2>1 DEF Starts, MadeBy
  <2>. QED
    BY <2>1, <2>2 DEF MadeBy
<1>7. GoneInv'
  <2> SUFFICES ASSUME NEW i \in Instances, NEW m \in Calls,
                      Cardinality(Starts(i)) = 1,
                      Terminations(i) \cap before'[m] # {},
                      state'[m] = "returned"
               PROVE  Missed(m, i)'
    BY <1>1 DEF GoneInv
  <2>1. m # n /\ state[m] = "returned"
    BY DEF MadeBy, MutexInv
  <2>2. before'[m] = before[m] /\ req'[m] = req[m] /\ value'[m] = value[m]
    BY <2>1 DEF MadeBy, StoryInv, BeforeInv
  <2>3. Missed(m, i)
    BY <2>1, <2>2 DEF StoryInv, GoneInv
  <2>. QED
    BY <2>2, <2>3 DEF Missed
<1>. QED
  BY <1>4, <1>5, <1>6, <1>7 DEF StoryInv

(* What the end of any call leaves alone.                                  *)
LEMMA StoryEnds ==
  ASSUME MutexInv, BeforeInv, NEW n \in Calls, NEW how \in {"returned", "threw"},
         Ends(n, how), DOMAIN SeenCache' = Instances
  PROVE  /\ BeforeInv'
         /\ \A m \in Calls : n \notin before[m]
         /\ \A i : n \notin Starts(i) /\ n \notin Terminations(i)
<1>1. Made' = Made
  BY DEF MutexInv, Ends, Made
<1>2. Ended \subseteq Ended'
  BY DEF MutexInv, Ends, Ended
<1>3. n \notin Ended
  BY DEF Ends, Ended
<1>. QED
  BY <1>1, <1>2, <1>3 DEF BeforeInv, Ends, Starts, Terminations

(* A call that ends leaves the answers of the others alone: they stay      *)
(* right unless an instance was terminated before it was started once.     *)
LEMMA OthersMissed ==
  ASSUME MutexInv, StoryInv, NEW n \in Calls, NEW how \in {"returned", "threw"},
         Ends(n, how), \A k \in Calls \ {n} : value'[k] = value[k],
         NEW i \in Instances, NEW m \in Calls \ {n},
         Cardinality(Starts(i)) = 1,
         Terminations(i) \cap before[m] # {},
         state'[m] = "returned"
  PROVE  Missed(m, i)'
<1>1. state[m] = "returned" /\ value'[m] = value[m] /\ req' = req
  BY DEF MutexInv, Ends
<1>2. Missed(m, i)
  BY <1>1 DEF StoryInv, GoneInv
<1>. QED
  BY <1>1, <1>2 DEF Missed

LEMMA StoryStarted ==
  ASSUME MutexInv, StoryInv, NEW n \in Calls, Ends(n, "returned"), StartedBy(n)
  PROVE  StoryInv'
<1>1. PICK i \in Instances :
         /\ SeenCache' = [SeenCache EXCEPT ![i] = Parsed(req[n].doc)]
         /\ value' = [value EXCEPT ![n] = i]
  BY DEF StartedBy
<1>2. req[n].op \in Starting /\ req[n].op # "terminateProcess" /\ req' = req /\ before' = before
  BY DEF StartedBy, Starting, Ends
<1>3. /\ BeforeInv'
      /\ \A m \in Calls : n \notin before[m]
      /\ \A j : n \notin Starts(j) /\ n \notin Terminations(j)
  <2>1. DOMAIN SeenCache' = Instances
    BY <1>1 DEF StoryInv, BeforeInv
  <2>. QED
    BY <2>1, StoryEnds DEF StoryInv
<1>4. \A j : Terminations(j)' = Terminations(j)
  BY <1>2 DEF MutexInv, Ends, Terminations
<1>5. \A j \in Instances : Starts(j)' = IF j = i THEN Starts(j) \cup {n} ELSE Starts(j)
  BY <1>1, <1>2 DEF MutexInv, Ends, Starts, Starting
<1>6. \A j : /\ IsFiniteSet(Starts(j))
             /\ Cardinality(Starts(j)) \in Nat
             /\ Cardinality(Terminations(j)) \in Nat
             /\ Cardinality(Starts(j)) = 0 <=> Starts(j) = {}
             /\ Cardinality(Terminations(j)) = 0 <=> Terminations(j) = {}
  BY FiniteStory DEF StoryInv, BeforeInv
<1>7. Cardinality(Starts(i)') = Cardinality(Starts(i)) + 1
  BY <1>3, <1>5, <1>6, OneMore
<1>8. CountInv'
  <2> SUFFICES ASSUME NEW j \in Instances
               PROVE  Cardinality(Terminations(j)) + Listed(j)' <= Cardinality(Starts(j)')
    BY <1>4 DEF CountInv
  <2>1. Cardinality(Terminations(j)) + Listed(j) <= Cardinality(Starts(j))
    BY DEF StoryInv, CountInv
  <2>2. CASE j = i
    BY <1>6, <1>7, <2>1, <2>2 DEF Listed
  <2>3. CASE j # i
    <3>1. Listed(j)' = Listed(j) /\ Starts(j)' = Starts(j)
      BY <1>1, <1>5, <2>3 DEF Listed, StoryInv, BeforeInv
    <3>. QED
      BY <2>1, <3>1
  <2>. QED
    BY <2>2, <2>3
<1>9. KeptInv'
  <2> SUFFICES ASSUME NEW j \in Instances, Starts(j)' # {}, Terminations(j) = {}
               PROVE  SeenCache'[j] \in {Parsed(req[m].doc) : m \in Starts(j)'}
    BY <1>2, <1>4 DEF KeptInv
  <2>1. CASE j = i
    BY <1>1, <1>5, <2>1 DEF StoryInv, BeforeInv
  <2>2. CASE j # i
    BY <1>1, <1>5, <2>2 DEF StoryInv, BeforeInv, KeptInv
  <2>. QED
    BY <2>1, <2>2
<1>10. GoneInv'
  <2> SUFFICES ASSUME NEW j \in Instances, NEW m \in Calls,
                      Cardinality(Starts(j)') = 1,
                      Terminations(j) \cap before[m] # {},
                      state'[m] = "returned"
               PROVE  Missed(m, j)'
    BY <1>2, <1>4 DEF GoneInv
  <2>1. j # i
    <3> SUFFICES ASSUME j = i PROVE FALSE
      OBVIOUS
    <3>1. Cardinality(Starts(i)) = 0
      BY <1>6, <1>7
    <3>2. Cardinality(Terminations(i)) = 0
      BY <1>6, <3>1 DEF StoryInv, CountInv, Listed
    <3>. QED
      BY <1>6, <3>2
  <2>2. CASE m = n
    BY <1>2, <2>2 DEF Missed, Starting
  <2>3. CASE m # n
    <3>1. \A k \in Calls \ {n} : value'[k] = value[k]
      BY <1>1 DEF MutexInv
    <3>. QED
      BY <1>5, <2>1, <2>3, <3>1, OthersMissed
  <2>. QED
    BY <2>2, <2>3
<1>. QED
  BY <1>3, <1>8, <1>9, <1>10 DEF StoryInv

LEMMA StoryTerminated ==
  ASSUME MutexInv, StoryInv, NEW n \in Calls, Ends(n, "returned"), TerminatedBy(n)
  PROVE  StoryInv'
<1>1. PICK i \in Instances : i = req[n].inst
  BY DEF TerminatedBy, Ends, Request
<1>2. /\ SeenCache[i] # NoProcess
      /\ SeenCache' = [SeenCache EXCEPT ![i] = NoProcess]
      /\ req[n].op = "terminateProcess" /\ req' = req /\ before' = before
      /\ \A k \in Calls \ {n} : value'[k] = value[k]
  BY <1>1 DEF TerminatedBy, Ends, MutexInv
<1>3. /\ BeforeInv'
      /\ \A m \in Calls : n \notin before[m]
      /\ \A j : n \notin Starts(j) /\ n \notin Terminations(j)
  <2>1. DOMAIN SeenCache' = Instances
    BY <1>2 DEF StoryInv, BeforeInv
  <2>. QED
    BY <2>1, StoryEnds DEF StoryInv
<1>4. \A j : Starts(j)' = Starts(j)
  BY <1>2 DEF MutexInv, Ends, Starts
<1>5. \A j : Terminations(j)' = IF j = i THEN Terminations(j) \cup {n} ELSE Terminations(j)
  BY <1>1, <1>2 DEF MutexInv, Ends, Terminations
<1>6. \A j : /\ IsFiniteSet(Terminations(j))
             /\ Cardinality(Starts(j)) \in Nat
             /\ Cardinality(Terminations(j)) \in Nat
             /\ Cardinality(Terminations(j)) = 0 <=> Terminations(j) = {}
  BY FiniteStory DEF StoryInv, BeforeInv
<1>7. Cardinality(Terminations(i)') = Cardinality(Terminations(i)) + 1
  BY <1>3, <1>5, <1>6, OneMore
<1>8. /\ Listed(i) = 1
      /\ \A j \in Instances : Listed(j)' = IF j = i THEN 0 ELSE Listed(j)
  BY <1>2 DEF Listed, StoryInv, BeforeInv
<1>9. CountInv'
  <2> SUFFICES ASSUME NEW j \in Instances
               PROVE  Cardinality(Terminations(j)') + Listed(j)' <= Cardinality(Starts(j))
    BY <1>4 DEF CountInv
  <2>1. Cardinality(Terminations(j)) + Listed(j) <= Cardinality(Starts(j))
    BY DEF StoryInv, CountInv
  <2>. QED
    BY <1>5, <1>6, <1>7, <1>8, <2>1
<1>10. KeptInv'
  BY <1>2, <1>4, <1>5 DEF StoryInv, BeforeInv, KeptInv
<1>11. GoneInv'
  <2> SUFFICES ASSUME NEW j \in Instances, NEW m \in Calls,
                      Cardinality(Starts(j)) = 1,
                      Terminations(j)' \cap before[m] # {},
                      state'[m] = "returned"
               PROVE  Missed(m, j)'
    BY <1>2, <1>4 DEF GoneInv
  <2>1. Terminations(j) \cap before[m] # {}
    BY <1>3, <1>5
  <2>2. CASE m = n
    <3>1. Cardinality(Terminations(j)) # 0
      BY <1>6, <2>1
    <3>2. j # i
      BY <1>6, <1>8, <3>1 DEF StoryInv, CountInv
    <3>. QED
      BY <1>1, <1>2, <2>2, <3>2 DEF Missed
  <2>3. CASE m # n
    BY <1>2, <2>1, <2>3, OthersMissed
  <2>. QED
    BY <2>2, <2>3
<1>. QED
  BY <1>3, <1>9, <1>10, <1>11 DEF StoryInv

LEMMA StoryOther ==
  ASSUME MutexInv, StoryInv, NEW n \in Calls,
         \/ Ends(n, "returned") /\ LookedUpBy(n)
         \/ Ends(n, "threw") /\ GaveUp
  PROVE  StoryInv'
<1>1. PICK how \in {"returned", "threw"} : Ends(n, how)
  OBVIOUS
<1>2. SeenCache' = SeenCache /\ req' = req /\ before' = before
  BY <1>1 DEF LookedUpBy, GaveUp, Ends
<1>3. how = "returned" => LookedUpBy(n)
  BY <1>1 DEF Ends, MutexInv
<1>4. \A k \in Calls \ {n} : value'[k] = value[k]
  BY DEF LookedUpBy, GaveUp, MutexInv
<1>5. /\ BeforeInv'
      /\ \A m \in Calls : n \notin before[m]
  <2>1. DOMAIN SeenCache' = Instances
    BY <1>2 DEF StoryInv, BeforeInv
  <2>. QED
    BY <1>1, <2>1, StoryEnds DEF StoryInv
<1>6. \A j : Starts(j)' = Starts(j) /\ Terminations(j)' = Terminations(j)
  <2>1. \A k \in Calls \ {n} : state'[k] = state[k]
    BY <1>1 DEF MutexInv, Ends
  <2>2. /\ state[n] # "returned"
        /\ state'[n] = "returned" => req[n].op \notin Starting \cup {"terminateProcess"}
    BY <1>1, <1>3 DEF MutexInv, Ends, LookedUpBy, Starting
  <2>. QED
    BY <1>2, <1>4, <2>1, <2>2 DEF Starts, Terminations, Starting
<1>7. CountInv' /\ KeptInv'
  BY <1>2, <1>6 DEF StoryInv, CountInv, KeptInv, Listed
<1>8. GoneInv'
  <2> SUFFICES ASSUME NEW j \in Instances, NEW m \in Calls,
                      Cardinality(Starts(j)) = 1,
                      Terminations(j) \cap before[m] # {},
                      state'[m] = "returned"
               PROVE  Missed(m, j)'
    BY <1>2, <1>6 DEF GoneInv
  <2>1. CASE m = n
    <3>1. LookedUpBy(n)
      BY <1>1, <1>3, <2>1 DEF Ends, MutexInv
    <3>2. /\ Cardinality(Terminations(j)) # 0
          /\ Cardinality(Terminations(j)) \in Nat
      BY FiniteStory DEF StoryInv, BeforeInv
    <3>3. SeenCache[j] = NoProcess
      BY <3>2 DEF StoryInv, CountInv, Listed
    <3>. QED
      BY <1>2, <2>1, <3>1, <3>3 DEF LookedUpBy, Missed
  <2>2. CASE m # n
    BY <1>1, <1>2, <1>4, <2>2, OthersMissed
  <2>. QED
    BY <2>1, <2>2
<1>. QED
  BY <1>5, <1>7, <1>8 DEF StoryInv

LEMMA StoryInit == ThreadsInit => StoryInv
<1> SUFFICES ASSUME ThreadsInit PROVE StoryInv
  OBVIOUS
<1>1. /\ engineMutex_ = NoCall
      /\ processCache_ = [i \in Instances |-> NoProcess]
      /\ before = [n \in Calls |-> {}]
      /\ Made = {} /\ \A i : Starts(i) = {} /\ Terminations(i) = {}
  BY DEF ThreadsInit, EngineInit, Made, Starts, Terminations
<1>2. SeenCache = [i \in Instances |-> NoProcess]
  BY <1>1 DEF SeenCache, Seen
<1>3. BeforeInv
  BY <1>1, <1>2, FS_EmptySet DEF BeforeInv
<1>4. CountInv
  BY <1>1, <1>2, FS_EmptySet DEF CountInv, Listed
<1>. QED
  BY <1>1, <1>3, <1>4 DEF StoryInv, KeptInv, GoneInv

LEMMA StoryNext == ThreadsInv /\ StoryInv /\ [ThreadsNext]_detailVars => StoryInv'
<1> SUFFICES ASSUME ThreadsInv, StoryInv, [ThreadsNext]_detailVars PROVE StoryInv'
  OBVIOUS
<1>1. CASE UNCHANGED <<SeenCache, state, req, value, before>>
  BY <1>1
     DEF StoryInv, BeforeInv, CountInv, KeptInv, GoneInv, Listed, Made, Ended, Starts,
         Terminations, Missed
<1>. QED
  BY <1>1, StoryStep, StoryMade, StoryStarted, StoryTerminated, StoryOther DEF ThreadsInv

LEMMA StoryInvariant == ThreadsSpec => []StoryInv
  BY StoryInit, StoryNext, ThreadsInvariant, PTL DEF ThreadsSpec

(* A started instance stays until somebody terminates that very instance,  *)
(* for any number of threads.                                              *)
THEOREM StartedKept == ThreadsSpec => []StartedProcessKept
<1>1. StoryInv => StartedProcessKept
  BY DEF StoryInv, KeptInv, StartedProcessKept, SeenCache, Seen
<1>. QED
  BY <1>1, StoryInvariant, PTL

(* Threads that race to terminate an instance do not both succeed: an      *)
(* instance is terminated at most as often as its id was given out.        *)
THEOREM OneTermination == ThreadsSpec => []TerminatedAtMostOnce
<1>1. StoryInv => TerminatedAtMostOnce
  <2> SUFFICES ASSUME StoryInv, NEW i \in Instances
               PROVE  Cardinality(Terminations(i)) <= Cardinality(Starts(i))
    BY DEF TerminatedAtMostOnce
  <2>1. /\ Cardinality(Terminations(i)) \in Nat
        /\ Cardinality(Starts(i)) \in Nat
    BY FiniteStory DEF StoryInv, BeforeInv
  <2>. QED
    BY <2>1 DEF StoryInv, CountInv, Listed
<1>. QED
  BY <1>1, StoryInvariant, PTL

(* A call made after a termination has returned does not find the instance,*)
(* unless its id has been given out twice.                                 *)
THEOREM TerminatedNotFound == ThreadsSpec => []TerminatedIsGone
<1>1. StoryInv => TerminatedIsGone
  BY DEF StoryInv, GoneInv, Missed, TerminatedIsGone
<1>. QED
  BY <1>1, StoryInvariant, PTL
=============================================================================
