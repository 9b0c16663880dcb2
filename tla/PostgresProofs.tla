--------------------------- MODULE PostgresProofs ---------------------------
(***************************************************************************)
(* Lemmas about the statements of module Postgres.                         *)
(***************************************************************************)
EXTENDS Postgres, TLAPS

(* No two rows of S have the same unique key.                              *)
UniqueKeys(S) == \A r, s \in S : r.pk = s.pk => r = s

(* No row of S has the unique key of a row of T.                           *)
Apart(S, T) == \A r \in S, s \in T : r.pk # s.pk

(* The rows a session holds uncommitted versions of.                       *)
Held(c) == ins[c] \cup del[c]

(* Every session sees each key once, whatever it has changed, and no two   *)
(* sessions hold versions of the same key.                                 *)
KeysInv ==
  /\ UniqueKeys(committed)
  /\ \A c \in Conns :
       /\ del[c] \subseteq committed
       /\ UniqueKeys(ins[c])
       /\ Apart(committed \ del[c], ins[c])
       /\ \A d \in Conns \ {c} : Apart(Held(c), Held(d))

SessionDomains == DOMAIN ins = Conns /\ DOMAIN del = Conns /\ DOMAIN tx = Conns

-----------------------------------------------------------------------------
(* A session that ends its transaction holds nothing any more.             *)
LEMMA DiscardKeys ==
  ASSUME KeysInv, SessionDomains, NEW c \in Conns,
         ins' = [ins EXCEPT ![c] = {}], del' = [del EXCEPT ![c] = {}],
         committed' = committed
  PROVE  KeysInv'
<1>1. \A d \in Conns : Held(d)' \subseteq Held(d)
  BY DEF SessionDomains, Held
<1> SUFFICES ASSUME NEW d \in Conns
             PROVE  /\ del'[d] \subseteq committed
                    /\ UniqueKeys(ins'[d])
                    /\ Apart(committed \ del'[d], ins'[d])
                    /\ \A e \in Conns \ {d} : Apart(Held(d)', Held(e)')
  BY DEF KeysInv
<1>2. \A e \in Conns \ {d} : Apart(Held(d)', Held(e)')
  BY <1>1 DEF KeysInv, Apart
<1>3. CASE d = c
  BY <1>2, <1>3 DEF SessionDomains, UniqueKeys, Apart
<1>4. CASE d # c
  BY <1>2, <1>4 DEF SessionDomains, KeysInv
<1>. QED
  BY <1>3, <1>4

(* What a COMMIT publishes has keys nobody else holds.                     *)
LEMMA CommitKeys ==
  ASSUME KeysInv, SessionDomains, NEW c \in Conns, Commit(c)
  PROVE  KeysInv'
<1>1. /\ committed' = (committed \ del[c]) \cup ins[c]
      /\ ins' = [ins EXCEPT ![c] = {}] /\ del' = [del EXCEPT ![c] = {}]
  BY DEF Commit, Discard
<1>2. UniqueKeys(committed')
  BY <1>1 DEF KeysInv, UniqueKeys, Apart
<1>3. \A d \in Conns : Held(d)' \subseteq Held(d)
  BY <1>1 DEF SessionDomains, Held
<1> SUFFICES ASSUME NEW d \in Conns
             PROVE  /\ del'[d] \subseteq committed'
                    /\ UniqueKeys(ins'[d])
                    /\ Apart(committed' \ del'[d], ins'[d])
                    /\ \A e \in Conns \ {d} : Apart(Held(d)', Held(e)')
  BY <1>2 DEF KeysInv
<1>4. \A e \in Conns \ {d} : Apart(Held(d)', Held(e)')
  BY <1>3 DEF KeysInv, Apart
<1>5. CASE d = c
  BY <1>1, <1>4, <1>5 DEF SessionDomains, UniqueKeys, Apart
<1>6. CASE d # c
  <2>1. ins'[d] = ins[d] /\ del'[d] = del[d]
    BY <1>1, <1>6 DEF SessionDomains
  <2>2. Apart(Held(c), Held(d))
    BY <1>6 DEF KeysInv
  <2>3. del[d] \subseteq committed'
    BY <1>1, <2>2 DEF KeysInv, Apart, Held
  <2>4. Apart(committed' \ del[d], ins[d])
    BY <1>1, <2>2 DEF KeysInv, Apart, Held
  <2>. QED
    BY <1>4, <2>1, <2>3, <2>4 DEF KeysInv
<1>. QED
  BY <1>5, <1>6

(* Every session sees every key once.                                      *)
LEMMA VisibleKeys ==
  ASSUME KeysInv, NEW c \in Conns
  PROVE  UniqueKeys(Visible(c))
  BY DEF KeysInv, UniqueKeys, Apart, Visible

(* A statement that replaces rows it sees, whose keys nobody else holds.   *)
LEMMA ChangeKeys ==
  ASSUME KeysInv, SessionDomains, NEW c \in Conns, NEW old, NEW new,
         tx[c] # "open" => ins[c] = {} /\ del[c] = {},
         Change(c, old, new),
         old \subseteq Visible(c),
         \A d \in Conns \ {c} : Apart(old \cup new, Held(d)),
         Apart(Visible(c) \ old, new),
         UniqueKeys(new)
  PROVE  KeysInv'
<1>1. UniqueKeys(Visible(c))
  BY VisibleKeys
<1>2. CASE tx[c] = "open"
  <2>1. /\ ins' = [ins EXCEPT ![c] = (@ \ old) \cup new]
        /\ del' = [del EXCEPT ![c] = @ \cup (old \cap committed)]
        /\ committed' = committed
    BY <1>2 DEF Change
  <2>2. ins'[c] = (ins[c] \ old) \cup new /\ del'[c] = del[c] \cup (old \cap committed)
    BY <2>1 DEF SessionDomains
  <2>3. \A d \in Conns \ {c} : ins'[d] = ins[d] /\ del'[d] = del[d]
    BY <2>1 DEF SessionDomains
  <2>4. UniqueKeys(ins'[c])
    BY <2>2 DEF UniqueKeys, Apart, Visible, KeysInv
  <2>5. Apart(committed \ del'[c], ins'[c])
    BY <2>2 DEF Apart, Visible, KeysInv
  <2>6. \A d \in Conns \ {c} : Apart(Held(c)', Held(d)') /\ Apart(Held(d)', Held(c)')
    BY <2>2, <2>3 DEF Apart, Held, KeysInv
  <2>7. \A d \in Conns \ {c} : \A e \in Conns \ {c, d} : Apart(Held(d)', Held(e)')
    BY <2>3 DEF Held, KeysInv
  <2>. QED
    BY <2>1, <2>2, <2>3, <2>4, <2>5, <2>6, <2>7 DEF KeysInv
<1>3. CASE tx[c] # "open"
  <2>1. /\ committed' = (committed \ old) \cup new
        /\ UNCHANGED <<ins, del>>
        /\ Visible(c) = committed
    BY <1>3 DEF Change, Visible
  <2>2. UniqueKeys(committed')
    BY <1>1, <2>1 DEF UniqueKeys, Apart
  <2>3. ASSUME NEW d \in Conns \ {c}
        PROVE  del[d] \subseteq committed' /\ Apart(committed' \ del[d], ins[d])
    BY <2>1 DEF Apart, Held, KeysInv
  <2>4. del[c] \subseteq committed' /\ Apart(committed' \ del[c], ins[c])
    BY <1>3 DEF Apart
  <2>. QED
    BY <2>1, <2>2, <2>3, <2>4 DEF KeysInv, Held
<1>. QED
  BY <1>2, <1>3
=============================================================================
