------------------------------ MODULE MCRecords -----------------------------
(* Small instances of Records for TLC.                                     *)
EXTENDS Records, TLC

CONSTANTS x, y       \* two ids

MCIds == {x, y}

(* Two records in both orders, one record twice, and none.                 *)
MCBatches == {<<>>, <<x, y>>, <<y, x>>, <<x, x>>}

(* Tables somebody has made to fit the statements.                         *)
MCColumns == [k \in Kinds |-> ColumnsNamed(k, "create")]

MCSymmetry == Permutations(Conns) \cup Permutations(MCIds)
=============================================================================
