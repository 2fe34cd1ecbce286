---------------------------- MODULE MCSettlement ----------------------------
(***************************************************************************)
(* Small instances of Settlement for TLC.                                  *)
(***************************************************************************)
EXTENDS Settlement, TLC

CONSTANTS o1, o2, o3, b1, b2, s1, s2

OneOrder == {o1}
TwoOrders == {o1, o2}
OneBatch == {b1}
TwoBatches == {b1, b2}
OneSession == {s1}
TwoSessions == {s1, s2}

Symmetry == Permutations(Orders) \cup Permutations(Batches) \cup Permutations(Sessions)
==============================================================================
