---------------------------- MODULE MCStockCounts ----------------------------
(***************************************************************************)
(* Small instances of StockCounts for TLC.                                 *)
(***************************************************************************)
EXTENDS StockCounts, TLC

CONSTANTS p1, p2, c1, c2, c3, s1, s2

TwoProducts == {p1, p2}
TwoCounts == {c1, c2}
ThreeCounts == {c1, c2, c3}
TwoStaff == {s1, s2}

\* Products, counts and staff are interchangeable.
CountSymmetry == Permutations(Products) \cup Permutations(Counts) \cup Permutations(Staff)
==============================================================================
