-------------------------- MODULE MCStockTransfers --------------------------
(***************************************************************************)
(* Small instances of StockTransfers for TLC.                              *)
(***************************************************************************)
EXTENDS StockTransfers, TLC

CONSTANTS t1, t2, t3, l1, l2, l3, ngn, ghs, s1, s2

OneTransfer == {t1}
TwoTransfers == {t1, t2}
TwoLocations == {l1, l2}
ThreeLocations == {l1, l2, l3}
TwoCountries == {ngn, ghs}
TwoSessions == {s1, s2}

\* The second location is abroad; the third has no route of its own to it.
SecondAbroad == [l \in Locations |-> IF l = l2 THEN ghs ELSE ngn]
HomeAndAbroad == {<<l1, l2>>, <<l2, l1>>, <<l1, l3>>, <<l3, l1>>}
==============================================================================
