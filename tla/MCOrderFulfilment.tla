-------------------------- MODULE MCOrderFulfilment --------------------------
(***************************************************************************)
(* Small instances of OrderFulfilment for TLC.                             *)
(***************************************************************************)
EXTENDS OrderFulfilment, TLC

CONSTANTS o1, o2, l1, l2, r1, r2

OneOrder == {o1}
TwoOrders == {o1, o2}
OneLocation == {l1}
TwoLocations == {l1, l2}
OneDesk == {r1}
TwoDesks == {r1, r2}

\* Two units at l1 and one at l2: orders compete for the last unit of either.
TwoAndOne == l1 :> 2 @@ l2 :> 1
OneUnit == l1 :> 1
TwoUnits == l1 :> 2
ThreeUnits == l1 :> 3

Fresh == {"UNPROCESSED", "CANCELLED"}
Confirmed == {"CONFIRMED"}

\* What desks ask for where the whole status machine is too much.
Deliveries == {"CONFIRMED", "AGENT_ASSIGNED", "DISPATCHED", "DELIVERED",
               "REMITTED", "RETURNED", "WRITTEN_OFF", "UNPROCESSED"}

\* Orders are interchangeable; so are the desks.
OrderSymmetry == Permutations(Orders)
DeskSymmetry == Permutations(Requests)
==============================================================================
