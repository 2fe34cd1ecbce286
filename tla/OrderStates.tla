----------------------------- MODULE OrderStates -----------------------------
(***************************************************************************)
(* The order status machine of orders/order-state-machine.ts and the two   *)
(* lifecycle position tables orders.service.ts compares statuses with.     *)
(***************************************************************************)
EXTENDS Integers

Statuses ==
    {"UNPROCESSED", "CS_ASSIGNED", "CS_ENGAGED", "CONFIRMED", "AGENT_ASSIGNED",
     "DISPATCHED", "IN_TRANSIT", "DELIVERED", "PARTIALLY_DELIVERED", "RETURNED",
     "RESTOCKED", "WRITTEN_OFF", "REMITTED", "CANCELLED", "DELETED"}

ForwardTransitions ==
    {<<"UNPROCESSED", "CS_ASSIGNED">>, <<"UNPROCESSED", "CS_ENGAGED">>,
     <<"CS_ASSIGNED", "CS_ENGAGED">>, <<"CS_ENGAGED", "CONFIRMED">>,
     <<"CONFIRMED", "AGENT_ASSIGNED">>, <<"AGENT_ASSIGNED", "AGENT_ASSIGNED">>,
     <<"AGENT_ASSIGNED", "DISPATCHED">>, <<"DISPATCHED", "IN_TRANSIT">>,
     <<"AGENT_ASSIGNED", "DELIVERED">>, <<"AGENT_ASSIGNED", "RETURNED">>,
     <<"IN_TRANSIT", "DELIVERED">>, <<"IN_TRANSIT", "PARTIALLY_DELIVERED">>,
     <<"IN_TRANSIT", "RETURNED">>, <<"DELIVERED", "REMITTED">>,
     <<"RETURNED", "RESTOCKED">>, <<"RETURNED", "WRITTEN_OFF">>,
     <<"PARTIALLY_DELIVERED", "REMITTED">>}

DeleteRestoreTransitions ==
    ({"UNPROCESSED", "CS_ASSIGNED", "CS_ENGAGED", "CANCELLED"} \X {"DELETED"})
        \cup ({"CANCELLED", "DELETED"} \X {"UNPROCESSED"})

RetrackTransitions ==
    {<<"REMITTED", "DELIVERED">>, <<"CONFIRMED", "CS_ENGAGED">>,
     <<"CS_ENGAGED", "CS_ASSIGNED">>, <<"CS_ASSIGNED", "UNPROCESSED">>,
     <<"IN_TRANSIT", "DISPATCHED">>, <<"AGENT_ASSIGNED", "CONFIRMED">>}
        \cup ({"DELIVERED"} \X {"IN_TRANSIT", "DISPATCHED"})
        \cup ({"DELIVERED", "IN_TRANSIT", "DISPATCHED"} \X {"AGENT_ASSIGNED", "CONFIRMED"})

AllowedTransitions ==
    ForwardTransitions \cup DeleteRestoreTransitions \cup RetrackTransitions

IsTransitionAllowed(from, to) == <<from, to>> \in AllowedTransitions

\* The lifecycle positions every table shares; a status without one reads -1.
PositionOf ==
    [s \in Statuses |->
        CASE s = "UNPROCESSED" -> 0
          [] s = "CS_ASSIGNED" -> 1
          [] s = "CS_ENGAGED" -> 2
          [] s = "CONFIRMED" -> 3
          [] s = "AGENT_ASSIGNED" -> 4
          [] s = "DISPATCHED" -> 5
          [] s = "IN_TRANSIT" -> 6
          [] s = "DELIVERED" -> 7
          [] s = "REMITTED" -> 8
          [] OTHER -> -1]

\* RETRACK_LIFECYCLE: decides who may retrack and whether a hold may be opened.
\* PARTIALLY_DELIVERED has no position here, so entering it counts as backward.
IsBackward(from, to) == PositionOf[from] > PositionOf[to] /\ to # "UNPROCESSED"

\* LIFECYCLE_POS: decides the stock side effects. Here PARTIALLY_DELIVERED sits
\* at the position of DELIVERED.
LifecyclePos(s) == IF s = "PARTIALLY_DELIVERED" THEN 7 ELSE PositionOf[s]

IsRetrackSideEffect(from, to) ==
    LifecyclePos(from) > LifecyclePos(to) /\ to # "UNPROCESSED"

\* Statuses in which an order sits on a reservation at its location.
ReservedStatuses == {"AGENT_ASSIGNED", "DISPATCHED", "IN_TRANSIT"}

\* Statuses in which an order's units have left the shelf with the customer.
ShippedStatuses == {"DELIVERED", "PARTIALLY_DELIVERED", "REMITTED"}
==============================================================================
