--------------------------- MODULE OrderFulfilment ---------------------------
(***************************************************************************)
(* orders.transition and the stock of one product it moves.                *)
(*                                                                         *)
(* A request reads the order, passes its gates on further unlocked reads,  *)
(* commits the new status with a compare-and-set on the old one, and then  *)
(* runs its side effects, each in a database transaction of its own; when  *)
(* a critical one throws, the status is written back.  Every step is an    *)
(* action, so other requests, item edits, deletions, stock counts and      *)
(* crashes interleave between any two of them.                             *)
(***************************************************************************)
EXTENDS OrderStates, FiniteSetsExt

CONSTANTS
    Orders, Locations, Requests,
    NoLoc, NoOrder,       \* order without a location, request without an order
    StartStatuses,        \* statuses orders start in
    InitialStock,         \* [Locations -> Nat]: units on each shelf at the start
    InitialUnits,         \* their total, taken in as batches
    MaxQty,               \* bound: largest quantity an order line asks for
    StockCap,             \* bound: nothing is given back or taken in with more on a shelf
    Targets,              \* bound: the statuses requests ask for
    Crashes,              \* bound: crashes of the API process
    Failures,             \* bound: side effects whose transaction fails
    Figures,              \* bound: landed costs and fees that fail once the stock has moved
    Adjustments           \* bound: manual adjustments, counts and intakes

ASSUME OrdersAssumption == NoOrder \notin Orders /\ NoLoc \notin Locations
ASSUME FinitenessAssumption == IsFiniteSet(Orders) /\ IsFiniteSet(Locations)
ASSUME StartAssumption == StartStatuses \subseteq
            {"UNPROCESSED", "CS_ASSIGNED", "CS_ENGAGED", "CONFIRMED", "CANCELLED"}
ASSUME BoundsAssumption == /\ MaxQty \in Nat \ {0}
                           /\ StockCap \in Nat
                           /\ Targets \subseteq Statuses
                           /\ Crashes \in Nat
                           /\ Failures \in Nat
                           /\ Figures \in Nat
                           /\ Adjustments \in Nat

Sum(f) == SumFunction(f)
Lesser(a, b) == IF a < b THEN a ELSE b
AtLeastZero(n) == IF n < 0 THEN 0 ELSE n

ASSUME StockAssumption == /\ InitialStock \in [Locations -> Nat]
                          /\ InitialUnits \in Nat
                          /\ InitialUnits = Sum(InitialStock)

VARIABLES
    order,        \* orders: status, logistics location, retrack hold, line quantity
    level,        \* inventory_levels of the product, one row per location
    batches,      \* stock_batches of the product: remaining and received units
    outstanding,  \* per order and location: DELIVERY rows minus reversal rows
    ledger,       \* per location: sum of the stock_movements that move its shelf
    count,        \* per location: discrepancy of a pending stock count, or NoCount
    warned,       \* orders with a swallowed stock failure in the log
    req,          \* the requests in flight
    left          \* what is left of the bounds on crashes, failures, figures and adjustments

vars == <<order, level, batches, outstanding, ledger, count, warned, req, left>>
stock == <<level, batches, outstanding, ledger, count, warned>>

Quantities == 1 .. MaxQty
NoCount == 0    \* a count without discrepancy neither locks nor adjusts
Discrepancies == {-1, 1}

Free(l) == level[l].stock - level[l].reserved
FreeEverywhere == Sum([l \in Locations |-> Free(l)])

IdleRequest ==
    [pc |-> "idle", o |-> NoOrder, from |-> "UNPROCESSED", to |-> "UNPROCESSED",
     prev |-> NoLoc, loc |-> NoLoc, hold |-> FALSE, n |-> 0, todo |-> {},
     owed |-> [l \in Locations |-> 0]]

Init ==
    /\ order \in [Orders -> [status : StartStatuses, loc : {NoLoc},
                             hold : {FALSE}, qty : Quantities]]
    /\ level = [l \in Locations |-> [stock |-> InitialStock[l], reserved |-> 0]]
    /\ batches = [remaining |-> InitialUnits, received |-> InitialUnits]
    /\ outstanding = [o \in Orders |-> [l \in Locations |-> 0]]
    /\ ledger = InitialStock
    /\ count = [l \in Locations |-> NoCount]
    /\ warned = {}
    /\ req = [r \in Requests |-> IdleRequest]
    /\ left = [crashes |-> Crashes, failures |-> Failures, figures |-> Figures,
               adjustments |-> Adjustments]

------------------------------------------------------------------------------
(***************************************************************************)
(* Reading and gating.  The gates of CONFIRMED and AGENT_ASSIGNED look at  *)
(* the shelves; that of DELIVERED looks at the hold the request has read.  *)
(***************************************************************************)

\* The bound on what is given back to the shelves.
UnderCap == \A l \in Locations : level[l].stock <= StockCap

\* validateTransitionGates on DELIVERED and PARTIALLY_DELIVERED.
HoldGateOnFullDelivery(o, to) == to = "DELIVERED" => ~order[o].hold   \* mutant
HoldGate(o, to) == to \in {"DELIVERED", "PARTIALLY_DELIVERED"} => ~order[o].hold

\* transition, up to the gates: select the order, check the status machine.
Read(r, o, to, l, hold, n) ==
    LET from == order[o].status
    IN /\ req[r].pc = "idle"
       /\ IsTransitionAllowed(from, to)
       /\ (l # NoLoc) <=> (to = "AGENT_ASSIGNED")
       /\ from = "AGENT_ASSIGNED" => order[o].loc \notin {NoLoc, l}
       /\ HoldGate(o, to)
       /\ hold => IsBackward(from, to)
       /\ n # 0 => to = "PARTIALLY_DELIVERED"
       /\ from = "DELIVERED" /\ to # "REMITTED" => UnderCap
       /\ req' = [req EXCEPT ![r] =
            [IdleRequest EXCEPT
               !.pc = IF to \in {"CONFIRMED", "AGENT_ASSIGNED"} THEN "gate" ELSE "commit",
               !.o = o, !.from = from, !.to = to, !.prev = order[o].loc,
               !.loc = l, !.hold = hold, !.n = n]]
       /\ UNCHANGED <<order, stock, left>>

\* validateTransitionGates: assertGlobalAvailabilityForOrder on CONFIRMED,
\* isDispatchLocked and assertLocationCanFulfillOrder on AGENT_ASSIGNED.
GateHolds(r) ==
    LET q == order[req[r].o].qty
    IN CASE req[r].to = "CONFIRMED" -> FreeEverywhere >= q /\ batches.remaining >= q
         [] OTHER -> count[req[r].loc] = NoCount /\ Free(req[r].loc) >= q

Gate(r) ==
    /\ req[r].pc = "gate"
    /\ req' = [req EXCEPT ![r] = IF GateHolds(r) THEN [@ EXCEPT !.pc = "commit"]
                                                 ELSE IdleRequest]
    /\ UNCHANGED <<order, stock, left>>

------------------------------------------------------------------------------
(***************************************************************************)
(* The compare-and-set and the side effects it schedules.                  *)
(***************************************************************************)

\* The order in which executeTransitionSideEffects runs the effects it is due.
EffectRank ==
    [reverseRead |-> 1, reverseWrite |-> 2, rereserve |-> 3, releaseQuietly |-> 4,
     logReservation |-> 5, releasePrevious |-> 6, reserve |-> 7, deliver |-> 8,
     deliverPart |-> 9, writeOff |-> 10]

EffectNames == DOMAIN EffectRank

\* A retrack that leaves DELIVERED takes the delivery back.
UndoesOnlyToShelf(from, to) ==   \* mutant
    IsRetrackSideEffect(from, to) /\ from = "DELIVERED" /\ to = "CONFIRMED"
Undoes(from, to) == IsRetrackSideEffect(from, to) /\ from = "DELIVERED"

\* The reservation at the location the request read is not where it is needed.
MovesAlways(from, to, prev, loc) ==   \* mutant
    (from = "AGENT_ASSIGNED" \/ to = "DELIVERED") /\ prev # NoLoc
MovesAway(from, to, prev, loc) ==
    /\ \/ from = "AGENT_ASSIGNED" /\ to = "AGENT_ASSIGNED"
       \/ to = "DELIVERED" /\ ~IsRetrackSideEffect(from, to)
    /\ prev \notin {NoLoc, loc}

\* The side effects of from -> to: `prev' is the location the request read,
\* `loc' the one on the row it updated.
Effects(from, to, prev, loc) ==
    LET retrack == IsRetrackSideEffect(from, to)
    IN {e \in EffectNames :
          \/ e \in {"reverseRead", "reverseWrite"} /\ Undoes(from, to)
          \/ /\ e = "rereserve"
             /\ Undoes(from, to) /\ to \in {"DISPATCHED", "IN_TRANSIT"} /\ loc # NoLoc
          \/ /\ e = "releaseQuietly"
             /\ retrack /\ from \in ReservedStatuses
             /\ PositionOf[to] <= 3 /\ loc # NoLoc
          \/ e = "logReservation" /\ to = "CONFIRMED"
          \/ e = "releasePrevious" /\ MovesAway(from, to, prev, loc)
          \/ e = "reserve" /\ to = "AGENT_ASSIGNED"
          \/ e = "deliver" /\ to = "DELIVERED" /\ ~retrack
          \/ e = "deliverPart" /\ to = "PARTIALLY_DELIVERED"
          \/ e = "writeOff" /\ to = "WRITTEN_OFF" /\ loc # NoLoc}

\* A transaction that has updated the order's row holds its lock until it commits.
RowLocked(o) == \E q \in Requests : req[q].pc = "deleting" /\ req[q].o = o

\* The compare of the compare-and-set: WHERE id = o AND status = from.
UnmovedUnchecked(r) == TRUE   \* mutant
Unmoved(r) == order[req[r].o].status = req[r].from

\* UPDATE orders ... WHERE id = o AND status = from.
Commit(r) ==
    LET o == req[r].o
        to == req[r].to
        loc == IF to = "AGENT_ASSIGNED" THEN req[r].loc ELSE order[o].loc
        todo == Effects(req[r].from, to, req[r].prev, loc)
    IN /\ req[r].pc = "commit"
       /\ ~RowLocked(o)
       /\ IF Unmoved(r)
            THEN /\ order' = [order EXCEPT ![o].status = to, ![o].loc = loc,
                                           ![o].hold = @ \/ req[r].hold]
                 /\ req' = [req EXCEPT ![r] =
                      IF todo = {} THEN IdleRequest
                      ELSE [@ EXCEPT !.pc = "effects", !.loc = loc, !.todo = todo]]
            ELSE /\ req' = [req EXCEPT ![r] = IdleRequest]   \* CONFLICT
                 /\ UNCHANGED order
       /\ UNCHANGED <<stock, left>>

\* The catch block: write the old status back, whatever the status is by now.
Revert(r) ==
    /\ req[r].pc = "revert"
    /\ ~RowLocked(req[r].o)
    /\ order' = [order EXCEPT ![req[r].o].status = req[r].from]
    /\ req' = [req EXCEPT ![r] = IdleRequest]
    /\ UNCHANGED <<stock, left>>

------------------------------------------------------------------------------
(***************************************************************************)
(* Side effects.  An effect whose precondition fails throws: the quiet     *)
(* ones are caught and logged, the critical ones send the request to       *)
(* Revert.                                                                 *)
(***************************************************************************)

Current(r, e) == e \in req[r].todo /\ \A f \in req[r].todo : EffectRank[e] <= EffectRank[f]
Running(r, e) == req[r].pc = "effects" /\ Current(r, e)

\* The request after effect e.
After(r, e) == IF req[r].todo = {e} THEN IdleRequest
               ELSE [req[r] EXCEPT !.todo = @ \ {e}]

Done(r, e) == req' = [req EXCEPT ![r] = After(r, e)]
ThrowForever(r) == UNCHANGED req   \* mutant
Throw(r) == req' = [req EXCEPT ![r].pc = "revert"]

\* The landed cost or the delivery fee of effect e, in a transaction of its own after
\* the stock's has committed: when it fails, the request throws although units have
\* moved.
Figure(r, e) ==
    \/ Done(r, e) /\ UNCHANGED left
    \/ left.figures > 0 /\ left' = [left EXCEPT !.figures = @ - 1] /\ Throw(r)

Warn(r) ==
    /\ warned' = warned \cup {req[r].o}
    /\ UNCHANGED <<level, batches, outstanding, ledger, count>>

QtyOf(r) == order[req[r].o].qty

\* CONFIRMED: a RESERVATION movement and the landed cost; no stock row changes.
LogReservation(r) ==
    /\ Running(r, "logReservation")
    /\ Done(r, "logReservation")
    /\ UNCHANGED <<order, stock, left>>

\* reserveOrderStockInTx: reserve at the request's location what is free there; on
\* AGENT_ASSIGNED the delivery fee follows.
CanReserve(r) == Free(req[r].loc) >= QtyOf(r)

ReserveUnits(r) ==
    /\ level' = [level EXCEPT ![req[r].loc].reserved = @ + QtyOf(r)]
    /\ UNCHANGED <<batches, outstanding, ledger, count, warned>>

Reserve(r) ==
    /\ Running(r, "reserve")
    /\ IF CanReserve(r) THEN ReserveUnits(r) /\ Figure(r, "reserve")
                        ELSE UNCHANGED <<stock, left>> /\ Throw(r)
    /\ UNCHANGED order

ReReserve(r) ==
    /\ Running(r, "rereserve")
    /\ IF CanReserve(r) THEN ReserveUnits(r) ELSE Warn(r)
    /\ Done(r, "rereserve")
    /\ UNCHANGED <<order, left>>

\* releaseAllocationReserveAtLocation: refuses to release more than is reserved.
CanRelease(r, l) == level[l].reserved >= QtyOf(r)

ReleaseUnits(r, l) ==
    /\ level' = [level EXCEPT ![l].reserved = @ - QtyOf(r)]
    /\ UNCHANGED <<batches, outstanding, ledger, count, warned>>

ReleaseQuietly(r) ==
    /\ Running(r, "releaseQuietly")
    /\ IF CanRelease(r, req[r].loc) THEN ReleaseUnits(r, req[r].loc) ELSE Warn(r)
    /\ Done(r, "releaseQuietly")
    /\ UNCHANGED <<order, left>>

ReleasePrevious(r) ==
    /\ Running(r, "releasePrevious")
    /\ IF CanRelease(r, req[r].prev)
         THEN ReleaseUnits(r, req[r].prev) /\ Done(r, "releasePrevious")
         ELSE UNCHANGED stock /\ Throw(r)
    /\ UNCHANGED <<order, left>>

\* consumeFifoRemainingInTx and deductShelfStockInTx: both must cover n units.
CanShip(l, n) == l # NoLoc /\ batches.remaining >= n /\ level[l].stock >= n

ConsumeNone(n) == batches   \* mutant
Consume(n) == [batches EXCEPT !.remaining = @ - n]

\* The stock_movements row of a shelf that gains d units.
LoggedGain(l, d) == [ledger EXCEPT ![l] = IF d > 0 THEN @ + d ELSE @]   \* mutant
Logged(l, d) == [ledger EXCEPT ![l] = @ + d]

\* n units leave shelf l; up to `release' reserved units there are let go.
ShipUnits(r, l, n, release) ==
    /\ level' = [level EXCEPT ![l].stock = @ - n,
                              ![l].reserved = @ - Lesser(release, @)]
    /\ batches' = Consume(n)
    /\ ledger' = Logged(l, -n)
    /\ UNCHANGED <<count, warned>>

\* completeDeliveryInventory, then the landed cost of what was shipped.
Deliver(r) ==
    /\ Running(r, "deliver")
    /\ LET l == req[r].loc IN
       IF CanShip(l, QtyOf(r))
         THEN /\ ShipUnits(r, l, QtyOf(r), QtyOf(r))
              /\ outstanding' = [outstanding EXCEPT ![req[r].o][l] = @ + QtyOf(r)]
              /\ Figure(r, "deliver")
         ELSE UNCHANGED <<stock, left>> /\ Throw(r)
    /\ UNCHANGED order

CanShipPart(l, n) == n > 0 /\ CanShip(l, n)

\* completePartialDeliveryInventory: the whole reservation goes; then the landed cost.
DeliverPart(r) ==
    /\ Running(r, "deliverPart")
    /\ LET l == req[r].loc
           n == Lesser(req[r].n, QtyOf(r))
       IN IF CanShipPart(l, n)
            THEN /\ ShipUnits(r, l, n, QtyOf(r))
                 /\ outstanding' = [outstanding EXCEPT ![req[r].o][l] = @ + n]
                 /\ Figure(r, "deliverPart")
            ELSE UNCHANGED <<stock, left>> /\ Throw(r)
    /\ UNCHANGED order

\* writeOffOrderStock: the reservation was let go on the way to RETURNED.
WriteOff(r) ==
    /\ Running(r, "writeOff")
    /\ LET l == req[r].loc IN
       IF CanShip(l, QtyOf(r))
         THEN ShipUnits(r, l, QtyOf(r), 0) /\ UNCHANGED outstanding /\ Done(r, "writeOff")
         ELSE UNCHANGED stock /\ Throw(r)
    /\ UNCHANGED <<order, left>>

\* reverseDeliveryForOrderInTx: an unlocked read of the order's movements ...
Owed(o) == [l \in Locations |-> AtLeastZero(outstanding[o][l])]

ReverseRead(r) ==
    /\ Running(r, "reverseRead")
    /\ req' = [req EXCEPT ![r] = [After(r, "reverseRead") EXCEPT !.owed = Owed(req[r].o)]]
    /\ UNCHANGED <<order, stock, left>>

\* The units that find room in the batches they may have come from.
NoneBack(owed) == 0   \* mutant
Back(owed) == Lesser(Sum(owed), batches.received - batches.remaining)

\* ... then the writes: shelf, movements, and the batches up to their headroom.
Restore(o, owed) ==
    /\ level' = [l \in Locations |-> [level[l] EXCEPT !.stock = @ + owed[l]]]
    /\ ledger' = [l \in Locations |-> ledger[l] + owed[l]]
    /\ outstanding' = [outstanding EXCEPT ![o] = [l \in Locations |-> @[l] - owed[l]]]
    /\ \E back \in 0 .. (batches.received - batches.remaining) :
         /\ back = Back(owed)
         /\ batches' = [batches EXCEPT !.remaining = @ + back]
    /\ UNCHANGED <<count, warned>>

ReverseWrite(r) ==
    /\ Running(r, "reverseWrite")
    /\ Restore(req[r].o, req[r].owed)
    /\ Done(r, "reverseWrite")
    /\ UNCHANGED <<order, left>>

Effect(r) ==
    \/ LogReservation(r) \/ Reserve(r) \/ ReReserve(r)
    \/ ReleaseQuietly(r) \/ ReleasePrevious(r)
    \/ Deliver(r) \/ DeliverPart(r) \/ WriteOff(r)
    \/ ReverseRead(r) \/ ReverseWrite(r)

------------------------------------------------------------------------------
(***************************************************************************)
(* The other writers of orders and of their reservations.                  *)
(***************************************************************************)

\* update: reads the order, then edits its items in one transaction.
EditRead(r, o, n) ==
    /\ req[r].pc = "idle"
    /\ order[o].status \notin {"DELIVERED", "REMITTED", "DELETED"}
    /\ req' = [req EXCEPT ![r] = [IdleRequest EXCEPT
                  !.pc = "edit", !.o = o, !.from = order[o].status,
                  !.loc = order[o].loc, !.n = n]]
    /\ UNCHANGED <<order, stock, left>>

\* Release the old quantity (clamped), replace the lines, reserve the new one.
EditCommit(r) ==
    LET o == req[r].o
        l == req[r].loc
        held == Lesser(order[o].qty, level[l].reserved)
    IN /\ req[r].pc = "edit"
       /\ ~RowLocked(o)
       /\ IF req[r].from \notin ReservedStatuses \/ l = NoLoc
            THEN order' = [order EXCEPT ![o].qty = req[r].n] /\ UNCHANGED level
            ELSE IF Free(l) + held >= req[r].n
            THEN /\ order' = [order EXCEPT ![o].qty = req[r].n]
                 /\ level' = [level EXCEPT ![l].reserved = @ - held + req[r].n]
            ELSE UNCHANGED <<order, level>>
       /\ req' = [req EXCEPT ![r] = IdleRequest]
       /\ UNCHANGED <<batches, outstanding, ledger, count, warned, left>>

\* softDeleteDeliveredOrder: reads the order, then one transaction that marks it
\* DELETED (taking the row lock), reads its movements and reverses them.
DeleteRead(r, o) ==
    /\ req[r].pc = "idle"
    /\ order[o].status \in {"DELIVERED", "REMITTED"}
    /\ UnderCap
    /\ req' = [req EXCEPT ![r] = [IdleRequest EXCEPT !.pc = "delete", !.o = o]]
    /\ UNCHANGED <<order, stock, left>>

DeleteLock(r) ==
    /\ req[r].pc = "delete"
    /\ ~RowLocked(req[r].o)
    /\ req' = [req EXCEPT ![r].pc = "deleting", ![r].owed = Owed(req[r].o)]
    /\ UNCHANGED <<order, stock, left>>

DeleteCommit(r) ==
    /\ req[r].pc = "deleting"
    /\ order' = [order EXCEPT ![req[r].o].status = "DELETED"]
    /\ Restore(req[r].o, req[r].owed)
    /\ req' = [req EXCEPT ![r] = IdleRequest]
    /\ UNCHANGED left

\* resolveRetrack: the only place that clears the hold.
ResolveRetrack(o) ==
    /\ order[o].hold
    /\ order[o].status # "DELETED"
    /\ ~RowLocked(o)
    /\ order' = [order EXCEPT ![o].hold = FALSE]
    /\ UNCHANGED <<stock, req, left>>

------------------------------------------------------------------------------
(***************************************************************************)
(* Stock that moves without an order, and faults.                          *)
(***************************************************************************)

Spend == left.adjustments > 0 /\ left' = [left EXCEPT !.adjustments = @ - 1]

\* intake: a batch of n units lands at l.
Intake(l, n) ==
    /\ Spend
    /\ level[l].stock <= StockCap
    /\ level' = [level EXCEPT ![l].stock = @ + n]
    /\ batches' = [remaining |-> batches.remaining + n, received |-> batches.received + n]
    /\ ledger' = Logged(l, n)
    /\ UNCHANGED <<order, outstanding, count, warned, req>>

AnyAdjustment(l, d) == TRUE   \* mutant
AdjustmentFits(l, d) == level[l].stock + d >= 0

\* adjust: relative, floored at zero stock; touches neither batches nor reservations.
Adjust(l, d) ==
    /\ Spend
    /\ AdjustmentFits(l, d)
    /\ level' = [level EXCEPT ![l].stock = @ + d]
    /\ ledger' = Logged(l, d)
    /\ UNCHANGED <<order, batches, outstanding, count, warned, req>>

\* createReconciliation with a discrepancy d: dispatch is locked at l.
CountStock(l, d) ==
    /\ Spend
    /\ count[l] = NoCount
    /\ level[l].stock + d >= 0
    /\ count' = [count EXCEPT ![l] = d]
    /\ UNCHANGED <<order, level, batches, outstanding, ledger, warned, req>>

\* resolveReconciliation: the counted discrepancy is applied, floored at zero,
\* but logged in full.
ResolveCount(l, approved) ==
    /\ count[l] # NoCount
    /\ count' = [count EXCEPT ![l] = NoCount]
    /\ IF approved
         THEN /\ level' = [level EXCEPT ![l].stock = AtLeastZero(@ + count[l])]
              /\ ledger' = Logged(l, count[l])
         ELSE UNCHANGED <<level, ledger>>
    /\ UNCHANGED <<order, batches, outstanding, warned, req, left>>

\* The API process dies, or the write-back fails too: the request is gone, its open
\* transaction rolls back.
Crash(r) ==
    /\ left.crashes > 0 /\ left' = [left EXCEPT !.crashes = @ - 1]
    /\ req[r].pc # "idle"
    /\ req' = [req EXCEPT ![r] = IdleRequest]
    /\ UNCHANGED <<order, stock>>

\* The effects whose failure is logged and forgotten.
QuietReversal == {"rereserve", "releaseQuietly", "reverseWrite"}   \* mutant
QuietEffects == {"rereserve", "releaseQuietly"}

\* The transaction of a side effect fails although its precondition holds.
EffectFails(r, e) ==
    /\ left.failures > 0 /\ left' = [left EXCEPT !.failures = @ - 1]
    /\ Running(r, e)
    /\ IF e \in QuietEffects THEN Warn(r) /\ Done(r, e) ELSE UNCHANGED stock /\ Throw(r)
    /\ UNCHANGED order

------------------------------------------------------------------------------
Step(r) == Gate(r) \/ Commit(r) \/ Revert(r) \/ Effect(r)
             \/ EditCommit(r) \/ DeleteLock(r) \/ DeleteCommit(r)

Next ==
    \/ \E r \in Requests : Step(r) \/ Crash(r)
    \/ \E r \in Requests, e \in EffectNames : EffectFails(r, e)
    \/ \E r \in Requests, o \in Orders :
         \/ \E to \in Targets, l \in Locations \cup {NoLoc}, hold \in BOOLEAN,
               n \in 0 .. MaxQty : Read(r, o, to, l, hold, n)
         \/ \E n \in Quantities : EditRead(r, o, n)
         \/ DeleteRead(r, o)
    \/ \E o \in Orders : ResolveRetrack(o)
    \/ \E l \in Locations : \E n \in Quantities : Intake(l, n)
    \/ \E l \in Locations : \E d \in Discrepancies : Adjust(l, d) \/ CountStock(l, d)
    \/ \E l \in Locations : \E approved \in BOOLEAN : ResolveCount(l, approved)

Spec == Init /\ [][Next]_vars

\* Node runs what it has begun and PostgreSQL answers, waiters for a row in the
\* order they came, so that a lock taken again and again starves nobody; users
\* may stop at any time.
FairSpec == Spec /\ \A r \in Requests : SF_vars(Step(r))

------------------------------------------------------------------------------
(***************************************************************************)
(* Properties.                                                             *)
(***************************************************************************)

Phases == {"idle", "gate", "commit", "effects", "revert", "edit", "delete", "deleting"}

RequestType ==
    [pc : Phases, o : Orders \cup {NoOrder}, from : Statuses, to : Statuses,
     prev : Locations \cup {NoLoc}, loc : Locations \cup {NoLoc}, hold : BOOLEAN,
     n : Nat, todo : SUBSET EffectNames, owed : [Locations -> Nat]]

OrderType == [status : Statuses, loc : Locations \cup {NoLoc}, hold : BOOLEAN, qty : Nat]
LevelType == [stock : Nat, reserved : Nat]

LeftType == [crashes : Nat, failures : Nat, figures : Nat, adjustments : Nat]

StockTypeOK ==
    /\ level \in [Locations -> LevelType]
    /\ batches \in [remaining : Nat, received : Nat]
    /\ batches.remaining <= batches.received
    /\ outstanding \in [Orders -> [Locations -> Int]]
    /\ ledger \in [Locations -> Int]
    /\ count \in [Locations -> Int]
    /\ warned \subseteq Orders

\* Types.  Stock and reserved counts are naturals: no interleaving drives one
\* below zero, where the CHECK constraints would abort the transaction, and the
\* batches never hold more than was received.
TypeOK ==
    /\ order \in [Orders -> OrderType]
    /\ StockTypeOK
    /\ req \in [Requests -> RequestType]
    /\ left \in LeftType

InFlight(o) == \E r \in Requests : req[r].pc # "idle" /\ req[r].o = o
Settled == \A r \in Requests : req[r].pc = "idle"
ReservedFor(l) ==
    Sum([o \in Orders |-> IF order[o].status \in ReservedStatuses /\ order[o].loc = l
                            THEN order[o].qty ELSE 0])

\* No effect has failed, neither before its stock committed nor after.
NothingFailed == left.failures = Failures /\ left.figures = Figures

\* As long as nothing has failed, an order between requests has units
\* out with the customer exactly when its status says so, and they left from its own
\* location: the revert of a request that finds too little stock and the reversal on
\* a retrack keep status and stock in step.
ShippedExactlyWhenSaid ==
    \A o \in Orders : ~InFlight(o) /\ NothingFailed =>
        /\ (\E l \in Locations : outstanding[o][l] # 0) <=> order[o].status \in ShippedStatuses
        /\ \A l \in Locations : outstanding[o][l] # 0 => /\ l = order[o].loc
                                                         /\ outstanding[o][l] > 0

\* Between requests the shelves hold exactly what the cost batches still hold:
\* delivery, partial delivery, write-off and reversal move both together.
ShelfMatchesBatches ==
    Settled => Sum([l \in Locations |-> level[l].stock]) = batches.remaining

\* As long as nothing has failed, every unit an allocated order waits for
\* is, between requests, reserved at its location, unless the log says a reservation
\* was skipped: retracks, reallocations and edits never silently release another
\* order's units.
ShortOnlyAfterWarning ==
    Settled /\ warned = {} /\ NothingFailed =>
        \A l \in Locations : level[l].reserved >= ReservedFor(l)

\* A shelf never holds less than its logged movements add up to, whatever
\* happens in between: every deduction has its movement row.
ShelfCoversLedger == \A l \in Locations : level[l].stock >= ledger[l]

\* An order under a retrack hold is never delivered: the hold has to be resolved
\* first.  Only a failed retrack that gives up finds its way back to DELIVERED.
HeldNeverDelivered ==
    [][\A o \in Orders :
         order'[o].status \in {"DELIVERED", "PARTIALLY_DELIVERED"} \ {order[o].status}
            => \/ ~order[o].hold
               \/ \E r \in Requests : req[r].pc = "revert" /\ req[r].o = o]_vars

\* A status changes along an edge of the status machine, by a request that gives
\* up and writes back the status it came from, or by a dual-approved deletion.
MovesLegally(o) ==
    order'[o].status # order[o].status =>
      \/ IsTransitionAllowed(order[o].status, order'[o].status)
      \/ \E r \in Requests :
           /\ req[r].o = o
           /\ \/ /\ req[r].pc = "revert"
                 /\ order'[o].status = req[r].from
                 /\ IsTransitionAllowed(req[r].from, req[r].to)
              \/ req[r].pc = "deleting" /\ order'[o].status = "DELETED"

StatusMovesLegally == [][\A o \in Orders : MovesLegally(o)]_vars

\* Units out with the customer are only ever those of one delivery, and a
\* reversal gives back no more than went out, although stock transactions fail, the
\* request gives up and a desk tries again; only a landed cost that fails once the
\* units have left, or a crash, makes an order ship twice.
NeverTwice ==
    left.crashes = Crashes /\ left.figures = Figures => \A o \in Orders :
        /\ \A l \in Locations : outstanding[o][l] >= 0
        /\ Sum(outstanding[o]) <= MaxQty

\* The batches never hold more units than the shelves do: whatever requests
\* interleave, a unit the cost layers still offer is on some shelf.
ShelvesCoverBatches == Sum([l \in Locations |-> level[l].stock]) >= batches.remaining

\* Every request in flight ends.
EveryRequestEnds == \A r \in Requests : req[r].pc # "idle" ~> req[r].pc = "idle"
==============================================================================
