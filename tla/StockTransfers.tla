--------------------------- MODULE StockTransfers ---------------------------
(***************************************************************************)
(* Stock transfers between locations (inventory.service), for one product. *)
(*                                                                         *)
(* Every operation is one transaction, so its writes appear together, but  *)
(* it takes its row locks one by one: the row of the transfer, the level   *)
(* it takes units from, then the level it puts them on.  Orders reserve,   *)
(* release and ship units of the same levels meanwhile.  No code sets      *)
(* IN_TRANSIT any more: the transfers of Legacy are rows of earlier days,  *)
(* whose source was debited when they were made.                           *)
(***************************************************************************)
EXTENDS Integers, FiniteSets, Functions

CONSTANTS
    Transfers, Locations, Countries, Sessions,
    Legacy,       \* the transfers that exist from the beginning
    CountryOf,    \* currency of the provider of a location
    NoTransfer, Nowhere,
    NotCounted,   \* quantity_received IS NULL
    Routes,       \* the pairs of locations units are sent between
    MaxQty,       \* bound: units of a transfer
    Opening,      \* bound: units on all shelves in the beginning
    Intakes       \* bound: units that arrive from a supplier

ASSUME CountryAssumption == CountryOf \in [Locations -> Countries]
ASSUME TransfersAssumption == Legacy \subseteq Transfers /\ NoTransfer \notin Transfers
ASSUME RoutesAssumption == Routes \subseteq {r \in Locations \X Locations : r[1] # r[2]}
ASSUME NowhereAssumption == Nowhere \notin Locations
ASSUME BoundsAssumption == MaxQty \in Nat /\ Opening \in Nat /\ Intakes \in Nat
ASSUME NotCountedAssumption == NotCounted \notin Nat
ASSUME FinitenessAssumption == IsFiniteSet(Transfers) /\ IsFiniteSet(Locations)

VARIABLES
    transfer,   \* stock_transfers
    shelf,      \* inventory_levels.stock_count
    reserved,   \* inventory_levels.reserved_count
    layers,     \* stock_batches: remaining units of a country
    req,        \* the transactions in flight
    others,     \* history: units put on a shelf minus units taken, by anything but a transfer
    strayed,    \* history: countries whose units a cancellation or a verification moved
    left        \* what is left of Intakes

levels == <<shelf, reserved, layers>>
vars == <<transfer, levels, req, others, strayed, left>>

Quantities == 1..MaxQty

Here(c) == {l \in Locations : CountryOf[l] = c}

Idle == [pc |-> "idle", op |-> "none", t |-> NoTransfer, out |-> Nowhere, in |-> Nowhere, n |-> 0]

None == [status |-> "NONE", from |-> Nowhere, to |-> Nowhere, sent |-> 0, received |-> NotCounted]

Row(status, l, m, sent, received) ==
    [status |-> status, from |-> l, to |-> m, sent |-> sent, received |-> received]

LegacyRows == {Row("IN_TRANSIT", r[1], r[2], n, NotCounted) : r \in Routes, n \in Quantities}

\* Units on the road, and units a verification found missing.
OnTheRoad(t) == IF transfer[t].status = "IN_TRANSIT" THEN transfer[t].sent ELSE 0
Missing(t) ==
    IF transfer[t].received = NotCounted THEN 0 ELSE transfer[t].sent - transfer[t].received

\* The units of a set of transfers that are on the road.
RoadTotal(T) == SumFunctionOnSet([t \in Transfers |-> OnTheRoad(t)], T)

\* Transfers that took their units from a location of L.
From(L) == {t \in Transfers : transfer[t].from \in L}

Init ==
    /\ transfer \in {f \in [Transfers -> LegacyRows \cup {None}] :
                       \A t \in Transfers : f[t] = None <=> t \notin Legacy}
    /\ shelf \in [Locations -> 0..Opening] /\ SumFunctionOnSet(shelf, Locations) = Opening
    /\ reserved = [l \in Locations |-> 0]
    /\ layers = [c \in Countries |-> SumFunctionOnSet(shelf, Here(c)) + RoadTotal(From(Here(c)))]
    /\ req = [s \in Sessions |-> Idle]
    /\ others = [l \in Locations |-> shelf[l] + RoadTotal(From({l}))]
    /\ strayed = {}
    /\ left = Intakes

------------------------------------------------------------------------------
(***************************************************************************)
(* Locks.  A request holds the row of its transfer from its first step,    *)
(* the level it debits once it is in "credit".                             *)
(***************************************************************************)

NeverHeld(t) == TRUE   \* mutant: no FOR UPDATE on the row
RowFree(t) == \A s \in Sessions : req[s].t # t

Holder(l) == {s \in Sessions : req[s].pc = "credit" /\ req[s].out = l}
LevelFree(l) == Holder(l) = {}

Shelved(l) == shelf[l]   \* mutant: reserved units count as available
Available(l) == shelf[l] - reserved[l]

\* PostgreSQL aborts one of the transactions that wait for each other in a circle.
Deadlocked(S) ==
    \A s \in S : req[s].pc = "credit" /\ Holder(req[s].in) \cap (S \ {s}) # {}

Free(s) == req[s].pc = "idle"

\* A request begins: with a debit first, or straight with the credit.
Begin(s, op, t, out, in, n) ==
    /\ Free(s) /\ RowFree(t)
    /\ req' = [req EXCEPT ![s] = [pc |-> IF out = Nowhere THEN "credit" ELSE "debit",
                                  op |-> op, t |-> t, out |-> out, in |-> in, n |-> n]]
    /\ UNCHANGED <<transfer, levels, others, strayed, left>>

\* A transaction that needs the row alone.
Flip(t, status) ==
    /\ RowFree(t)
    /\ transfer' = [transfer EXCEPT ![t].status = status]
    /\ UNCHANGED <<levels, req, others, strayed, left>>

------------------------------------------------------------------------------
\* initiateTransfer by somebody without authority on the source: a check of what is
\* available, and a PENDING row.
Plan(t, l, m, n) ==
    /\ transfer[t] = None /\ RowFree(t)
    /\ LevelFree(l) /\ Available(l) >= n
    /\ transfer' = [transfer EXCEPT ![t] = Row("PENDING", l, m, n, NotCounted)]
    /\ UNCHANGED <<levels, req, others, strayed, left>>

\* initiateTransfer on the fast path: nobody sees the row before the commit.
Initiate(s, t, l, m, n) ==
    transfer[t] = None /\ Begin(s, "initiate", t, l, m, n)

Approve(s, t) ==
    LET r == transfer[t]
    IN r.status = "PENDING" /\ Begin(s, "approve", t, r.from, r.to, r.sent)

Reject(t) == transfer[t].status = "PENDING" /\ Flip(t, "REJECTED")

\* verifyTransfer: a count of n, at most what was sent.
Verify(s, t, n) ==
    LET r == transfer[t]
    IN /\ r.status = "IN_TRANSIT" /\ n <= r.sent
       /\ Begin(s, "verify", t, Nowhere, r.to, n)

\* cancelTransfer: a PENDING transfer has moved nothing; one with a count gives back
\* what was counted, one without gives back what was sent.
GivenBack(r) == IF r.received = NotCounted THEN r.sent ELSE r.received

CancelPending(t) == transfer[t].status = "PENDING" /\ Flip(t, "CANCELLED")

Cancel(s, t) ==
    LET r == transfer[t]
        credited == r.received # NotCounted /\ r.received # 0
    IN /\ r.status \in {"IN_TRANSIT", "RECEIVED", "DISPUTED"}
       /\ Begin(s, "cancel", t, IF credited THEN r.to ELSE Nowhere, r.from, GivenBack(r))

------------------------------------------------------------------------------
KeepRow(r) == r         \* mutant: the error leaves the transaction open
Rollback(r) == Idle

\* The level a request debits: locked, and checked under the lock.
Debit(s) ==
    LET r == req[s]
    IN /\ r.pc = "debit" /\ LevelFree(r.out)
       /\ req' = [req EXCEPT ![s] =
                    IF Available(r.out) >= r.n THEN [@ EXCEPT !.pc = "credit"] ELSE Rollback(@)]
       /\ UNCHANGED <<transfer, levels, others, strayed, left>>

\* The row a request leaves behind.
Outcome(r) ==
    CASE r.op = "initiate" -> Row("RECEIVED", r.out, r.in, r.n, r.n)
      [] r.op = "approve" -> [transfer[r.t] EXCEPT !.status = "RECEIVED", !.received = r.n]
      [] r.op = "verify" ->
           [transfer[r.t] EXCEPT !.received = r.n,
              !.status = IF r.n < transfer[r.t].sent THEN "DISPUTED" ELSE "RECEIVED"]
      [] OTHER -> [transfer[r.t] EXCEPT !.status = "CANCELLED"]

\* Cost layers follow the units only when an approved transfer leaves the country.
Never(r) == FALSE   \* mutant: no hand-over of the cost layers
Crosses(r) == r.op \in {"initiate", "approve"} /\ CountryOf[r.out] # CountryOf[r.in]

Unchecked(r) == TRUE   \* mutant
LayersSuffice(r) == Crosses(r) => layers[CountryOf[r.out]] >= r.n

HandedOver(r) ==
    [c \in Countries |-> layers[c] - (IF c = CountryOf[r.out] THEN r.n ELSE 0)
                                   + (IF c = CountryOf[r.in] THEN r.n ELSE 0)]

\* Countries a cancellation or a verification of transfer t changes without their layers.
Strays(r) ==
    LET ends == {CountryOf[transfer[r.t].from], CountryOf[transfer[r.t].to]}
    IN IF r.op \in {"verify", "cancel"} /\ Cardinality(ends) = 2 THEN ends ELSE {}

\* The level it credits is free: everything is written, and committed.
Credit(s) ==
    LET r == req[s]
    IN /\ r.pc = "credit" /\ LevelFree(r.in)
       /\ LayersSuffice(r)
       /\ transfer' = [transfer EXCEPT ![r.t] = Outcome(r)]
       /\ shelf' = [l \in Locations |-> shelf[l] - (IF l = r.out THEN r.n ELSE 0)
                                                 + (IF l = r.in THEN r.n ELSE 0)]
       /\ layers' = IF Crosses(r) THEN HandedOver(r) ELSE layers
       /\ strayed' = strayed \cup Strays(r)
       /\ req' = [req EXCEPT ![s] = Idle]
       /\ UNCHANGED <<reserved, others, left>>

\* The source country has too few cost layers: the transaction rolls back.
LayersMissing(s) ==
    LET r == req[s]
    IN /\ r.pc = "credit" /\ LevelFree(r.in)
       /\ ~LayersSuffice(r)
       /\ req' = [req EXCEPT ![s] = Rollback(@)]
       /\ UNCHANGED <<transfer, levels, others, strayed, left>>

DeadlockVictim(s) ==
    /\ \E S \in SUBSET Sessions : s \in S /\ Deadlocked(S)
    /\ req' = [req EXCEPT ![s] = Rollback(@)]
    /\ UNCHANGED <<transfer, levels, others, strayed, left>>

------------------------------------------------------------------------------
(***************************************************************************)
(* What orders and suppliers do to the levels, a unit at a time; whole     *)
(* orders are in OrderFulfilment.                                          *)
(***************************************************************************)

Reserve(l) ==
    /\ LevelFree(l) /\ Available(l) >= 1
    /\ reserved' = [reserved EXCEPT ![l] = @ + 1]
    /\ UNCHANGED <<transfer, shelf, layers, req, others, strayed, left>>

Release(l) ==
    /\ LevelFree(l) /\ reserved[l] > 0
    /\ reserved' = [reserved EXCEPT ![l] = @ - 1]
    /\ UNCHANGED <<transfer, shelf, layers, req, others, strayed, left>>

Ship(l) ==
    /\ LevelFree(l) /\ reserved[l] > 0 /\ layers[CountryOf[l]] > 0
    /\ shelf' = [shelf EXCEPT ![l] = @ - 1]
    /\ reserved' = [reserved EXCEPT ![l] = @ - 1]
    /\ layers' = [layers EXCEPT ![CountryOf[l]] = @ - 1]
    /\ others' = [others EXCEPT ![l] = @ - 1]
    /\ UNCHANGED <<transfer, req, strayed, left>>

Intake(l) ==
    /\ LevelFree(l) /\ left > 0
    /\ left' = left - 1
    /\ shelf' = [shelf EXCEPT ![l] = @ + 1]
    /\ layers' = [layers EXCEPT ![CountryOf[l]] = @ + 1]
    /\ others' = [others EXCEPT ![l] = @ + 1]
    /\ UNCHANGED <<transfer, reserved, req, strayed>>

------------------------------------------------------------------------------
Proceeds(s) == Debit(s) \/ Credit(s) \/ LayersMissing(s) \/ DeadlockVictim(s)

Next ==
    \/ \E t \in Transfers, r \in Routes, n \in Quantities :
         \/ Plan(t, r[1], r[2], n)
         \/ \E s \in Sessions : Initiate(s, t, r[1], r[2], n)
    \/ \E t \in Transfers : Reject(t) \/ CancelPending(t)
    \/ \E s \in Sessions, t \in Transfers :
         \/ Approve(s, t) \/ Cancel(s, t)
         \/ \E n \in 0..MaxQty : Verify(s, t, n)
    \/ \E s \in Sessions : Proceeds(s)
    \/ \E l \in Locations : Reserve(l) \/ Release(l) \/ Ship(l) \/ Intake(l)

Spec == Init /\ [][Next]_vars

\* A transaction that waits gets its lock in its turn, and runs to its end.
FairSpec == Spec /\ \A s \in Sessions : SF_vars(Proceeds(s))

------------------------------------------------------------------------------
Statuses == {"NONE", "PENDING", "IN_TRANSIT", "RECEIVED", "DISPUTED", "REJECTED", "CANCELLED"}
Places == Locations \cup {Nowhere}

\* Types.
TypeOK ==
    /\ transfer \in [Transfers -> [status : Statuses, from : Places, to : Places,
                                   sent : Nat, received : Nat \cup {NotCounted}]]
    /\ shelf \in [Locations -> Nat]
    /\ reserved \in [Locations -> Nat]
    /\ layers \in [Countries -> Nat]
    /\ req \in [Sessions -> [pc : {"idle", "debit", "credit"},
                             op : {"none", "initiate", "approve", "verify", "cancel"},
                             t : Transfers \cup {NoTransfer}, out : Places, in : Places, n : Nat]]
    /\ others \in [Locations -> Int]
    /\ strayed \subseteq Countries
    /\ left \in Nat

\* Units a transfer has taken from location l, and put there.
Left(t, l) ==
    LET r == transfer[t]
    IN CASE r.from = l /\ r.status \in {"IN_TRANSIT", "RECEIVED", "DISPUTED"} -> r.sent
         [] r.from = l /\ r.status = "CANCELLED" -> Missing(t)
         [] OTHER -> 0
Arrived(t, l) ==
    IF transfer[t].to = l /\ transfer[t].status \in {"RECEIVED", "DISPUTED"}
      THEN transfer[t].received ELSE 0

\* The rows of the transfers account for the shelves: whatever the interleaving of
\* approvals, verifications and cancellations, a shelf holds what others put there, minus
\* what left it, plus what arrived; a count that found units missing loses them for good.
ShelvesExplained ==
    \A l \in Locations :
        shelf[l] = others[l]
            + SumFunctionOnSet([t \in Transfers |-> Arrived(t, l) - Left(t, l)], Transfers)

\* A transfer never takes a unit that an order has reserved, though it checks first
\* and writes later.
ReservedKept == \A l \in Locations : reserved[l] <= shelf[l]

\* In a country no cancellation or verification has moved units into or out of, the
\* cost layers are worth the units on its shelves, on the road and missing.
LayersMatchShelves ==
    \A c \in Countries \ strayed :
        layers[c] = SumFunctionOnSet(shelf, Here(c))
            + SumFunctionOnSet([t \in Transfers |-> OnTheRoad(t) + Missing(t)], From(Here(c)))

\* A transfer request ends, two of them in opposite directions included.
EveryTransferEnds == \A s \in Sessions : ~Free(s) ~> Free(s)
==============================================================================
