------------------------ MODULE OrderFulfilment_proofs ------------------------
(***************************************************************************)
(* Proofs about OrderFulfilment, for every number of orders, locations and *)
(* concurrent requests.                                                    *)
(***************************************************************************)
EXTENDS OrderFulfilment, Sums, FiniteSetTheorems, TLAPS

\* What a request in flight knows: its order, an edge of the status machine it
\* validated, and, while it runs side effects, that one is left to run.
RequestsWellFormed ==
    \A r \in Requests :
        /\ req[r].pc # "idle" => req[r].o \in Orders
        /\ req[r].pc \in {"gate", "commit", "effects", "revert"} =>
             IsTransitionAllowed(req[r].from, req[r].to)

IInv == TypeOK /\ RequestsWellFormed

\* The status machine never leads outside the statuses.
LEMMA TransitionsStayInStatuses == AllowedTransitions \subseteq Statuses \X Statuses
  BY DEF AllowedTransitions, ForwardTransitions, DeleteRestoreTransitions,
         RetrackTransitions, Statuses

LEMMA EffectsType ==
    ASSUME NEW from, NEW to, NEW prev, NEW loc
    PROVE  Effects(from, to, prev, loc) \in SUBSET EffectNames
  BY DEF Effects

LEMMA IdleRequestType == IdleRequest \in RequestType
  BY DEF IdleRequest, RequestType, Phases, Statuses

LEMMA AfterType ==
    ASSUME NEW r \in Requests, NEW e, req[r] \in RequestType
    PROVE  After(r, e) \in RequestType
  BY IdleRequestType DEF After, RequestType

LEMMA InitInvariant == Init => IInv
<1> SUFFICES ASSUME Init PROVE IInv
  OBVIOUS
<1>1. order \in [Orders -> OrderType]
  <2>1. StartStatuses \subseteq Statuses /\ Quantities \subseteq Nat
    BY StartAssumption, BoundsAssumption DEF Statuses, Quantities
  <2>2. [status : StartStatuses, loc : {NoLoc}, hold : {FALSE}, qty : Quantities]
           \subseteq OrderType
    BY <2>1 DEF OrderType
  <2> QED
    BY <2>2 DEF Init
<1>2. req \in [Requests -> RequestType]
  BY IdleRequestType DEF Init
<1>3. StockTypeOK
  BY StockAssumption DEF Init, StockTypeOK, LevelType, NoCount
<1>4. left \in LeftType
  BY BoundsAssumption DEF Init, LeftType
<1>5. RequestsWellFormed
  BY DEF Init, RequestsWellFormed, IdleRequest
<1> QED
  BY <1>1, <1>2, <1>3, <1>4, <1>5 DEF IInv, TypeOK

------------------------------------------------------------------------------
(***************************************************************************)
(* Steps of a request.                                                     *)
(***************************************************************************)

\* A step that replaces one request by a well-formed one keeps the table well formed.
LEMMA RequestUpdate ==
    ASSUME IInv, NEW r \in Requests, NEW q,
           req' = [req EXCEPT ![r] = q],
           q \in RequestType,
           q.pc # "idle" => q.o \in Orders,
           q.pc \in {"gate", "commit", "effects", "revert"} =>
              IsTransitionAllowed(q.from, q.to)
    PROVE  req' \in [Requests -> RequestType] /\ RequestsWellFormed'
  BY DEF IInv, TypeOK, RequestsWellFormed

LEMMA RequestEnds ==
    ASSUME IInv, NEW r \in Requests, req' = [req EXCEPT ![r] = IdleRequest]
    PROVE  req' \in [Requests -> RequestType] /\ RequestsWellFormed'
  BY IdleRequestType, RequestUpdate DEF IdleRequest

LEMMA DoneOrThrow ==
    ASSUME IInv, NEW r \in Requests, NEW e, Running(r, e), Done(r, e) \/ Throw(r)
    PROVE  req' \in [Requests -> RequestType] /\ RequestsWellFormed'
<1>1. req[r] \in RequestType /\ req[r].pc = "effects"
  BY DEF IInv, TypeOK, Running
<1>2. req[r].o \in Orders /\ IsTransitionAllowed(req[r].from, req[r].to)
  BY <1>1 DEF IInv, RequestsWellFormed
<1>3. CASE Done(r, e)
  <2>1. After(r, e) \in RequestType
    BY <1>1, AfterType
  <2>2. /\ After(r, e).pc # "idle" => After(r, e).o \in Orders
        /\ After(r, e).pc \in {"gate", "commit", "effects", "revert"} =>
             IsTransitionAllowed(After(r, e).from, After(r, e).to)
    BY <1>1, <1>2 DEF After, IdleRequest, RequestType
  <2> QED
    BY <1>3, <2>1, <2>2, RequestUpdate DEF Done
<1>4. CASE Throw(r)
  <2> DEFINE q == [req[r] EXCEPT !.pc = "revert"]
  <2>1. q \in RequestType /\ q.o = req[r].o /\ q.from = req[r].from /\ q.to = req[r].to
    BY <1>1 DEF RequestType, Phases
  <2>2. req' = [req EXCEPT ![r] = q]
    BY <1>4 DEF Throw, IInv, TypeOK
  <2> QED
    BY <1>2, <2>1, <2>2, RequestUpdate
<1> QED
  BY <1>3, <1>4

LEMMA StockUntouched ==
    ASSUME StockTypeOK, UNCHANGED stock
    PROVE  StockTypeOK'
  BY DEF StockTypeOK, stock

\* What the invariant says of one request in flight.
LEMMA InFlightRequest ==
    ASSUME IInv, NEW r \in Requests, req[r].pc # "idle"
    PROVE  /\ req[r] \in RequestType
           /\ req[r].o \in Orders
           /\ req[r].pc \in {"gate", "commit", "effects", "revert"} =>
                IsTransitionAllowed(req[r].from, req[r].to)
  BY DEF IInv, TypeOK, RequestsWellFormed

LEMMA ReadStep ==
    ASSUME IInv, NEW r \in Requests, NEW o \in Orders, NEW to \in Statuses,
           NEW l \in Locations \cup {NoLoc}, NEW hold \in BOOLEAN, NEW n \in 0 .. MaxQty,
           Read(r, o, to, l, hold, n)
    PROVE  IInv'
<1> DEFINE q == [IdleRequest EXCEPT
                   !.pc = IF to \in {"CONFIRMED", "AGENT_ASSIGNED"} THEN "gate" ELSE "commit",
                   !.o = o, !.from = order[o].status, !.to = to, !.prev = order[o].loc,
                   !.loc = l, !.hold = hold, !.n = n]
<1>1. order[o] \in OrderType
  BY DEF IInv, TypeOK
<1>2. n \in Nat
  BY BoundsAssumption
<1>3. q \in RequestType
  BY <1>1, <1>2, IdleRequestType DEF RequestType, OrderType, Phases
<1>4. q.o = o /\ q.from = order[o].status /\ q.to = to
  BY DEF IdleRequest
<1>5. req' = [req EXCEPT ![r] = q] /\ IsTransitionAllowed(order[o].status, to)
  BY DEF Read
<1>6. req' \in [Requests -> RequestType] /\ RequestsWellFormed'
  <2> HIDE DEF q
  <2> QED
    BY <1>3, <1>4, <1>5, RequestUpdate
<1>7. order' = order /\ StockTypeOK' /\ left' = left
  BY StockUntouched DEF Read, IInv, TypeOK
<1> QED
  BY <1>6, <1>7 DEF IInv, TypeOK

LEMMA GateStep ==
    ASSUME IInv, NEW r \in Requests, Gate(r)
    PROVE  IInv'
<1> DEFINE q == [req[r] EXCEPT !.pc = "commit"]
<1>1. /\ req[r] \in RequestType /\ req[r].o \in Orders
      /\ IsTransitionAllowed(req[r].from, req[r].to)
  BY InFlightRequest DEF Gate
<1>2. q \in RequestType /\ q.o = req[r].o /\ q.from = req[r].from /\ q.to = req[r].to
  BY <1>1 DEF RequestType, Phases
<1>3. req' = [req EXCEPT ![r] = q] \/ req' = [req EXCEPT ![r] = IdleRequest]
  BY DEF Gate
<1>4. req' \in [Requests -> RequestType] /\ RequestsWellFormed'
  <2> HIDE DEF q
  <2> QED
    BY <1>1, <1>2, <1>3, RequestUpdate, RequestEnds
<1>5. order' = order /\ StockTypeOK' /\ left' = left
  BY StockUntouched DEF Gate, IInv, TypeOK
<1> QED
  BY <1>4, <1>5 DEF IInv, TypeOK

LEMMA CommitStep ==
    ASSUME IInv, NEW r \in Requests, Commit(r)
    PROVE  IInv'
<1> DEFINE o == req[r].o
           to == req[r].to
           loc == IF to = "AGENT_ASSIGNED" THEN req[r].loc ELSE order[o].loc
           todo == Effects(req[r].from, to, req[r].prev, loc)
           q == [req[r] EXCEPT !.pc = "effects", !.loc = loc, !.todo = todo]
<1>1. /\ req[r] \in RequestType /\ o \in Orders
      /\ IsTransitionAllowed(req[r].from, to)
  BY InFlightRequest DEF Commit
<1>2. order[o] \in OrderType
  BY <1>1 DEF IInv, TypeOK
<1>3. loc \in Locations \cup {NoLoc}
  BY <1>1, <1>2 DEF RequestType, OrderType
<1>4. todo \in SUBSET EffectNames
  BY EffectsType
<1>5. q \in RequestType /\ q.o = o /\ q.from = req[r].from /\ q.to = to
  <2> HIDE DEF todo, loc
  <2> QED
    BY <1>1, <1>3, <1>4 DEF RequestType, Phases
<1>6. req' = [req EXCEPT ![r] = q] \/ req' = [req EXCEPT ![r] = IdleRequest]
  BY DEF Commit
<1>7. req' \in [Requests -> RequestType] /\ RequestsWellFormed'
  <2> HIDE DEF q, o, to
  <2> QED
    BY <1>1, <1>5, <1>6, RequestUpdate, RequestEnds DEF o, to
<1>8. order' \in [Orders -> OrderType]
  <2>1. CASE UNCHANGED order
    BY <2>1 DEF IInv, TypeOK
  <2>2. CASE order' = [order EXCEPT ![o].status = to, ![o].loc = loc,
                                    ![o].hold = @ \/ req[r].hold]
    <3> DEFINE new == [order[o] EXCEPT !.status = to, !.loc = loc,
                                       !.hold = order[o].hold \/ req[r].hold]
    <3>1. to \in Statuses /\ (order[o].hold \/ req[r].hold) \in BOOLEAN
      BY <1>1, <1>2 DEF RequestType, OrderType
    <3>2. new \in OrderType
      <4> HIDE DEF loc, to
      <4> QED
        BY <1>2, <1>3, <3>1 DEF OrderType
    <3>3. order' = [order EXCEPT ![o] = new]
      BY <2>2, <1>1 DEF IInv, TypeOK
    <3> QED
      BY <1>1, <3>2, <3>3 DEF IInv, TypeOK
  <2> QED
    BY <2>1, <2>2 DEF Commit
<1>9. StockTypeOK' /\ left' = left
  BY StockUntouched DEF Commit, IInv, TypeOK
<1> QED
  BY <1>7, <1>8, <1>9 DEF IInv, TypeOK

LEMMA RevertStep ==
    ASSUME IInv, NEW r \in Requests, Revert(r)
    PROVE  IInv'
<1>1. req[r] \in RequestType /\ req[r].o \in Orders
  BY InFlightRequest DEF Revert
<1>2. req[r].from \in Statuses
  BY <1>1 DEF RequestType
<1>3. order' \in [Orders -> OrderType]
  BY <1>1, <1>2 DEF Revert, IInv, TypeOK, OrderType
<1>4. req' \in [Requests -> RequestType] /\ RequestsWellFormed'
  BY RequestEnds DEF Revert
<1>5. StockTypeOK' /\ left' = left
  BY StockUntouched DEF Revert, IInv, TypeOK
<1> QED
  BY <1>3, <1>4, <1>5 DEF IInv, TypeOK

------------------------------------------------------------------------------
(***************************************************************************)
(* Side effects: what each does to the stock, then to the request.         *)
(***************************************************************************)

\* Replacing one entry of a table by one of its type keeps the table well typed,
\* also where there is no such entry.
LEMMA UpdateType ==
    ASSUME NEW S, NEW T, NEW f \in [S -> T], NEW l, NEW v, l \in S => v \in T
    PROVE  [f EXCEPT ![l] = v] \in [S -> T]
  OBVIOUS

\* Setting one shelf to naturals keeps the shelves well typed.
LEMMA ShelfUpdate ==
    ASSUME level \in [Locations -> LevelType], NEW l, NEW s, NEW v,
           l \in Locations => s \in Nat /\ v \in Nat,
           level' = [level EXCEPT ![l].stock = s, ![l].reserved = v]
    PROVE  level' \in [Locations -> LevelType]
<1>1. CASE l \in Locations
  BY <1>1 DEF LevelType
<1>2. CASE l \notin Locations
  BY <1>2
<1> QED
  BY <1>1, <1>2

LEMMA ReservedUpdate ==
    ASSUME level \in [Locations -> LevelType], NEW l, NEW v,
           l \in Locations => v \in Nat,
           level' = [level EXCEPT ![l].reserved = v]
    PROVE  level' \in [Locations -> LevelType]
<1>1. CASE l \in Locations
  BY <1>1 DEF LevelType
<1>2. CASE l \notin Locations
  BY <1>2
<1> QED
  BY <1>1, <1>2

LEMMA EffectEnds ==
    ASSUME IInv, NEW r \in Requests, NEW e, Running(r, e), Done(r, e) \/ Throw(r),
           StockTypeOK', UNCHANGED order, left' \in LeftType
    PROVE  IInv'
  BY DoneOrThrow DEF IInv, TypeOK

LEMMA WarnType ==
    ASSUME StockTypeOK, NEW r \in Requests, req[r].o \in Orders, Warn(r)
    PROVE  StockTypeOK'
  BY DEF StockTypeOK, Warn

\* A reservation only grows what is reserved.
LEMMA ReserveUnitsType ==
    ASSUME StockTypeOK, NEW r \in Requests, req[r].o \in Orders,
           order \in [Orders -> OrderType], ReserveUnits(r)
    PROVE  StockTypeOK'
<1> DEFINE v == level[req[r].loc].reserved + QtyOf(r)
<1>1. req[r].loc \in Locations => v \in Nat
  BY DEF QtyOf, OrderType, StockTypeOK, LevelType
<1>2. level' = [level EXCEPT ![req[r].loc].reserved = v]
  BY DEF ReserveUnits
<1>3. level' \in [Locations -> LevelType]
  <2> HIDE DEF v
  <2> QED
    BY <1>1, <1>2, ReservedUpdate DEF StockTypeOK
<1> QED
  BY <1>3 DEF ReserveUnits, StockTypeOK

\* A release is refused unless as much is reserved, so reserved stays a natural.
LEMMA ReleaseUnitsType ==
    ASSUME StockTypeOK, NEW r \in Requests, req[r].o \in Orders,
           order \in [Orders -> OrderType], NEW l, CanRelease(r, l), ReleaseUnits(r, l)
    PROVE  StockTypeOK'
<1> DEFINE v == level[l].reserved - QtyOf(r)
<1>1. l \in Locations => v \in Nat
  BY DEF CanRelease, QtyOf, OrderType, StockTypeOK, LevelType
<1>2. level' = [level EXCEPT ![l].reserved = v]
  BY DEF ReleaseUnits
<1>3. level' \in [Locations -> LevelType]
  <2> HIDE DEF v
  <2> QED
    BY <1>1, <1>2, ReservedUpdate DEF StockTypeOK
<1> QED
  BY <1>3 DEF ReleaseUnits, StockTypeOK

\* Units leave a shelf and the batches only when both hold as many.
LEMMA ShipUnitsType ==
    ASSUME StockTypeOK, NEW r \in Requests, NEW l, NEW n \in Nat, NEW release \in Nat,
           CanShip(l, n), ShipUnits(r, l, n, release),
           outstanding' \in [Orders -> [Locations -> Int]]
    PROVE  StockTypeOK'
<1> DEFINE s == level[l].stock - n
           v == level[l].reserved - Lesser(release, level[l].reserved)
<1>1. level' \in [Locations -> LevelType]
  <2>1. level' = [level EXCEPT ![l].stock = s, ![l].reserved = v]
    BY DEF ShipUnits
  <2>2. l \in Locations => s \in Nat /\ v \in Nat
    BY DEF CanShip, StockTypeOK, LevelType, Lesser
  <2> HIDE DEF s, v
  <2> QED
    BY <2>1, <2>2, ShelfUpdate DEF StockTypeOK
<1>2. batches' \in [remaining : Nat, received : Nat] /\ batches'.remaining <= batches'.received
  BY DEF ShipUnits, CanShip, Consume, StockTypeOK
<1>3. ledger' \in [Locations -> Int]
  BY UpdateType DEF ShipUnits, Logged, StockTypeOK
<1> QED
  BY <1>1, <1>2, <1>3 DEF ShipUnits, StockTypeOK

LEMMA OutstandingType ==
    ASSUME StockTypeOK, NEW o, NEW l, NEW n \in Nat,
           outstanding' = [outstanding EXCEPT ![o][l] = @ + n]
    PROVE  outstanding' \in [Orders -> [Locations -> Int]]
<1>1. CASE o \in Orders
  <2> DEFINE new == [outstanding[o] EXCEPT ![l] = @ + n]
  <2>1. outstanding[o] \in [Locations -> Int]
    BY <1>1 DEF StockTypeOK
  <2>2. new \in [Locations -> Int]
    BY <2>1, UpdateType
  <2>3. outstanding' = [outstanding EXCEPT ![o] = new]
    OBVIOUS
  <2> QED
    BY <2>2, <2>3 DEF StockTypeOK
<1>2. CASE o \notin Orders
  BY <1>2 DEF StockTypeOK
<1> QED
  BY <1>1, <1>2

LEMMA EffectFacts ==
    ASSUME IInv, NEW r \in Requests, NEW e, Running(r, e)
    PROVE  /\ req[r] \in RequestType /\ req[r].o \in Orders
           /\ QtyOf(r) \in Nat
           /\ StockTypeOK
           /\ order \in [Orders -> OrderType]
           /\ left \in LeftType
<1>1. req[r] \in RequestType /\ req[r].o \in Orders
  BY InFlightRequest DEF Running
<1>2. order \in [Orders -> OrderType]
  BY DEF IInv, TypeOK
<1> QED
  BY <1>1, <1>2 DEF IInv, TypeOK, QtyOf, OrderType

\* A figure that fails after the stock has moved takes one from its bound, and throws.
LEMMA FigureLeft ==
    ASSUME NEW r, NEW e, left \in LeftType, Figure(r, e)
    PROVE  /\ left' \in LeftType /\ left'.crashes = left.crashes
           /\ left'.failures = left.failures /\ left'.adjustments = left.adjustments
           /\ \/ Done(r, e) /\ left' = left
              \/ Throw(r) /\ left'.figures = left.figures - 1
  BY DEF Figure, LeftType

LEMMA LogReservationStep ==
    ASSUME IInv, NEW r \in Requests, LogReservation(r)
    PROVE  IInv'
<1>1. StockTypeOK'
  BY EffectFacts, StockUntouched DEF LogReservation
<1> QED
  BY <1>1, EffectFacts, EffectEnds DEF LogReservation

LEMMA ReserveStep ==
    ASSUME IInv, NEW r \in Requests, Reserve(r)
    PROVE  IInv'
<1>1. Running(r, "reserve")
  BY DEF Reserve
<1>2. StockTypeOK'
  BY <1>1, EffectFacts, StockUntouched, ReserveUnitsType DEF Reserve
<1>3. (Done(r, "reserve") \/ Throw(r)) /\ left' \in LeftType /\ UNCHANGED order
  BY <1>1, EffectFacts, FigureLeft DEF Reserve
<1> QED
  BY <1>1, <1>2, <1>3, EffectEnds

LEMMA ReReserveStep ==
    ASSUME IInv, NEW r \in Requests, ReReserve(r)
    PROVE  IInv'
<1>1. Running(r, "rereserve")
  BY DEF ReReserve
<1>2. StockTypeOK'
  BY <1>1, EffectFacts, WarnType, ReserveUnitsType DEF ReReserve
<1> QED
  BY <1>1, <1>2, EffectFacts, EffectEnds DEF ReReserve

LEMMA ReleaseQuietlyStep ==
    ASSUME IInv, NEW r \in Requests, ReleaseQuietly(r)
    PROVE  IInv'
<1>1. Running(r, "releaseQuietly")
  BY DEF ReleaseQuietly
<1>2. StockTypeOK'
  BY <1>1, EffectFacts, WarnType, ReleaseUnitsType DEF ReleaseQuietly
<1> QED
  BY <1>1, <1>2, EffectFacts, EffectEnds DEF ReleaseQuietly

LEMMA ReleasePreviousStep ==
    ASSUME IInv, NEW r \in Requests, ReleasePrevious(r)
    PROVE  IInv'
<1>1. Running(r, "releasePrevious")
  BY DEF ReleasePrevious
<1>2. StockTypeOK'
  BY <1>1, EffectFacts, StockUntouched, ReleaseUnitsType DEF ReleasePrevious
<1> QED
  BY <1>1, <1>2, EffectFacts, EffectEnds DEF ReleasePrevious

LEMMA DeliverStep ==
    ASSUME IInv, NEW r \in Requests, Deliver(r)
    PROVE  IInv'
<1>1. Running(r, "deliver")
  BY DEF Deliver
<1>2. StockTypeOK'
  <2>1. CASE UNCHANGED stock
    BY <1>1, <2>1, EffectFacts, StockUntouched
  <2>2. CASE CanShip(req[r].loc, QtyOf(r))
    <3>1. outstanding' \in [Orders -> [Locations -> Int]]
      BY <1>1, <2>2, EffectFacts, OutstandingType DEF Deliver
    <3> QED
      BY <1>1, <2>2, <3>1, EffectFacts, ShipUnitsType DEF Deliver
  <2> QED
    BY <2>1, <2>2 DEF Deliver
<1>3. (Done(r, "deliver") \/ Throw(r)) /\ left' \in LeftType /\ UNCHANGED order
  BY <1>1, EffectFacts, FigureLeft DEF Deliver
<1> QED
  BY <1>1, <1>2, <1>3, EffectEnds

LEMMA DeliverPartStep ==
    ASSUME IInv, NEW r \in Requests, DeliverPart(r)
    PROVE  IInv'
<1> DEFINE n == Lesser(req[r].n, QtyOf(r))
<1>1. Running(r, "deliverPart")
  BY DEF DeliverPart
<1>2. n \in Nat
  BY <1>1, EffectFacts DEF Lesser, RequestType
<1>3. StockTypeOK'
  <2>1. CASE UNCHANGED stock
    BY <1>1, <2>1, EffectFacts, StockUntouched
  <2>2. CASE CanShipPart(req[r].loc, n)
    <3>1. outstanding' = [outstanding EXCEPT ![req[r].o][req[r].loc] = @ + n]
      BY <2>2 DEF DeliverPart
    <3>2. outstanding' \in [Orders -> [Locations -> Int]]
      <4> HIDE DEF n
      <4> QED
        BY <1>1, <1>2, <3>1, EffectFacts, OutstandingType
    <3>3. ShipUnits(r, req[r].loc, n, QtyOf(r))
      BY <2>2 DEF DeliverPart
    <3> HIDE DEF n
    <3> QED
      BY <1>1, <1>2, <2>2, <3>2, <3>3, EffectFacts, ShipUnitsType DEF CanShipPart
  <2> QED
    BY <2>1, <2>2 DEF DeliverPart
<1>4. (Done(r, "deliverPart") \/ Throw(r)) /\ left' \in LeftType /\ UNCHANGED order
  BY <1>1, EffectFacts, FigureLeft DEF DeliverPart
<1> QED
  BY <1>1, <1>3, <1>4, EffectEnds

LEMMA WriteOffStep ==
    ASSUME IInv, NEW r \in Requests, WriteOff(r)
    PROVE  IInv'
<1>1. Running(r, "writeOff")
  BY DEF WriteOff
<1>2. StockTypeOK'
  <2>1. CASE UNCHANGED stock
    BY <1>1, <2>1, EffectFacts, StockUntouched
  <2>2. CASE CanShip(req[r].loc, QtyOf(r))
    <3>1. outstanding' \in [Orders -> [Locations -> Int]]
      BY <1>1, <2>2, EffectFacts DEF WriteOff, StockTypeOK
    <3> QED
      BY <1>1, <2>2, <3>1, EffectFacts, ShipUnitsType DEF WriteOff
  <2> QED
    BY <2>1, <2>2 DEF WriteOff
<1> QED
  BY <1>1, <1>2, EffectFacts, EffectEnds DEF WriteOff

\* What a reversal owes each shelf is never negative.
LEMMA OwedType ==
    ASSUME IInv, NEW o \in Orders
    PROVE  Owed(o) \in [Locations -> Nat]
  BY DEF Owed, AtLeastZero, IInv, TypeOK, StockTypeOK

\* A reversal gives back no more than the batches have room for.
LEMMA RestoreType ==
    ASSUME StockTypeOK, NEW o \in Orders, NEW owed \in [Locations -> Nat],
           Restore(o, owed)
    PROVE  StockTypeOK'
<1>1. level' \in [Locations -> LevelType]
  <2>1. ASSUME NEW l \in Locations
        PROVE  [level[l] EXCEPT !.stock = @ + owed[l]] \in LevelType
    <3>1. level[l] \in LevelType /\ owed[l] \in Nat
      BY DEF StockTypeOK
    <3> QED
      BY <3>1 DEF LevelType
  <2> QED
    BY <2>1, Zenon DEF Restore
<1>2. ledger' \in [Locations -> Int]
  BY DEF Restore, StockTypeOK
<1>3. outstanding' \in [Orders -> [Locations -> Int]]
  <2> DEFINE new == [l \in Locations |-> outstanding[o][l] - owed[l]]
  <2>1. new \in [Locations -> Int]
    BY DEF StockTypeOK
  <2>2. outstanding' = [outstanding EXCEPT ![o] = new]
    BY DEF Restore
  <2> QED
    BY <2>1, <2>2, UpdateType DEF StockTypeOK
<1>4. batches' \in [remaining : Nat, received : Nat] /\ batches'.remaining <= batches'.received
  <2>1. PICK back \in 0 .. (batches.received - batches.remaining) :
          batches' = [batches EXCEPT !.remaining = @ + back]
    BY DEF Restore
  <2> QED
    BY <2>1 DEF StockTypeOK
<1> QED
  BY <1>1, <1>2, <1>3, <1>4 DEF Restore, StockTypeOK

LEMMA ReverseReadStep ==
    ASSUME IInv, NEW r \in Requests, ReverseRead(r)
    PROVE  IInv'
<1> DEFINE rest == After(r, "reverseRead")
           q == [rest EXCEPT !.owed = Owed(req[r].o)]
<1>1. Running(r, "reverseRead") /\ req[r].pc = "effects"
  BY DEF ReverseRead, Running
<1>2. rest \in RequestType
  BY <1>1, EffectFacts, AfterType
<1>3. Owed(req[r].o) \in [Locations -> Nat]
  BY <1>1, EffectFacts, OwedType
<1>4. /\ rest.pc # "idle" => rest.o \in Orders
      /\ rest.pc \in {"gate", "commit", "effects", "revert"} =>
           IsTransitionAllowed(rest.from, rest.to)
  BY <1>1, EffectFacts, InFlightRequest DEF After, IdleRequest, RequestType
<1>5. q \in RequestType /\ q.pc = rest.pc /\ q.o = rest.o /\ q.from = rest.from /\ q.to = rest.to
  <2> HIDE DEF rest
  <2> QED
    BY <1>2, <1>3 DEF RequestType
<1>6. req' = [req EXCEPT ![r] = q]
  BY DEF ReverseRead
<1>7. req' \in [Requests -> RequestType] /\ RequestsWellFormed'
  <2> HIDE DEF q, rest
  <2> QED
    BY <1>4, <1>5, <1>6, RequestUpdate
<1>8. order' = order /\ StockTypeOK' /\ left' = left
  BY StockUntouched DEF ReverseRead, IInv, TypeOK
<1> QED
  BY <1>7, <1>8 DEF IInv, TypeOK

LEMMA ReverseWriteStep ==
    ASSUME IInv, NEW r \in Requests, ReverseWrite(r)
    PROVE  IInv'
<1>1. Running(r, "reverseWrite")
  BY DEF ReverseWrite
<1>2. req[r].owed \in [Locations -> Nat]
  BY <1>1, EffectFacts DEF RequestType
<1>3. StockTypeOK'
  BY <1>1, <1>2, EffectFacts, RestoreType DEF ReverseWrite
<1> QED
  BY <1>1, <1>3, EffectFacts, EffectEnds DEF ReverseWrite

LEMMA EffectStep ==
    ASSUME IInv, NEW r \in Requests, Effect(r)
    PROVE  IInv'
  BY LogReservationStep, ReserveStep, ReReserveStep, ReleaseQuietlyStep,
     ReleasePreviousStep, DeliverStep, DeliverPartStep, WriteOffStep,
     ReverseReadStep, ReverseWriteStep DEF Effect

------------------------------------------------------------------------------
(***************************************************************************)
(* The other writers.                                                      *)
(***************************************************************************)

\* A request that is not a transition needs an order only.
LEMMA OtherRequestStarts ==
    ASSUME IInv, NEW r \in Requests, NEW q \in RequestType, q.o \in Orders,
           q.pc \in {"edit", "delete", "deleting"}, req' = [req EXCEPT ![r] = q]
    PROVE  req' \in [Requests -> RequestType] /\ RequestsWellFormed'
  BY RequestUpdate

LEMMA EditReadStep ==
    ASSUME IInv, NEW r \in Requests, NEW o \in Orders, NEW n \in Quantities,
           EditRead(r, o, n)
    PROVE  IInv'
<1> DEFINE q == [IdleRequest EXCEPT !.pc = "edit", !.o = o, !.from = order[o].status,
                                    !.loc = order[o].loc, !.n = n]
<1>1. order[o] \in OrderType /\ n \in Nat
  BY BoundsAssumption DEF IInv, TypeOK, Quantities
<1>2. q \in RequestType /\ q.o = o /\ q.pc = "edit"
  BY <1>1, IdleRequestType DEF RequestType, OrderType, Phases
<1>3. req' = [req EXCEPT ![r] = q]
  BY DEF EditRead
<1>4. req' \in [Requests -> RequestType] /\ RequestsWellFormed'
  <2> HIDE DEF q
  <2> QED
    BY <1>2, <1>3, OtherRequestStarts
<1>5. order' = order /\ StockTypeOK' /\ left' = left
  BY StockUntouched DEF EditRead, IInv, TypeOK
<1> QED
  BY <1>4, <1>5 DEF IInv, TypeOK

\* An edit releases no more than is reserved before it reserves anew.
LEMMA EditCommitStep ==
    ASSUME IInv, NEW r \in Requests, EditCommit(r)
    PROVE  IInv'
<1> DEFINE o == req[r].o
           l == req[r].loc
           held == Lesser(order[o].qty, level[l].reserved)
           v == level[l].reserved - held + req[r].n
<1>1. req[r] \in RequestType /\ o \in Orders
  BY InFlightRequest DEF EditCommit
<1>2. order[o] \in OrderType /\ req[r].n \in Nat
  BY <1>1 DEF IInv, TypeOK, RequestType
<1>3. order' \in [Orders -> OrderType]
  <2>1. order' = order \/ order' = [order EXCEPT ![o].qty = req[r].n]
    BY DEF EditCommit
  <2> HIDE DEF o
  <2> QED
    BY <1>2, <2>1 DEF IInv, TypeOK, OrderType
<1>4. level' \in [Locations -> LevelType]
  <2>1. level' = level \/ level' = [level EXCEPT ![l].reserved = v]
    BY DEF EditCommit
  <2>2. l \in Locations => v \in Nat
    BY <1>2 DEF Lesser, OrderType, LevelType, IInv, TypeOK, StockTypeOK
  <2>3. level \in [Locations -> LevelType]
    BY DEF IInv, TypeOK, StockTypeOK
  <2> HIDE DEF l, v
  <2> QED
    BY <2>1, <2>2, <2>3, ReservedUpdate
<1>5. StockTypeOK' /\ left' = left
  BY <1>4 DEF EditCommit, IInv, TypeOK, StockTypeOK
<1>6. req' \in [Requests -> RequestType] /\ RequestsWellFormed'
  BY RequestEnds DEF EditCommit
<1> QED
  BY <1>3, <1>5, <1>6 DEF IInv, TypeOK

LEMMA DeleteReadStep ==
    ASSUME IInv, NEW r \in Requests, NEW o \in Orders, DeleteRead(r, o)
    PROVE  IInv'
<1> DEFINE q == [IdleRequest EXCEPT !.pc = "delete", !.o = o]
<1>1. q \in RequestType /\ q.o = o /\ q.pc = "delete"
  BY IdleRequestType DEF RequestType, Phases
<1>2. req' \in [Requests -> RequestType] /\ RequestsWellFormed'
  BY <1>1, OtherRequestStarts DEF DeleteRead
<1>3. order' = order /\ StockTypeOK' /\ left' = left
  BY StockUntouched DEF DeleteRead, IInv, TypeOK
<1> QED
  BY <1>2, <1>3 DEF IInv, TypeOK

LEMMA DeleteLockStep ==
    ASSUME IInv, NEW r \in Requests, DeleteLock(r)
    PROVE  IInv'
<1> DEFINE q == [req[r] EXCEPT !.pc = "deleting", !.owed = Owed(req[r].o)]
<1>1. req[r] \in RequestType /\ req[r].o \in Orders
  BY InFlightRequest DEF DeleteLock
<1>2. Owed(req[r].o) \in [Locations -> Nat]
  BY <1>1, OwedType
<1>3. q \in RequestType /\ q.o = req[r].o /\ q.pc = "deleting"
  BY <1>1, <1>2 DEF RequestType, Phases
<1>4. req' = [req EXCEPT ![r] = q]
  BY DEF DeleteLock, IInv, TypeOK
<1>5. req' \in [Requests -> RequestType] /\ RequestsWellFormed'
  <2> HIDE DEF q
  <2> QED
    BY <1>1, <1>3, <1>4, OtherRequestStarts
<1>6. order' = order /\ StockTypeOK' /\ left' = left
  BY StockUntouched DEF DeleteLock, IInv, TypeOK
<1> QED
  BY <1>5, <1>6 DEF IInv, TypeOK

LEMMA DeleteCommitStep ==
    ASSUME IInv, NEW r \in Requests, DeleteCommit(r)
    PROVE  IInv'
<1>1. req[r] \in RequestType /\ req[r].o \in Orders
  BY InFlightRequest DEF DeleteCommit
<1>2. order' \in [Orders -> OrderType]
  BY <1>1 DEF DeleteCommit, IInv, TypeOK, OrderType, Statuses
<1>3. StockTypeOK'
  BY <1>1, RestoreType DEF DeleteCommit, IInv, TypeOK, RequestType
<1>4. req' \in [Requests -> RequestType] /\ RequestsWellFormed'
  BY RequestEnds DEF DeleteCommit
<1> QED
  BY <1>2, <1>3, <1>4 DEF DeleteCommit, IInv, TypeOK

LEMMA ResolveRetrackStep ==
    ASSUME IInv, NEW o \in Orders, ResolveRetrack(o)
    PROVE  IInv'
<1>1. order' \in [Orders -> OrderType]
  BY DEF ResolveRetrack, IInv, TypeOK, OrderType
<1>2. StockTypeOK'
  BY StockUntouched DEF ResolveRetrack, IInv, TypeOK
<1> QED
  BY <1>1, <1>2 DEF ResolveRetrack, IInv, TypeOK, RequestsWellFormed

------------------------------------------------------------------------------
(***************************************************************************)
(* Stock that moves without an order, and faults.                          *)
(***************************************************************************)

LEMMA LeftAfter ==
    ASSUME IInv, NEW r, NEW e, Spend \/ Crash(r) \/ EffectFails(r, e)
    PROVE  left' \in LeftType
  BY DEF Spend, Crash, EffectFails, IInv, TypeOK, LeftType

\* A step that leaves the orders and the requests alone.
LEMMA StockStep ==
    ASSUME IInv, UNCHANGED <<order, req>>, StockTypeOK',
           left' \in LeftType
    PROVE  IInv'
  BY DEF IInv, TypeOK, RequestsWellFormed

LEMMA IntakeStep ==
    ASSUME IInv, NEW l \in Locations, NEW n \in Quantities, Intake(l, n)
    PROVE  IInv'
<1>1. n \in Nat
  BY BoundsAssumption DEF Quantities
<1>2. level' \in [Locations -> LevelType]
  BY <1>1 DEF Intake, LevelType, IInv, TypeOK, StockTypeOK
<1>3. StockTypeOK'
  BY <1>1, <1>2 DEF Logged, Intake, IInv, TypeOK, StockTypeOK
<1> QED
  BY <1>3, LeftAfter, StockStep DEF Logged, Intake

LEMMA AdjustStep ==
    ASSUME IInv, NEW l \in Locations, NEW d \in Discrepancies, Adjust(l, d)
    PROVE  IInv'
<1>1. level' \in [Locations -> LevelType]
  BY DEF Adjust, AdjustmentFits, Discrepancies, LevelType, IInv, TypeOK, StockTypeOK
<1>2. StockTypeOK'
  BY <1>1 DEF Logged, Adjust, Discrepancies, IInv, TypeOK, StockTypeOK
<1> QED
  BY <1>2, LeftAfter, StockStep DEF Adjust

LEMMA CountStockStep ==
    ASSUME IInv, NEW l \in Locations, NEW d \in Discrepancies, CountStock(l, d)
    PROVE  IInv'
<1>1. StockTypeOK'
  BY DEF CountStock, Discrepancies, IInv, TypeOK, StockTypeOK
<1> QED
  BY <1>1, LeftAfter, StockStep DEF CountStock

LEMMA ResolveCountStep ==
    ASSUME IInv, NEW l \in Locations, NEW approved \in BOOLEAN,
           ResolveCount(l, approved)
    PROVE  IInv'
<1> DEFINE floored == AtLeastZero(level[l].stock + count[l])
<1>1. level' \in [Locations -> LevelType]
  <2>1. level \in [Locations -> LevelType] /\ count[l] \in Int
    BY DEF IInv, TypeOK, StockTypeOK
  <2>2. floored \in Nat
    BY <2>1 DEF AtLeastZero, LevelType
  <2>3. level' = level \/ level' = [level EXCEPT ![l].stock = floored]
    BY DEF ResolveCount
  <2> HIDE DEF floored
  <2> QED
    BY <2>1, <2>2, <2>3 DEF LevelType
<1>2. ledger' \in [Locations -> Int] /\ count' \in [Locations -> Int]
  BY DEF ResolveCount, Logged, NoCount, IInv, TypeOK, StockTypeOK
<1>3. StockTypeOK'
  BY <1>1, <1>2 DEF ResolveCount, IInv, TypeOK, StockTypeOK
<1>4. left' \in LeftType
  BY DEF ResolveCount, IInv, TypeOK
<1> QED
  BY <1>3, <1>4, StockStep DEF ResolveCount

LEMMA CrashStep ==
    ASSUME IInv, NEW r \in Requests, Crash(r)
    PROVE  IInv'
<1>1. StockTypeOK'
  BY StockUntouched DEF Crash, IInv, TypeOK
<1>2. req' \in [Requests -> RequestType] /\ RequestsWellFormed'
  BY RequestEnds DEF Crash
<1> QED
  BY <1>1, <1>2, LeftAfter DEF Crash, IInv, TypeOK

LEMMA EffectFailsStep ==
    ASSUME IInv, NEW r \in Requests, NEW e \in EffectNames, EffectFails(r, e)
    PROVE  IInv'
<1>1. Running(r, e)
  BY DEF EffectFails
<1>2. StockTypeOK'
  BY <1>1, EffectFacts, WarnType, StockUntouched DEF EffectFails
<1> QED
  BY <1>1, <1>2, LeftAfter, EffectEnds DEF EffectFails

------------------------------------------------------------------------------
(***************************************************************************)
(* The inductive invariant.                                                *)
(***************************************************************************)

LEMMA StutterStep == ASSUME IInv, UNCHANGED vars PROVE IInv'
<1>1. UNCHANGED <<order, stock, req, left>>
  BY DEF vars, stock
<1>2. StockTypeOK'
  BY <1>1, StockUntouched DEF IInv, TypeOK
<1> QED
  BY <1>1, <1>2 DEF IInv, TypeOK, RequestsWellFormed

\* One case per action of Next.
LEMMA NextInvariant == ASSUME IInv, [Next]_vars PROVE IInv'
<1>1. ASSUME NEW r \in Requests, Step(r) \/ Crash(r)
      PROVE  IInv'
  BY <1>1, GateStep, CommitStep, RevertStep, EffectStep, EditCommitStep,
     DeleteLockStep, DeleteCommitStep, CrashStep DEF Step
<1>2. ASSUME NEW r \in Requests, NEW e \in EffectNames, EffectFails(r, e)
      PROVE  IInv'
  BY <1>2, EffectFailsStep
<1>3. ASSUME NEW r \in Requests, NEW o \in Orders, NEW to \in Targets,
             NEW l \in Locations \cup {NoLoc}, NEW hold \in BOOLEAN,
             NEW n \in 0 .. MaxQty, Read(r, o, to, l, hold, n)
      PROVE  IInv'
  BY <1>3, BoundsAssumption, ReadStep
<1>4. ASSUME NEW r \in Requests, NEW o \in Orders,
             (\E n \in Quantities : EditRead(r, o, n)) \/ DeleteRead(r, o)
      PROVE  IInv'
  BY <1>4, EditReadStep, DeleteReadStep
<1>5. ASSUME NEW o \in Orders, ResolveRetrack(o)
      PROVE  IInv'
  BY <1>5, ResolveRetrackStep
<1>6. ASSUME NEW l \in Locations, NEW n \in Quantities, Intake(l, n)
      PROVE  IInv'
  BY <1>6, IntakeStep
<1>7. ASSUME NEW l \in Locations, NEW d \in Discrepancies, Adjust(l, d) \/ CountStock(l, d)
      PROVE  IInv'
  BY <1>7, AdjustStep, CountStockStep
<1>8. ASSUME NEW l \in Locations, NEW approved \in BOOLEAN, ResolveCount(l, approved)
      PROVE  IInv'
  BY <1>8, ResolveCountStep
<1> QED
  BY <1>1, <1>2, <1>3, <1>4, <1>5, <1>6, <1>7, <1>8, StutterStep DEF Next

\* IInv holds in every reachable state.
LEMMA Invariance == Spec => []IInv
  BY InitInvariant, NextInvariant, PTL DEF Spec

\* Whatever requests, counts, faults and crashes interleave, no count of units
\* on a shelf, reserved or in the batches goes below zero, and the batches never
\* hold more than was received.
THEOREM TypeCorrect == Spec => []TypeOK
<1>1. IInv => TypeOK
  BY DEF IInv
<1> QED
  BY <1>1, Invariance, PTL

------------------------------------------------------------------------------
(***************************************************************************)
(* The ledger: every action moves a shelf and its ledger by the same       *)
(* amount, except the floor at zero of an approved count, which only       *)
(* leaves more on the shelf.                                               *)
(***************************************************************************)

LEMMA LedgerUntouched ==
    ASSUME ShelfCoversLedger, UNCHANGED ledger,
           \A l \in Locations : level'[l].stock = level[l].stock
    PROVE  ShelfCoversLedger'
  BY DEF ShelfCoversLedger

LEMMA LedgerShip ==
    ASSUME IInv, ShelfCoversLedger, NEW r \in Requests, NEW l, NEW n \in Nat, NEW release,
           ShipUnits(r, l, n, release)
    PROVE  ShelfCoversLedger'
<1> SUFFICES ASSUME NEW m \in Locations PROVE level'[m].stock >= ledger'[m]
  BY DEF ShelfCoversLedger
<1>1. level[m] \in LevelType /\ ledger[m] \in Int /\ level[m].stock >= ledger[m]
  BY DEF ShelfCoversLedger, IInv, TypeOK, StockTypeOK
<1>2. ledger \in [Locations -> Int] /\ level \in [Locations -> LevelType]
  BY DEF IInv, TypeOK, StockTypeOK
<1>3. CASE l = m
  <2>1. level'[m].stock = level[m].stock - n /\ ledger'[m] = ledger[m] - n
    BY <1>1, <1>2, <1>3 DEF ShipUnits, Logged, LevelType
  <2> QED
    BY <1>1, <2>1 DEF LevelType
<1>4. CASE l # m
  BY <1>1, <1>2, <1>4 DEF ShipUnits, Logged
<1> QED
  BY <1>3, <1>4

LEMMA LedgerRestore ==
    ASSUME IInv, ShelfCoversLedger, NEW o \in Orders, NEW owed \in [Locations -> Nat],
           Restore(o, owed)
    PROVE  ShelfCoversLedger'
<1> SUFFICES ASSUME NEW m \in Locations PROVE level'[m].stock >= ledger'[m]
  BY DEF ShelfCoversLedger
<1>1. level[m] \in LevelType /\ ledger[m] \in Int /\ level[m].stock >= ledger[m]
  BY DEF ShelfCoversLedger, IInv, TypeOK, StockTypeOK
<1>2. level'[m] = [level[m] EXCEPT !.stock = @ + owed[m]] /\ ledger'[m] = ledger[m] + owed[m]
  BY DEF Restore
<1> QED
  BY <1>1, <1>2 DEF LevelType

\* A release or reservation moves no unit.
LEMMA ReservedOnly ==
    ASSUME IInv, ShelfCoversLedger, NEW l, NEW v,
           level' = [level EXCEPT ![l].reserved = v], UNCHANGED ledger
    PROVE  ShelfCoversLedger'
<1>1. \A m \in Locations : level'[m].stock = level[m].stock
  BY DEF IInv, TypeOK, StockTypeOK, LevelType
<1> QED
  BY <1>1, LedgerUntouched

LEMMA StockUnmoved ==
    ASSUME ShelfCoversLedger, UNCHANGED <<level, ledger>>
    PROVE  ShelfCoversLedger'
  BY DEF ShelfCoversLedger

LEMMA LedgerEffect ==
    ASSUME IInv, ShelfCoversLedger, NEW r \in Requests, Effect(r)
    PROVE  ShelfCoversLedger'
<1>1. CASE LogReservation(r) \/ ReverseRead(r)
  BY <1>1, StockUnmoved DEF LogReservation, ReverseRead, stock
<1>2. ASSUME UNCHANGED stock \/ Warn(r) PROVE ShelfCoversLedger'
  BY <1>2, StockUnmoved DEF stock, Warn
<1>3. ASSUME ReserveUnits(r) PROVE ShelfCoversLedger'
  BY <1>3, ReservedOnly DEF ReserveUnits
<1>4. ASSUME NEW l, ReleaseUnits(r, l) PROVE ShelfCoversLedger'
  BY <1>4, ReservedOnly DEF ReleaseUnits
<1>5. CASE Reserve(r) \/ ReReserve(r) \/ ReleaseQuietly(r) \/ ReleasePrevious(r)
  BY <1>2, <1>3, <1>4, <1>5 DEF Reserve, ReReserve, ReleaseQuietly, ReleasePrevious
<1>6. CASE Deliver(r)
  <2>1. QtyOf(r) \in Nat
    BY <1>6, EffectFacts DEF Deliver
  <2> QED
    BY <1>2, <1>6, <2>1, LedgerShip DEF Deliver
<1>7. CASE DeliverPart(r)
  <2> DEFINE n == Lesser(req[r].n, QtyOf(r))
  <2>1. n \in Nat
    BY <1>7, EffectFacts DEF DeliverPart, Lesser, RequestType
  <2>2. UNCHANGED stock \/ ShipUnits(r, req[r].loc, n, QtyOf(r))
    BY <1>7 DEF DeliverPart
  <2> HIDE DEF n
  <2> QED
    BY <1>2, <2>1, <2>2, LedgerShip
<1>8. CASE WriteOff(r)
  <2>1. QtyOf(r) \in Nat
    BY <1>8, EffectFacts DEF WriteOff
  <2> QED
    BY <1>2, <1>8, <2>1, LedgerShip DEF WriteOff
<1>9. CASE ReverseWrite(r)
  <2>1. req[r] \in RequestType /\ req[r].o \in Orders
    BY <1>9, EffectFacts DEF ReverseWrite
  <2> QED
    BY <1>9, <2>1, LedgerRestore DEF ReverseWrite, RequestType
<1> QED
  BY <1>1, <1>5, <1>6, <1>7, <1>8, <1>9 DEF Effect

LEMMA LedgerStep ==
    ASSUME IInv, ShelfCoversLedger, [Next]_vars
    PROVE  ShelfCoversLedger'
<1>1. ASSUME NEW r \in Requests, Step(r) \/ Crash(r)
      PROVE  ShelfCoversLedger'
  <2>1. CASE Gate(r) \/ Commit(r) \/ Revert(r) \/ DeleteLock(r) \/ Crash(r)
    BY <2>1, StockUnmoved DEF Gate, Commit, Revert, DeleteLock, Crash, stock
  <2>2. CASE Effect(r)
    BY <2>2, LedgerEffect
  <2>3. CASE EditCommit(r)
    BY <2>3, StockUnmoved, ReservedOnly DEF EditCommit
  <2>4. CASE DeleteCommit(r)
    <3>1. req[r] \in RequestType /\ req[r].o \in Orders
      BY <2>4, InFlightRequest DEF DeleteCommit
    <3> QED
      BY <2>4, <3>1, LedgerRestore DEF DeleteCommit, RequestType
  <2> QED
    BY <1>1, <2>1, <2>2, <2>3, <2>4 DEF Step
<1>2. ASSUME NEW r \in Requests, NEW e \in EffectNames, EffectFails(r, e)
      PROVE  ShelfCoversLedger'
  BY <1>2, StockUnmoved DEF EffectFails, Warn, stock
<1>3. ASSUME NEW r \in Requests, NEW o \in Orders,
             \/ \E to \in Targets, l \in Locations \cup {NoLoc}, hold \in BOOLEAN,
                   n \in 0 .. MaxQty : Read(r, o, to, l, hold, n)
             \/ \E n \in Quantities : EditRead(r, o, n)
             \/ DeleteRead(r, o)
      PROVE  ShelfCoversLedger'
  BY <1>3, StockUnmoved DEF Read, EditRead, DeleteRead, stock
<1>4. ASSUME NEW o \in Orders, ResolveRetrack(o)
      PROVE  ShelfCoversLedger'
  BY <1>4, StockUnmoved DEF ResolveRetrack, stock
<1>5. ASSUME NEW l \in Locations, NEW d \in Int,
             level' = [level EXCEPT ![l].stock = @ + d],
             ledger' = [ledger EXCEPT ![l] = @ + d]
      PROVE  ShelfCoversLedger'
  BY <1>5 DEF ShelfCoversLedger, IInv, TypeOK, StockTypeOK, LevelType
<1>6. ASSUME NEW l \in Locations, NEW n \in Quantities, Intake(l, n)
      PROVE  ShelfCoversLedger'
  <2>1. n \in Int
    BY BoundsAssumption DEF Quantities
  <2>2. /\ level' = [level EXCEPT ![l].stock = @ + n]
        /\ ledger' = [ledger EXCEPT ![l] = @ + n]
    BY <1>6 DEF Logged, Intake
  <2> QED
    BY <1>5, <2>1, <2>2
<1>7. ASSUME NEW l \in Locations, NEW d \in Discrepancies, Adjust(l, d) \/ CountStock(l, d)
      PROVE  ShelfCoversLedger'
  BY <1>5, <1>7, StockUnmoved DEF Logged, Adjust, CountStock, Discrepancies
<1>8. ASSUME NEW l \in Locations, NEW approved \in BOOLEAN, ResolveCount(l, approved)
      PROVE  ShelfCoversLedger'
  BY <1>8 DEF ResolveCount, Logged, AtLeastZero, ShelfCoversLedger, IInv, TypeOK, StockTypeOK,
              LevelType
<1>9. CASE UNCHANGED vars
  BY <1>9, StockUnmoved DEF vars
<1> QED
  BY <1>1, <1>2, <1>3, <1>4, <1>6, <1>7, <1>8, <1>9 DEF Next

\* No shelf ever holds fewer units than its movement rows account for: nothing
\* leaves a shelf without a movement, under every interleaving and every crash.
THEOREM LedgerCovered == Spec => []ShelfCoversLedger
<1>1. Init => ShelfCoversLedger
  BY StockAssumption DEF Init, ShelfCoversLedger
<1> QED
  BY <1>1, LedgerStep, Invariance, PTL DEF Spec

------------------------------------------------------------------------------
(***************************************************************************)
(* Status changes.                                                         *)
(***************************************************************************)

LEMMA StatusStep ==
    ASSUME IInv, [Next]_vars, NEW o \in Orders
    PROVE  MovesLegally(o)
<1>1. ASSUME UNCHANGED order PROVE MovesLegally(o)
  BY <1>1 DEF MovesLegally
<1>2. ASSUME NEW r \in Requests, Commit(r) PROVE MovesLegally(o)
  <2>1. req[r].o \in Orders /\ IsTransitionAllowed(req[r].from, req[r].to)
    BY <1>2, InFlightRequest DEF Commit
  <2>2. CASE Unmoved(r) /\ req[r].o = o
    <3>1. order'[o].status = req[r].to
      BY <1>2, <2>2 DEF Commit, IInv, TypeOK, OrderType
    <3> QED
      BY <2>1, <2>2, <3>1 DEF MovesLegally, Unmoved
  <2>3. CASE Unmoved(r) /\ req[r].o # o
    BY <1>2, <2>1, <2>3 DEF Commit, MovesLegally, IInv, TypeOK
  <2>4. CASE ~Unmoved(r)
    BY <1>1, <1>2, <2>4 DEF Commit
  <2> QED
    BY <2>2, <2>3, <2>4
<1>3. ASSUME NEW r \in Requests, Revert(r) PROVE MovesLegally(o)
  <2>1. IsTransitionAllowed(req[r].from, req[r].to)
    BY <1>3, InFlightRequest DEF Revert
  <2>2. CASE req[r].o = o
    <3>1. order'[o].status = req[r].from
      BY <1>3, <2>2 DEF Revert, IInv, TypeOK, OrderType
    <3> QED
      BY <1>3, <2>1, <2>2, <3>1 DEF Revert, MovesLegally
  <2>3. CASE req[r].o # o
    BY <1>3, <2>3 DEF Revert, MovesLegally, IInv, TypeOK
  <2> QED
    BY <2>2, <2>3
<1>4. ASSUME NEW r \in Requests, DeleteCommit(r) PROVE MovesLegally(o)
  <2>1. CASE req[r].o = o
    <3>1. order'[o].status = "DELETED"
      BY <1>4, <2>1 DEF DeleteCommit, IInv, TypeOK, OrderType
    <3> QED
      BY <1>4, <2>1, <3>1 DEF DeleteCommit, MovesLegally
  <2>2. CASE req[r].o # o
    BY <1>4, <2>2 DEF DeleteCommit, MovesLegally, IInv, TypeOK
  <2> QED
    BY <2>1, <2>2
<1>5. ASSUME NEW r \in Requests, EditCommit(r) PROVE MovesLegally(o)
  <2>1. order'[o].status = order[o].status
    BY <1>5 DEF EditCommit, IInv, TypeOK, OrderType
  <2> QED
    BY <2>1 DEF MovesLegally
<1>6. ASSUME NEW p \in Orders, ResolveRetrack(p) PROVE MovesLegally(o)
  <2>1. order'[o].status = order[o].status
    BY <1>6 DEF ResolveRetrack, IInv, TypeOK, OrderType
  <2> QED
    BY <2>1 DEF MovesLegally
<1>7. ASSUME NEW r \in Requests, Gate(r) \/ Effect(r) \/ DeleteLock(r) \/ Crash(r)
      PROVE  MovesLegally(o)
  BY <1>1, <1>7 DEF Gate, Effect, DeleteLock, Crash, LogReservation, Reserve, ReReserve,
     ReleaseQuietly, ReleasePrevious, Deliver, DeliverPart, WriteOff, ReverseRead,
     ReverseWrite
<1>8. ASSUME NEW r \in Requests,
             \/ \E e \in EffectNames : EffectFails(r, e)
             \/ \E p \in Orders :
                  \/ \E to \in Targets, l \in Locations \cup {NoLoc}, hold \in BOOLEAN,
                        n \in 0 .. MaxQty : Read(r, p, to, l, hold, n)
                  \/ \E n \in Quantities : EditRead(r, p, n)
                  \/ DeleteRead(r, p)
      PROVE  MovesLegally(o)
  <2>1. ASSUME NEW e, EffectFails(r, e) PROVE UNCHANGED order
    BY <2>1 DEF EffectFails
  <2>2. ASSUME NEW p, NEW to, NEW l, NEW hold, NEW n, Read(r, p, to, l, hold, n)
        PROVE  UNCHANGED order
    BY <2>2 DEF Read
  <2>3. ASSUME NEW p, NEW n, EditRead(r, p, n) \/ DeleteRead(r, p)
        PROVE  UNCHANGED order
    BY <2>3 DEF EditRead, DeleteRead
  <2> QED
    BY <1>1, <1>8, <2>1, <2>2, <2>3
<1>9. ASSUME NEW l \in Locations,
             \/ \E n \in Quantities : Intake(l, n)
             \/ \E d \in Discrepancies : Adjust(l, d) \/ CountStock(l, d)
             \/ \E approved \in BOOLEAN : ResolveCount(l, approved)
      PROVE  MovesLegally(o)
  BY <1>1, <1>9 DEF Intake, Adjust, CountStock, ResolveCount
<1>10. CASE UNCHANGED vars
  BY <1>1, <1>10 DEF vars
<1> QED
  BY <1>2, <1>3, <1>4, <1>5, <1>6, <1>7, <1>8, <1>9, <1>10 DEF Next, Step

\* Under every interleaving, a status changes only along an edge of the status
\* machine, back to where a failing request found it, or to DELETED by a
\* dual-approved deletion: no read made stale by another request slips through.
THEOREM StatusLegal == Spec => StatusMovesLegally
<1>1. IInv /\ [Next]_vars => \A o \in Orders : MovesLegally(o)
  BY StatusStep
<1> QED
  BY <1>1, Invariance, PTL DEF Spec, StatusMovesLegally

------------------------------------------------------------------------------
(***************************************************************************)
(* Sums over the shelves.                                                  *)
(***************************************************************************)

LEMMA SumOfNaturals ==
    ASSUME NEW S, IsFiniteSet(S), NEW f \in [S -> Nat]
    PROVE  Sum(f) \in Nat
<1>1. Sum(f) = SumFunctionOnSet(f, S)
  BY DEF Sum, SumFunction
<1> QED
  BY <1>1, SumSigns

\* g is f with d more at x.
GainsAt(f, S, x, d, g) ==
    /\ IsFiniteSet(S) /\ f \in [S -> Int] /\ x \in S /\ d \in Int
    /\ g = [f EXCEPT ![x] = f[x] + d]

LEMMA SumAfterOne ==
    ASSUME NEW S, NEW f, NEW x, NEW d, NEW g, GainsAt(f, S, x, d, g)
    PROVE  Sum(f) \in Int /\ Sum(g) = Sum(f) + d
<1>1. /\ Sum(f) = SumFunctionOnSet(f, S) /\ Sum(g) = SumFunctionOnSet(g, S)
      /\ g[x] = f[x] + d /\ f[x] \in Int /\ x \in S /\ d \in Int
  BY DEF GainsAt, Sum, SumFunction
<1>2. DiffersAt(f, S, g, S, x)
  BY DEF GainsAt, DiffersAt
<1>3. /\ SumFunctionOnSet(f, S) \in Int
      /\ SumFunctionOnSet(g, S) = SumFunctionOnSet(f, S) - f[x] + g[x]
  BY <1>1, <1>2, SumAtOne
<1> QED
  BY <1>1, <1>3

\* g is f with what h says more everywhere.
GainsAll(f, S, h, g) ==
    /\ IsFiniteSet(S) /\ f \in [S -> Int] /\ h \in [S -> Int]
    /\ g = [x \in S |-> f[x] + h[x]]

LEMMA SumAfterAll ==
    ASSUME NEW S, NEW f, NEW h, NEW g, GainsAll(f, S, h, g)
    PROVE  Sum(f) \in Int /\ Sum(h) \in Int /\ Sum(g) = Sum(f) + Sum(h)
<1> USE DEF GainsAll
<1>1. /\ Sum(f) = SumFunctionOnSet(f, S) /\ Sum(g) = SumFunctionOnSet(g, S)
      /\ Sum(h) = SumFunctionOnSet(h, S)
  BY DEF Sum, SumFunction
<1>2. \A x \in S : f[x] \in Int /\ h[x] \in Int /\ g[x] = f[x] + h[x]
  OBVIOUS
<1>3. SumFunctionOnSet(f, S) \in Int /\ SumFunctionOnSet(h, S) \in Int
  BY <1>2, SumType
<1>4. SumFunctionOnSet(g, S) = SumFunctionOnSet(f, S) + SumFunctionOnSet(h, S)
  BY <1>2, SumPlus
<1> QED
  BY <1>1, <1>3, <1>4

------------------------------------------------------------------------------
(***************************************************************************)
(* What a step can do to shelves, batches and units out with customers.    *)
(***************************************************************************)

Shelved == [l \in Locations |-> level[l].stock]

NoneMoved == Shelved' = Shelved /\ UNCHANGED <<batches, outstanding>>

\* n units leave shelf l, m of them to the customer of order o.
Shipped(o, l, n, m) ==
    /\ o \in Orders /\ l \in Locations /\ n \in Nat /\ m \in Nat /\ m <= n
    /\ batches.remaining >= n
    /\ Shelved' = [Shelved EXCEPT ![l] = Shelved[l] + (-n)]
    /\ batches' = [batches EXCEPT !.remaining = batches.remaining - n]
    /\ outstanding' = [outstanding EXCEPT ![o] = [outstanding[o] EXCEPT ![l] = outstanding[o][l] + m]]

\* A reversal gives back what it is owed.
GivenBack(o, owed) ==
    /\ o \in Orders /\ owed \in [Locations -> Nat]
    /\ Shelved' = [l \in Locations |-> Shelved[l] + owed[l]]
    /\ batches' = [batches EXCEPT !.remaining = batches.remaining + Back(owed)]
    /\ outstanding' = [outstanding EXCEPT ![o] = [l \in Locations |-> outstanding[o][l] - owed[l]]]

\* No manual adjustment, intake or count: units move for orders only.
Calm == left.adjustments = 0 /\ \A l \in Locations : count[l] = NoCount

LEMMA ShelvedType == IInv => Shelved \in [Locations -> Nat]
  BY DEF IInv, TypeOK, StockTypeOK, LevelType, Shelved

LEMMA ReservedMovesNone ==
    ASSUME IInv, NEW l, NEW v,
           level' = [level EXCEPT ![l].reserved = v], UNCHANGED <<batches, outstanding>>
    PROVE  NoneMoved
<1>1. \A m \in Locations : level'[m].stock = level[m].stock
  BY DEF IInv, TypeOK, StockTypeOK, LevelType
<1> QED
  BY <1>1 DEF NoneMoved, Shelved

LEMMA StockMovesNone ==
    ASSUME UNCHANGED level, UNCHANGED <<batches, outstanding>>
    PROVE  NoneMoved
  BY DEF NoneMoved, Shelved

LEMMA ShipMoves ==
    ASSUME IInv, NEW r \in Requests, NEW o \in Orders, NEW l, NEW n \in Nat, NEW release, NEW m \in Nat,
           m <= n, CanShip(l, n), l \in Locations \cup {NoLoc}, ShipUnits(r, l, n, release),
           outstanding' = [outstanding EXCEPT ![o] = [outstanding[o] EXCEPT ![l] = outstanding[o][l] + m]]
    PROVE  Shipped(o, l, n, m)
<1>1. /\ l \in Locations /\ batches.remaining >= n
      /\ batches' = [batches EXCEPT !.remaining = batches.remaining - n]
  BY DEF CanShip, ShipUnits, Consume
<1>2. level \in [Locations -> LevelType]
  BY DEF IInv, TypeOK, StockTypeOK
<1>3. /\ level'[l].stock = level[l].stock - n
      /\ \A k \in Locations \ {l} : level'[k] = level[k]
  BY <1>1, <1>2 DEF ShipUnits, LevelType
<1>4. level[l].stock - n = level[l].stock + (-n)
  BY <1>1, <1>2 DEF LevelType
<1>5. Shelved' = [Shelved EXCEPT ![l] = Shelved[l] + (-n)]
  BY <1>1, <1>3, <1>4 DEF Shelved
<1> QED
  BY <1>1, <1>5 DEF Shipped

LEMMA RestoreMoves ==
    ASSUME IInv, NEW o \in Orders, NEW owed \in [Locations -> Nat], Restore(o, owed)
    PROVE  GivenBack(o, owed)
<1>1. \A l \in Locations : level'[l].stock = level[l].stock + owed[l]
  BY DEF Restore, IInv, TypeOK, StockTypeOK, LevelType
<1>2. Shelved' = [l \in Locations |-> Shelved[l] + owed[l]]
  BY <1>1 DEF Shelved
<1> QED
  BY <1>2 DEF Restore, GivenBack

\* Effects move units as deliveries, write-offs and reversals only.
LEMMA EffectMoves ==
    ASSUME IInv, NEW r \in Requests, Effect(r)
    PROVE  \/ NoneMoved
           \/ /\ Deliver(r) \/ DeliverPart(r) \/ WriteOff(r)
              /\ \E o \in Orders, l \in Locations, n, m \in Nat : Shipped(o, l, n, m)
           \/ ReverseWrite(r) /\ GivenBack(req[r].o, req[r].owed)
<1>0. ASSUME NEW e, Running(r, e)
      PROVE  /\ req[r] \in RequestType /\ req[r].o \in Orders /\ QtyOf(r) \in Nat
             /\ outstanding \in [Orders -> [Locations -> Int]]
             /\ req[r].loc \in Locations \cup {NoLoc}
  BY <1>0, EffectFacts DEF StockTypeOK, RequestType
<1>1. CASE LogReservation(r) \/ ReverseRead(r)
  BY <1>1, StockMovesNone DEF LogReservation, ReverseRead, stock
<1>2. ASSUME UNCHANGED stock \/ Warn(r) PROVE NoneMoved
  BY <1>2, StockMovesNone DEF stock, Warn
<1>3. ASSUME ReserveUnits(r) PROVE NoneMoved
  BY <1>3, ReservedMovesNone DEF ReserveUnits
<1>4. ASSUME NEW l, ReleaseUnits(r, l) PROVE NoneMoved
  BY <1>4, ReservedMovesNone DEF ReleaseUnits
<1>5. CASE Reserve(r) \/ ReReserve(r) \/ ReleaseQuietly(r) \/ ReleasePrevious(r)
  BY <1>2, <1>3, <1>4, <1>5 DEF Reserve, ReReserve, ReleaseQuietly, ReleasePrevious
<1>6. CASE Deliver(r)
  <2>1. PICK l, n, o : l = req[r].loc /\ n = QtyOf(r) /\ o = req[r].o
    OBVIOUS
  <2>2. n \in Nat /\ o \in Orders /\ l \in Locations \cup {NoLoc} /\ n <= n
    BY <1>0, <1>6, <2>1 DEF Deliver
  <2>3. CASE CanShip(l, n)
    <3>1. /\ ShipUnits(r, l, n, n)
          /\ outstanding' = [outstanding EXCEPT ![o] = [outstanding[o] EXCEPT ![l] = outstanding[o][l] + n]]
      BY <1>6, <2>1, <2>3 DEF Deliver
    <3>2. Shipped(o, l, n, n)
      BY <2>2, <2>3, <3>1, ShipMoves
    <3> QED
      BY <1>6, <2>2, <3>2 DEF Shipped
  <2>4. CASE ~CanShip(l, n)
    BY <1>2, <1>6, <2>1, <2>4 DEF Deliver
  <2> QED
    BY <2>3, <2>4
<1>7. CASE DeliverPart(r)
  <2>1. PICK l, n, o : l = req[r].loc /\ n = Lesser(req[r].n, QtyOf(r)) /\ o = req[r].o
    OBVIOUS
  <2>2. n \in Nat /\ o \in Orders /\ l \in Locations \cup {NoLoc} /\ n <= n
    BY <1>0, <1>7, <2>1 DEF DeliverPart, Lesser, RequestType
  <2>3. CASE CanShipPart(l, n)
    <3>1. /\ ShipUnits(r, l, n, QtyOf(r)) /\ CanShip(l, n)
          /\ outstanding' = [outstanding EXCEPT ![o] = [outstanding[o] EXCEPT ![l] = outstanding[o][l] + n]]
      BY <1>7, <2>1, <2>3 DEF DeliverPart, CanShipPart
    <3>2. Shipped(o, l, n, n)
      BY <2>2, <3>1, ShipMoves
    <3> QED
      BY <1>7, <2>2, <3>2 DEF Shipped
  <2>4. CASE ~CanShipPart(l, n)
    BY <1>2, <1>7, <2>1, <2>4 DEF DeliverPart
  <2> QED
    BY <2>3, <2>4
<1>8. CASE WriteOff(r)
  <2>1. PICK l, n, o : l = req[r].loc /\ n = QtyOf(r) /\ o = req[r].o
    OBVIOUS
  <2>2. n \in Nat /\ o \in Orders /\ l \in Locations \cup {NoLoc} /\ 0 <= n /\ 0 \in Nat
    BY <1>0, <1>8, <2>1 DEF WriteOff
  <2>3. CASE CanShip(l, n)
    <3>1. ShipUnits(r, l, n, 0) /\ UNCHANGED outstanding
      BY <1>8, <2>1, <2>3 DEF WriteOff
    <3>2. outstanding' = [outstanding EXCEPT ![o] = [outstanding[o] EXCEPT ![l] = outstanding[o][l] + 0]]
      <4>1. l \in Locations /\ outstanding \in [Orders -> [Locations -> Int]]
        BY <1>0, <1>8, <2>2, <2>3 DEF CanShip, WriteOff
      <4>2. outstanding[o] \in [Locations -> Int] /\ outstanding[o][l] + 0 = outstanding[o][l]
        BY <2>2, <4>1
      <4> QED
        BY <3>1, <4>1, <4>2
    <3>3. Shipped(o, l, n, 0)
      BY <2>2, <2>3, <3>1, <3>2, ShipMoves
    <3> QED
      BY <1>8, <2>2, <3>3 DEF Shipped
  <2>4. CASE ~CanShip(l, n)
    BY <1>2, <1>8, <2>1, <2>4 DEF WriteOff
  <2> QED
    BY <2>3, <2>4
<1>9. CASE ReverseWrite(r)
  BY <1>0, <1>9, RestoreMoves DEF ReverseWrite, RequestType
<1> QED
  BY <1>1, <1>5, <1>6, <1>7, <1>8, <1>9 DEF Effect

\* Every step, while nobody counts, adjusts or takes in.
LEMMA StepMoves ==
    ASSUME IInv, Calm, [Next]_vars
    PROVE  \/ NoneMoved
           \/ \E r \in Requests :
                 \/ /\ Deliver(r) \/ DeliverPart(r) \/ WriteOff(r)
                    /\ \E o \in Orders, l \in Locations, n, m \in Nat : Shipped(o, l, n, m)
                 \/ (ReverseWrite(r) \/ DeleteCommit(r)) /\ GivenBack(req[r].o, req[r].owed)
<1>1. ASSUME NEW r \in Requests,
             Gate(r) \/ Commit(r) \/ Revert(r) \/ DeleteLock(r) \/ Crash(r)
      PROVE  NoneMoved
  BY <1>1, StockMovesNone DEF Gate, Commit, Revert, DeleteLock, Crash, stock
<1>2. ASSUME NEW r \in Requests, EditCommit(r) PROVE NoneMoved
  <2>1. UNCHANGED <<batches, outstanding>>
    BY <1>2 DEF EditCommit
  <2>2. UNCHANGED level \/ \E v : level' = [level EXCEPT ![req[r].loc].reserved = v]
    BY <1>2 DEF EditCommit
  <2> QED
    BY <2>1, <2>2, StockMovesNone, ReservedMovesNone
<1>3. ASSUME NEW r \in Requests, DeleteCommit(r) PROVE GivenBack(req[r].o, req[r].owed)
  BY <1>3, InFlightRequest, RestoreMoves DEF DeleteCommit, RequestType
<1>4. ASSUME NEW r \in Requests, NEW e, EffectFails(r, e) PROVE NoneMoved
  BY <1>4, StockMovesNone DEF EffectFails, Warn, stock
<1>5. ASSUME NEW r \in Requests, NEW o \in Orders,
             \/ \E to \in Targets, l \in Locations \cup {NoLoc}, hold \in BOOLEAN,
                   n \in 0 .. MaxQty : Read(r, o, to, l, hold, n)
             \/ \E n \in Quantities : EditRead(r, o, n)
             \/ DeleteRead(r, o)
      PROVE  NoneMoved
  BY <1>5, StockMovesNone DEF Read, EditRead, DeleteRead, stock
<1>6. ASSUME NEW o \in Orders, ResolveRetrack(o) PROVE NoneMoved
  BY <1>6, StockMovesNone DEF ResolveRetrack, stock
<1>7. /\ \A l \in Locations, n \in Quantities : ~Intake(l, n)
      /\ \A l \in Locations, d \in Discrepancies : ~Adjust(l, d) /\ ~CountStock(l, d)
      /\ \A l \in Locations, approved \in BOOLEAN : ~ResolveCount(l, approved)
  BY DEF Calm, Intake, Adjust, CountStock, ResolveCount, Spend
<1>8. CASE UNCHANGED vars
  BY <1>8, StockMovesNone DEF vars
<1> QED
  BY <1>1, <1>2, <1>3, <1>4, <1>5, <1>6, <1>7, <1>8, EffectMoves DEF Next, Step

LEMMA CalmKept == ASSUME IInv, Calm, [Next]_vars PROVE Calm'
<1>1. /\ \A l \in Locations, n \in Quantities : ~Intake(l, n)
      /\ \A l \in Locations, d \in Discrepancies : ~Adjust(l, d) /\ ~CountStock(l, d)
      /\ \A l \in Locations, approved \in BOOLEAN : ~ResolveCount(l, approved)
  BY DEF Calm, Intake, Adjust, CountStock, ResolveCount, Spend
<1>2. ASSUME UNCHANGED count, left'.adjustments = left.adjustments PROVE Calm'
  BY <1>2 DEF Calm
<1>3. ASSUME NEW r \in Requests, Crash(r) \/ \E e : EffectFails(r, e) PROVE Calm'
  BY <1>3 DEF Calm, Crash, EffectFails, Warn, stock, IInv, TypeOK, LeftType
<1>4. ASSUME NEW r \in Requests, Step(r)
      PROVE  UNCHANGED count /\ left'.adjustments = left.adjustments
  <2>1. CASE Effect(r)
    <3>1. left \in LeftType
      BY DEF IInv, TypeOK
    <3>2. UNCHANGED count
      BY <2>1 DEF Effect, LogReservation, Reserve, ReReserve, ReleaseQuietly, ReleasePrevious,
         Deliver, DeliverPart, WriteOff, ReverseRead, ReverseWrite, ReserveUnits, ReleaseUnits,
         ShipUnits, Restore, Warn, stock
    <3>3. left' = left \/ \E e : Figure(r, e)
      BY <2>1 DEF Effect, LogReservation, Reserve, ReReserve, ReleaseQuietly, ReleasePrevious,
         Deliver, DeliverPart, WriteOff, ReverseRead, ReverseWrite
    <3> QED
      BY <3>1, <3>2, <3>3, FigureLeft
  <2> QED
    BY <1>4, <2>1 DEF Step, Gate, Commit, Revert, EditCommit, DeleteLock, DeleteCommit, Restore, stock
<1>5. ASSUME NEW r \in Requests, NEW o \in Orders,
             \/ \E to \in Targets, l \in Locations \cup {NoLoc}, hold \in BOOLEAN,
                   n \in 0 .. MaxQty : Read(r, o, to, l, hold, n)
             \/ \E n \in Quantities : EditRead(r, o, n)
             \/ DeleteRead(r, o)
      PROVE  UNCHANGED count /\ left' = left
  BY <1>5 DEF Read, EditRead, DeleteRead, stock
<1>6. ASSUME NEW o \in Orders, ResolveRetrack(o) PROVE UNCHANGED count /\ left' = left
  BY <1>6 DEF ResolveRetrack, stock
<1>7. CASE UNCHANGED vars
  BY <1>2, <1>7 DEF vars
<1> QED
  BY <1>1, <1>2, <1>3, <1>4, <1>5, <1>6, <1>7 DEF Next

LEMMA CalmFromTheStart == Adjustments = 0 /\ Init => Calm
  BY DEF Init, Calm

LEMMA CoverStep ==
    ASSUME IInv, IInv', Calm, ShelvesCoverBatches, [Next]_vars
    PROVE  ShelvesCoverBatches'
<1>1. PICK f, g : f = Shelved /\ g = Shelved'
  OBVIOUS
<1>2. /\ f \in [Locations -> Nat] /\ g \in [Locations -> Nat]
      /\ f \in [Locations -> Int] /\ Sum(f) \in Nat /\ Sum(f) >= batches.remaining
      /\ batches \in [remaining : Nat, received : Nat]
  <2>1. (IInv => Shelved \in [Locations -> Nat])'
    BY ShelvedType, PTL
  <2>2. f \in [Locations -> Nat] /\ g \in [Locations -> Nat]
    BY <1>1, <2>1, ShelvedType
  <2>3. Sum(f) \in Nat
    BY <2>2, FinitenessAssumption, SumOfNaturals
  <2> QED
    BY <1>1, <2>2, <2>3 DEF ShelvesCoverBatches, Shelved, IInv, TypeOK, StockTypeOK
<1>3. SUFFICES Sum(g) >= batches'.remaining
  BY <1>1 DEF ShelvesCoverBatches, Shelved
<1>4. CASE NoneMoved
  BY <1>1, <1>2, <1>4 DEF NoneMoved
<1>5. ASSUME NEW o, NEW l, NEW n, NEW m, Shipped(o, l, n, m)
      PROVE  Sum(g) >= batches'.remaining
  <2>1. /\ l \in Locations /\ n \in Nat /\ -n \in Int /\ g = [f EXCEPT ![l] = f[l] + (-n)]
        /\ batches'.remaining = batches.remaining - n
    BY <1>1, <1>2, <1>5 DEF Shipped
  <2>2. Sum(g) = Sum(f) + (-n)
    <3>1. GainsAt(f, Locations, l, -n, g)
      BY <1>2, <2>1, FinitenessAssumption DEF GainsAt
    <3> QED
      BY <3>1, SumAfterOne
  <2> QED
    BY <1>2, <2>1, <2>2
<1>6. ASSUME NEW o, NEW owed, GivenBack(o, owed)
      PROVE  Sum(g) >= batches'.remaining
  <2>1. /\ owed \in [Locations -> Nat] /\ owed \in [Locations -> Int]
        /\ g = [l \in Locations |-> f[l] + owed[l]]
        /\ batches'.remaining = batches.remaining + Back(owed)
    BY <1>1, <1>2, <1>6 DEF GivenBack
  <2>2. Sum(owed) \in Nat
    BY <2>1, FinitenessAssumption, SumOfNaturals
  <2>3. Sum(g) = Sum(f) + Sum(owed)
    <3>1. GainsAll(f, Locations, owed, g)
      BY <1>2, <2>1, FinitenessAssumption DEF GainsAll
    <3> QED
      BY <3>1, SumAfterAll
  <2>4. Back(owed) \in Int /\ Back(owed) <= Sum(owed)
    BY <1>2, <2>2 DEF Back, Lesser
  <2> QED
    BY <1>2, <2>1, <2>2, <2>3, <2>4
<1> QED
  BY <1>4, <1>5, <1>6, StepMoves

\* While units move for orders only, the batches never hold more of them than the shelves
\* do, whatever number of requests interleaves, fails or crashes.
THEOREM StockCovered == Adjustments = 0 => (Spec => []ShelvesCoverBatches)
<1> SUFFICES ASSUME Adjustments = 0 PROVE Spec => []ShelvesCoverBatches
  OBVIOUS
<1>1. Init => Calm /\ ShelvesCoverBatches
  <2> SUFFICES ASSUME Init PROVE Calm /\ ShelvesCoverBatches
    OBVIOUS
  <2>1. [l \in Locations |-> level[l].stock] = InitialStock
    BY StockAssumption DEF Init
  <2>2. Calm
    BY CalmFromTheStart
  <2>3. Sum(InitialStock) >= batches.remaining
    BY StockAssumption DEF Init
  <2> QED
    BY <2>1, <2>2, <2>3 DEF ShelvesCoverBatches
<1>2. IInv /\ IInv' /\ Calm /\ ShelvesCoverBatches /\ [Next]_vars
        => Calm' /\ ShelvesCoverBatches'
  BY CalmKept, CoverStep
<1> QED
  BY <1>1, <1>2, Invariance, PTL DEF Spec
------------------------------------------------------------------------------
(***************************************************************************)
(* One request at a time.  Between its compare-and-set and its last effect *)
(* a request knows what its status change still owes to the stock; nobody  *)
(* else moves units meanwhile, so status and stock come back into step.    *)
(***************************************************************************)

OneDesk == \A q, r \in Requests : q = r

Underway(r) == req[r].pc \in {"effects", "revert"}

\* The effects a request from -> to can still have before it.
Due(todo, from, to) ==
    /\ "reverseRead" \in todo => "reverseWrite" \in todo
    /\ "reverseWrite" \in todo => from = "DELIVERED"
    /\ "deliver" \in todo => todo \subseteq {"releasePrevious", "deliver"}
    /\ "deliverPart" \in todo => todo = {"deliverPart"}
    /\ from \in ShippedStatuses =>
         /\ from = "DELIVERED" /\ to \notin ShippedStatuses
         /\ todo \subseteq {"reverseRead", "reverseWrite", "rereserve", "logReservation", "reserve"}
    /\ "deliver" \in todo \/ "deliverPart" \in todo <=>
         from \notin ShippedStatuses /\ to \in ShippedStatuses
    /\ "reserve" \in todo => to = "AGENT_ASSIGNED" /\ "rereserve" \notin todo

Dues == \A r \in Requests : req[r].pc = "effects" => Due(req[r].todo, req[r].from, req[r].to)

\* Orders ask for at least one unit and at most MaxQty.
QtyBounded ==
    /\ \A o \in Orders : order[o].qty \in Quantities
    /\ \A r \in Requests : req[r].pc = "edit" => req[r].n \in Quantities

LeftBounded ==
    left.crashes <= Crashes /\ left.failures <= Failures /\ left.figures <= Figures

LEMMA DueAtCommit ==
    ASSUME NEW from, NEW to, IsTransitionAllowed(from, to), NEW prev, NEW loc,
           NEW todo, todo = Effects(from, to, prev, loc)
    PROVE  /\ todo # {} => Due(todo, from, to)
           /\ todo = {} => (from \in ShippedStatuses <=> to \in ShippedStatuses)
           /\ "reverseWrite" \in todo => "reverseRead" \in todo
           /\ from \in ShippedStatuses /\ todo # {} => "reverseWrite" \in todo
<1>1. from \in Statuses /\ to \in Statuses
  BY TransitionsStayInStatuses DEF IsTransitionAllowed
<1>2. /\ "reverseRead" \in todo <=> Undoes(from, to)
      /\ "reverseWrite" \in todo <=> Undoes(from, to)
      /\ "deliver" \in todo <=> to = "DELIVERED" /\ ~IsRetrackSideEffect(from, to)
      /\ "deliverPart" \in todo <=> to = "PARTIALLY_DELIVERED"
      /\ "reserve" \in todo <=> to = "AGENT_ASSIGNED"
      /\ "logReservation" \in todo <=> to = "CONFIRMED"
      /\ "writeOff" \in todo => to = "WRITTEN_OFF"
      /\ "rereserve" \in todo => Undoes(from, to) /\ to \in {"DISPATCHED", "IN_TRANSIT"}
      /\ "releaseQuietly" \in todo => IsRetrackSideEffect(from, to) /\ from \in ReservedStatuses
      /\ "releasePrevious" \in todo => MovesAway(from, to, prev, loc)
      /\ todo \subseteq EffectNames
  BY DEF Effects, EffectNames, EffectRank
<1>3. EffectNames = {"reverseRead", "reverseWrite", "rereserve", "releaseQuietly",
                     "logReservation", "releasePrevious", "reserve", "deliver",
                     "deliverPart", "writeOff"}
  BY DEF EffectNames, EffectRank
<1>4. CASE from \in ShippedStatuses
  <2>1. \/ from = "DELIVERED" /\ to \in {"REMITTED", "IN_TRANSIT", "DISPATCHED", "AGENT_ASSIGNED", "CONFIRMED"}
        \/ from = "PARTIALLY_DELIVERED" /\ to = "REMITTED"
        \/ from = "REMITTED" /\ to = "DELIVERED"
    BY <1>4 DEF ShippedStatuses, IsTransitionAllowed, AllowedTransitions, ForwardTransitions,
                DeleteRestoreTransitions, RetrackTransitions
  <2>2. IsRetrackSideEffect(from, to) <=> to # "REMITTED"
    BY <1>1, <2>1 DEF IsRetrackSideEffect, LifecyclePos, PositionOf, Statuses
  <2>3. CASE to \in {"REMITTED", "DELIVERED"}
    <3>1. todo = {}
      BY <1>2, <1>3, <2>1, <2>2, <2>3 DEF Undoes, MovesAway, ReservedStatuses
    <3> QED
      BY <2>1, <2>3, <3>1 DEF ShippedStatuses
  <2>4. CASE to \notin {"REMITTED", "DELIVERED"}
    <3>1. Undoes(from, to) /\ to \notin ShippedStatuses /\ from = "DELIVERED"
      BY <2>1, <2>2, <2>4 DEF Undoes, ShippedStatuses
    <3>2. todo \subseteq {"reverseRead", "reverseWrite", "rereserve", "logReservation", "reserve"}
      BY <1>2, <1>3, <2>1, <2>4, <3>1 DEF MovesAway, ReservedStatuses, ShippedStatuses
    <3> QED
      BY <1>2, <1>4, <3>1, <3>2 DEF Due
  <2> QED
    BY <2>3, <2>4
<1>5. CASE from \notin ShippedStatuses /\ to \in ShippedStatuses
  <2>1. \/ from \in {"AGENT_ASSIGNED", "IN_TRANSIT"} /\ to = "DELIVERED"
        \/ from = "IN_TRANSIT" /\ to = "PARTIALLY_DELIVERED"
    BY <1>5 DEF ShippedStatuses, IsTransitionAllowed, AllowedTransitions, ForwardTransitions,
                DeleteRestoreTransitions, RetrackTransitions
  <2>2. ~IsRetrackSideEffect(from, to)
    BY <1>1, <2>1 DEF IsRetrackSideEffect, LifecyclePos, PositionOf, Statuses
  <2>3. CASE to = "DELIVERED"
    <3>1. "deliver" \in todo /\ todo \subseteq {"releasePrevious", "deliver"}
      BY <1>2, <1>3, <2>2, <2>3 DEF Undoes
    <3> QED
      BY <1>5, <3>1 DEF Due
  <2>4. CASE to = "PARTIALLY_DELIVERED"
    <3>1. todo = {"deliverPart"}
      BY <1>2, <1>3, <2>1, <2>2, <2>4 DEF Undoes, MovesAway
    <3> QED
      BY <1>5, <3>1 DEF Due
  <2> QED
    BY <2>1, <2>3, <2>4
<1>6. CASE from \notin ShippedStatuses /\ to \notin ShippedStatuses
  <2>1. ~Undoes(from, to) /\ "deliver" \notin todo /\ "deliverPart" \notin todo
    BY <1>2, <1>6 DEF Undoes, ShippedStatuses
  <2> QED
    BY <1>2, <1>6, <2>1 DEF Due
<1> QED
  BY <1>4, <1>5, <1>6

\* Running the first effect that is due leaves the rest due.
LEMMA DueAfter ==
    ASSUME NEW r \in Requests, NEW e, Running(r, e), NEW todo, todo = req[r].todo,
           NEW from, NEW to, Due(todo, from, to), todo \subseteq EffectNames
    PROVE  /\ e \in todo
           /\ todo # {e} => Due(todo \ {e}, from, to)
           /\ e \in {"deliver", "deliverPart"} => todo = {e}
           /\ e \notin {"reverseRead", "reverseWrite"} =>
                 "reverseRead" \notin todo /\ "reverseWrite" \notin todo
           /\ e = "reverseWrite" => "reverseRead" \notin todo
<1>1. e \in todo /\ \A f \in todo : EffectRank[e] <= EffectRank[f]
  BY DEF Running, Current
<1>2. EffectNames = {"reverseRead", "reverseWrite", "rereserve", "releaseQuietly",
                     "logReservation", "releasePrevious", "reserve", "deliver",
                     "deliverPart", "writeOff"}
  BY DEF EffectNames, EffectRank
<1>3. e \notin {"reverseRead", "reverseWrite"} => "reverseRead" \notin todo /\ "reverseWrite" \notin todo
  <2> SUFFICES ASSUME e \notin {"reverseRead", "reverseWrite"}
               PROVE  "reverseRead" \notin todo /\ "reverseWrite" \notin todo
    OBVIOUS
  <2>1. /\ EffectRank[e] \in Int /\ EffectRank[e] > 2
        /\ EffectRank["reverseRead"] = 1 /\ EffectRank["reverseWrite"] = 2
    BY <1>1, <1>2 DEF EffectRank
  <2> QED
    BY <1>1, <2>1
<1>4. e = "reverseWrite" => "reverseRead" \notin todo
  BY <1>1 DEF EffectRank
<1>5. e \in {"deliver", "deliverPart"} => todo = {e}
  <2>1. CASE e = "deliver"
    <3>1. "releasePrevious" \notin todo
      BY <1>1, <2>1 DEF EffectRank
    <3> QED
      BY <1>1, <2>1, <3>1 DEF Due
  <2>2. CASE e = "deliverPart"
    BY <1>1, <2>2 DEF Due
  <2> QED
    BY <2>1, <2>2
<1>6. todo # {e} => Due(todo \ {e}, from, to)
  BY <1>1, <1>3, <1>4, <1>5 DEF Due
<1> QED
  BY <1>1, <1>3, <1>4, <1>5, <1>6

\* Every effect is the first one due; the request goes on, or throws.
LEMMA EffectTurns ==
    ASSUME NEW r \in Requests, Effect(r)
    PROVE  \/ ReverseRead(r)
           \/ \E e \in EffectNames \ {"reverseRead"} : Running(r, e) /\ (Done(r, e) \/ Throw(r))
<1>1. EffectNames = {"reverseRead", "reverseWrite", "rereserve", "releaseQuietly",
                     "logReservation", "releasePrevious", "reserve", "deliver",
                     "deliverPart", "writeOff"}
  BY DEF EffectNames, EffectRank
<1> QED
  BY <1>1 DEF Effect, LogReservation, Reserve, ReReserve, ReleaseQuietly, ReleasePrevious,
     Deliver, DeliverPart, WriteOff, ReverseWrite, Figure

LEMMA DuesKept == ASSUME IInv, Dues, [Next]_vars PROVE Dues'
<1>1. ASSUME UNCHANGED req PROVE Dues'
  BY <1>1 DEF Dues
<1>2. ASSUME NEW r \in Requests, NEW q, req' = [req EXCEPT ![r] = q],
             q.pc = "effects" => Due(q.todo, q.from, q.to)
      PROVE  Dues'
  BY <1>2 DEF Dues, IInv, TypeOK
<1>3. ASSUME NEW r \in Requests, Throw(r) \/ req' = [req EXCEPT ![r] = IdleRequest]
      PROVE  Dues'
  <2>1. req[r] \in RequestType /\ req \in [Requests -> RequestType]
    BY DEF IInv, TypeOK
  <2>2. CASE Throw(r)
    <3>1. req'[r].pc = "revert" /\ \A s \in Requests \ {r} : req'[s] = req[s]
      BY <2>1, <2>2 DEF Throw, RequestType
    <3> QED
      BY <3>1 DEF Dues
  <2>3. CASE req' = [req EXCEPT ![r] = IdleRequest]
    <3>1. IdleRequest.pc # "effects"
      BY DEF IdleRequest
    <3> QED
      BY <1>2, <2>3, <3>1
  <2> QED
    BY <1>3, <2>2, <2>3
<1>4. ASSUME NEW r \in Requests, NEW e, Running(r, e)
      PROVE  /\ req[r] \in RequestType /\ Due(req[r].todo, req[r].from, req[r].to)
             /\ req[r].todo \subseteq EffectNames
             /\ req[r].todo # {e} => /\ Due(req[r].todo \ {e}, req[r].from, req[r].to)
                                     /\ After(r, e).todo = req[r].todo \ {e}
                                     /\ After(r, e).from = req[r].from
                                     /\ After(r, e).to = req[r].to /\ After(r, e).pc = "effects"
             /\ req[r].todo = {e} => After(r, e) = IdleRequest
             /\ After(r, e).pc = "effects" =>
                  Due(After(r, e).todo, After(r, e).from, After(r, e).to)
  <2>1. req[r] \in RequestType /\ Due(req[r].todo, req[r].from, req[r].to)
    BY <1>4, EffectFacts DEF Dues, Running
  <2>2. req[r].todo \subseteq EffectNames /\ req[r].pc = "effects"
    BY <1>4, <2>1 DEF RequestType, Running
  <2>3. req[r].todo # {e} => Due(req[r].todo \ {e}, req[r].from, req[r].to)
    BY <1>4, <2>1, <2>2, DueAfter
  <2>4. IdleRequest.pc # "effects"
    BY DEF IdleRequest
  <2>5. req[r].todo # {e} => /\ After(r, e).todo = req[r].todo \ {e}
                             /\ After(r, e).from = req[r].from
                             /\ After(r, e).to = req[r].to /\ After(r, e).pc = "effects"
    BY <2>1, <2>2 DEF After, RequestType
  <2>6. req[r].todo = {e} => After(r, e) = IdleRequest
    BY DEF After
  <2> QED
    BY <2>1, <2>2, <2>3, <2>4, <2>5, <2>6
<1>5. ASSUME NEW r \in Requests, NEW e, Running(r, e), Done(r, e) \/ Throw(r)
      PROVE  Dues'
  <2>1. CASE Done(r, e)
    <3>1. req' = [req EXCEPT ![r] = After(r, e)]
      BY <2>1 DEF Done
    <3>2. After(r, e).pc = "effects" => Due(After(r, e).todo, After(r, e).from, After(r, e).to)
      BY <1>4, <1>5
    <3> QED
      BY <1>2, <3>1, <3>2
  <2>2. CASE Throw(r)
    BY <1>3, <2>2
  <2> QED
    BY <1>5, <2>1, <2>2
<1>6. ASSUME NEW r \in Requests, Gate(r)
      PROVE  Dues'
  BY <1>6 DEF Gate, IdleRequest, Dues, IInv, TypeOK, RequestType
<1>7. ASSUME NEW r \in Requests, Commit(r) PROVE Dues'
  <2>1. PICK q, a : a = req[r] /\ q = req'[r]
    OBVIOUS
  <2>2. a \in RequestType /\ IsTransitionAllowed(a.from, a.to) /\ req \in [Requests -> RequestType]
    BY <1>7, <2>1, InFlightRequest DEF Commit, IInv, TypeOK
  <2>3. PICK loc : loc = IF a.to = "AGENT_ASSIGNED" THEN a.loc ELSE order[a.o].loc
    OBVIOUS
  <2>4. PICK todo : todo = Effects(a.from, a.to, a.prev, loc)
    OBVIOUS
  <2>5. \/ req' = [req EXCEPT ![r] = IdleRequest]
        \/ /\ todo # {}
           /\ req' = [req EXCEPT ![r] = [a EXCEPT !.pc = "effects", !.loc = loc, !.todo = todo]]
    BY <1>7, <2>1, <2>3, <2>4, Zenon DEF Commit
  <2>6. todo # {} => Due(todo, a.from, a.to)
    BY <2>2, <2>4, DueAtCommit
  <2>7. CASE todo # {} /\ req' = [req EXCEPT ![r] = [a EXCEPT !.pc = "effects", !.loc = loc, !.todo = todo]]
    <3>1. PICK b : b = [a EXCEPT !.pc = "effects", !.loc = loc, !.todo = todo]
      OBVIOUS
    <3>2. b.todo = todo /\ b.from = a.from /\ b.to = a.to
      BY <2>2, <3>1 DEF RequestType
    <3> QED
      BY <1>2, <2>6, <2>7, <3>1, <3>2
  <2> QED
    BY <1>3, <2>5, <2>7
<1>8. ASSUME NEW r \in Requests, Effect(r) PROVE Dues'
  <2>1. CASE ReverseRead(r)
    <3>1. Running(r, "reverseRead")
      BY <2>1 DEF ReverseRead
    <3>2. PICK b, q : b = After(r, "reverseRead") /\ q = [b EXCEPT !.owed = Owed(req[r].o)]
      OBVIOUS
    <3>3. b \in RequestType
      BY <1>4, <3>1, <3>2, AfterType
    <3>4. q.pc = b.pc /\ q.todo = b.todo /\ q.from = b.from /\ q.to = b.to
      BY <3>2, <3>3 DEF RequestType
    <3>5. b.pc = "effects" => Due(b.todo, b.from, b.to)
      BY <1>4, <3>1, <3>2
    <3>6. req' = [req EXCEPT ![r] = q]
      BY <2>1, <3>2 DEF ReverseRead
    <3> QED
      BY <1>2, <3>4, <3>5, <3>6
  <2> QED
    BY <1>5, <1>8, <2>1, EffectTurns
<1>9. ASSUME NEW r \in Requests,
             Revert(r) \/ EditCommit(r) \/ DeleteLock(r) \/ DeleteCommit(r) \/ Crash(r)
      PROVE  Dues'
  <2>1. CASE DeleteLock(r)
    BY <2>1 DEF DeleteLock, Dues, IInv, TypeOK, RequestType
  <2> QED
    BY <1>3, <1>9, <2>1 DEF Revert, EditCommit, DeleteCommit, Crash
<1>10. ASSUME NEW r \in Requests, NEW e \in EffectNames, EffectFails(r, e) PROVE Dues'
  BY <1>5, <1>10 DEF EffectFails
<1>11. ASSUME NEW r \in Requests, NEW o \in Orders,
              \/ \E to \in Targets, l \in Locations \cup {NoLoc}, hold \in BOOLEAN,
                    n \in 0 .. MaxQty : Read(r, o, to, l, hold, n)
              \/ \E n \in Quantities : EditRead(r, o, n)
              \/ DeleteRead(r, o)
       PROVE  Dues'
  <2>1. ASSUME NEW to, NEW l, NEW hold, NEW n, Read(r, o, to, l, hold, n)
        PROVE  Dues'
    <3>1. PICK q : q = [IdleRequest EXCEPT
               !.pc = IF to \in {"CONFIRMED", "AGENT_ASSIGNED"} THEN "gate" ELSE "commit",
               !.o = o, !.from = order[o].status, !.to = to, !.prev = order[o].loc,
               !.loc = l, !.hold = hold, !.n = n]
      OBVIOUS
    <3>2. q.pc # "effects" /\ req' = [req EXCEPT ![r] = q]
      BY <2>1, <3>1 DEF Read, IdleRequest
    <3> QED
      BY <1>2, <3>2
  <2>2. ASSUME NEW n, EditRead(r, o, n)
        PROVE  Dues'
    <3>1. PICK q : q = [IdleRequest EXCEPT !.pc = "edit", !.o = o, !.from = order[o].status,
                                           !.loc = order[o].loc, !.n = n]
      OBVIOUS
    <3>2. q.pc # "effects" /\ req' = [req EXCEPT ![r] = q]
      BY <2>2, <3>1 DEF EditRead, IdleRequest
    <3> QED
      BY <1>2, <3>2
  <2>3. ASSUME DeleteRead(r, o)
        PROVE  Dues'
    <3>1. PICK q : q = [IdleRequest EXCEPT !.pc = "delete", !.o = o]
      OBVIOUS
    <3>2. q.pc # "effects" /\ req' = [req EXCEPT ![r] = q]
      BY <2>3, <3>1 DEF DeleteRead, IdleRequest
    <3> QED
      BY <1>2, <3>2
  <2> QED
    BY <1>11, <2>1, <2>2, <2>3
<1>12. ASSUME NEW o \in Orders, ResolveRetrack(o) PROVE Dues'
  BY <1>1, <1>12 DEF ResolveRetrack
<1>13. ASSUME NEW l \in Locations,
              \/ \E n \in Quantities : Intake(l, n)
              \/ \E d \in Discrepancies : Adjust(l, d) \/ CountStock(l, d)
              \/ \E approved \in BOOLEAN : ResolveCount(l, approved)
       PROVE  Dues'
  BY <1>1, <1>13 DEF Intake, Adjust, CountStock, ResolveCount
<1>14. CASE UNCHANGED vars
  BY <1>1, <1>14 DEF vars
<1> QED
  BY <1>6, <1>7, <1>8, <1>9, <1>10, <1>11, <1>12, <1>13, <1>14 DEF Next, Step
------------------------------------------------------------------------------
(***************************************************************************)
(* What a step can be to the order of a request and to the units it has    *)
(* out: every action is one of these.                                      *)
(***************************************************************************)

KeepsOrder(o) ==
    /\ order'[o].status = order[o].status /\ order'[o].loc = order[o].loc

FreeAfter(l) == level'[l].stock - level'[l].reserved

\* Nothing in flight moves.
Rests ==
    /\ UNCHANGED <<req, outstanding>> /\ \A o \in Orders : KeepsOrder(o) /\ order'[o].qty = order[o].qty
    /\ left'.crashes = left.crashes /\ left'.failures = left.failures
    /\ left'.figures = left.figures
    /\ Calm => UNCHANGED level

\* A request reads, passes a gate, takes a lock, conflicts or edits: no status changes.
Prepares(r) ==
    /\ UNCHANGED <<outstanding, left>> /\ \A o \in Orders : KeepsOrder(o)
    /\ ~Underway(r) /\ req'[r].pc \notin {"effects", "revert"}
    /\ QtyBounded => \A o \in Orders : order'[o].qty \in Quantities
    /\ req'[r].pc = "edit" => req'[r].n \in Quantities
    /\ req'[r].pc = "deleting" => req'[r].o \in Orders /\ req'[r].owed = Owed(req'[r].o)
    /\ req'[r].pc \in {"gate", "commit"} /\ req'[r].to = "AGENT_ASSIGNED" =>
         \/ req'[r].loc \in Locations /\ req[r].pc = "idle" /\ req'[r].pc = "gate"
         \/ /\ req[r].pc = "gate" /\ req[r].to = "AGENT_ASSIGNED" /\ req'[r].loc = req[r].loc
            /\ FreeAfter(req'[r].loc) >= order'[req'[r].o].qty

Dies(r) ==
    /\ UNCHANGED <<outstanding, order>> /\ req'[r].pc = "idle"
    /\ left'.crashes = left.crashes - 1 /\ left'.failures = left.failures
    /\ left'.figures = left.figures

\* The compare-and-set, with the effects todo to run.
Commits(r, todo, loc) ==
    /\ req[r].pc = "commit" /\ order[req[r].o].status = req[r].from
    /\ todo = Effects(req[r].from, req[r].to, req[r].prev, loc)
    /\ UNCHANGED <<outstanding, left, level>>
    /\ order'[req[r].o].status = req[r].to /\ order'[req[r].o].loc = loc
    /\ order'[req[r].o].qty = order[req[r].o].qty
    /\ req[r].to = "AGENT_ASSIGNED" => loc = req[r].loc
    /\ req[r].to # "AGENT_ASSIGNED" => loc = order[req[r].o].loc
    /\ \A o \in Orders \ {req[r].o} : order'[o] = order[o]
    /\ todo = {} => /\ req'[r].pc = "idle"
                    /\ req[r].from \in ShippedStatuses <=> req[r].to \in ShippedStatuses
    /\ todo # {} =>
         /\ req'[r].pc = "effects" /\ req'[r].o = req[r].o /\ req'[r].from = req[r].from
         /\ req'[r].to = req[r].to /\ req'[r].loc = loc /\ req'[r].todo = todo
         /\ req'[r].prev = req[r].prev
         /\ Due(todo, req[r].from, req[r].to)
    /\ "reverseWrite" \in todo => "reverseRead" \in todo
    /\ req[r].from \in ShippedStatuses /\ todo # {} => "reverseWrite" \in todo

Reverts(r) ==
    /\ req[r].pc = "revert" /\ req'[r].pc = "idle" /\ UNCHANGED <<outstanding, left, level>>
    /\ order'[req[r].o].status = req[r].from /\ order'[req[r].o].loc = order[req[r].o].loc
    /\ order'[req[r].o].qty = order[req[r].o].qty
    /\ \A o \in Orders \ {req[r].o} : order'[o] = order[o]

\* Effect e is done: the request goes on with the rest.
Goes(r, e) ==
    /\ Running(r, e) /\ UNCHANGED order
    /\ req[r].todo = {e} => req'[r].pc = "idle"
    /\ req[r].todo # {e} =>
         /\ req'[r].pc = "effects" /\ req'[r].todo = req[r].todo \ {e}
         /\ req'[r].o = req[r].o /\ req'[r].from = req[r].from /\ req'[r].to = req[r].to
         /\ req'[r].loc = req[r].loc
         /\ e # "reverseRead" => req'[r].owed = req[r].owed
         /\ e = "reverseRead" => req'[r].owed = Owed(req[r].o)

Works(r, e) ==
    /\ Goes(r, e) /\ e \notin {"deliver", "deliverPart", "reverseWrite"} /\ UNCHANGED outstanding
    /\ left'.crashes = left.crashes /\ left'.failures \in {left.failures, left.failures - 1}
    /\ left'.figures = left.figures
    /\ e \in {"reverseRead", "logReservation"} => UNCHANGED level

Throws(r, e) ==
    /\ Running(r, e) /\ UNCHANGED <<order, outstanding, level>>
    /\ req'[r].pc = "revert" /\ req'[r].o = req[r].o /\ req'[r].from = req[r].from
    /\ req'[r].to = req[r].to
    /\ left'.crashes = left.crashes /\ left'.figures = left.figures
    /\ \/ left'.failures = left.failures - 1
       \/ /\ left'.failures = left.failures
          /\ \/ e = "reserve" /\ ~CanReserve(r)
             \/ e \in {"releasePrevious", "deliver", "deliverPart", "writeOff"}

\* n units go out with the customer ...
GoesOut(r, n) ==
    /\ req[r].loc \in Locations /\ n \in Nat /\ n <= QtyOf(r) /\ n > 0
    /\ outstanding' = [outstanding EXCEPT ![req[r].o] =
                         [outstanding[req[r].o] EXCEPT ![req[r].loc] = outstanding[req[r].o][req[r].loc] + n]]

\* ... in a delivery that is done,
Delivers(r, e, n) ==
    Goes(r, e) /\ e \in {"deliver", "deliverPart"} /\ UNCHANGED left /\ GoesOut(r, n)

\* or in one whose landed cost fails; so may the fee of a reservation.
Fumbles(r) ==
    /\ req[r].pc = "effects" /\ req'[r].pc = "revert" /\ UNCHANGED order
    /\ req'[r].o = req[r].o /\ req'[r].from = req[r].from /\ req'[r].to = req[r].to
    /\ left'.crashes = left.crashes /\ left'.failures = left.failures
    /\ left'.figures = left.figures - 1
    /\ UNCHANGED outstanding \/ \E n : GoesOut(r, n)

Returns(o, owed) ==
    outstanding' = [outstanding EXCEPT ![o] = [l \in Locations |-> outstanding[o][l] - owed[l]]]

Reverses(r) ==
    /\ Goes(r, "reverseWrite") /\ UNCHANGED left /\ Returns(req[r].o, req[r].owed)
    /\ \A l \in Locations : FreeAfter(l) >= Free(l)

Deletes(r) ==
    /\ req[r].pc = "deleting" /\ req'[r].pc = "idle" /\ UNCHANGED left /\ Returns(req[r].o, req[r].owed)
    /\ order'[req[r].o].status = "DELETED" /\ order'[req[r].o].qty = order[req[r].o].qty
    /\ \A o \in Orders \ {req[r].o} : order'[o] = order[o]
\* A request that has not committed can only prepare.
LEMMA GatePrepares ==
    ASSUME IInv, NEW r \in Requests, Gate(r)
    PROVE  Prepares(r)
<1>1. req[r] \in RequestType /\ req \in [Requests -> RequestType]
  BY DEF IInv, TypeOK
<1>2. /\ UNCHANGED <<outstanding, left, level, order>> /\ req[r].pc = "gate"
      /\ \A o \in Orders : KeepsOrder(o)
      /\ QtyBounded => \A o \in Orders : order'[o].qty \in Quantities
  BY DEF Gate, stock, KeepsOrder, QtyBounded
<1>3. CASE ~GateHolds(r)
  <2>1. req'[r].pc = "idle"
    BY <1>1, <1>3 DEF Gate, IdleRequest
  <2> QED
    BY <1>2, <2>1 DEF Prepares, Underway
<1>4. CASE GateHolds(r)
  <2>1. req'[r].pc = "commit" /\ req'[r].to = req[r].to /\ req'[r].loc = req[r].loc
    BY <1>1, <1>4 DEF Gate, RequestType
  <2>2. req[r].to = "AGENT_ASSIGNED" => Free(req[r].loc) >= order[req[r].o].qty
    BY <1>4 DEF GateHolds
  <2>3. req'[r].o = req[r].o
    BY <1>1, <1>4 DEF Gate, RequestType
  <2>4. FreeAfter(req[r].loc) = Free(req[r].loc)
    BY <1>2 DEF Free, FreeAfter
  <2> QED
    BY <1>2, <2>1, <2>2, <2>3, <2>4 DEF Prepares, Underway
<1> QED
  BY <1>3, <1>4

LEMMA ReadPrepares ==
    ASSUME IInv, NEW r \in Requests, NEW o \in Orders, NEW to,
           NEW l \in Locations \cup {NoLoc}, NEW hold, NEW n, Read(r, o, to, l, hold, n)
    PROVE  Prepares(r)
<1>1. PICK q : q = [IdleRequest EXCEPT
               !.pc = IF to \in {"CONFIRMED", "AGENT_ASSIGNED"} THEN "gate" ELSE "commit",
               !.o = o, !.from = order[o].status, !.to = to, !.prev = order[o].loc,
               !.loc = l, !.hold = hold, !.n = n]
  OBVIOUS
<1>2. req'[r] = q
  BY <1>1 DEF Read, IInv, TypeOK
<1>3. /\ q.pc \in {"gate", "commit"} /\ q.to = to /\ q.loc = l
      /\ to = "AGENT_ASSIGNED" => q.pc = "gate"
  BY <1>1 DEF IdleRequest
<1>4. req[r].pc = "idle" /\ (to = "AGENT_ASSIGNED" => l \in Locations)
  BY DEF Read
<1>5. /\ UNCHANGED <<outstanding, left>> /\ \A p \in Orders : KeepsOrder(p)
      /\ QtyBounded => \A p \in Orders : order'[p].qty \in Quantities
  BY DEF Read, stock, KeepsOrder, QtyBounded
<1> QED
  BY <1>2, <1>3, <1>4, <1>5 DEF Prepares, Underway

LEMMA OthersPrepare ==
    ASSUME IInv, NEW r \in Requests,
           \/ EditCommit(r) \/ DeleteLock(r)
           \/ \E o \in Orders : DeleteRead(r, o) \/ \E n \in Quantities : EditRead(r, o, n)
    PROVE  Prepares(r)
<1>1. req[r] \in RequestType /\ req \in [Requests -> RequestType] /\ order \in [Orders -> OrderType]
  BY DEF IInv, TypeOK
<1>2. CASE EditCommit(r)
  <2>1. PICK o : o = req[r].o
    OBVIOUS
  <2>2. order' = order \/ order' = [order EXCEPT ![o].qty = req[r].n]
    BY <1>2, <2>1 DEF EditCommit
  <2>3. \A p \in Orders : KeepsOrder(p)
    BY <1>1, <2>2 DEF KeepsOrder, OrderType
  <2>4. req'[r].pc = "idle" /\ req[r].pc = "edit" /\ UNCHANGED <<outstanding, left>>
    BY <1>1, <1>2 DEF EditCommit, IdleRequest
  <2>5. QtyBounded => \A p \in Orders : order'[p].qty \in Quantities
    BY <1>1, <2>2, <2>4 DEF QtyBounded, OrderType
  <2> QED
    BY <2>3, <2>4, <2>5 DEF Prepares, Underway
<1>3. CASE DeleteLock(r)
  <2>1. /\ req'[r].pc = "deleting" /\ req[r].pc = "delete" /\ req'[r].o = req[r].o
        /\ req'[r].owed = Owed(req[r].o) /\ req[r].o \in Orders
    BY <1>1, <1>3, InFlightRequest DEF DeleteLock, RequestType
  <2>2. /\ UNCHANGED <<outstanding, left>> /\ \A p \in Orders : KeepsOrder(p)
        /\ QtyBounded => \A p \in Orders : order'[p].qty \in Quantities
    BY <1>3 DEF DeleteLock, stock, KeepsOrder, QtyBounded
  <2> QED
    BY <2>1, <2>2 DEF Prepares, Underway
<1>4. ASSUME NEW o \in Orders, DeleteRead(r, o) \/ \E n \in Quantities : EditRead(r, o, n)
      PROVE  Prepares(r)
  <2>1. /\ req[r].pc = "idle" /\ UNCHANGED <<outstanding, left>> /\ \A p \in Orders : KeepsOrder(p)
        /\ QtyBounded => \A p \in Orders : order'[p].qty \in Quantities
    BY <1>4 DEF DeleteRead, EditRead, stock, KeepsOrder, QtyBounded
  <2>2. CASE DeleteRead(r, o)
    <3>1. PICK q : q = [IdleRequest EXCEPT !.pc = "delete", !.o = o]
      OBVIOUS
    <3>2. q.pc = "delete"
      BY <3>1 DEF IdleRequest
    <3>3. req'[r] = q
      BY <1>1, <2>2, <3>1 DEF DeleteRead
    <3> QED
      BY <2>1, <3>2, <3>3 DEF Prepares, Underway
  <2>3. ASSUME NEW n \in Quantities, EditRead(r, o, n) PROVE Prepares(r)
    <3>1. PICK q : q = [IdleRequest EXCEPT !.pc = "edit", !.o = o, !.from = order[o].status,
                                           !.loc = order[o].loc, !.n = n]
      OBVIOUS
    <3>2. q.pc = "edit" /\ q.n = n
      BY <3>1 DEF IdleRequest
    <3>3. req'[r] = q
      BY <1>1, <2>3, <3>1 DEF EditRead
    <3> QED
      BY <2>1, <3>2, <3>3 DEF Prepares, Underway
  <2> QED
    BY <1>4, <2>2, <2>3
<1> QED
  BY <1>2, <1>3, <1>4

LEMMA CommitWins ==
    ASSUME IInv, NEW r \in Requests, Commit(r), Unmoved(r)
    PROVE  \E todo, loc : Commits(r, todo, loc)
<1>1. PICK a, o : a = req[r] /\ o = a.o
  OBVIOUS
<1>2. /\ a \in RequestType /\ IsTransitionAllowed(a.from, a.to) /\ req \in [Requests -> RequestType]
      /\ order \in [Orders -> OrderType] /\ o \in Orders /\ a.pc = "commit"
  BY <1>1, InFlightRequest DEF Commit, IInv, TypeOK
<1>3. PICK loc : loc = IF a.to = "AGENT_ASSIGNED" THEN a.loc ELSE order[o].loc
  OBVIOUS
<1>4. PICK todo : todo = Effects(a.from, a.to, a.prev, loc)
  OBVIOUS
<1>5. UNCHANGED <<outstanding, left, level>>
  BY DEF Commit, stock
<1>6. order[o].status = a.from
  BY <1>1 DEF Unmoved
<1>7. order' = [order EXCEPT ![o].status = a.to, ![o].loc = loc, ![o].hold = @ \/ a.hold]
  BY <1>1, <1>3, Zenon DEF Commit
<1>8. /\ order'[o].status = a.to /\ order'[o].loc = loc /\ order'[o].qty = order[o].qty
      /\ \A p \in Orders \ {o} : order'[p] = order[p]
  BY <1>2, <1>7 DEF OrderType
<1>9. req' = [req EXCEPT ![r] = IF todo = {} THEN IdleRequest
                 ELSE [a EXCEPT !.pc = "effects", !.loc = loc, !.todo = todo]]
  BY <1>1, <1>3, <1>4, Zenon DEF Commit
<1>10. todo = {} => req'[r].pc = "idle"
  BY <1>2, <1>9 DEF IdleRequest
<1>11. todo # {} => /\ req'[r].pc = "effects" /\ req'[r].o = o /\ req'[r].from = a.from
                    /\ req'[r].to = a.to /\ req'[r].loc = loc /\ req'[r].todo = todo
                    /\ req'[r].prev = a.prev
  BY <1>1, <1>2, <1>9 DEF RequestType
<1>12. /\ todo # {} => Due(todo, a.from, a.to)
       /\ todo = {} => (a.from \in ShippedStatuses <=> a.to \in ShippedStatuses)
       /\ "reverseWrite" \in todo => "reverseRead" \in todo
       /\ a.from \in ShippedStatuses /\ todo # {} => "reverseWrite" \in todo
  BY <1>2, <1>4, DueAtCommit
<1>13. (a.to = "AGENT_ASSIGNED" => loc = a.loc) /\ (a.to # "AGENT_ASSIGNED" => loc = order[o].loc)
  BY <1>3
<1> QED
  BY <1>1, <1>2, <1>4, <1>5, <1>6, <1>8, <1>10, <1>11, <1>12, <1>13 DEF Commits

LEMMA CommitKind ==
    ASSUME IInv, NEW r \in Requests, Commit(r)
    PROVE  Prepares(r) \/ \E todo, loc : Commits(r, todo, loc)
<1>1. CASE ~Unmoved(r)
  <2>1. /\ UNCHANGED <<outstanding, left, order>> /\ req[r].pc = "commit"
        /\ req' = [req EXCEPT ![r] = IdleRequest] /\ req \in [Requests -> RequestType]
    BY <1>1 DEF Commit, stock, IInv, TypeOK
  <2>2. /\ req'[r].pc = "idle" /\ \A p \in Orders : KeepsOrder(p)
        /\ QtyBounded => \A p \in Orders : order'[p].qty \in Quantities
    BY <2>1 DEF IdleRequest, KeepsOrder, QtyBounded
  <2> QED
    BY <2>1, <2>2 DEF Prepares, Underway
<1> QED
  BY <1>1, CommitWins

LEMMA RevertKind == ASSUME IInv, NEW r \in Requests, Revert(r) PROVE Reverts(r)
<1>1. req[r] \in RequestType /\ req[r].o \in Orders /\ req \in [Requests -> RequestType]
      /\ order \in [Orders -> OrderType]
  BY InFlightRequest DEF Revert, IInv, TypeOK
<1>2. PICK o : o = req[r].o
  OBVIOUS
<1>3. order' = [order EXCEPT ![o].status = req[r].from]
  BY <1>2 DEF Revert
<1>4. /\ order'[o].status = req[r].from /\ order'[o].loc = order[o].loc
      /\ order'[o].qty = order[o].qty
      /\ \A p \in Orders \ {o} : order'[p] = order[p]
  BY <1>1, <1>2, <1>3 DEF OrderType
<1>5. req[r].pc = "revert" /\ req'[r].pc = "idle" /\ UNCHANGED <<outstanding, left, level>>
  BY <1>1 DEF Revert, IdleRequest, stock
<1> QED
  BY <1>2, <1>4, <1>5 DEF Reverts

LEMMA CrashKind == ASSUME IInv, NEW r \in Requests, Crash(r) PROVE Dies(r)
<1>1. req \in [Requests -> RequestType] /\ left \in LeftType
  BY DEF IInv, TypeOK
<1>2. req'[r].pc = "idle" /\ UNCHANGED <<outstanding, order>>
  BY <1>1 DEF Crash, IdleRequest, stock
<1>3. /\ left'.crashes = left.crashes - 1 /\ left'.failures = left.failures
      /\ left'.figures = left.figures
  BY <1>1 DEF Crash, LeftType
<1> QED
  BY <1>2, <1>3 DEF Dies

LEMMA DeleteKind == ASSUME IInv, NEW r \in Requests, DeleteCommit(r) PROVE Deletes(r)
<1>1. req \in [Requests -> RequestType] /\ order \in [Orders -> OrderType]
      /\ req[r].o \in Orders /\ outstanding \in [Orders -> [Locations -> Int]]
  BY InFlightRequest DEF DeleteCommit, IInv, TypeOK, StockTypeOK
<1>2. PICK o : o = req[r].o
  OBVIOUS
<1>3. /\ order'[o].status = "DELETED" /\ order'[o].qty = order[o].qty
      /\ \A p \in Orders \ {o} : order'[p] = order[p]
  BY <1>1, <1>2 DEF DeleteCommit, OrderType
<1>4. Returns(o, req[r].owed)
  BY <1>2 DEF DeleteCommit, Restore, Returns
<1>5. req[r].pc = "deleting" /\ req'[r].pc = "idle" /\ UNCHANGED left
  BY <1>1 DEF DeleteCommit, IdleRequest
<1> QED
  BY <1>2, <1>3, <1>4, <1>5 DEF Deletes
\* What the end of an effect makes of its request.
LEMMA DoneGoes ==
    ASSUME IInv, NEW r \in Requests, NEW e, Running(r, e), e # "reverseRead",
           Done(r, e), UNCHANGED order
    PROVE  Goes(r, e)
<1>1. req[r] \in RequestType /\ req[r].pc = "effects" /\ req \in [Requests -> RequestType]
  BY DEF IInv, TypeOK, Running
<1>2. req'[r] = After(r, e)
  BY <1>1 DEF Done
<1>3. req[r].todo = {e} => req'[r].pc = "idle"
  BY <1>2 DEF After, IdleRequest
<1>4. req[r].todo # {e} =>
         /\ req'[r].pc = "effects" /\ req'[r].todo = req[r].todo \ {e}
         /\ req'[r].o = req[r].o /\ req'[r].from = req[r].from /\ req'[r].to = req[r].to
         /\ req'[r].loc = req[r].loc /\ req'[r].owed = req[r].owed
  BY <1>1, <1>2 DEF After, RequestType
<1> QED
  BY <1>3, <1>4 DEF Goes

LEMMA ReadGoes == ASSUME IInv, NEW r \in Requests, ReverseRead(r) PROVE Goes(r, "reverseRead")
<1>1. req[r] \in RequestType /\ req[r].pc = "effects" /\ req \in [Requests -> RequestType]
  BY DEF IInv, TypeOK, ReverseRead, Running
<1>2. PICK b, q, w : /\ w = Owed(req[r].o) /\ b = After(r, "reverseRead")
                     /\ q = [b EXCEPT !.owed = w]
  OBVIOUS
<1>3. req'[r] = q /\ b \in RequestType
  BY <1>1, <1>2, AfterType DEF ReverseRead
<1>4. /\ q.pc = b.pc /\ q.todo = b.todo /\ q.o = b.o /\ q.from = b.from /\ q.to = b.to
      /\ q.loc = b.loc /\ q.owed = w
  BY <1>2, <1>3 DEF RequestType
<1>5. req[r].todo = {"reverseRead"} => b.pc = "idle"
  BY <1>2 DEF After, IdleRequest
<1>6. req[r].todo # {"reverseRead"} =>
         /\ b.pc = "effects" /\ b.todo = req[r].todo \ {"reverseRead"}
         /\ b.o = req[r].o /\ b.from = req[r].from /\ b.to = req[r].to /\ b.loc = req[r].loc
  BY <1>1, <1>2 DEF After, RequestType
<1> QED
  BY <1>2, <1>3, <1>4, <1>5, <1>6 DEF Goes, ReverseRead

LEMMA ThrowKind ==
    ASSUME IInv, NEW r \in Requests, NEW e, Running(r, e), Throw(r),
           UNCHANGED <<order, outstanding, level>>, left'.crashes = left.crashes,
           left'.figures = left.figures,
           \/ left'.failures = left.failures - 1
           \/ /\ left'.failures = left.failures
              /\ \/ e = "reserve" /\ ~CanReserve(r)
                 \/ e \in {"releasePrevious", "deliver", "deliverPart", "writeOff"}
    PROVE  Throws(r, e)
<1>1. req[r] \in RequestType /\ req \in [Requests -> RequestType]
  BY DEF IInv, TypeOK
<1>2. /\ req'[r].pc = "revert" /\ req'[r].o = req[r].o /\ req'[r].from = req[r].from
      /\ req'[r].to = req[r].to
  BY <1>1 DEF Throw, RequestType
<1> QED
  BY <1>2 DEF Throws

\* What a failed figure makes of its request.
LEMMA FumbleKind ==
    ASSUME IInv, NEW r \in Requests, NEW e, Running(r, e), Throw(r), UNCHANGED order,
           left'.crashes = left.crashes, left'.failures = left.failures,
           left'.figures = left.figures - 1,
           UNCHANGED outstanding \/ \E n : GoesOut(r, n)
    PROVE  Fumbles(r)
<1>1. req[r] \in RequestType /\ req \in [Requests -> RequestType] /\ req[r].pc = "effects"
  BY DEF IInv, TypeOK, Running
<1>2. /\ req'[r].pc = "revert" /\ req'[r].o = req[r].o /\ req'[r].from = req[r].from
      /\ req'[r].to = req[r].to
  BY <1>1 DEF Throw, RequestType
<1> QED
  BY <1>1, <1>2 DEF Fumbles

LEMMA EffectKind ==
    ASSUME IInv, QtyBounded, NEW r \in Requests, Effect(r)
    PROVE  \/ \E e : Works(r, e) \/ Throws(r, e) \/ \E n : Delivers(r, e, n)
           \/ Reverses(r) \/ Fumbles(r)
<1>1. ASSUME NEW e, Running(r, e)
      PROVE  /\ req[r] \in RequestType /\ req[r].o \in Orders /\ QtyOf(r) \in Nat /\ QtyOf(r) > 0
             /\ outstanding \in [Orders -> [Locations -> Int]]
             /\ req[r].loc \in Locations \cup {NoLoc} /\ left \in LeftType
             /\ level \in [Locations -> LevelType]
  <2>1. QtyOf(r) > 0
    BY <1>1, EffectFacts DEF QtyBounded, Quantities, QtyOf
  <2> QED
    BY <1>1, <2>1, EffectFacts DEF StockTypeOK, RequestType
<1>2. CASE LogReservation(r)
  BY <1>1, <1>2, DoneGoes DEF LogReservation, stock, Works, LeftType
<1>3. CASE ReverseRead(r)
  BY <1>1, <1>3, ReadGoes DEF ReverseRead, stock, Works, LeftType
<1>4. CASE Reserve(r) \/ ReleasePrevious(r)
  <2>1. PICK e \in {"reserve", "releasePrevious"} :
           /\ Running(r, e) /\ UNCHANGED <<order, outstanding>>
           /\ \/ Done(r, e) /\ left' = left
              \/ Throw(r) /\ left' = left /\ UNCHANGED level /\ (e = "reserve" => ~CanReserve(r))
              \/ e = "reserve" /\ Figure(r, e)
    BY <1>4 DEF Reserve, ReleasePrevious, ReserveUnits, ReleaseUnits, stock
  <2>2. \/ Done(r, e) /\ left' = left
        \/ Throw(r) /\ left' = left /\ UNCHANGED level /\ (e = "reserve" => ~CanReserve(r))
        \/ /\ Throw(r) /\ left'.crashes = left.crashes /\ left'.failures = left.failures
           /\ left'.figures = left.figures - 1
    BY <1>1, <2>1, FigureLeft
  <2>3. CASE Done(r, e) /\ left' = left
    BY <2>1, <2>3, DoneGoes DEF Works
  <2>4. CASE Throw(r) /\ left' = left /\ UNCHANGED level /\ (e = "reserve" => ~CanReserve(r))
    BY <2>1, <2>4, ThrowKind
  <2>5. CASE /\ Throw(r) /\ left'.crashes = left.crashes /\ left'.failures = left.failures
             /\ left'.figures = left.figures - 1
    BY <2>1, <2>5, FumbleKind
  <2> QED
    BY <2>2, <2>3, <2>4, <2>5
<1>5. CASE ReReserve(r) \/ ReleaseQuietly(r)
  <2>1. PICK e \in {"rereserve", "releaseQuietly"} :
           Running(r, e) /\ Done(r, e) /\ UNCHANGED <<order, left, outstanding>>
    BY <1>5 DEF ReReserve, ReleaseQuietly, ReserveUnits, ReleaseUnits, Warn
  <2> QED
    BY <2>1, DoneGoes DEF Works
<1>6. CASE WriteOff(r)
  <2>1. Running(r, "writeOff") /\ UNCHANGED <<order, left, outstanding>>
    BY <1>6 DEF WriteOff, stock
  <2>2. Done(r, "writeOff") \/ (Throw(r) /\ UNCHANGED level)
    BY <1>6 DEF WriteOff, stock
  <2>3. CASE Done(r, "writeOff")
    BY <2>1, <2>3, DoneGoes DEF Works
  <2>4. CASE Throw(r) /\ UNCHANGED level
    BY <2>1, <2>4, ThrowKind
  <2> QED
    BY <2>2, <2>3, <2>4
<1>7. ASSUME NEW e \in {"deliver", "deliverPart"}, NEW n \in Nat, Running(r, e),
             UNCHANGED order, n > 0, n <= QtyOf(r), CanShip(req[r].loc, n), Figure(r, e),
             outstanding' = [outstanding EXCEPT ![req[r].o][req[r].loc] = @ + n]
      PROVE  Delivers(r, e, n) \/ Fumbles(r)
  <2>1. req[r].loc \in Locations
    BY <1>1, <1>7 DEF CanShip
  <2>2. outstanding' = [outstanding EXCEPT ![req[r].o] =
                         [outstanding[req[r].o] EXCEPT ![req[r].loc] = outstanding[req[r].o][req[r].loc] + n]]
    BY <1>7
  <2>3. GoesOut(r, n)
    BY <1>7, <2>1, <2>2 DEF GoesOut
  <2>4. \/ Done(r, e) /\ left' = left
        \/ /\ Throw(r) /\ left'.crashes = left.crashes /\ left'.failures = left.failures
           /\ left'.figures = left.figures - 1
    BY <1>1, <1>7, FigureLeft
  <2>5. CASE Done(r, e) /\ left' = left
    <3>1. Goes(r, e)
      BY <1>7, <2>5, DoneGoes
    <3> QED
      BY <2>3, <2>5, <3>1 DEF Delivers
  <2>6. CASE /\ Throw(r) /\ left'.crashes = left.crashes /\ left'.failures = left.failures
             /\ left'.figures = left.figures - 1
    BY <1>7, <2>3, <2>6, FumbleKind
  <2> QED
    BY <2>4, <2>5, <2>6
<1>8. CASE Deliver(r)
  <2>1. Running(r, "deliver") /\ UNCHANGED order
    BY <1>8 DEF Deliver
  <2>2. CASE CanShip(req[r].loc, QtyOf(r))
    <3>1. PICK n, e : n = QtyOf(r) /\ e = "deliver"
      OBVIOUS
    <3>2. n \in Nat /\ n > 0 /\ n <= QtyOf(r)
      BY <1>1, <2>1, <3>1
    <3>3. /\ outstanding' = [outstanding EXCEPT ![req[r].o][req[r].loc] = @ + n]
          /\ Figure(r, e) /\ CanShip(req[r].loc, n)
      BY <1>8, <2>2, <3>1 DEF Deliver
    <3>4. Delivers(r, e, n) \/ Fumbles(r)
      BY <1>7, <2>1, <3>1, <3>2, <3>3
    <3> QED
      BY <3>4
  <2>3. CASE ~CanShip(req[r].loc, QtyOf(r))
    BY <1>8, <2>1, <2>3, ThrowKind DEF Deliver, stock
  <2> QED
    BY <2>2, <2>3
<1>9. CASE DeliverPart(r)
  <2>1. Running(r, "deliverPart") /\ UNCHANGED order
    BY <1>9 DEF DeliverPart
  <2>2. PICK n : n = Lesser(req[r].n, QtyOf(r))
    OBVIOUS
  <2>3. n \in Nat /\ n <= QtyOf(r)
    BY <1>1, <2>1, <2>2 DEF Lesser, RequestType
  <2>4. CASE CanShipPart(req[r].loc, n)
    <3>1. /\ outstanding' = [outstanding EXCEPT ![req[r].o][req[r].loc] = @ + n]
          /\ Figure(r, "deliverPart")
      BY <1>9, <2>2, <2>4 DEF DeliverPart
    <3> QED
      BY <1>7, <2>1, <2>3, <2>4, <3>1 DEF CanShipPart
  <2>5. CASE ~CanShipPart(req[r].loc, n)
    BY <1>9, <2>1, <2>2, <2>5, ThrowKind DEF DeliverPart, stock
  <2> QED
    BY <2>4, <2>5
<1>10. CASE ReverseWrite(r)
  <2>1. Running(r, "reverseWrite") /\ UNCHANGED <<order, left>> /\ Done(r, "reverseWrite")
    BY <1>10 DEF ReverseWrite
  <2>2. Goes(r, "reverseWrite")
    BY <2>1, DoneGoes
  <2>3. Returns(req[r].o, req[r].owed)
    BY <1>1, <1>10, <2>1 DEF ReverseWrite, Restore, Returns
  <2>4. \A l \in Locations : FreeAfter(l) >= Free(l)
    <3>1. level' = [l \in Locations |-> [level[l] EXCEPT !.stock = @ + req[r].owed[l]]]
      BY <1>10 DEF ReverseWrite, Restore
    <3>2. \A l \in Locations : /\ level'[l].stock = level[l].stock + req[r].owed[l]
                               /\ level'[l].reserved = level[l].reserved
                               /\ level[l].stock \in Nat /\ level[l].reserved \in Nat
                               /\ req[r].owed[l] \in Nat
      BY <1>1, <2>1, <3>1 DEF LevelType, RequestType
    <3> QED
      BY <3>2 DEF FreeAfter, Free
  <2> QED
    BY <2>1, <2>2, <2>3, <2>4 DEF Reverses
<1> QED
  BY <1>2, <1>3, <1>4, <1>5, <1>6, <1>8, <1>9, <1>10 DEF Effect

LEMMA FailKind ==
    ASSUME IInv, NEW r \in Requests, NEW e \in EffectNames, EffectFails(r, e)
    PROVE  Works(r, e) \/ Throws(r, e)
<1>1. Running(r, e) /\ UNCHANGED <<order, outstanding, level>> /\ left \in LeftType
  BY DEF EffectFails, Warn, stock, IInv, TypeOK
<1>2. /\ left'.crashes = left.crashes /\ left'.failures = left.failures - 1
      /\ left'.figures = left.figures
  BY <1>1 DEF EffectFails, LeftType
<1>3. CASE e \in QuietEffects
  BY <1>1, <1>2, <1>3, DoneGoes DEF EffectFails, QuietEffects, Works
<1>4. CASE e \notin QuietEffects
  BY <1>1, <1>2, <1>4, ThrowKind DEF EffectFails
<1> QED
  BY <1>3, <1>4
LEMMA RestsKind ==
    ASSUME IInv,
           \/ UNCHANGED vars
           \/ \E o \in Orders : ResolveRetrack(o)
           \/ \E l \in Locations :
                \/ \E n \in Quantities : Intake(l, n)
                \/ \E d \in Discrepancies : Adjust(l, d) \/ CountStock(l, d)
                \/ \E approved \in BOOLEAN : ResolveCount(l, approved)
    PROVE  Rests
<1>1. order \in [Orders -> OrderType] /\ left \in LeftType
  BY DEF IInv, TypeOK
<1>2. CASE UNCHANGED vars
  BY <1>1, <1>2 DEF vars, Rests, KeepsOrder
<1>3. ASSUME NEW o \in Orders, ResolveRetrack(o) PROVE Rests
  <2>1. /\ order' = [order EXCEPT ![o].hold = FALSE]
        /\ UNCHANGED <<req, outstanding, left, level>>
    BY <1>3 DEF ResolveRetrack, stock
  <2>2. \A p \in Orders : KeepsOrder(p) /\ order'[p].qty = order[p].qty
    BY <1>1, <2>1 DEF KeepsOrder, OrderType
  <2> QED
    BY <2>1, <2>2 DEF Rests
<1>4. ASSUME UNCHANGED <<order, req, outstanding>>, left' = left \/ Spend, ~Calm
      PROVE  Rests
  <2>1. /\ left'.crashes = left.crashes /\ left'.failures = left.failures
        /\ left'.figures = left.figures
    BY <1>1, <1>4 DEF Spend, LeftType
  <2> QED
    BY <1>4, <2>1 DEF Rests, KeepsOrder
<1>5. ASSUME NEW l \in Locations,
             \/ \E n \in Quantities : Intake(l, n)
             \/ \E d \in Discrepancies : Adjust(l, d) \/ CountStock(l, d)
             \/ \E approved \in BOOLEAN : ResolveCount(l, approved)
      PROVE  Rests
  <2>1. UNCHANGED <<order, req, outstanding>>
    BY <1>5 DEF Intake, Adjust, CountStock, ResolveCount
  <2>2. (left' = left \/ Spend) /\ ~Calm
    BY <1>1, <1>5 DEF Intake, Adjust, CountStock, ResolveCount, Spend, Calm
  <2> QED
    BY <1>4, <2>1, <2>2
<1> QED
  BY <1>2, <1>3, <1>5

\* What request r does in a step.
Turns(r) ==
    \/ Prepares(r) \/ Dies(r) \/ Reverts(r) \/ Reverses(r) \/ Deletes(r)
    \/ \E todo, loc : Commits(r, todo, loc)
    \/ \E e : Works(r, e) \/ Throws(r, e) \/ \E n : Delivers(r, e, n)

LEMMA NextKind ==
    ASSUME IInv, QtyBounded, [Next]_vars
    PROVE  Rests \/ \E r \in Requests : Turns(r) \/ Fumbles(r)
<1>1. ASSUME NEW r \in Requests, Gate(r) \/ Commit(r) \/ Revert(r) \/ Effect(r)
      PROVE  Turns(r) \/ Fumbles(r)
  BY <1>1, GatePrepares, CommitKind, RevertKind, EffectKind DEF Turns
<1>2. ASSUME NEW r \in Requests, EditCommit(r) \/ DeleteLock(r) \/ DeleteCommit(r) \/ Crash(r)
      PROVE  Turns(r)
  BY <1>2, OthersPrepare, DeleteKind, CrashKind DEF Turns
<1>3. ASSUME NEW r \in Requests, NEW e \in EffectNames, EffectFails(r, e) PROVE Turns(r)
  BY <1>3, FailKind DEF Turns
<1>4. ASSUME NEW r \in Requests, NEW o \in Orders,
             \/ \E to \in Targets, l \in Locations \cup {NoLoc}, hold \in BOOLEAN,
                   n \in 0 .. MaxQty : Read(r, o, to, l, hold, n)
             \/ \E n \in Quantities : EditRead(r, o, n)
             \/ DeleteRead(r, o)
      PROVE  Turns(r)
  BY <1>4, ReadPrepares, OthersPrepare DEF Turns
<1> QED
  BY <1>1, <1>2, <1>3, <1>4, RestsKind DEF Next, Step
------------------------------------------------------------------------------
(***************************************************************************)
(* What holds at one desk, whatever fails.                                 *)
(***************************************************************************)

Held == \A r \in Requests : Underway(r) => order[req[r].o].status = req[r].to

\* A request that has read what it will give back ...
Owes(r) ==
    \/ req[r].pc = "deleting"
    \/ /\ req[r].pc = "effects"
       /\ "reverseWrite" \in req[r].todo /\ "reverseRead" \notin req[r].todo

\* ... gives back all that is out.
OwedRight ==
    \A r \in Requests : Owes(r) => \A l \in Locations : req[r].owed[l] = outstanding[req[r].o][l]

OutCounted == \A o \in Orders : \A l \in Locations : outstanding[o][l] >= 0

DeskInv == QtyBounded /\ LeftBounded /\ Held /\ OutCounted /\ OwedRight

LEMMA AllAtDesk ==
    ASSUME OneDesk, NEW r \in Requests
    PROVE  \A s \in Requests : s = r
  BY DEF OneDesk

\* Only what fails after its stock has moved takes from the bound on figures.
LEMMA FiguresKept ==
    ASSUME Rests \/ \E r \in Requests : Turns(r)
    PROVE  left'.figures = left.figures
  BY DEF Rests, Turns, Prepares, Dies, Commits, Reverts, Works, Throws, Delivers, Reverses, Deletes

LEMMA FumbleSpent ==
    ASSUME IInv, LeftBounded, NEW r \in Requests, Fumbles(r)
    PROVE  left'.figures # Figures
  BY BoundsAssumption DEF Fumbles, LeftBounded, IInv, TypeOK, LeftType

LEMMA LeftKept ==
    ASSUME IInv, IInv', LeftBounded, Rests \/ \E r \in Requests : Turns(r)
    PROVE  LeftBounded'
<1>1. /\ left \in LeftType /\ left' \in LeftType /\ Crashes \in Nat /\ Failures \in Nat
      /\ left'.figures = left.figures
  BY BoundsAssumption, FiguresKept DEF IInv, TypeOK
<1>2. \/ left' = left
      \/ /\ left'.crashes \in {left.crashes, left.crashes - 1}
         /\ left'.failures \in {left.failures, left.failures - 1}
  <2>1. ASSUME NEW r \in Requests, \/ Prepares(r) \/ Reverts(r) \/ Reverses(r) \/ Deletes(r)
                                   \/ \E todo, loc : Commits(r, todo, loc)
                                   \/ \E e, n : Delivers(r, e, n)
        PROVE  left' = left
    BY <2>1 DEF Prepares, Commits, Reverts, Delivers, Reverses, Deletes
  <2>2. ASSUME NEW r \in Requests, Dies(r) \/ \E e : Works(r, e) \/ Throws(r, e)
        PROVE  /\ left'.crashes \in {left.crashes, left.crashes - 1}
               /\ left'.failures \in {left.failures, left.failures - 1}
    BY <2>2 DEF Dies, Works, Throws
  <2>3. CASE Rests
    BY <2>3 DEF Rests
  <2> QED
    BY <2>1, <2>2, <2>3 DEF Turns
<1> QED
  BY <1>1, <1>2 DEF LeftBounded, LeftType

LEMMA QtyKept ==
    ASSUME OneDesk, IInv, IInv', QtyBounded, Rests \/ \E r \in Requests : Turns(r)
    PROVE  QtyBounded'
<1>1. CASE Rests
  BY <1>1 DEF Rests, QtyBounded
<1>2. ASSUME NEW r \in Requests, Turns(r) PROVE QtyBounded'
  <2>1. \A s \in Requests : s = r
    BY AllAtDesk
  <2>2. req'[r].pc = "edit" => req'[r].n \in Quantities
    BY <1>2 DEF Turns, Prepares, Dies, Commits, Reverts, Works, Throws, Delivers, Reverses, Deletes, Goes
  <2>3. \A o \in Orders : order'[o].qty \in Quantities
    BY <1>2 DEF Turns, Prepares, Dies, Commits, Reverts, Works, Throws, Delivers, Reverses, Deletes, Goes,
                QtyBounded
  <2> QED
    BY <2>1, <2>2, <2>3 DEF QtyBounded
<1> QED
  BY <1>1, <1>2

LEMMA HeldKept ==
    ASSUME OneDesk, IInv, Held, Rests \/ \E r \in Requests : Turns(r)
    PROVE  Held'
<1>0. \A r \in Requests : Underway(r) => req[r].o \in Orders
  BY InFlightRequest DEF Underway
<1>1. CASE Rests
  BY <1>0, <1>1 DEF Rests, Held, Underway, KeepsOrder
<1>2. ASSUME NEW r \in Requests, Turns(r) PROVE Held'
  <2>1. \A s \in Requests : s = r
    BY AllAtDesk
  <2>2. ASSUME req'[r].pc \in {"effects", "revert"}
        PROVE  order'[req'[r].o].status = req'[r].to
    <3>1. CASE Prepares(r) \/ Dies(r) \/ Reverts(r) \/ Deletes(r)
      BY <2>2, <3>1 DEF Prepares, Dies, Reverts, Deletes
    <3>2. ASSUME NEW todo, NEW loc, Commits(r, todo, loc) PROVE order'[req'[r].o].status = req'[r].to
      BY <2>2, <3>2 DEF Commits
    <3>3. ASSUME NEW e, NEW n, Works(r, e) \/ Throws(r, e) \/ Delivers(r, e, n) \/ Reverses(r)
          PROVE  order'[req'[r].o].status = req'[r].to
      BY <2>2, <3>3 DEF Works, Throws, Delivers, Reverses, Goes, Held, Underway, Running
    <3> QED
      BY <1>2, <3>1, <3>2, <3>3 DEF Turns
  <2> QED
    BY <2>1, <2>2 DEF Held, Underway
<1> QED
  BY <1>1, <1>2

\* What the first effect that is due says of the others.
LEMMA CurrentEffect ==
    ASSUME IInv, Dues, NEW r \in Requests, NEW e, Running(r, e)
    PROVE  /\ req[r].pc = "effects" /\ req[r].o \in Orders /\ e \in req[r].todo
           /\ Due(req[r].todo, req[r].from, req[r].to)
           /\ e \in {"deliver", "deliverPart"} => req[r].todo = {e}
           /\ e \notin {"reverseRead", "reverseWrite"} =>
                 "reverseRead" \notin req[r].todo /\ "reverseWrite" \notin req[r].todo
           /\ e = "reverseWrite" => "reverseRead" \notin req[r].todo
<1>1. req[r].pc = "effects" /\ req[r].o \in Orders /\ req[r].todo \subseteq EffectNames
  BY EffectFacts DEF Running, RequestType
<1>2. Due(req[r].todo, req[r].from, req[r].to)
  BY <1>1 DEF Dues
<1>3. /\ e \in req[r].todo
      /\ req[r].todo # {e} => Due(req[r].todo \ {e}, req[r].from, req[r].to)
      /\ e \in {"deliver", "deliverPart"} => req[r].todo = {e}
      /\ e \notin {"reverseRead", "reverseWrite"} =>
                 "reverseRead" \notin req[r].todo /\ "reverseWrite" \notin req[r].todo
      /\ e = "reverseWrite" => "reverseRead" \notin req[r].todo
  BY <1>1, <1>2, DueAfter
<1> QED
  BY <1>1, <1>2, <1>3

\* A reversal leaves nothing out.
LEMMA OwedReturned ==
    ASSUME IInv, OwedRight, NEW r \in Requests, Reverses(r) \/ Deletes(r), Dues
    PROVE  /\ req[r].o \in Orders /\ Owes(r) /\ Returns(req[r].o, req[r].owed)
           /\ \A l \in Locations : outstanding'[req[r].o][l] = 0
           /\ \A o \in Orders \ {req[r].o} : outstanding'[o] = outstanding[o]
<1>1. req[r].pc \in {"effects", "deleting"} /\ Returns(req[r].o, req[r].owed)
  BY DEF Reverses, Deletes, Goes, Running
<1>2. req[r] \in RequestType /\ req[r].o \in Orders /\ outstanding \in [Orders -> [Locations -> Int]]
  BY <1>1, InFlightRequest DEF IInv, TypeOK, StockTypeOK
<1>3. Owes(r)
  <2>1. CASE Deletes(r)
    BY <2>1 DEF Deletes, Owes
  <2>2. CASE Reverses(r)
    <3>1. Running(r, "reverseWrite")
      BY <2>2 DEF Reverses, Goes
    <3>2. /\ req[r].pc = "effects"
          /\ "reverseWrite" \in req[r].todo /\ "reverseRead" \notin req[r].todo
      BY <3>1, CurrentEffect
    <3> QED
      BY <3>2 DEF Owes
  <2> QED
    BY <2>1, <2>2
<1>4. PICK o : o = req[r].o
  OBVIOUS
<1>5. outstanding' = [outstanding EXCEPT ![o] = [l \in Locations |-> outstanding[o][l] - req[r].owed[l]]]
  BY <1>1, <1>4 DEF Returns
<1>6. \A l \in Locations : req[r].owed[l] = outstanding[o][l] /\ outstanding[o][l] \in Int
  BY <1>2, <1>3, <1>4 DEF OwedRight
<1>7. \A l \in Locations : outstanding'[o][l] = 0
  BY <1>2, <1>4, <1>5, <1>6
<1>8. \A p \in Orders \ {o} : outstanding'[p] = outstanding[p]
  BY <1>2, <1>4, <1>5
<1> QED
  BY <1>1, <1>2, <1>3, <1>4, <1>7, <1>8

\* What a delivery adds.
LEMMA DeliveryCounted ==
    ASSUME IInv, NEW r \in Requests, NEW n, req[r].pc = "effects", GoesOut(r, n)
    PROVE  /\ req[r].o \in Orders /\ req[r].loc \in Locations /\ n \in Nat
           /\ outstanding \in [Orders -> [Locations -> Int]]
           /\ outstanding[req[r].o][req[r].loc] \in Int
           /\ outstanding'[req[r].o] = [outstanding[req[r].o] EXCEPT
                    ![req[r].loc] = outstanding[req[r].o][req[r].loc] + n]
           /\ outstanding'[req[r].o][req[r].loc] = outstanding[req[r].o][req[r].loc] + n
           /\ \A l \in Locations \ {req[r].loc} : outstanding'[req[r].o][l] = outstanding[req[r].o][l]
           /\ \A o \in Orders \ {req[r].o} : outstanding'[o] = outstanding[o]
<1>1. req[r].o \in Orders /\ outstanding \in [Orders -> [Locations -> Int]]
  BY InFlightRequest DEF IInv, TypeOK, StockTypeOK
<1>2. PICK o, l : o = req[r].o /\ l = req[r].loc
  OBVIOUS
<1>3. /\ l \in Locations /\ n \in Nat
      /\ outstanding' = [outstanding EXCEPT ![o] = [outstanding[o] EXCEPT ![l] = outstanding[o][l] + n]]
  BY <1>2 DEF GoesOut
<1>4. /\ outstanding[o][l] \in Int
      /\ outstanding'[o] = [outstanding[o] EXCEPT ![l] = outstanding[o][l] + n]
      /\ \A p \in Orders \ {o} : outstanding'[p] = outstanding[p]
  BY <1>1, <1>2, <1>3
<1>5. /\ outstanding'[o][l] = outstanding[o][l] + n
      /\ \A k \in Locations \ {l} : outstanding'[o][k] = outstanding[o][k]
  BY <1>1, <1>2, <1>3, <1>4
<1> QED
  BY <1>1, <1>2, <1>3, <1>4, <1>5

LEMMA OutKept ==
    ASSUME OneDesk, IInv, Dues, OutCounted, OwedRight, Rests \/ \E r \in Requests : Turns(r)
    PROVE  OutCounted'
<1>1. CASE UNCHANGED outstanding
  BY <1>1 DEF OutCounted
<1>2. ASSUME NEW r \in Requests, Reverses(r) \/ Deletes(r) PROVE OutCounted'
  <2>1. PICK o : o = req[r].o
    OBVIOUS
  <2>2. /\ \A l \in Locations : outstanding'[o][l] = 0
        /\ \A p \in Orders \ {o} : outstanding'[p] = outstanding[p]
    BY <1>2, <2>1, OwedReturned
  <2> QED
    BY <2>2 DEF OutCounted
<1>3. ASSUME NEW r \in Requests, NEW n, req[r].pc = "effects", GoesOut(r, n) PROVE OutCounted'
  <2>1. PICK o, l : o = req[r].o /\ l = req[r].loc
    OBVIOUS
  <2>2. /\ o \in Orders /\ l \in Locations /\ n \in Nat
        /\ outstanding[o][l] \in Int /\ outstanding'[o][l] = outstanding[o][l] + n
        /\ \A k \in Locations \ {l} : outstanding'[o][k] = outstanding[o][k]
        /\ \A p \in Orders \ {o} : outstanding'[p] = outstanding[p]
    <3>1. /\ req[r].o \in Orders /\ req[r].loc \in Locations /\ n \in Nat
          /\ outstanding \in [Orders -> [Locations -> Int]]
          /\ outstanding'[req[r].o] = [outstanding[req[r].o] EXCEPT
                    ![req[r].loc] = outstanding[req[r].o][req[r].loc] + n]
          /\ outstanding[req[r].o][req[r].loc] \in Int
          /\ outstanding'[req[r].o][req[r].loc] = outstanding[req[r].o][req[r].loc] + n
          /\ \A k \in Locations \ {req[r].loc} : outstanding'[req[r].o][k] = outstanding[req[r].o][k]
          /\ \A p \in Orders \ {req[r].o} : outstanding'[p] = outstanding[p]
      BY <1>3, DeliveryCounted
    <3> QED
      BY <2>1, <3>1
  <2> QED
    BY <2>2 DEF OutCounted
<1>4. ASSUME NEW r \in Requests, NEW e, NEW n, Delivers(r, e, n) PROVE OutCounted'
  BY <1>3, <1>4 DEF Delivers, Goes, Running
<1> QED
  BY <1>1, <1>2, <1>4 DEF Turns, Rests, Prepares, Dies, Commits, Reverts, Works, Throws

LEMMA OwedRightKept ==
    ASSUME OneDesk, IInv, IInv', Dues, OutCounted, OwedRight, Rests \/ \E r \in Requests : Turns(r)
    PROVE  OwedRight'
<1>0. outstanding \in [Orders -> [Locations -> Int]]
  BY DEF IInv, TypeOK, StockTypeOK
<1>1. CASE Rests
  BY <1>1 DEF Rests, OwedRight, Owes
<1>2. ASSUME NEW o \in Orders
      PROVE  \A l \in Locations : Owed(o)[l] = outstanding[o][l]
  BY <1>0, <1>2 DEF Owed, AtLeastZero, OutCounted
<1>3. ASSUME NEW r \in Requests, Turns(r) PROVE OwedRight'
  <2>1. \A s \in Requests : s = r
    BY AllAtDesk
  <2>2. SUFFICES ASSUME \/ req'[r].pc = "deleting"
                        \/ /\ req'[r].pc = "effects"
                           /\ "reverseWrite" \in req'[r].todo /\ "reverseRead" \notin req'[r].todo
                 PROVE  \A l \in Locations : req'[r].owed[l] = outstanding'[req'[r].o][l]
    BY <2>1 DEF OwedRight, Owes
  <2>3. CASE Prepares(r)
    BY <1>2, <2>2, <2>3 DEF Prepares
  <2>4. CASE Dies(r) \/ Reverts(r) \/ Deletes(r) \/ \E e : Throws(r, e)
    BY <2>2, <2>4 DEF Dies, Reverts, Deletes, Throws
  <2>5. CASE \E todo, loc : Commits(r, todo, loc)
    BY <2>2, <2>5 DEF Commits
  <2>6. ASSUME NEW e, Goes(r, e)
        PROVE  /\ req[r].o \in Orders /\ req[r].pc = "effects"
               /\ e \notin {"deliver", "deliverPart", "reverseWrite"}
               /\ req'[r].o = req[r].o
               /\ e = "reverseRead" => req'[r].owed = Owed(req[r].o)
               /\ e # "reverseRead" => /\ req'[r].owed = req[r].owed
                                       /\ \A l \in Locations : req[r].owed[l] = outstanding[req[r].o][l]
    <3>1. Running(r, e)
      BY <2>6 DEF Goes
    <3>2. /\ req[r].pc = "effects" /\ req[r].o \in Orders /\ e \in req[r].todo
          /\ e \in {"deliver", "deliverPart"} => req[r].todo = {e}
      BY <3>1, CurrentEffect
    <3>3. /\ req'[r].todo = req[r].todo \ {e} /\ req[r].todo # {e}
          /\ req'[r].pc = "effects"
      BY <2>2, <2>6 DEF Goes
    <3>4. e \notin {"deliver", "deliverPart"}
      BY <3>2, <3>3
    <3>5. e # "reverseWrite"
      BY <2>2, <2>6, <3>3 DEF Goes
    <3>6. e # "reverseRead" => Owes(r)
      BY <2>2, <3>2, <3>3 DEF Owes
    <3> QED
      BY <2>6, <3>1, <3>2, <3>3, <3>4, <3>5, <3>6 DEF Goes, OwedRight
  <2>7. ASSUME NEW e, Works(r, e)
        PROVE  \A l \in Locations : req'[r].owed[l] = outstanding'[req'[r].o][l]
    BY <1>2, <2>6, <2>7 DEF Works
  <2>8. ASSUME NEW e, NEW n, Delivers(r, e, n) \/ Reverses(r) PROVE FALSE
    BY <2>6, <2>8 DEF Delivers, Reverses
  <2> QED
    BY <1>3, <2>3, <2>4, <2>5, <2>7, <2>8 DEF Turns
<1> QED
  BY <1>1, <1>3
\* A figure that fails sends its request to the write-back, whatever is out.
LEMMA FumbleKept ==
    ASSUME OneDesk, IInv, DeskInv, NEW r \in Requests, Fumbles(r)
    PROVE  DeskInv'
<1>1. \A s \in Requests : s = r
  BY AllAtDesk
<1>2. /\ req[r].pc = "effects" /\ req'[r].pc = "revert" /\ UNCHANGED order
      /\ req'[r].o = req[r].o /\ req'[r].to = req[r].to
  BY DEF Fumbles
<1>3. QtyBounded' /\ Held' /\ OwedRight'
  BY <1>1, <1>2 DEF DeskInv, QtyBounded, Held, Underway, OwedRight, Owes
<1>4. LeftBounded'
  BY BoundsAssumption DEF DeskInv, LeftBounded, Fumbles, IInv, TypeOK, LeftType
<1>5. OutCounted'
  <2>1. CASE UNCHANGED outstanding
    BY <2>1 DEF DeskInv, OutCounted
  <2>2. ASSUME NEW n, GoesOut(r, n) PROVE OutCounted'
    <3>1. PICK o, l : o = req[r].o /\ l = req[r].loc
      OBVIOUS
    <3>2. /\ l \in Locations /\ n \in Nat
          /\ outstanding[o][l] \in Int /\ outstanding'[o][l] = outstanding[o][l] + n
          /\ \A k \in Locations \ {l} : outstanding'[o][k] = outstanding[o][k]
          /\ \A p \in Orders \ {o} : outstanding'[p] = outstanding[p]
      BY <1>2, <2>2, <3>1, DeliveryCounted
    <3> QED
      BY <3>2 DEF DeskInv, OutCounted
  <2> QED
    BY <2>1, <2>2 DEF Fumbles
<1> QED
  BY <1>3, <1>4, <1>5 DEF DeskInv

\* At one desk the strengthening holds in every reachable state.
LEMMA DeskKept ==
    ASSUME OneDesk, IInv, IInv', Dues, DeskInv, [Next]_vars
    PROVE  DeskInv'
<1>1. Rests \/ \E r \in Requests : Turns(r) \/ Fumbles(r)
  BY NextKind DEF DeskInv
<1>2. CASE Rests \/ \E r \in Requests : Turns(r)
  BY <1>2, LeftKept, QtyKept, HeldKept, OutKept, OwedRightKept DEF DeskInv
<1> QED
  BY <1>1, <1>2, FumbleKept

LEMMA DeskFromTheStart == Init => Dues /\ DeskInv
<1> SUFFICES ASSUME Init PROVE Dues /\ DeskInv
  OBVIOUS
<1>1. \A r \in Requests : req[r].pc = "idle"
  BY DEF Init, IdleRequest
<1>2. QtyBounded /\ LeftBounded /\ OutCounted
  <2>1. \A o \in Orders : order[o].qty \in Quantities
    BY DEF Init
  <2>2. \A o \in Orders : \A l \in Locations : outstanding[o][l] = 0
    BY DEF Init
  <2>3. left.crashes = Crashes /\ left.failures = Failures /\ left.figures = Figures
    BY DEF Init
  <2> QED
    BY <1>1, <2>1, <2>2, <2>3, BoundsAssumption DEF QtyBounded, LeftBounded, OutCounted
<1>3. Dues /\ Held /\ OwedRight
  BY <1>1 DEF Dues, Held, Underway, OwedRight, Owes
<1> QED
  BY <1>2, <1>3 DEF DeskInv

------------------------------------------------------------------------------
(***************************************************************************)
(* At one desk, as long as the process lives and no figure fails.          *)
(***************************************************************************)

NothingOut(o) == \A l \in Locations : outstanding[o][l] = 0

\* Nobody is between the compare-and-set and the last effect on order o.
Aside(o) == \A r \in Requests : req[r].o = o => ~Underway(r)

OnceForOrder(o) ==
    /\ Sum(outstanding[o]) <= MaxQty
    /\ Aside(o) /\ order[o].status \notin ShippedStatuses => NothingOut(o)

\* A request has taken back a delivery before it runs, or gives up, anything else.
OnceForRequest(r) ==
    /\ req[r].pc = "effects" /\ "reverseWrite" \notin req[r].todo => NothingOut(req[r].o)
    /\ req[r].pc = "revert" /\ req[r].from \notin ShippedStatuses => NothingOut(req[r].o)

Once ==
    left.crashes = Crashes /\ left.figures = Figures =>
        /\ \A o \in Orders : OnceForOrder(o)
        /\ \A r \in Requests : OnceForRequest(r)

LEMMA SumOfNone ==
    ASSUME NEW f \in [Locations -> Int], \A l \in Locations : f[l] = 0
    PROVE  Sum(f) = 0
<1>1. Sum(f) = SumFunctionOnSet(f, Locations)
  BY DEF Sum, SumFunction
<1> QED
  BY <1>1, FinitenessAssumption, SumSigns

\* With nothing out, what goes out is one delivery.
LEMMA DeliveredOnce ==
    ASSUME IInv, QtyBounded, NEW r \in Requests, NEW e, NEW n, Delivers(r, e, n), NothingOut(req[r].o)
    PROVE  Sum(outstanding'[req[r].o]) <= MaxQty
<1>1. PICK f, g, l : f = outstanding[req[r].o] /\ g = outstanding'[req[r].o] /\ l = req[r].loc
  OBVIOUS
<1>2. /\ req[r].o \in Orders /\ req[r].loc \in Locations /\ n \in Nat
      /\ outstanding \in [Orders -> [Locations -> Int]]
      /\ outstanding[req[r].o][req[r].loc] \in Int
      /\ outstanding'[req[r].o] = [outstanding[req[r].o] EXCEPT
               ![req[r].loc] = outstanding[req[r].o][req[r].loc] + n]
      /\ outstanding'[req[r].o][req[r].loc] = outstanding[req[r].o][req[r].loc] + n
      /\ \A k \in Locations \ {req[r].loc} : outstanding'[req[r].o][k] = outstanding[req[r].o][k]
      /\ \A o \in Orders \ {req[r].o} : outstanding'[o] = outstanding[o]
  BY DeliveryCounted DEF Delivers, Goes, Running
<1>3. GainsAt(f, Locations, l, n, g)
  BY <1>1, <1>2, FinitenessAssumption DEF GainsAt
<1>4. Sum(f) \in Int /\ Sum(g) = Sum(f) + n
  BY <1>3, SumAfterOne
<1>5. Sum(f) = 0
  <2>1. f \in [Locations -> Int] /\ \A k \in Locations : f[k] = 0
    BY <1>1, <1>2 DEF NothingOut
  <2> QED
    BY <2>1, SumOfNone
<1>6. n <= MaxQty
  <2>1. QtyOf(r) \in 1 .. MaxQty
    BY <1>2 DEF QtyOf, QtyBounded, Quantities
  <2> QED
    BY <1>2, <2>1, BoundsAssumption DEF Delivers, GoesOut
<1> QED
  BY <1>1, <1>2, <1>4, <1>5, <1>6

LEMMA OnceKept ==
    ASSUME OneDesk, IInv, IInv', Dues, DeskInv, Once, Rests \/ \E r \in Requests : Turns(r)
    PROVE  Once'
<1>0. /\ outstanding \in [Orders -> [Locations -> Int]] /\ outstanding' \in [Orders -> [Locations -> Int]]
      /\ left \in LeftType /\ MaxQty \in Nat
  BY BoundsAssumption DEF IInv, TypeOK, StockTypeOK
<1>1. CASE Rests
  BY <1>1 DEF Rests, Once, OnceForOrder, OnceForRequest, Aside, NothingOut, Underway, KeepsOrder
<1>2. ASSUME NEW r \in Requests, Turns(r), left'.crashes = Crashes, left'.figures = Figures
      PROVE  /\ \A o \in Orders : Sum(outstanding'[o]) <= MaxQty
             /\ \A o \in Orders :
                   /\ req'[r].o = o => req'[r].pc \notin {"effects", "revert"}
                   /\ order'[o].status \notin ShippedStatuses
                   => \A l \in Locations : outstanding'[o][l] = 0
             /\ req'[r].pc = "effects" /\ "reverseWrite" \notin req'[r].todo =>
                  \A l \in Locations : outstanding'[req'[r].o][l] = 0
             /\ req'[r].pc = "revert" /\ req'[r].from \notin ShippedStatuses =>
                  \A l \in Locations : outstanding'[req'[r].o][l] = 0
  <2>1. \A s \in Requests : s = r
    BY AllAtDesk
  <2>2. ~Dies(r) /\ left.crashes = Crashes /\ left.figures = Figures
    <3>1. ~Dies(r)
      BY <1>0, <1>2 DEF Dies, DeskInv, LeftBounded, LeftType
    <3>2. left'.crashes = left.crashes /\ left'.figures = left.figures
      BY <1>2, <3>1, FiguresKept DEF Turns, Prepares, Commits, Reverts, Works, Throws, Delivers, Reverses, Deletes
    <3> QED
      BY <1>2, <3>1, <3>2
  <2>3. /\ \A o \in Orders : Sum(outstanding[o]) <= MaxQty
        /\ \A o \in Orders :
              /\ req[r].o = o => ~Underway(r)
              /\ order[o].status \notin ShippedStatuses
              => NothingOut(o)
        /\ req[r].pc = "effects" /\ "reverseWrite" \notin req[r].todo => NothingOut(req[r].o)
        /\ req[r].pc = "revert" /\ req[r].from \notin ShippedStatuses => NothingOut(req[r].o)
    BY <2>1, <2>2 DEF Once, OnceForOrder, OnceForRequest, Aside
  <2>4. req[r].pc # "idle" => req[r].o \in Orders
    BY InFlightRequest
  <2>5. Underway(r) => order[req[r].o].status = req[r].to
    BY DEF DeskInv, Held
  <2>6. CASE Prepares(r)
    BY <2>3, <2>6 DEF Prepares, KeepsOrder, NothingOut
  <2>7. CASE Reverts(r)
    BY <2>3, <2>4, <2>7 DEF Reverts, NothingOut, Underway
  <2>8. ASSUME NEW todo, NEW loc, Commits(r, todo, loc)
        PROVE  /\ \A o \in Orders : Sum(outstanding'[o]) <= MaxQty
               /\ \A o \in Orders :
                     /\ req'[r].o = o => req'[r].pc \notin {"effects", "revert"}
                     /\ order'[o].status \notin ShippedStatuses
                     => \A l \in Locations : outstanding'[o][l] = 0
               /\ req'[r].pc = "effects" /\ "reverseWrite" \notin req'[r].todo =>
                    \A l \in Locations : outstanding'[req'[r].o][l] = 0
               /\ req'[r].pc # "revert"
    BY <2>3, <2>4, <2>8 DEF Commits, NothingOut, Underway
  <2>9. ASSUME NEW e, Goes(r, e)
        PROVE  /\ req[r].pc = "effects" /\ req[r].o \in Orders /\ e \in req[r].todo
               /\ Due(req[r].todo, req[r].from, req[r].to)
               /\ e \in {"deliver", "deliverPart"} => req[r].todo = {e}
               /\ e \notin {"reverseRead", "reverseWrite"} =>
                     "reverseRead" \notin req[r].todo /\ "reverseWrite" \notin req[r].todo
               /\ e = "reverseWrite" => "reverseRead" \notin req[r].todo
    BY <2>9, CurrentEffect DEF Goes
  <2>10. ASSUME NEW e, Works(r, e)
         PROVE  /\ \A o \in Orders :
                     /\ req'[r].o = o => req'[r].pc \notin {"effects", "revert"}
                     /\ order'[o].status \notin ShippedStatuses
                     => \A l \in Locations : outstanding'[o][l] = 0
                /\ req'[r].pc = "effects" /\ "reverseWrite" \notin req'[r].todo =>
                     \A l \in Locations : outstanding'[req'[r].o][l] = 0
                /\ req'[r].pc # "revert" /\ outstanding' = outstanding
    <3>1. Goes(r, e) /\ e # "reverseWrite" /\ outstanding' = outstanding /\ order' = order
      BY <2>10 DEF Works, Goes
    <3>2. CASE req[r].todo = {e}
      BY <2>3, <2>9, <3>1, <3>2 DEF Goes, NothingOut, Underway
    <3>3. CASE req[r].todo # {e}
      BY <2>3, <2>9, <3>1, <3>3 DEF Goes, NothingOut, Underway
    <3> QED
      BY <3>2, <3>3
  <2>11. ASSUME NEW e, Throws(r, e)
         PROVE  /\ \A o \in Orders :
                     /\ req'[r].o = o => req'[r].pc \notin {"effects", "revert"}
                     /\ order'[o].status \notin ShippedStatuses
                     => \A l \in Locations : outstanding'[o][l] = 0
                /\ req'[r].pc = "revert" /\ req'[r].from \notin ShippedStatuses =>
                     \A l \in Locations : outstanding'[req'[r].o][l] = 0
                /\ req'[r].pc # "effects" /\ outstanding' = outstanding
    <3>1. /\ req[r].pc = "effects" /\ Due(req[r].todo, req[r].from, req[r].to)
          /\ outstanding' = outstanding /\ order' = order
          /\ req'[r].pc = "revert" /\ req'[r].o = req[r].o /\ req'[r].from = req[r].from
      BY <2>11 DEF Throws, Running, Dues
    <3>2. req[r].from \notin ShippedStatuses => NothingOut(req[r].o)
      BY <2>3, <3>1 DEF Due, ShippedStatuses
    <3> QED
      BY <2>3, <3>1, <3>2 DEF NothingOut, Underway
  <2>12. ASSUME NEW e, NEW n, Delivers(r, e, n)
         PROVE  /\ \A o \in Orders : Sum(outstanding'[o]) <= MaxQty
                /\ \A o \in Orders :
                      /\ req'[r].o = o => req'[r].pc \notin {"effects", "revert"}
                      /\ order'[o].status \notin ShippedStatuses
                      => \A l \in Locations : outstanding'[o][l] = 0
                /\ req'[r].pc = "idle"
    <3>1. Goes(r, e) /\ e \in {"deliver", "deliverPart"} /\ order' = order
      BY <2>12 DEF Delivers, Goes
    <3>2. /\ req[r].pc = "effects" /\ req[r].todo = {e} /\ req[r].to \in ShippedStatuses
          /\ NothingOut(req[r].o) /\ req'[r].pc = "idle"
      BY <2>3, <2>9, <3>1 DEF Goes, Due
    <3>3. \A o \in Orders \ {req[r].o} : outstanding'[o] = outstanding[o]
      BY <2>4, <2>12, <3>2, <1>0 DEF Delivers, GoesOut
    <3>4. Sum(outstanding'[req[r].o]) <= MaxQty
      BY <2>12, <3>2, DeliveredOnce DEF DeskInv
    <3>5. order'[req[r].o].status \in ShippedStatuses
      BY <2>5, <3>1, <3>2 DEF Underway
    <3>6. \A o \in Orders \ {req[r].o} : Sum(outstanding'[o]) <= MaxQty
      BY <2>3, <3>3
    <3> QED
      BY <2>3, <2>4, <3>1, <3>2, <3>3, <3>4, <3>5, <3>6 DEF NothingOut, Underway
  <2>13. CASE Reverses(r) \/ Deletes(r)
    <3>1. /\ req[r].o \in Orders /\ Owes(r) /\ Returns(req[r].o, req[r].owed)
          /\ \A l \in Locations : outstanding'[req[r].o][l] = 0
          /\ \A o \in Orders \ {req[r].o} : outstanding'[o] = outstanding[o]
      BY <2>13, OwedReturned DEF DeskInv
    <3>2. Sum(outstanding'[req[r].o]) = 0
      <4>1. outstanding'[req[r].o] \in [Locations -> Int]
        BY <1>0, <3>1
      <4> QED
        BY <3>1, <4>1, SumOfNone
    <3>3. \A o \in Orders : Sum(outstanding'[o]) <= MaxQty
      <4>1. \A o \in Orders \ {req[r].o} : Sum(outstanding'[o]) <= MaxQty
        BY <2>3, <3>1
      <4> QED
        BY <1>0, <3>2, <4>1
    <3>4. /\ req'[r].pc \in {"idle", "effects"}
          /\ req'[r].pc = "effects" => req'[r].o = req[r].o
          /\ \A o \in Orders \ {req[r].o} : order'[o] = order[o]
      BY <2>13 DEF Reverses, Deletes, Goes
    <3> QED
      BY <2>3, <3>1, <3>3, <3>4 DEF NothingOut
  <2> QED
    BY <1>2, <2>2, <2>3, <2>6, <2>7, <2>8, <2>10, <2>11, <2>12, <2>13 DEF Turns
<1>3. ASSUME NEW r \in Requests, Turns(r) PROVE Once'
  <2>1. \A s \in Requests : s = r
    BY AllAtDesk
  <2> QED
    BY <1>2, <1>3, <2>1 DEF Once, OnceForOrder, OnceForRequest, Aside, NothingOut, Underway
<1> QED
  BY <1>1, <1>3

LEMMA OnceFromTheStart == Init => Once
<1> SUFFICES ASSUME Init PROVE Once
  OBVIOUS
<1>1. \A o \in Orders : NothingOut(o) /\ outstanding[o] \in [Locations -> Int]
  BY DEF Init, NothingOut
<1>2. \A o \in Orders : Sum(outstanding[o]) = 0
  BY <1>1, SumOfNone DEF NothingOut
<1>3. \A r \in Requests : req[r].pc = "idle"
  BY DEF Init, IdleRequest
<1> QED
  BY <1>1, <1>2, <1>3, BoundsAssumption DEF Once, OnceForOrder, OnceForRequest

\* At one desk no history, whatever stock transactions fail and whatever retracks,
\* deletions and edits follow, makes an order ship or return its units twice, unless the
\* process dies or the figures of an effect fail after its units have moved.
THEOREM ShippedOnce == OneDesk => (Spec => []NeverTwice)
<1> SUFFICES ASSUME OneDesk PROVE Spec => []NeverTwice
  OBVIOUS
<1>1. Init => Dues /\ DeskInv /\ Once
  BY DeskFromTheStart, OnceFromTheStart
<1>2. IInv /\ IInv' /\ Dues /\ DeskInv /\ Once /\ [Next]_vars => Dues' /\ DeskInv' /\ Once'
  <2> SUFFICES ASSUME IInv, IInv', Dues, DeskInv, Once, [Next]_vars
               PROVE  Dues' /\ DeskInv' /\ Once'
    OBVIOUS
  <2>1. Rests \/ \E r \in Requests : Turns(r) \/ Fumbles(r)
    BY NextKind DEF DeskInv
  <2>2. ASSUME NEW r \in Requests, Fumbles(r) PROVE Once'
    BY <2>2, FumbleSpent DEF Once, DeskInv
  <2> QED
    BY <2>1, <2>2, DuesKept, DeskKept, OnceKept
<1>3. DeskInv /\ Once => NeverTwice
  BY DEF DeskInv, OutCounted, Once, OnceForOrder, NeverTwice
<1> QED
  BY <1>1, <1>2, <1>3, Invariance, PTL DEF Spec
------------------------------------------------------------------------------
(***************************************************************************)
(* At one desk, when nothing fails: a request gives up only where nothing  *)
(* has shipped.  What a retrack to AGENT_ASSIGNED needs for its            *)
(* reservation was free when its gate looked, and is free still.           *)
(***************************************************************************)

Exact(o) ==
    /\ (\E l \in Locations : outstanding[o][l] # 0) <=> order[o].status \in ShippedStatuses
    /\ \A l \in Locations : outstanding[o][l] # 0 => l = order[o].loc

HasRoom(r) == req[r].loc \in Locations /\ Free(req[r].loc) >= QtyOf(r)

Ready(r) ==
    /\ req[r].pc = "revert" => req[r].from \notin ShippedStatuses
    /\ req[r].pc = "effects" => order[req[r].o].loc = req[r].loc
    /\ req[r].pc = "gate" /\ req[r].to = "AGENT_ASSIGNED" => req[r].loc \in Locations
    /\ req[r].pc = "commit" /\ req[r].to = "AGENT_ASSIGNED" => HasRoom(r)
    /\ req[r].pc = "effects" /\ req[r].from = "DELIVERED" /\ "reserve" \in req[r].todo => HasRoom(r)

Exactly ==
    NothingFailed => /\ \A o \in Orders : Aside(o) => Exact(o)
                     /\ \A r \in Requests : Ready(r)

\* What fails takes a failure from the bound.
LEMMA NoFailure ==
    ASSUME IInv, LeftBounded, NEW r \in Requests, Turns(r), left'.failures = Failures
    PROVE  left'.failures = left.failures
<1>1. left \in LeftType /\ Failures \in Nat
  BY BoundsAssumption DEF IInv, TypeOK
<1>2. CASE left' = left
  BY <1>2
<1>3. CASE Dies(r)
  BY <1>3 DEF Dies
<1>4. ASSUME NEW e, Works(r, e) \/ Throws(r, e) PROVE left'.failures = left.failures
  <2>1. left'.failures \in {left.failures, left.failures - 1}
    BY <1>4 DEF Works, Throws
  <2> QED
    BY <1>1, <2>1 DEF LeftBounded, LeftType
<1> QED
  BY <1>2, <1>3, <1>4 DEF Turns, Prepares, Commits, Reverts, Delivers, Reverses, Deletes

LEMMA ReadyKept ==
    ASSUME OneDesk, IInv, IInv', Calm, Dues, NEW r \in Requests, Turns(r), Ready(r), ~Dies(r),
           left'.failures = left.failures, left.failures \in Nat
    PROVE  /\ req'[r].pc = "revert" => req'[r].from \notin ShippedStatuses
           /\ req'[r].pc = "effects" => order'[req'[r].o].loc = req'[r].loc
           /\ req'[r].pc = "gate" /\ req'[r].to = "AGENT_ASSIGNED" => req'[r].loc \in Locations
           /\ \/ req'[r].pc = "commit" /\ req'[r].to = "AGENT_ASSIGNED"
              \/ req'[r].pc = "effects" /\ req'[r].from = "DELIVERED" /\ "reserve" \in req'[r].todo
              => req'[r].loc \in Locations /\ FreeAfter(req'[r].loc) >= order'[req'[r].o].qty
<1>0. ASSUME NEW e, Running(r, e)
      PROVE  /\ req[r].pc = "effects" /\ req[r].o \in Orders /\ e \in req[r].todo
             /\ Due(req[r].todo, req[r].from, req[r].to)
             /\ e \in {"deliver", "deliverPart"} => req[r].todo = {e}
             /\ e \notin {"reverseRead", "reverseWrite"} =>
                   "reverseRead" \notin req[r].todo /\ "reverseWrite" \notin req[r].todo
             /\ e = "reverseWrite" => "reverseRead" \notin req[r].todo
  BY <1>0, CurrentEffect
<1>1. UNCHANGED level => \A l : FreeAfter(l) = Free(l)
  BY DEF FreeAfter, Free
<1>2. CASE Prepares(r)
  BY <1>2 DEF Prepares, Ready
<1>3. CASE Reverts(r) \/ Deletes(r)
  BY <1>3 DEF Reverts, Deletes
<1>4. ASSUME NEW todo, NEW loc, Commits(r, todo, loc)
      PROVE  /\ req'[r].pc \in {"idle", "effects"}
             /\ req'[r].pc = "effects" => order'[req'[r].o].loc = req'[r].loc
             /\ req'[r].pc = "effects" /\ req'[r].from = "DELIVERED" /\ "reserve" \in req'[r].todo
                  => req'[r].loc \in Locations /\ FreeAfter(req'[r].loc) >= order'[req'[r].o].qty
  <2>1. CASE todo = {}
    BY <1>4, <2>1 DEF Commits
  <2>2. CASE todo # {}
    <3>1. /\ req[r].pc = "commit" /\ UNCHANGED level
          /\ req'[r].pc = "effects" /\ req'[r].o = req[r].o /\ req'[r].todo = todo
          /\ req'[r].loc = loc /\ order'[req[r].o].loc = loc
          /\ order'[req[r].o].qty = order[req[r].o].qty
          /\ Due(todo, req[r].from, req[r].to)
          /\ req[r].to = "AGENT_ASSIGNED" => loc = req[r].loc
      BY <1>4, <2>2 DEF Commits
    <3>2. "reserve" \in todo => HasRoom(r) /\ loc = req[r].loc
      BY <3>1 DEF Due, Ready
    <3> QED
      BY <1>1, <3>1, <3>2 DEF HasRoom, QtyOf
  <2> QED
    BY <2>1, <2>2
<1>5. ASSUME NEW e, Goes(r, e),
             "reserve" \in req[r].todo /\ "reserve" # e /\ req[r].from = "DELIVERED" /\ req[r].todo # {e}
               => \A l \in Locations : FreeAfter(l) >= Free(l)
      PROVE  /\ req'[r].pc \in {"idle", "effects"}
             /\ req'[r].pc = "effects" => order'[req'[r].o].loc = req'[r].loc
             /\ req'[r].pc = "effects" /\ req'[r].from = "DELIVERED" /\ "reserve" \in req'[r].todo
                  => req'[r].loc \in Locations /\ FreeAfter(req'[r].loc) >= order'[req'[r].o].qty
  <2>1. CASE req[r].todo = {e}
    BY <1>5, <2>1 DEF Goes
  <2>2. CASE req[r].todo # {e}
    <3>1. /\ req'[r].pc = "effects" /\ req'[r].todo = req[r].todo \ {e} /\ order' = order
          /\ req'[r].o = req[r].o /\ req'[r].from = req[r].from /\ req'[r].loc = req[r].loc
          /\ req[r].pc = "effects"
      BY <1>5, <2>2 DEF Goes, Running
    <3>2. order'[req'[r].o].loc = req'[r].loc
      BY <3>1 DEF Ready
    <3>3. ASSUME req[r].from = "DELIVERED", "reserve" \in req[r].todo \ {e}
          PROVE  req[r].loc \in Locations /\ FreeAfter(req[r].loc) >= QtyOf(r)
      <4>1. HasRoom(r) /\ \A l \in Locations : FreeAfter(l) >= Free(l)
        BY <1>5, <2>2, <3>1, <3>3 DEF Ready
      <4>2. PICK l, n : l = req[r].loc /\ n = QtyOf(r)
        OBVIOUS
      <4>3. l \in Locations /\ Free(l) >= n /\ FreeAfter(l) >= Free(l)
        BY <4>1, <4>2 DEF HasRoom
      <4>4. Free(l) \in Int /\ FreeAfter(l) \in Int /\ n \in Int
        <5>1. level \in [Locations -> LevelType] /\ n \in Nat
          BY <1>5, <4>2, EffectFacts DEF Goes, StockTypeOK
        <5>2. Free(l) \in Int
          BY <4>3, <5>1 DEF Free, LevelType
        <5>3. level' \in [Locations -> LevelType]
          BY DEF IInv, TypeOK, StockTypeOK
        <5>4. FreeAfter(l) \in Int
          BY <4>3, <5>3 DEF FreeAfter, LevelType
        <5> QED
          BY <5>1, <5>2, <5>4
      <4> QED
        BY <4>2, <4>3, <4>4
    <3> QED
      BY <3>1, <3>2, <3>3 DEF QtyOf
  <2> QED
    BY <2>1, <2>2
<1>6. ASSUME NEW e, Works(r, e)
      PROVE  "reserve" \in req[r].todo /\ "reserve" # e /\ req[r].from = "DELIVERED" /\ req[r].todo # {e}
               => \A l \in Locations : FreeAfter(l) >= Free(l)
  <2>1. Running(r, e) /\ e \notin {"deliver", "deliverPart", "reverseWrite"}
    BY <1>6 DEF Works, Goes
  <2>2. "reserve" \in req[r].todo /\ "reserve" # e /\ req[r].from = "DELIVERED"
           => e \in {"reverseRead", "logReservation"}
    BY <1>0, <2>1 DEF Due, ShippedStatuses
  <2>3. e \in {"reverseRead", "logReservation"} => UNCHANGED level
    BY <1>6 DEF Works
  <2>4. UNCHANGED level => \A l \in Locations : FreeAfter(l) >= Free(l)
    <3>1. \A l \in Locations : Free(l) \in Int
      BY DEF Free, LevelType, IInv, TypeOK, StockTypeOK
    <3> QED
      BY <1>1, <3>1
  <2> QED
    BY <2>2, <2>3, <2>4
<1>7. ASSUME NEW e, NEW n, Delivers(r, e, n) \/ (e = "reverseWrite" /\ Reverses(r))
      PROVE  /\ Goes(r, e)
             /\ "reserve" \in req[r].todo /\ "reserve" # e /\ req[r].from = "DELIVERED" /\ req[r].todo # {e}
                  => \A l \in Locations : FreeAfter(l) >= Free(l)
  <2>1. CASE Delivers(r, e, n)
    <3>1. Goes(r, e) /\ Running(r, e) /\ e \in {"deliver", "deliverPart"}
      BY <2>1 DEF Delivers, Goes
    <3> QED
      BY <1>0, <3>1
  <2>2. CASE e = "reverseWrite" /\ Reverses(r)
    BY <2>2 DEF Reverses
  <2> QED
    BY <1>7, <2>1, <2>2
<1>8. ASSUME NEW e, Throws(r, e)
      PROVE  req'[r].pc = "revert" /\ req'[r].from \notin ShippedStatuses
  <2>1. /\ Running(r, e) /\ req'[r].pc = "revert" /\ req'[r].from = req[r].from
        /\ \/ e = "reserve" /\ ~CanReserve(r)
           \/ e \in {"releasePrevious", "deliver", "deliverPart", "writeOff"}
    BY <1>8 DEF Throws
  <2>2. SUFFICES ASSUME req[r].from \in ShippedStatuses PROVE FALSE
    BY <2>1
  <2>3. /\ req[r].from = "DELIVERED" /\ e \in req[r].todo /\ req[r].pc = "effects"
        /\ req[r].todo \subseteq {"reverseRead", "reverseWrite", "rereserve", "logReservation", "reserve"}
    BY <1>0, <2>1, <2>2 DEF Due
  <2>4. e = "reserve" /\ ~CanReserve(r)
    BY <2>1, <2>3
  <2> QED
    BY <2>3, <2>4 DEF Ready, HasRoom, CanReserve
<1>9. CASE Reverses(r) \/ \E e : Works(r, e) \/ \E n : Delivers(r, e, n)
  BY <1>5, <1>6, <1>7, <1>9 DEF Works
<1> QED
  BY <1>2, <1>3, <1>4, <1>8, <1>9 DEF Turns
LEMMA ExactKept ==
    ASSUME OneDesk, IInv, IInv', Dues, DeskInv, Once, left.crashes = Crashes,
           NEW r \in Requests, Turns(r), ~Dies(r), Ready(r),
           \A o \in Orders : Aside(o) => Exact(o),
           req'[r].pc = "revert" => req'[r].from \notin ShippedStatuses,
           left'.failures = left.failures, left.figures = Figures
    PROVE  \A o \in Orders :
              (req'[r].o = o => req'[r].pc \notin {"effects", "revert"}) =>
                /\ (\E l \in Locations : outstanding'[o][l] # 0) <=> order'[o].status \in ShippedStatuses
                /\ \A l \in Locations : outstanding'[o][l] # 0 => l = order'[o].loc
<1> DEFINE ExactNext(o) ==
             /\ (\E l \in Locations : outstanding'[o][l] # 0) <=> order'[o].status \in ShippedStatuses
             /\ \A l \in Locations : outstanding'[o][l] # 0 => l = order'[o].loc
<1>0. /\ outstanding \in [Orders -> [Locations -> Int]]
      /\ req[r].pc # "idle" => req[r].o \in Orders
      /\ order[req[r].o].status = req[r].to \/ ~Underway(r)
  BY InFlightRequest DEF IInv, TypeOK, StockTypeOK, DeskInv, Held
<1>1. \A o \in Orders : (req[r].o = o => ~Underway(r)) => Exact(o)
  <2>1. \A s \in Requests : s = r
    BY AllAtDesk
  <2> QED
    BY <2>1 DEF Aside
<1>2. /\ req[r].pc = "effects" /\ "reverseWrite" \notin req[r].todo => NothingOut(req[r].o)
      /\ req[r].pc = "revert" => NothingOut(req[r].o)
  BY DEF Once, OnceForRequest, Ready
<1>3. ASSUME NEW e, Running(r, e)
      PROVE  /\ req[r].pc = "effects" /\ req[r].o \in Orders /\ e \in req[r].todo
             /\ Due(req[r].todo, req[r].from, req[r].to)
             /\ e \in {"deliver", "deliverPart"} => req[r].todo = {e}
             /\ e \notin {"reverseRead", "reverseWrite"} =>
                   "reverseRead" \notin req[r].todo /\ "reverseWrite" \notin req[r].todo
             /\ e = "reverseWrite" => "reverseRead" \notin req[r].todo
  BY <1>3, CurrentEffect
\* Orders of other requests, and orders that keep what matters.
<1>4. ASSUME NEW o \in Orders, Exact(o), outstanding'[o] = outstanding[o],
             order'[o].status = order[o].status, order'[o].loc = order[o].loc
      PROVE  ExactNext(o)
  BY <1>4 DEF Exact
<1>5. ASSUME NEW o, \A l \in Locations : outstanding'[o][l] = 0, order'[o].status \notin ShippedStatuses
      PROVE  ExactNext(o)
  BY <1>5
<1>6. SUFFICES ASSUME NEW o \in Orders, req'[r].o = o => req'[r].pc \notin {"effects", "revert"}
               PROVE  ExactNext(o)
  OBVIOUS
<1> HIDE DEF ExactNext
<1>7. CASE Prepares(r)
  BY <1>1, <1>4, <1>7 DEF Prepares, KeepsOrder
<1>8. CASE req[r].pc # "idle" /\ o # req[r].o
  <2>1. outstanding'[o] = outstanding[o] /\ (order'[o] = order[o] \/ Prepares(r))
    <3>1. ASSUME NEW owed, Returns(req[r].o, owed) PROVE outstanding'[o] = outstanding[o]
      BY <1>0, <1>8, <3>1 DEF Returns
    <3>2. ASSUME NEW e, NEW n, Delivers(r, e, n) PROVE outstanding'[o] = outstanding[o]
      BY <1>0, <1>8, <3>2 DEF Delivers, GoesOut
    <3>3. CASE Reverses(r) \/ Deletes(r) \/ \E e, n : Delivers(r, e, n)
      BY <1>8, <3>1, <3>2, <3>3 DEF Reverses, Deletes, Delivers, Goes
    <3>4. CASE Reverts(r) \/ (\E todo, loc : Commits(r, todo, loc)) \/ \E e : Works(r, e) \/ Throws(r, e)
      BY <1>8, <3>4 DEF Reverts, Commits, Works, Throws, Goes
    <3>5. CASE Prepares(r)
      BY <3>5 DEF Prepares
    <3> QED
      BY <3>3, <3>4, <3>5 DEF Turns
  <2> QED
    BY <1>1, <1>4, <1>7, <1>8, <2>1
<1>9. CASE o = req[r].o /\ ~Prepares(r)
  <2>1. CASE Reverts(r)
    <3>1. NothingOut(o) /\ order'[o].status = req[r].from /\ outstanding' = outstanding
          /\ req[r].from \notin ShippedStatuses
      BY <1>2, <1>9, <2>1 DEF Reverts, Ready
    <3> QED
      BY <1>5, <3>1 DEF NothingOut
  <2>2. CASE Deletes(r)
    <3>1. (\A l \in Locations : outstanding'[o][l] = 0) /\ order'[o].status = "DELETED"
      <4>1. /\ req[r].o \in Orders /\ Owes(r) /\ Returns(req[r].o, req[r].owed)
            /\ \A l \in Locations : outstanding'[req[r].o][l] = 0
            /\ \A p \in Orders \ {req[r].o} : outstanding'[p] = outstanding[p]
        BY <2>2, OwedReturned DEF DeskInv
      <4> QED
        BY <1>9, <2>2, <4>1 DEF Deletes
    <3> QED
      BY <1>5, <3>1 DEF ShippedStatuses
  <2>3. ASSUME NEW todo, NEW loc, Commits(r, todo, loc) PROVE ExactNext(o)
    <3>1. CASE todo # {}
      BY <1>6, <1>9, <2>3, <3>1 DEF Commits
    <3>2. CASE todo = {}
      <4>1. /\ order[o].status = req[r].from /\ order'[o].status = req[r].to
            /\ order'[o].loc = loc /\ outstanding' = outstanding
            /\ req[r].from \in ShippedStatuses <=> req[r].to \in ShippedStatuses
            /\ req[r].to # "AGENT_ASSIGNED" => loc = order[o].loc
            /\ ~Underway(r)
        BY <1>9, <2>3, <3>2 DEF Commits, Underway
      <4>2. Exact(o)
        BY <1>1, <4>1
      <4>3. CASE req[r].to = "AGENT_ASSIGNED"
        <5>1. order'[o].status \notin ShippedStatuses /\ order[o].status \notin ShippedStatuses
          BY <4>1, <4>3 DEF ShippedStatuses
        <5> QED
          BY <1>5, <4>1, <4>2, <5>1 DEF Exact
      <4>4. CASE req[r].to # "AGENT_ASSIGNED"
        <5>1. outstanding'[o] = outstanding[o] /\ order'[o].loc = order[o].loc
              /\ (order'[o].status \in ShippedStatuses <=> order[o].status \in ShippedStatuses)
          BY <4>1, <4>4
        <5> QED
          BY <4>2, <5>1 DEF Exact, ExactNext
      <4> QED
        BY <4>3, <4>4
    <3> QED
      BY <3>1, <3>2
  <2>4. ASSUME NEW e, Goes(r, e)
        PROVE  /\ req[r].todo = {e} /\ order' = order /\ order[o].status = req[r].to
               /\ order[o].loc = req[r].loc /\ Due({e}, req[r].from, req[r].to)
    <3>1. Running(r, e) /\ req[r].todo = {e} /\ order' = order
      BY <1>6, <1>9, <2>4 DEF Goes
    <3>2. req[r].pc = "effects" /\ Due({e}, req[r].from, req[r].to)
      BY <1>3, <3>1
    <3> QED
      BY <1>0, <1>9, <3>1, <3>2 DEF Underway, Ready
  <2>5. ASSUME NEW e, Works(r, e) PROVE ExactNext(o)
    <3>1. Goes(r, e) /\ e \notin {"deliver", "deliverPart", "reverseWrite"} /\ outstanding' = outstanding
          /\ req[r].pc = "effects"
      BY <2>5 DEF Works, Goes, Running
    <3>2. /\ req[r].todo = {e} /\ order' = order /\ order[o].status = req[r].to
          /\ Due({e}, req[r].from, req[r].to)
      BY <2>4, <3>1
    <3>3. req[r].to \notin ShippedStatuses /\ NothingOut(o)
      BY <1>2, <1>9, <3>1, <3>2 DEF Due
    <3> QED
      BY <1>5, <3>1, <3>2, <3>3 DEF NothingOut
  <2>6. CASE Reverses(r)
    <3>1. /\ Due({"reverseWrite"}, req[r].from, req[r].to) /\ order' = order
          /\ order[o].status = req[r].to
      BY <2>4, <2>6 DEF Reverses
    <3>2. order'[o].status \notin ShippedStatuses
      BY <3>1 DEF Due, ShippedStatuses
    <3>3. /\ req[r].o \in Orders /\ Owes(r) /\ Returns(req[r].o, req[r].owed)
          /\ \A l \in Locations : outstanding'[req[r].o][l] = 0
          /\ \A p \in Orders \ {req[r].o} : outstanding'[p] = outstanding[p]
      BY <2>6, OwedReturned DEF DeskInv
    <3> QED
      BY <1>5, <1>9, <3>2, <3>3
  <2>7. ASSUME NEW e, NEW n, Delivers(r, e, n) PROVE ExactNext(o)
    <3>1. Goes(r, e) /\ e \in {"deliver", "deliverPart"} /\ n > 0 /\ n \in Nat
          /\ req[r].pc = "effects"
      BY <2>7 DEF Delivers, Goes, Running, GoesOut
    <3>2. /\ req[r].todo = {e} /\ order' = order /\ order[o].status = req[r].to
          /\ order[o].loc = req[r].loc /\ Due({e}, req[r].from, req[r].to)
      BY <2>4, <3>1
    <3>3. req[r].to \in ShippedStatuses /\ NothingOut(o)
      BY <1>2, <1>9, <3>1, <3>2 DEF Due
    <3>4. /\ req[r].o \in Orders /\ req[r].loc \in Locations /\ n \in Nat
          /\ outstanding \in [Orders -> [Locations -> Int]]
          /\ outstanding[req[r].o][req[r].loc] \in Int
          /\ outstanding'[req[r].o] = [outstanding[req[r].o] EXCEPT
                   ![req[r].loc] = outstanding[req[r].o][req[r].loc] + n]
          /\ outstanding'[req[r].o][req[r].loc] = outstanding[req[r].o][req[r].loc] + n
          /\ \A k \in Locations \ {req[r].loc} : outstanding'[req[r].o][k] = outstanding[req[r].o][k]
          /\ \A p \in Orders \ {req[r].o} : outstanding'[p] = outstanding[p]
      BY <2>7, <3>1, DeliveryCounted DEF Delivers
    <3>5. outstanding'[o][req[r].loc] = n /\ \A k \in Locations \ {req[r].loc} : outstanding'[o][k] = 0
      BY <1>9, <3>1, <3>3, <3>4 DEF NothingOut
    <3> QED
      BY <3>1, <3>2, <3>3, <3>4, <3>5 DEF ExactNext
  <2>8. ASSUME NEW e, Throws(r, e) PROVE FALSE
    BY <1>3, <1>6, <1>9, <2>8 DEF Throws
  <2> QED
    BY <1>9, <2>1, <2>2, <2>3, <2>5, <2>6, <2>7, <2>8 DEF Turns
<1> QED
  <2>1. req[r].pc # "idle" \/ Prepares(r)
    BY DEF Turns, Reverts, Commits, Works, Throws, Delivers, Reverses, Deletes, Goes, Running
  <2> QED
    BY <1>7, <1>8, <1>9, <2>1

LEMMA ExactlyKept ==
    ASSUME OneDesk, Crashes = 0, IInv, IInv', Calm, Dues, DeskInv, Once, Exactly,
           Rests \/ \E r \in Requests : Turns(r)
    PROVE  Exactly'
<1>1. left \in LeftType /\ left' \in LeftType /\ left.crashes = Crashes
  <2>1. left \in LeftType /\ left' \in LeftType
    BY DEF IInv, TypeOK
  <2> QED
    BY <2>1 DEF LeftType, DeskInv, LeftBounded
<1>2. CASE Rests
  <2>1. /\ UNCHANGED <<req, outstanding, level>> /\ left'.failures = left.failures
        /\ left'.figures = left.figures
    BY <1>2 DEF Rests
  <2>2. \A o \in Orders : /\ order'[o].status = order[o].status /\ order'[o].loc = order[o].loc
                          /\ order'[o].qty = order[o].qty
    BY <1>2 DEF Rests, KeepsOrder
  <2>3. \A r \in Requests : req[r].pc # "idle" => req[r].o \in Orders
    BY InFlightRequest
  <2> QED
    BY <2>1, <2>2, <2>3 DEF Exactly, NothingFailed, Exact, Aside, Underway, Ready, HasRoom,
       Free, QtyOf
<1>3. ASSUME NEW r \in Requests, Turns(r) PROVE Exactly'
  <2>1. \A s \in Requests : s = r
    BY AllAtDesk
  <2>2. SUFFICES ASSUME left'.failures = Failures, left'.figures = Figures
                 PROVE  (\A o \in Orders : Aside(o) => Exact(o))' /\ Ready(r)'
    BY <2>1 DEF Exactly, NothingFailed
  <2>3. left'.failures = left.failures /\ left.failures = Failures /\ left.figures = Figures
    BY <1>3, <2>2, NoFailure, FiguresKept DEF DeskInv
  <2>4. /\ \A o \in Orders : Aside(o) => Exact(o)
        /\ Ready(r) /\ left.failures \in Nat
    BY <1>1, <2>3 DEF Exactly, NothingFailed, LeftType
  <2>5. ~Dies(r)
    BY <1>1 DEF Dies, LeftType
  <2>6. /\ req'[r].pc = "revert" => req'[r].from \notin ShippedStatuses
        /\ req'[r].pc = "effects" => order'[req'[r].o].loc = req'[r].loc
        /\ req'[r].pc = "gate" /\ req'[r].to = "AGENT_ASSIGNED" => req'[r].loc \in Locations
        /\ \/ req'[r].pc = "commit" /\ req'[r].to = "AGENT_ASSIGNED"
           \/ req'[r].pc = "effects" /\ req'[r].from = "DELIVERED" /\ "reserve" \in req'[r].todo
           => req'[r].loc \in Locations /\ FreeAfter(req'[r].loc) >= order'[req'[r].o].qty
    BY <1>3, <2>3, <2>4, <2>5, ReadyKept
  <2>7. Ready(r)'
    BY <2>6 DEF Ready, HasRoom, FreeAfter, Free, QtyOf
  <2>8. \A o \in Orders :
           (req'[r].o = o => req'[r].pc \notin {"effects", "revert"}) =>
             /\ (\E l \in Locations : outstanding'[o][l] # 0) <=> order'[o].status \in ShippedStatuses
             /\ \A l \in Locations : outstanding'[o][l] # 0 => l = order'[o].loc
    BY <1>1, <1>3, <2>3, <2>4, <2>5, <2>6, ExactKept
  <2> QED
    BY <2>7, <2>8 DEF Aside, Underway, Exact
<1> QED
  BY <1>2, <1>3

LEMMA ExactFromTheStart == Init => Exactly
<1> SUFFICES ASSUME Init PROVE Exactly
  OBVIOUS
<1>1. \A o \in Orders : NothingOut(o) /\ order[o].status \notin ShippedStatuses
  BY StartAssumption DEF Init, NothingOut, ShippedStatuses
<1>2. \A r \in Requests : req[r].pc = "idle"
  BY DEF Init, IdleRequest
<1> QED
  BY <1>1, <1>2 DEF Exactly, Exact, Ready, NothingOut

\* At one desk, while the process lives and units move for orders only, an order between
\* requests has units out, from its own location, exactly when its status says so.
THEOREM StatusTellsStock ==
    OneDesk /\ Crashes = 0 /\ Adjustments = 0 => (Spec => []ShippedExactlyWhenSaid)
<1> SUFFICES ASSUME OneDesk, Crashes = 0, Adjustments = 0 PROVE Spec => []ShippedExactlyWhenSaid
  OBVIOUS
<1>1. Init => Calm /\ Dues /\ DeskInv /\ Once /\ Exactly
  BY DeskFromTheStart, CalmFromTheStart, OnceFromTheStart, ExactFromTheStart
<1>2. /\ IInv /\ IInv' /\ Calm /\ Dues /\ DeskInv /\ Once /\ Exactly /\ [Next]_vars
      => Calm' /\ Dues' /\ DeskInv' /\ Once' /\ Exactly'
  <2> SUFFICES ASSUME IInv, IInv', Calm, Dues, DeskInv, Once, Exactly, [Next]_vars
               PROVE  Calm' /\ Dues' /\ DeskInv' /\ Once' /\ Exactly'
    OBVIOUS
  <2>1. Rests \/ \E r \in Requests : Turns(r) \/ Fumbles(r)
    BY NextKind DEF DeskInv
  <2>2. ASSUME NEW r \in Requests, Fumbles(r) PROVE Once' /\ Exactly'
    BY <2>2, FumbleSpent DEF Once, Exactly, NothingFailed, DeskInv
  <2> QED
    BY <2>1, <2>2, CalmKept, DuesKept, DeskKept, OnceKept, ExactlyKept
<1>3. IInv /\ DeskInv /\ Exactly => ShippedExactlyWhenSaid
  <2> SUFFICES ASSUME IInv, DeskInv, Exactly PROVE ShippedExactlyWhenSaid
    OBVIOUS
  <2>1. ASSUME NothingFailed, NEW o \in Orders, ~InFlight(o)
        PROVE  Exact(o)
    BY <2>1 DEF InFlight, Aside, Underway, Exactly
  <2>2. \A o \in Orders : \A l \in Locations : outstanding[o][l] # 0 => outstanding[o][l] > 0
    BY DEF IInv, TypeOK, StockTypeOK, DeskInv, OutCounted
  <2> QED
    BY <2>1, <2>2 DEF ShippedExactlyWhenSaid, Exact
<1> QED
  BY <1>1, <1>2, <1>3, Invariance, PTL DEF Spec
------------------------------------------------------------------------------
(***************************************************************************)
(* Shelves and batches at one desk.  A reversal puts back into the batches *)
(* what it puts back on the shelves, because the units that are out left   *)
(* the batches when they left the shelves.                                 *)
(***************************************************************************)

InStep == Sum(Shelved) = batches.remaining

OutOf == [o \in Orders |-> Sum(outstanding[o])]

Room == Sum(OutOf) <= batches.received - batches.remaining

LEMMA OutOfType == IInv => OutOf \in [Orders -> Int]
<1> SUFFICES ASSUME IInv PROVE OutOf \in [Orders -> Int]
  OBVIOUS
<1>1. ASSUME NEW f \in [Locations -> Int] PROVE Sum(f) \in Int
  <2>1. Sum(f) = SumFunctionOnSet(f, Locations)
    BY DEF Sum, SumFunction
  <2> QED
    BY <2>1, FinitenessAssumption, SumType
<1>2. outstanding \in [Orders -> [Locations -> Int]]
  BY DEF IInv, TypeOK, StockTypeOK
<1> QED
  BY <1>1, <1>2 DEF OutOf

\* A shipment of n units, m of them to a customer.
LEMMA ShippedInStep ==
    ASSUME IInv, IInv', InStep, Room, NEW o, NEW l, NEW n, NEW m, Shipped(o, l, n, m)
    PROVE  InStep' /\ Room'
<1>1. PICK f, g, u, v, h, k : /\ f = Shelved /\ g = Shelved' /\ u = OutOf /\ v = OutOf'
                              /\ h = outstanding[o] /\ k = outstanding'[o]
  OBVIOUS
<1>2. /\ o \in Orders /\ l \in Locations /\ n \in Nat /\ m \in Nat /\ m <= n /\ -n \in Int
      /\ g = [f EXCEPT ![l] = f[l] + (-n)]
      /\ batches' = [batches EXCEPT !.remaining = batches.remaining - n]
      /\ outstanding' = [outstanding EXCEPT ![o] = [h EXCEPT ![l] = h[l] + m]]
  BY <1>1 DEF Shipped
<1>3. /\ batches \in [remaining : Nat, received : Nat]
      /\ outstanding \in [Orders -> [Locations -> Int]]
      /\ f \in [Locations -> Int] /\ u \in [Orders -> Int]
  BY <1>1, ShelvedType, OutOfType DEF IInv, TypeOK, StockTypeOK
<1>4. Sum(f) \in Int /\ Sum(g) = Sum(f) + (-n)
  <2>1. GainsAt(f, Locations, l, -n, g)
    BY <1>2, <1>3, FinitenessAssumption DEF GainsAt
  <2> QED
    BY <2>1, SumAfterOne
<1>5. Sum(h) \in Int /\ Sum(k) = Sum(h) + m
  <2>1. h \in [Locations -> Int] /\ k = [h EXCEPT ![l] = h[l] + m]
    BY <1>1, <1>2, <1>3
  <2>2. GainsAt(h, Locations, l, m, k)
    BY <1>2, <2>1, FinitenessAssumption DEF GainsAt
  <2> QED
    BY <2>2, SumAfterOne
<1>6. Sum(u) \in Int /\ Sum(v) = Sum(u) + m
  <2>1. \A p \in Orders \ {o} : outstanding'[p] = outstanding[p]
    BY <1>2, <1>3
  <2>2. v = [p \in Orders |-> Sum(outstanding'[p])] /\ u = [p \in Orders |-> Sum(outstanding[p])]
    BY <1>1 DEF OutOf
  <2>3. v[o] = u[o] + m /\ \A p \in Orders \ {o} : v[p] = u[p]
    BY <1>1, <1>2, <1>5, <2>1, <2>2
  <2>4. v = [u EXCEPT ![o] = u[o] + m]
    BY <1>2, <2>2, <2>3
  <2>5. GainsAt(u, Orders, o, m, v)
    BY <1>2, <1>3, <2>4, FinitenessAssumption DEF GainsAt
  <2> QED
    BY <2>5, SumAfterOne
<1>7. batches'.remaining = batches.remaining - n /\ batches'.received = batches.received
  BY <1>2, <1>3
<1>8. Sum(g) = batches'.remaining
  BY <1>1, <1>2, <1>3, <1>4, <1>7 DEF InStep
<1>9. Sum(v) <= batches'.received - batches'.remaining
  BY <1>1, <1>2, <1>3, <1>6, <1>7 DEF Room
<1> QED
  BY <1>1, <1>8, <1>9 DEF InStep, Room

LEMMA GivenBackInStep ==
    ASSUME IInv, IInv', OutCounted, InStep, Room, NEW o, NEW owed, GivenBack(o, owed),
           \A l \in Locations : owed[l] = outstanding[o][l]
    PROVE  InStep' /\ Room'
<1>1. PICK f, g, u, v, k, s : /\ f = Shelved /\ g = Shelved' /\ u = OutOf /\ v = OutOf'
                              /\ k = outstanding'[o] /\ s = Sum(owed)
  OBVIOUS
<1>2. /\ o \in Orders /\ owed \in [Locations -> Nat] /\ owed \in [Locations -> Int]
      /\ g = [l \in Locations |-> f[l] + owed[l]]
      /\ batches' = [batches EXCEPT !.remaining = batches.remaining + Back(owed)]
      /\ outstanding' = [outstanding EXCEPT ![o] = [l \in Locations |-> outstanding[o][l] - owed[l]]]
  BY <1>1 DEF GivenBack
<1>3. /\ batches \in [remaining : Nat, received : Nat]
      /\ outstanding \in [Orders -> [Locations -> Int]]
      /\ f \in [Locations -> Int] /\ u \in [Orders -> Int]
  BY <1>1, ShelvedType, OutOfType DEF IInv, TypeOK, StockTypeOK
<1>4. outstanding[o] = owed /\ u[o] = s
  <2>1. outstanding[o] = owed
    BY <1>2, <1>3
  <2> QED
    BY <1>1, <1>2, <2>1 DEF OutOf
<1>5. s \in Nat /\ -s \in Int
  BY <1>1, <1>2, FinitenessAssumption, SumOfNaturals
<1>6. Sum(f) \in Int /\ Sum(g) = Sum(f) + s
  <2>1. GainsAll(f, Locations, owed, g)
    BY <1>2, <1>3, FinitenessAssumption DEF GainsAll
  <2> QED
    BY <1>1, <2>1, SumAfterAll
<1>7. k \in [Locations -> Int] /\ Sum(k) = 0
  <2>1. k = [l \in Locations |-> outstanding[o][l] - owed[l]]
    BY <1>1, <1>2, <1>3
  <2>2. k \in [Locations -> Int] /\ \A l \in Locations : k[l] = 0
    BY <1>2, <1>4, <2>1
  <2> QED
    BY <2>2, SumOfNone
<1>8. Sum(u) \in Int /\ Sum(v) = Sum(u) + (-s) /\ Sum(v) \in Nat
  <2>1. \A p \in Orders \ {o} : outstanding'[p] = outstanding[p]
    BY <1>2, <1>3
  <2>2. v = [p \in Orders |-> Sum(outstanding'[p])] /\ u = [p \in Orders |-> Sum(outstanding[p])]
    BY <1>1 DEF OutOf
  <2>3. v[o] = u[o] + (-s) /\ \A p \in Orders \ {o} : v[p] = u[p]
    BY <1>1, <1>2, <1>4, <1>5, <1>7, <2>1, <2>2
  <2>4. v = [u EXCEPT ![o] = u[o] + (-s)]
    BY <1>2, <2>2, <2>3
  <2>5. GainsAt(u, Orders, o, -s, v)
    BY <1>2, <1>3, <1>5, <2>4, FinitenessAssumption DEF GainsAt
  <2>6. v \in [Orders -> Nat]
    <3>1. \A p \in Orders : outstanding[p] \in [Locations -> Nat]
      BY <1>3 DEF OutCounted
    <3>2. \A p \in Orders : u[p] \in Nat
      BY <2>2, <3>1, FinitenessAssumption, SumOfNaturals
    <3>3. \A p \in Orders : v[p] \in Nat
      BY <1>1, <1>2, <1>7, <2>2, <2>3, <3>2
    <3> QED
      BY <2>2, <3>3
  <2>7. Sum(v) \in Nat
    BY <2>6, FinitenessAssumption, SumOfNaturals
  <2> QED
    BY <2>5, <2>7, SumAfterOne
<1>9. Back(owed) = s
  <2>1. PICK a, b, d : a = batches.received /\ b = batches.remaining /\ d = Sum(u)
    OBVIOUS
  <2>2. a \in Nat /\ b \in Nat /\ d \in Int /\ d <= a - b
    BY <1>1, <1>3, <1>8, <2>1 DEF Room
  <2>3. d + (-s) >= 0
    BY <1>8, <2>1
  <2>4. s <= a - b
    BY <1>5, <2>2, <2>3
  <2>5. Back(owed) = IF s < a - b THEN s ELSE a - b
    BY <1>1, <2>1 DEF Back, Lesser
  <2> QED
    BY <1>5, <2>2, <2>4, <2>5
<1>10. batches'.remaining = batches.remaining + s /\ batches'.received = batches.received
  BY <1>2, <1>3, <1>9
<1>11. Sum(g) = batches'.remaining
  BY <1>1, <1>6, <1>10 DEF InStep
<1>12. Sum(v) <= batches'.received - batches'.remaining
  BY <1>1, <1>3, <1>5, <1>8, <1>10 DEF Room
<1> QED
  BY <1>1, <1>11, <1>12 DEF InStep, Room

LEMMA InStepKept ==
    ASSUME IInv, IInv', Calm, Dues, OutCounted, OwedRight, InStep, Room, [Next]_vars
    PROVE  InStep' /\ Room'
<1>1. CASE NoneMoved
  BY <1>1 DEF NoneMoved, InStep, Room, OutOf
<1>2. ASSUME NEW r \in Requests, ReverseWrite(r) \/ DeleteCommit(r),
             GivenBack(req[r].o, req[r].owed)
      PROVE  InStep' /\ Room'
  <2>1. Owes(r)
    <3>1. CASE DeleteCommit(r)
      BY <3>1 DEF DeleteCommit, Owes
    <3>2. CASE ReverseWrite(r)
      <4>1. Running(r, "reverseWrite")
        BY <3>2 DEF ReverseWrite
      <4>2. PICK e : e = "reverseWrite"
        OBVIOUS
      <4>3. /\ req[r].pc = "effects" /\ req[r].o \in Orders /\ e \in req[r].todo
            /\ Due(req[r].todo, req[r].from, req[r].to)
            /\ e \in {"deliver", "deliverPart"} => req[r].todo = {e}
            /\ e \notin {"reverseRead", "reverseWrite"} =>
                  "reverseRead" \notin req[r].todo /\ "reverseWrite" \notin req[r].todo
            /\ e = "reverseWrite" => "reverseRead" \notin req[r].todo
        BY <4>1, <4>2, CurrentEffect
      <4> QED
        BY <4>2, <4>3 DEF Owes
    <3> QED
      BY <1>2, <3>1, <3>2
  <2>2. \A l \in Locations : req[r].owed[l] = outstanding[req[r].o][l]
    BY <2>1 DEF OwedRight
  <2> QED
    BY <1>2, <2>2, GivenBackInStep
<1> QED
  BY <1>1, <1>2, StepMoves, ShippedInStep

\* At one desk, while units move for orders only, the shelves hold what the batches hold:
\* in every state, though the code promises it between requests only, and through crashes,
\* failed effects, retracks and deletions.
THEOREM ShelvesMatch == OneDesk /\ Adjustments = 0 => (Spec => []ShelfMatchesBatches)
<1> SUFFICES ASSUME OneDesk, Adjustments = 0 PROVE Spec => []ShelfMatchesBatches
  OBVIOUS
<1>1. Init => Calm /\ Dues /\ DeskInv /\ InStep /\ Room
  <2> SUFFICES ASSUME Init PROVE InStep /\ Room
    BY DeskFromTheStart, CalmFromTheStart
  <2>1. Shelved = InitialStock /\ batches.remaining = InitialUnits /\ batches.received = InitialUnits
    BY StockAssumption DEF Init, Shelved
  <2>2. InStep
    BY <2>1, StockAssumption DEF InStep
  <2>3. \A o \in Orders : outstanding[o] \in [Locations -> Int] /\ \A l \in Locations : outstanding[o][l] = 0
    BY DEF Init
  <2>4. \A o \in Orders : OutOf[o] = 0
    BY <2>3, SumOfNone DEF OutOf
  <2>5. Sum(OutOf) = 0
    <3>1. PICK u : u = OutOf
      OBVIOUS
    <3>2. Sum(u) = SumFunctionOnSet(u, Orders)
      BY <3>1 DEF OutOf, Sum, SumFunction
    <3> QED
      BY <2>4, <3>1, <3>2, FinitenessAssumption, SumSigns
  <2> QED
    BY <2>1, <2>2, <2>5, StockAssumption DEF Room
<1>2. /\ IInv /\ IInv' /\ Calm /\ Dues /\ DeskInv /\ InStep /\ Room /\ [Next]_vars
      => Calm' /\ Dues' /\ DeskInv' /\ InStep' /\ Room'
  BY CalmKept, DuesKept, DeskKept, InStepKept DEF DeskInv
<1>3. InStep => ShelfMatchesBatches
  BY DEF InStep, Shelved, ShelfMatchesBatches
<1> QED
  BY <1>1, <1>2, <1>3, Invariance, PTL DEF Spec

------------------------------------------------------------------------------
(***************************************************************************)
(* Holds at one desk: nobody opens one between a request's gate and its    *)
(* compare-and-set.                                                        *)
(***************************************************************************)

Deliveries == {"DELIVERED", "PARTIALLY_DELIVERED"}

Deciding(r) == req[r].pc \in {"gate", "commit"}

Unheld == \A r \in Requests : Deciding(r) /\ req[r].to \in Deliveries => ~order[req[r].o].hold

KeepsHolds == \A o \in Orders : order'[o].hold => order[o].hold

KeepsStatus(o) == order'[o].status = order[o].status

LEMMA HoldsKept ==
    ASSUME IInv, [Next]_vars, ~\E r \in Requests : Commit(r)
    PROVE  KeepsHolds
<1>1. ASSUME UNCHANGED order PROVE KeepsHolds
  BY <1>1 DEF KeepsHolds
<1>2. ASSUME NEW r \in Requests, Revert(r) \/ DeleteCommit(r) \/ EditCommit(r) PROVE KeepsHolds
  <2>1. ASSUME NEW o \in Orders PROVE order'[o].hold = order[o].hold
    BY <1>2 DEF Revert, DeleteCommit, EditCommit, IInv, TypeOK, OrderType
  <2> QED
    BY <2>1 DEF KeepsHolds
<1>3. ASSUME NEW p \in Orders, ResolveRetrack(p) PROVE KeepsHolds
  BY <1>3 DEF ResolveRetrack, KeepsHolds, IInv, TypeOK, OrderType
<1>4. ASSUME NEW r \in Requests, Gate(r) \/ Effect(r) \/ DeleteLock(r) \/ Crash(r)
      PROVE  KeepsHolds
  BY <1>1, <1>4 DEF Gate, Effect, DeleteLock, Crash, LogReservation, Reserve, ReReserve,
     ReleaseQuietly, ReleasePrevious, Deliver, DeliverPart, WriteOff, ReverseRead,
     ReverseWrite
<1>5. ASSUME NEW r \in Requests,
             \/ \E e \in EffectNames : EffectFails(r, e)
             \/ \E p \in Orders :
                  \/ \E to \in Targets, l \in Locations \cup {NoLoc}, hold \in BOOLEAN,
                        n \in 0 .. MaxQty : Read(r, p, to, l, hold, n)
                  \/ \E n \in Quantities : EditRead(r, p, n)
                  \/ DeleteRead(r, p)
      PROVE  KeepsHolds
  <2>1. ASSUME NEW e, EffectFails(r, e) PROVE UNCHANGED order
    BY <2>1 DEF EffectFails
  <2>2. ASSUME NEW p, NEW to, NEW l, NEW hold, NEW n, Read(r, p, to, l, hold, n)
        PROVE  UNCHANGED order
    BY <2>2 DEF Read
  <2>3. ASSUME NEW p, NEW n, EditRead(r, p, n) \/ DeleteRead(r, p)
        PROVE  UNCHANGED order
    BY <2>3 DEF EditRead, DeleteRead
  <2> QED
    BY <1>1, <1>5, <2>1, <2>2, <2>3
<1>6. ASSUME NEW l \in Locations,
             \/ \E n \in Quantities : Intake(l, n)
             \/ \E d \in Discrepancies : Adjust(l, d) \/ CountStock(l, d)
             \/ \E approved \in BOOLEAN : ResolveCount(l, approved)
      PROVE  KeepsHolds
  BY <1>1, <1>6 DEF Intake, Adjust, CountStock, ResolveCount
<1>7. CASE UNCHANGED vars
  BY <1>1, <1>7 DEF vars
<1> QED
  BY <1>2, <1>3, <1>4, <1>5, <1>6, <1>7 DEF Next, Step

LEMMA KeepsStatuses ==
    ASSUME IInv, [Next]_vars, ~\E r \in Requests : Commit(r) \/ Revert(r) \/ DeleteCommit(r),
           NEW o \in Orders
    PROVE  KeepsStatus(o)
<1>1. ASSUME UNCHANGED order PROVE KeepsStatus(o)
  BY <1>1 DEF KeepsStatus
<1>2. ASSUME NEW r \in Requests, EditCommit(r) PROVE KeepsStatus(o)
  BY <1>2 DEF EditCommit, KeepsStatus, IInv, TypeOK, OrderType
<1>3. ASSUME NEW p \in Orders, ResolveRetrack(p) PROVE KeepsStatus(o)
  BY <1>3 DEF ResolveRetrack, KeepsStatus, IInv, TypeOK, OrderType
<1>4. ASSUME NEW r \in Requests, Gate(r) \/ Effect(r) \/ DeleteLock(r) \/ Crash(r)
      PROVE  KeepsStatus(o)
  BY <1>1, <1>4 DEF Gate, Effect, DeleteLock, Crash, LogReservation, Reserve, ReReserve,
     ReleaseQuietly, ReleasePrevious, Deliver, DeliverPart, WriteOff, ReverseRead,
     ReverseWrite
<1>5. ASSUME NEW r \in Requests,
             \/ \E e \in EffectNames : EffectFails(r, e)
             \/ \E p \in Orders :
                  \/ \E to \in Targets, l \in Locations \cup {NoLoc}, hold \in BOOLEAN,
                        n \in 0 .. MaxQty : Read(r, p, to, l, hold, n)
                  \/ \E n \in Quantities : EditRead(r, p, n)
                  \/ DeleteRead(r, p)
      PROVE  KeepsStatus(o)
  <2>1. ASSUME NEW e, EffectFails(r, e) PROVE UNCHANGED order
    BY <2>1 DEF EffectFails
  <2>2. ASSUME NEW p, NEW to, NEW l, NEW hold, NEW n, Read(r, p, to, l, hold, n)
        PROVE  UNCHANGED order
    BY <2>2 DEF Read
  <2>3. ASSUME NEW p, NEW n, EditRead(r, p, n) \/ DeleteRead(r, p)
        PROVE  UNCHANGED order
    BY <2>3 DEF EditRead, DeleteRead
  <2> QED
    BY <1>1, <1>5, <2>1, <2>2, <2>3
<1>6. ASSUME NEW l \in Locations,
             \/ \E n \in Quantities : Intake(l, n)
             \/ \E d \in Discrepancies : Adjust(l, d) \/ CountStock(l, d)
             \/ \E approved \in BOOLEAN : ResolveCount(l, approved)
      PROVE  KeepsStatus(o)
  BY <1>1, <1>6 DEF Intake, Adjust, CountStock, ResolveCount
<1>7. CASE UNCHANGED vars
  BY <1>1, <1>7 DEF vars
<1> QED
  BY <1>2, <1>3, <1>4, <1>5, <1>6, <1>7 DEF Next, Step

\* Who decides after a step that is no compare-and-set decided the same before, or has
\* just read the order.
LEMMA UnheldKept ==
    ASSUME OneDesk, IInv, Unheld, [Next]_vars
    PROVE  Unheld'
<1> DEFINE Fine(r) == /\ req'[r].pc \in {"gate", "commit"} => req'[r].o \in Orders
                      /\ req'[r].pc \in {"gate", "commit"} /\ req'[r].to \in Deliveries
                           => ~order'[req'[r].o].hold
<1>1. SUFFICES ASSUME NEW r \in Requests PROVE Fine(r)
  BY DEF Unheld, Deciding
<1>2. \A s \in Requests : s = r
  BY AllAtDesk
<1>3. /\ order \in [Orders -> OrderType] /\ req \in [Requests -> RequestType]
      /\ req[r].pc # "idle" => req[r].o \in Orders
  BY InFlightRequest DEF IInv, TypeOK
<1>4. ASSUME req'[r].pc \notin {"gate", "commit"} PROVE Fine(r)
  BY <1>4
<1>5. CASE Commit(r)
  <2>1. req'[r].pc \in {"idle", "effects"}
    <3>1. CASE Unmoved(r)
      <4>1. PICK todo, loc : Commits(r, todo, loc)
        BY <1>5, <3>1, CommitWins
      <4> QED
        BY <4>1 DEF Commits
    <3>2. CASE ~Unmoved(r)
      BY <1>3, <1>5, <3>2 DEF Commit, IdleRequest
    <3> QED
      BY <3>1, <3>2
  <2> QED
    BY <1>4, <2>1
<1>6. CASE ~Commit(r)
  <2>1. KeepsHolds
    BY <1>2, <1>6, HoldsKept
  <2>2. ASSUME UNCHANGED req PROVE Fine(r)
    BY <1>3, <2>1, <2>2 DEF KeepsHolds, Unheld, Deciding
  <2>3. CASE Gate(r)
    <3>1. req'[r].pc = "idle" \/ (req'[r].o = req[r].o /\ req'[r].to = req[r].to /\ req[r].pc = "gate")
      BY <1>3, <2>3 DEF Gate, RequestType, IdleRequest
    <3> QED
      BY <1>3, <2>1, <3>1 DEF KeepsHolds, Unheld, Deciding
  <2>4. CASE Revert(r) \/ EditCommit(r) \/ DeleteLock(r) \/ DeleteCommit(r) \/ Crash(r)
    <3>1. req'[r].pc \in {"idle", "deleting"}
      BY <1>3, <2>4 DEF Revert, EditCommit, DeleteLock, DeleteCommit, Crash, RequestType, IdleRequest
    <3> QED
      BY <1>4, <3>1
  <2>5. ASSUME NEW e, Running(r, e), Done(r, e) \/ Throw(r) PROVE Fine(r)
    <3>1. req'[r].pc \in {"idle", "effects", "revert"}
      BY <1>3, <2>5 DEF Running, Done, Throw, After, RequestType, IdleRequest
    <3> QED
      BY <1>4, <3>1
  <2>6. CASE Effect(r)
    <3>1. CASE ReverseRead(r)
      <4>1. req'[r].pc \in {"idle", "effects"}
        BY <1>3, <3>1 DEF ReverseRead, After, Running, RequestType, IdleRequest
      <4> QED
        BY <1>4, <4>1
    <3>2. CASE ~ReverseRead(r)
      <4>1. \E e : Running(r, e) /\ (Done(r, e) \/ Throw(r))
        BY <2>6, <3>2 DEF Effect, LogReservation, Reserve, ReReserve, ReleaseQuietly,
           ReleasePrevious, Deliver, DeliverPart, WriteOff, ReverseWrite, Figure
      <4> QED
        BY <2>5, <4>1
    <3> QED
      BY <3>1, <3>2
  <2>7. CASE \E e \in EffectNames : EffectFails(r, e)
    BY <2>5, <2>7 DEF EffectFails
  <2>8. ASSUME NEW o \in Orders, NEW to, NEW l, NEW hold, NEW n, Read(r, o, to, l, hold, n)
        PROVE  Fine(r)
    <3>1. req'[r].o = o /\ req'[r].to = to /\ HoldGate(o, to) /\ order' = order
      BY <1>3, <2>8 DEF Read, RequestType, IdleRequest
    <3> QED
      BY <3>1 DEF HoldGate, Deliveries
  <2>9. ASSUME NEW o, NEW n, EditRead(r, o, n) \/ DeleteRead(r, o) PROVE Fine(r)
    <3>1. req'[r].pc \in {"edit", "delete"}
      BY <1>3, <2>9 DEF EditRead, DeleteRead, RequestType, IdleRequest
    <3> QED
      BY <1>4, <3>1
  <2>10. CASE \/ \E o \in Orders : ResolveRetrack(o)
              \/ \E l \in Locations : \E n \in Quantities : Intake(l, n)
              \/ \E l \in Locations : \E d \in Discrepancies : Adjust(l, d) \/ CountStock(l, d)
              \/ \E l \in Locations : \E approved \in BOOLEAN : ResolveCount(l, approved)
              \/ UNCHANGED vars
    BY <2>2, <2>10 DEF ResolveRetrack, Intake, Adjust, CountStock, ResolveCount, vars
  <2> HIDE DEF Fine
  <2> QED
    BY <1>2, <1>6, <2>3, <2>4, <2>6, <2>7, <2>8, <2>9, <2>10 DEF Next, Step
<1> QED
  BY <1>5, <1>6

\* Only a compare-and-set brings an order to a delivery, or a revert.
LEMMA HeldStep ==
    ASSUME IInv, Unheld, [Next]_vars, NEW o \in Orders
    PROVE  order'[o].status \in {"DELIVERED", "PARTIALLY_DELIVERED"} \ {order[o].status}
             => ~order[o].hold \/ \E r \in Requests : req[r].pc = "revert" /\ req[r].o = o
<1> SUFFICES ASSUME order'[o].status \in Deliveries, order'[o].status # order[o].status
             PROVE  ~order[o].hold \/ \E r \in Requests : req[r].pc = "revert" /\ req[r].o = o
  BY DEF Deliveries
<1>1. order \in [Orders -> OrderType]
  BY DEF IInv, TypeOK
<1>2. CASE \E r \in Requests : Commit(r)
  <2>1. PICK r \in Requests : Commit(r)
    BY <1>2
  <2>2. /\ req[r].pc = "commit" /\ req[r].o = o /\ req[r].to = order'[o].status
    BY <1>1, <2>1 DEF Commit, OrderType
  <2> QED
    BY <2>2 DEF Unheld, Deciding
<1>3. CASE \E r \in Requests : Revert(r)
  <2>1. PICK r \in Requests : Revert(r)
    BY <1>3
  <2>2. req[r].pc = "revert" /\ req[r].o = o
    BY <1>1, <2>1 DEF Revert
  <2> QED
    BY <2>2
<1>4. CASE \E r \in Requests : DeleteCommit(r)
  <2>1. PICK r \in Requests : DeleteCommit(r)
    BY <1>4
  <2>2. order'[o].status \in {order[o].status, "DELETED"}
    BY <1>1, <2>1 DEF DeleteCommit, OrderType
  <2> QED
    BY <2>2 DEF Deliveries
<1>5. CASE ~\E r \in Requests : Commit(r) \/ Revert(r) \/ DeleteCommit(r)
  <2>1. KeepsStatus(o)
    BY <1>5, KeepsStatuses
  <2> QED
    BY <2>1 DEF KeepsStatus
<1> QED
  BY <1>2, <1>3, <1>4, <1>5

\* At one desk, an order under a retrack hold gets to a delivery only as the status a failed
\* request gives back: the hold its gate did not see is still not there when it commits.
THEOREM HoldBlocksDelivery == OneDesk => (Spec => HeldNeverDelivered)
<1> SUFFICES ASSUME OneDesk PROVE Spec => HeldNeverDelivered
  OBVIOUS
<1>1. Init => Unheld
  BY DEF Init, IdleRequest, Unheld, Deciding
<1>2. IInv /\ Unheld /\ [Next]_vars => Unheld'
  BY UnheldKept
<1>3. IInv /\ Unheld /\ [Next]_vars =>
        \A o \in Orders :
          order'[o].status \in {"DELIVERED", "PARTIALLY_DELIVERED"} \ {order[o].status}
            => \/ ~order[o].hold
               \/ \E r \in Requests : req[r].pc = "revert" /\ req[r].o = o
  BY HeldStep
<1> QED
  BY <1>1, <1>2, <1>3, Invariance, PTL DEF Spec, HeldNeverDelivered

------------------------------------------------------------------------------
(***************************************************************************)
(* Reservations at one desk.  Every allocated order, and every request     *)
(* that has still to let go of what its order holds, sits on the units of  *)
(* one location; a location's reserved count covers all who sit there.     *)
(***************************************************************************)

\* The effects that let go of an order's units at the request's location.
Lets == {"releaseQuietly", "deliver", "deliverPart"}

\* Where an order sits whose request has the effects todo before it.
Awaits(todo, to, prev, loc) ==
    IF "releasePrevious" \in todo THEN prev
    ELSE IF todo \cap {"reserve", "rereserve"} # {} THEN NoLoc
    ELSE IF todo \cap Lets # {} \/ to \in ReservedStatuses THEN loc
    ELSE NoLoc

\* What the effects todo may be.
Plan(todo, from, to, prev) ==
    /\ "releasePrevious" \in todo => "reserve" \in todo /\ prev # NoLoc
    /\ \A e \in todo \cap Lets : /\ todo \cap Lets = {e}
                                 /\ from \in ReservedStatuses /\ to \notin ReservedStatuses
                                 /\ todo \cap {"reserve", "rereserve", "releasePrevious"} = {}
    /\ "writeOff" \in todo => from \notin ReservedStatuses

\* Where an order of status s and location loc sits when nobody is at work on it.
Parked(s, loc) == IF s \in ReservedStatuses THEN loc ELSE NoLoc

\* Where the order of a request sits that has changed its status.
SeatOf(r) ==
    IF req[r].pc = "revert" THEN Parked(req[r].from, order[req[r].o].loc)
    ELSE Awaits(req[r].todo, req[r].to, req[r].prev, req[r].loc)

Sits(o, l) ==
    IF Aside(o) THEN l = Parked(order[o].status, order[o].loc)
    ELSE \E r \in Requests : Underway(r) /\ req[r].o = o /\ l = SeatOf(r)

ClaimOf(o, l) == IF Sits(o, l) THEN order[o].qty ELSE 0

ClaimsAt(l) == [o \in Orders |-> ClaimOf(o, l)]

Covered == \A l \in Locations : Sum(ClaimsAt(l)) <= level[l].reserved

\* What a request can rely on.
Sure(r) ==
    /\ req[r].pc \in {"gate", "commit"} => req[r].prev = order[req[r].o].loc
    /\ req[r].pc = "edit" => /\ req[r].from = order[req[r].o].status
                             /\ req[r].loc = order[req[r].o].loc
    /\ req[r].pc = "effects" => /\ Plan(req[r].todo, req[r].from, req[r].to, req[r].prev)
                                /\ "reserve" \in req[r].todo => HasRoom(r)
                                /\ order[req[r].o].loc = req[r].loc

Reserving == warned = {} /\ NothingFailed => Covered /\ \A r \in Requests : Sure(r)

\* A status change takes its order's seat with it, or none.
LEMMA PlanAtCommit ==
    ASSUME NEW from, NEW to, IsTransitionAllowed(from, to), NEW prev, NEW loc,
           NEW todo, todo = Effects(from, to, prev, loc), to # "AGENT_ASSIGNED" => loc = prev
    PROVE  /\ Plan(todo, from, to, prev)
           /\ Awaits(todo, to, prev, loc) \in {NoLoc, Parked(from, prev)}
           /\ "reserve" \in todo => to = "AGENT_ASSIGNED"
<1>1. from \in Statuses /\ to \in Statuses
  BY TransitionsStayInStatuses DEF IsTransitionAllowed
<1>2. /\ "deliver" \in todo <=> to = "DELIVERED" /\ ~IsRetrackSideEffect(from, to)
      /\ "deliverPart" \in todo <=> to = "PARTIALLY_DELIVERED"
      /\ "reserve" \in todo <=> to = "AGENT_ASSIGNED"
      /\ "writeOff" \in todo => to = "WRITTEN_OFF"
      /\ "rereserve" \in todo <=> Undoes(from, to) /\ to \in {"DISPATCHED", "IN_TRANSIT"} /\ loc # NoLoc
      /\ "releaseQuietly" \in todo => IsRetrackSideEffect(from, to) /\ from \in ReservedStatuses
                                      /\ PositionOf[to] <= 3
      /\ "releasePrevious" \in todo => MovesAway(from, to, prev, loc)
  BY DEF Effects, EffectNames, EffectRank
<1>3. "releasePrevious" \in todo => /\ from = "AGENT_ASSIGNED" /\ to = "AGENT_ASSIGNED"
                                    /\ prev # NoLoc
  BY <1>2 DEF MovesAway
<1>4. \A e \in todo \cap Lets : from \in ReservedStatuses /\ to \notin ReservedStatuses
                               /\ todo \cap Lets = {e}
  <2>1. CASE "releaseQuietly" \in todo
    <3>1. from \in ReservedStatuses /\ to \notin ReservedStatuses
      BY <1>1, <1>2, <2>1 DEF PositionOf, ReservedStatuses, Statuses
    <3>2. to # "PARTIALLY_DELIVERED" /\ "deliver" \notin todo
      <4>1. IsRetrackSideEffect(from, to) /\ from \in ReservedStatuses
        BY <1>2, <2>1
      <4>2. to # "PARTIALLY_DELIVERED"
        BY <4>1 DEF IsRetrackSideEffect, LifecyclePos, PositionOf, ReservedStatuses, Statuses
      <4> QED
        BY <1>2, <4>1, <4>2
    <3> QED
      BY <1>2, <2>1, <3>1, <3>2 DEF Lets
  <2>2. CASE "deliver" \in todo \/ "deliverPart" \in todo
    <3>1. \/ from \in {"AGENT_ASSIGNED", "IN_TRANSIT"} /\ to = "DELIVERED"
          \/ from = "IN_TRANSIT" /\ to = "PARTIALLY_DELIVERED"
          \/ from = "REMITTED" /\ to = "DELIVERED"
      BY <1>2, <2>2 DEF IsTransitionAllowed, AllowedTransitions, ForwardTransitions,
                        DeleteRestoreTransitions, RetrackTransitions
    <3>2. from # "REMITTED"
      BY <1>1, <1>2, <2>2, <3>1 DEF IsRetrackSideEffect, LifecyclePos, PositionOf, Statuses
    <3>3. "releaseQuietly" \notin todo
      <4>1. ~IsRetrackSideEffect(from, to)
        BY <1>1, <3>1, <3>2 DEF IsRetrackSideEffect, LifecyclePos, PositionOf, Statuses
      <4> QED
        BY <1>2, <4>1
    <3> QED
      BY <1>2, <3>1, <3>2, <3>3 DEF Lets, ReservedStatuses
  <2> QED
    BY <2>1, <2>2 DEF Lets
<1>5. todo \cap Lets # {} => todo \cap {"reserve", "rereserve", "releasePrevious"} = {}
  BY <1>2, <1>3, <1>4 DEF ReservedStatuses
<1>6. "writeOff" \in todo => from \notin ReservedStatuses
  BY <1>2 DEF IsTransitionAllowed, AllowedTransitions, ForwardTransitions,
              DeleteRestoreTransitions, RetrackTransitions, ReservedStatuses
<1>7. Plan(todo, from, to, prev)
  BY <1>2, <1>3, <1>4, <1>5, <1>6 DEF Plan
<1>8. Awaits(todo, to, prev, loc) \in {NoLoc, Parked(from, prev)}
  <2>1. CASE "releasePrevious" \in todo
    BY <1>3, <2>1 DEF Awaits, Parked, ReservedStatuses
  <2>2. CASE "releasePrevious" \notin todo /\ todo \cap {"reserve", "rereserve"} # {}
    BY <2>2 DEF Awaits
  <2>3. CASE /\ "releasePrevious" \notin todo /\ todo \cap {"reserve", "rereserve"} = {}
             /\ todo \cap Lets # {} \/ to \in ReservedStatuses
    <3>1. loc = prev
      BY <1>2, <2>3
    <3>2. CASE todo \cap Lets # {}
      BY <1>4, <2>3, <3>1, <3>2 DEF Awaits, Parked
    <3>3. CASE to \in ReservedStatuses /\ loc # NoLoc
      <4>1. to \in {"DISPATCHED", "IN_TRANSIT"} /\ ~Undoes(from, to)
        BY <1>2, <2>3, <3>3 DEF ReservedStatuses
      <4>2. from # "DELIVERED"
        BY <1>1, <4>1 DEF Undoes, IsRetrackSideEffect, LifecyclePos, PositionOf, Statuses
      <4>3. from \in ReservedStatuses
        BY <4>1, <4>2 DEF IsTransitionAllowed, AllowedTransitions, ForwardTransitions,
              DeleteRestoreTransitions, RetrackTransitions, ReservedStatuses
      <4> QED
        BY <2>3, <3>1, <4>3 DEF Awaits, Parked
    <3> QED
      BY <2>3, <3>2, <3>3 DEF Awaits
  <2>4. CASE /\ "releasePrevious" \notin todo /\ todo \cap {"reserve", "rereserve"} = {}
             /\ ~(todo \cap Lets # {} \/ to \in ReservedStatuses)
    BY <2>4 DEF Awaits
  <2> QED
    BY <2>1, <2>2, <2>3, <2>4
<1> QED
  BY <1>2, <1>7, <1>8

First(e, todo) ==
    e \in todo /\ todo \subseteq EffectNames /\ \A f \in todo : EffectRank[e] <= EffectRank[f]

\* The first effect due, and where the order sits before and after it.
LEMMA PlanAfter ==
    ASSUME NEW todo, NEW e, First(e, todo),
           NEW from, NEW to, NEW prev, NEW loc, Plan(todo, from, to, prev),
           NEW s, s = Awaits(todo, to, prev, loc), NEW t, t = Awaits(todo \ {e}, to, prev, loc)
    PROVE  /\ Plan(todo \ {e}, from, to, prev)
           /\ e \in {"reserve", "rereserve"} => t \in {s, loc, NoLoc}
           /\ e \in Lets => s = loc /\ t = NoLoc /\ from \in ReservedStatuses
           /\ e = "releasePrevious" => s = prev /\ t = NoLoc /\ prev # NoLoc
           /\ e \notin {"reserve", "rereserve", "releasePrevious"} \cup Lets => t = s
           /\ "reserve" \in todo /\ e # "reserve" => e \notin Lets /\ e # "writeOff"
           /\ e = "writeOff" => from \notin ReservedStatuses
<1>1. e \in todo /\ \A f \in todo : EffectRank[e] <= EffectRank[f]
  BY DEF First
<1>2. e = "reserve" => "releasePrevious" \notin todo
  BY <1>1 DEF EffectRank
<1>3. e = "writeOff" => from \notin ReservedStatuses
  BY <1>1 DEF Plan
<1>4. "reserve" \in todo /\ e # "reserve" => e \notin Lets /\ e # "writeOff"
  <2>1. "reserve" \in todo => e # "writeOff"
    BY <1>1 DEF EffectRank
  <2> QED
    BY <1>1, <2>1 DEF Plan
<1>5. Plan(todo \ {e}, from, to, prev)
  <2>1. \A f \in (todo \ {e}) \cap Lets :
           /\ (todo \ {e}) \cap Lets = {f} /\ from \in ReservedStatuses /\ to \notin ReservedStatuses
           /\ (todo \ {e}) \cap {"reserve", "rereserve", "releasePrevious"} = {}
    BY <1>1 DEF Plan
  <2> QED
    BY <1>2, <2>1 DEF Plan
<1>6. e \in Lets => s = loc /\ t = NoLoc /\ from \in ReservedStatuses
  <2> SUFFICES ASSUME e \in Lets PROVE s = loc /\ t = NoLoc /\ from \in ReservedStatuses
    OBVIOUS
  <2>1. /\ todo \cap Lets = {e} /\ from \in ReservedStatuses /\ to \notin ReservedStatuses
        /\ todo \cap {"reserve", "rereserve", "releasePrevious"} = {}
    BY <1>1 DEF Plan
  <2> QED
    BY <2>1 DEF Awaits
<1>7. e = "releasePrevious" => s = prev /\ t = NoLoc /\ prev # NoLoc
  BY <1>1 DEF Awaits, Plan
<1>8. e \in {"reserve", "rereserve"} => t \in {s, loc, NoLoc}
  BY <1>1 DEF Awaits
<1>9. e \notin {"reserve", "rereserve", "releasePrevious"} \cup Lets => t = s
  BY <1>1 DEF Awaits
<1> QED
  BY <1>3, <1>4, <1>5, <1>6, <1>7, <1>8, <1>9

Seated(o, s) == \A l \in Locations : Sits(o, l) <=> l = s

\* Nobody is at work on order p, before the step or after it.
Sleeps(p) ==
    Aside(p) /\ Aside(p)' /\ KeepsOrder(p) /\ order'[p].qty = order[p].qty

\* What the step does to reserved counts is what moving a seat from s to t asks for.
Pays(s, q, t, n) ==
    \A l \in Locations : level'[l].reserved + (IF l = s THEN q ELSE 0)
                           >= level[l].reserved + (IF l = t THEN n ELSE 0)

LEMMA SeatFree == ASSUME NEW o, Aside(o) PROVE Seated(o, Parked(order[o].status, order[o].loc))
  BY DEF Seated, Sits

LEMMA SeatTaken ==
    ASSUME OneDesk, NEW r \in Requests, Underway(r)
    PROVE  Seated(req[r].o, SeatOf(r))
<1>1. \A q \in Requests : q = r
  BY AllAtDesk
<1>2. ~Aside(req[r].o)
  BY DEF Aside
<1> QED
  BY <1>1, <1>2 DEF Seated, Sits

LEMMA SeatFreeNext ==
    ASSUME OneDesk, NEW r \in Requests, NEW o, req'[r].o = o => req'[r].pc \notin {"effects", "revert"},
           NEW t, t = Parked(order'[o].status, order'[o].loc)
    PROVE  Seated(o, t)'
<1>1. \A q \in Requests : q = r
  BY AllAtDesk
<1>2. Aside(o)'
  BY <1>1 DEF Aside, Underway
<1> QED
  BY <1>2 DEF Seated, Sits

LEMMA SeatTakenNext ==
    ASSUME OneDesk, NEW r \in Requests, NEW o, req'[r].o = o, NEW t,
           \/ req'[r].pc = "revert" /\ t = Parked(req'[r].from, order'[o].loc)
           \/ req'[r].pc = "effects" /\ t = Awaits(req'[r].todo, req'[r].to, req'[r].prev, req'[r].loc)
    PROVE  Seated(o, t)'
<1>1. \A q \in Requests : q = r
  BY AllAtDesk
<1>2. ~Aside(o)' /\ Underway(r)'
  BY DEF Aside, Underway
<1>3. SeatOf(r)' = t
  BY DEF SeatOf
<1> QED
  BY <1>1, <1>2, <1>3 DEF Seated, Sits

LEMMA ClaimsType ==
    ASSUME IInv, NEW l \in Locations
    PROVE  ClaimsAt(l) \in [Orders -> Nat] /\ level[l].reserved \in Nat
<1>1. \A o \in Orders : order[o].qty \in Nat
  BY DEF IInv, TypeOK, OrderType
<1>2. level[l].reserved \in Nat
  BY DEF IInv, TypeOK, StockTypeOK, LevelType
<1> QED
  BY <1>1, <1>2 DEF ClaimsAt, ClaimOf

LEMMA ClaimKept ==
    ASSUME NEW p \in Orders, Sleeps(p), NEW l
    PROVE  ClaimOf(p, l)' = ClaimOf(p, l)
<1>1. Aside(p) /\ Aside(p)'
  BY DEF Sleeps
<1>2. Sits(p, l)' <=> Sits(p, l)
  BY <1>1 DEF Sits, Sleeps, KeepsOrder
<1> QED
  BY <1>2 DEF ClaimOf, Sleeps

\* An order's seat is covered by what is reserved where it sits.
LEMMA SeatCovered ==
    ASSUME IInv, Covered, NEW o \in Orders, NEW s \in Locations, Seated(o, s)
    PROVE  order[o].qty <= level[s].reserved
<1>1. PICK f : f = ClaimsAt(s)
  OBVIOUS
<1>2. f \in [Orders -> Nat] /\ level[s].reserved \in Nat /\ f[o] = order[o].qty
  BY <1>1, ClaimsType DEF ClaimsAt, ClaimOf, Seated
<1>3. Sum(f) <= level[s].reserved /\ Sum(f) = SumFunctionOnSet(f, Orders)
  BY <1>1, <1>2 DEF Covered, Sum, SumFunction
<1>4. f[o] = SumFunctionOnSet(f, {o}) /\ {o} \in SUBSET Orders
  BY <1>2, SumOne
<1>5. /\ SumFunctionOnSet(f, Orders) \in Nat /\ SumFunctionOnSet(f, {o}) \in Nat
      /\ SumFunctionOnSet(f, {o}) <= SumFunctionOnSet(f, Orders)
  BY <1>2, <1>4, FinitenessAssumption, SumPart
<1> QED
  BY <1>2, <1>3, <1>4, <1>5

\* One order moves its seat and the shelves pay for it.
LEMMA SeatMoves ==
    ASSUME IInv, IInv', Covered, NEW o \in Orders, NEW s, NEW t, Seated(o, s), Seated(o, t)',
           \A p \in Orders \ {o} : Sleeps(p), NEW q, q = order[o].qty, NEW n, n = order'[o].qty,
           Pays(s, q, t, n)
    PROVE  Covered'
<1>1. SUFFICES ASSUME NEW l \in Locations PROVE Sum(ClaimsAt(l))' <= level'[l].reserved
  BY DEF Covered
<1>2. PICK f, g, a, b : f = ClaimsAt(l) /\ g = ClaimsAt(l)' /\ a = level[l].reserved /\ b = level'[l].reserved
  OBVIOUS
<1>3. f \in [Orders -> Nat] /\ a \in Nat
  BY <1>2, ClaimsType
<1>4. g \in [Orders -> Nat] /\ b \in Nat
  <2>1. \A p \in Orders : order'[p].qty \in Nat
    BY DEF IInv, TypeOK, OrderType
  <2>2. level'[l].reserved \in Nat
    BY DEF IInv, TypeOK, StockTypeOK, LevelType
  <2> QED
    BY <1>2, <2>1, <2>2 DEF ClaimsAt, ClaimOf
<1>5. f[o] = (IF l = s THEN q ELSE 0) /\ g[o] = (IF l = t THEN n ELSE 0)
  BY <1>2 DEF ClaimsAt, ClaimOf, Seated
<1>6. ASSUME NEW p \in Orders \ {o} PROVE g[p] = f[p]
  <2>1. ClaimOf(p, l)' = ClaimOf(p, l)
    BY <1>6, ClaimKept
  <2> QED
    BY <1>2, <2>1 DEF ClaimsAt
<1>7. Sum(f) \in Int /\ Sum(g) = Sum(f) - f[o] + g[o]
  <2>1. DiffersAt(f, Orders, g, Orders, o)
    BY <1>3, <1>4, <1>6, FinitenessAssumption DEF DiffersAt
  <2>2. /\ SumFunctionOnSet(f, Orders) \in Int
        /\ SumFunctionOnSet(g, Orders) = SumFunctionOnSet(f, Orders) - f[o] + g[o]
    BY <2>1, SumAtOne
  <2> QED
    BY <1>3, <1>4, <2>2 DEF Sum, SumFunction
<1>8. Sum(f) <= a
  BY <1>2 DEF Covered
<1>9. b + f[o] >= a + g[o]
  BY <1>2, <1>5 DEF Pays
<1>10. Sum(g) <= b
  BY <1>3, <1>4, <1>7, <1>8, <1>9
<1> QED
  BY <1>2, <1>10

\* No seat moves and no reservation shrinks.
LEMMA SeatsKept ==
    ASSUME IInv, Covered, \A p \in Orders : Sleeps(p), UNCHANGED level
    PROVE  Covered'
<1>1. SUFFICES ASSUME NEW l \in Locations PROVE Sum(ClaimsAt(l))' <= level'[l].reserved
  BY DEF Covered
<1>2. ClaimsAt(l)' = ClaimsAt(l)
  BY ClaimKept DEF ClaimsAt
<1>3. Sum(ClaimsAt(l))' = Sum(ClaimsAt(l))
  BY <1>2
<1> QED
  BY <1>3 DEF Covered

\* An effect is done, with what it does to what is reserved ...
Settles(r, e) ==
    /\ Goes(r, e)
    /\ req[r].todo # {e} => req'[r].prev = req[r].prev
    /\ e \in {"reserve", "rereserve"} => Pays(NoLoc, 0, req[r].loc, QtyOf(r))
    /\ e \in Lets => Pays(req[r].loc, QtyOf(r), NoLoc, 0)
    /\ e = "releasePrevious" => Pays(req[r].prev, QtyOf(r), NoLoc, 0)
    /\ e \notin {"reserve", "rereserve", "releasePrevious"} \cup Lets => Pays(NoLoc, 0, NoLoc, 0)
    /\ e \in {"reverseRead", "reverseWrite", "logReservation", "releasePrevious"} =>
         \A l \in Locations : FreeAfter(l) >= Free(l)

\* ... or finds that it cannot be done.
Balks(r, e) ==
    /\ Throws(r, e)
    /\ \/ e = "reserve" /\ ~CanReserve(r)
       \/ e = "releasePrevious" /\ ~CanRelease(r, req[r].prev)
       \/ e \in {"deliver", "deliverPart", "writeOff"}

LEMMA PrevKept ==
    ASSUME IInv, NEW r \in Requests, NEW e, Running(r, e), req[r].todo # {e}, Done(r, e)
    PROVE  req'[r].prev = req[r].prev
<1>1. req[r] \in RequestType /\ req \in [Requests -> RequestType]
  BY DEF IInv, TypeOK
<1>2. After(r, e).prev = req[r].prev
  BY <1>1 DEF After, RequestType
<1> QED
  BY <1>1, <1>2 DEF Done

LEMMA PrevKeptOnRead ==
    ASSUME IInv, NEW r \in Requests, ReverseRead(r), req[r].todo # {"reverseRead"}
    PROVE  req'[r].prev = req[r].prev
<1>1. req[r] \in RequestType /\ req \in [Requests -> RequestType]
  BY DEF IInv, TypeOK
<1>2. PICK b, w : b = After(r, "reverseRead") /\ w = Owed(req[r].o)
  OBVIOUS
<1>3. b.prev = req[r].prev /\ b \in RequestType
  BY <1>1, <1>2, AfterType DEF After, RequestType, ReverseRead, Running
<1>4. req'[r] = [b EXCEPT !.owed = w]
  BY <1>1, <1>2 DEF ReverseRead
<1> QED
  BY <1>3, <1>4 DEF RequestType

LEMMA ReservedSet ==
    ASSUME level \in [Locations -> LevelType], NEW k, NEW v, k \in Locations => v \in Nat,
           level' = [level EXCEPT ![k].reserved = v], NEW l \in Locations
    PROVE  /\ level'[l].stock = level[l].stock
           /\ l = k => level'[l].reserved = v
           /\ l # k => level'[l].reserved = level[l].reserved
<1>1. CASE l = k
  BY <1>1 DEF LevelType
<1>2. CASE l # k
  BY <1>2 DEF LevelType
<1> QED
  BY <1>1, <1>2

LEMMA EffectSettles ==
    ASSUME IInv, QtyBounded, NEW r \in Requests, Effect(r), warned' = {},
           left'.figures = left.figures
    PROVE  \E e : Settles(r, e) \/ Balks(r, e)
<1>0. ASSUME NEW e, Running(r, e)
      PROVE  /\ req[r] \in RequestType /\ req[r].o \in Orders /\ QtyOf(r) \in Nat
             /\ req[r].loc \in Locations \cup {NoLoc} /\ req[r].prev \in Locations \cup {NoLoc}
             /\ left \in LeftType /\ level \in [Locations -> LevelType]
             /\ NoLoc \notin Locations
  BY <1>0, EffectFacts, OrdersAssumption DEF StockTypeOK, RequestType
<1>1. \A l \in Locations : level[l].stock \in Nat /\ level[l].reserved \in Nat
  BY DEF IInv, TypeOK, StockTypeOK, LevelType
<1>2. UNCHANGED level => Pays(NoLoc, 0, NoLoc, 0) /\ \A l \in Locations : FreeAfter(l) >= Free(l)
  <2> SUFFICES ASSUME UNCHANGED level
               PROVE  Pays(NoLoc, 0, NoLoc, 0) /\ \A l \in Locations : FreeAfter(l) >= Free(l)
    OBVIOUS
  <2>1. \A l \in Locations : Free(l) \in Int /\ FreeAfter(l) = Free(l)
    BY <1>1 DEF Free, FreeAfter
  <2> QED
    BY <1>1, <2>1, OrdersAssumption DEF Pays
<1>3. ~Warn(r)
  BY DEF Warn
<1>4. CASE LogReservation(r)
  <2>1. Running(r, "logReservation") /\ Done(r, "logReservation") /\ UNCHANGED <<order, level>>
    BY <1>4 DEF LogReservation, stock
  <2>2. Goes(r, "logReservation")
    BY <2>1, DoneGoes
  <2>3. req[r].todo # {"logReservation"} => req'[r].prev = req[r].prev
    BY <2>1, PrevKept
  <2> QED
    BY <1>2, <2>1, <2>2, <2>3 DEF Settles, Lets
<1>5. CASE ReverseRead(r)
  <2>1. Running(r, "reverseRead") /\ UNCHANGED <<order, level>> /\ Goes(r, "reverseRead")
    BY <1>5, ReadGoes DEF ReverseRead, stock
  <2>2. req[r].todo # {"reverseRead"} => req'[r].prev = req[r].prev
    BY <1>5, PrevKeptOnRead
  <2> QED
    BY <1>2, <2>1, <2>2 DEF Settles, Lets
<1>6. ASSUME NEW e, Running(r, e), e # "reverseRead", Done(r, e), UNCHANGED order
      PROVE  Goes(r, e) /\ (req[r].todo # {e} => req'[r].prev = req[r].prev)
  BY <1>6, DoneGoes, PrevKept
\* Reservations.
<1>7. ASSUME NEW e \in {"reserve", "rereserve"}, Running(r, e), Done(r, e), UNCHANGED order,
             ReserveUnits(r)
      PROVE  Settles(r, e)
  <2>1. PICK k, q, v : k = req[r].loc /\ q = QtyOf(r) /\ v = level[k].reserved + q
    OBVIOUS
  <2>2. level' = [level EXCEPT ![k].reserved = v] /\ level \in [Locations -> LevelType]
        /\ (k \in Locations => v \in Nat) /\ q \in Nat
    BY <1>0, <1>1, <1>7, <2>1 DEF ReserveUnits
  <2>3. ASSUME NEW l \in Locations
        PROVE  level'[l].reserved + 0 >= level[l].reserved + (IF l = k THEN q ELSE 0)
    BY <1>1, <2>1, <2>2, <2>3, ReservedSet
  <2>4. Pays(NoLoc, 0, k, q)
    BY <2>3, OrdersAssumption DEF Pays
  <2> QED
    BY <1>6, <1>7, <2>1, <2>4 DEF Settles, Lets
<1>7a. ASSUME NEW e, Running(r, e), Figure(r, e) PROVE Done(r, e)
  BY <1>0, <1>7a, FigureLeft DEF LeftType
<1>8. CASE Reserve(r)
  <2>1. Running(r, "reserve") /\ UNCHANGED order
    BY <1>8 DEF Reserve
  <2>2. CASE CanReserve(r)
    <3>1. Done(r, "reserve") /\ ReserveUnits(r)
      BY <1>8, <1>7a, <2>1, <2>2 DEF Reserve
    <3> QED
      BY <1>7, <2>1, <3>1
  <2>3. CASE ~CanReserve(r)
    <3>1. Throw(r) /\ UNCHANGED <<order, outstanding, level, left>>
      BY <1>8, <2>3 DEF Reserve, stock
    <3> QED
      BY <1>0, <2>1, <2>3, <3>1, ThrowKind DEF Balks
  <2> QED
    BY <2>2, <2>3
<1>9. CASE ReReserve(r)
  BY <1>3, <1>7, <1>9 DEF ReReserve
\* Releases.
<1>10. ASSUME NEW k \in Locations \cup {NoLoc}, CanRelease(r, k), ReleaseUnits(r, k), QtyOf(r) \in Nat
       PROVE  Pays(k, QtyOf(r), NoLoc, 0) /\ \A l \in Locations : FreeAfter(l) >= Free(l)
  <2>1. PICK q, v : q = QtyOf(r) /\ v = level[k].reserved - q
    OBVIOUS
  <2>2. level' = [level EXCEPT ![k].reserved = v] /\ level \in [Locations -> LevelType]
        /\ (k \in Locations => v \in Nat) /\ q \in Nat
    BY <1>1, <1>10, <2>1 DEF ReleaseUnits, CanRelease, IInv, TypeOK, StockTypeOK
  <2>3. ASSUME NEW l \in Locations
        PROVE  /\ level'[l].stock = level[l].stock
               /\ level'[l].reserved + (IF l = k THEN q ELSE 0) >= level[l].reserved + 0
               /\ level'[l].stock - level'[l].reserved >= level[l].stock - level[l].reserved
    BY <1>1, <2>1, <2>2, <2>3, ReservedSet
  <2> QED
    BY <2>1, <2>3, OrdersAssumption DEF Pays, FreeAfter, Free
<1>11. CASE ReleaseQuietly(r)
  <2>1. /\ Running(r, "releaseQuietly") /\ Done(r, "releaseQuietly") /\ UNCHANGED order
        /\ CanRelease(r, req[r].loc) /\ ReleaseUnits(r, req[r].loc)
    BY <1>3, <1>11 DEF ReleaseQuietly
  <2> QED
    BY <1>0, <1>6, <1>10, <2>1 DEF Settles, Lets
<1>12. CASE ReleasePrevious(r)
  <2>1. Running(r, "releasePrevious") /\ UNCHANGED <<order, left>>
    BY <1>12 DEF ReleasePrevious
  <2>2. CASE CanRelease(r, req[r].prev)
    <3>1. Done(r, "releasePrevious") /\ ReleaseUnits(r, req[r].prev)
      BY <1>12, <2>2 DEF ReleasePrevious
    <3> QED
      BY <1>0, <1>6, <1>10, <2>1, <2>2, <3>1 DEF Settles, Lets
  <2>3. CASE ~CanRelease(r, req[r].prev)
    <3>1. Throw(r) /\ UNCHANGED <<order, outstanding, level, left>>
      BY <1>12, <2>3 DEF ReleasePrevious, stock
    <3> QED
      BY <1>0, <2>1, <2>3, <3>1, ThrowKind DEF Balks
  <2> QED
    BY <2>2, <2>3
\* Shipments.
<1>13. ASSUME NEW k \in Locations, NEW n \in Nat, NEW m \in Nat, level[k].stock >= n,
              ShipUnits(r, k, n, m)
       PROVE  Pays(k, m, NoLoc, 0)
  <2>1. PICK v, w : v = level[k].reserved - Lesser(m, level[k].reserved) /\ w = level[k].stock - n
    OBVIOUS
  <2>2. level' = [level EXCEPT ![k].stock = w, ![k].reserved = v]
    BY <1>13, <2>1 DEF ShipUnits
  <2>3. level \in [Locations -> LevelType]
    BY DEF IInv, TypeOK, StockTypeOK
  <2>4. level'[k].reserved = v /\ \A l \in Locations \ {k} : level'[l] = level[l]
    BY <2>2, <2>3 DEF LevelType
  <2>5. v \in Nat /\ v + m >= level[k].reserved
    BY <1>1, <2>1 DEF Lesser
  <2> QED
    BY <1>1, <2>4, <2>5, OrdersAssumption DEF Pays
<1>14. ASSUME NEW e \in {"deliver", "deliverPart", "writeOff"}, Running(r, e), Throw(r),
              UNCHANGED <<order, outstanding, level, left>>
       PROVE  Balks(r, e)
  BY <1>0, <1>14, ThrowKind DEF Balks
<1>15. CASE Deliver(r)
  <2>1. Running(r, "deliver") /\ UNCHANGED order
    BY <1>15 DEF Deliver
  <2>2. CASE CanShip(req[r].loc, QtyOf(r))
    <3>1. /\ Done(r, "deliver") /\ ShipUnits(r, req[r].loc, QtyOf(r), QtyOf(r))
          /\ req[r].loc \in Locations /\ level[req[r].loc].stock >= QtyOf(r)
      BY <1>0, <1>15, <1>7a, <2>1, <2>2 DEF Deliver, CanShip
    <3> QED
      BY <1>0, <1>6, <1>13, <2>1, <3>1 DEF Settles, Lets
  <2>3. CASE ~CanShip(req[r].loc, QtyOf(r))
    BY <1>14, <1>15, <2>1, <2>3 DEF Deliver, stock
  <2> QED
    BY <2>2, <2>3
<1>16. CASE DeliverPart(r)
  <2>1. Running(r, "deliverPart") /\ UNCHANGED order
    BY <1>16 DEF DeliverPart
  <2>2. PICK n : n = Lesser(req[r].n, QtyOf(r))
    OBVIOUS
  <2>3. CASE CanShipPart(req[r].loc, n)
    <3>1. /\ Done(r, "deliverPart") /\ ShipUnits(r, req[r].loc, n, QtyOf(r))
          /\ req[r].loc \in Locations /\ level[req[r].loc].stock >= n
      BY <1>0, <1>16, <1>7a, <2>1, <2>2, <2>3 DEF DeliverPart, CanShipPart, CanShip
    <3>2. n \in Nat
      BY <1>0, <2>1, <2>2 DEF Lesser, RequestType
    <3> QED
      BY <1>0, <1>6, <1>13, <2>1, <3>1, <3>2 DEF Settles, Lets
  <2>4. CASE ~CanShipPart(req[r].loc, n)
    BY <1>14, <1>16, <2>1, <2>2, <2>4 DEF DeliverPart, stock
  <2> QED
    BY <2>3, <2>4
<1>17. CASE WriteOff(r)
  <2>1. Running(r, "writeOff") /\ UNCHANGED <<order, left>>
    BY <1>17 DEF WriteOff
  <2>2. CASE CanShip(req[r].loc, QtyOf(r))
    <3>1. /\ Done(r, "writeOff") /\ ShipUnits(r, req[r].loc, QtyOf(r), 0)
          /\ req[r].loc \in Locations /\ level[req[r].loc].stock >= QtyOf(r)
      BY <1>0, <1>17, <2>1, <2>2 DEF WriteOff, CanShip
    <3>2. Pays(req[r].loc, 0, NoLoc, 0)
      BY <1>0, <1>13, <2>1, <3>1
    <3>3. Pays(NoLoc, 0, NoLoc, 0)
      BY <3>2, OrdersAssumption DEF Pays
    <3> QED
      BY <1>6, <2>1, <3>1, <3>3 DEF Settles, Lets
  <2>3. CASE ~CanShip(req[r].loc, QtyOf(r))
    BY <1>14, <1>17, <2>1, <2>3 DEF WriteOff, stock
  <2> QED
    BY <2>2, <2>3
<1>18. CASE ReverseWrite(r)
  <2>1. Running(r, "reverseWrite") /\ UNCHANGED <<order, left>> /\ Done(r, "reverseWrite")
    BY <1>18 DEF ReverseWrite
  <2>2. level' = [l \in Locations |-> [level[l] EXCEPT !.stock = @ + req[r].owed[l]]]
    BY <1>18 DEF ReverseWrite, Restore
  <2>3. \A l \in Locations : /\ level'[l].stock = level[l].stock + req[r].owed[l]
                             /\ level'[l].reserved = level[l].reserved
                             /\ req[r].owed[l] \in Nat
    BY <1>0, <2>1, <2>2 DEF LevelType, RequestType
  <2>4. Pays(NoLoc, 0, NoLoc, 0) /\ \A l \in Locations : FreeAfter(l) >= Free(l)
    BY <1>1, <2>3, OrdersAssumption DEF Pays, FreeAfter, Free
  <2> QED
    BY <1>6, <2>1, <2>4 DEF Settles, Lets
<1> QED
  BY <1>4, <1>5, <1>8, <1>9, <1>11, <1>12, <1>15, <1>16, <1>17, <1>18 DEF Effect

LEMMA OthersSleep ==
    ASSUME OneDesk, NEW r \in Requests, NEW p, p # req[r].o,
           req'[r].o = req[r].o \/ req'[r].pc \notin {"effects", "revert"},
           order'[p] = order[p]
    PROVE  Sleeps(p)
<1>1. \A q \in Requests : q = r
  BY AllAtDesk
<1> QED
  BY <1>1 DEF Sleeps, KeepsOrder, Aside, Underway

\* A request reads, passes its gate, takes a lock or meets a conflict.
Waits(r) ==
    /\ UNCHANGED <<order, level>>
    /\ ~Underway(r) /\ req'[r].pc \notin {"effects", "revert"}
    /\ Sure(r) =>
         /\ req'[r].pc \in {"gate", "commit"} => req'[r].prev = order[req'[r].o].loc
         /\ req'[r].pc = "edit" => /\ req'[r].from = order[req'[r].o].status
                                   /\ req'[r].loc = order[req'[r].o].loc

LEMMA StepWaits ==
    ASSUME IInv, NEW r \in Requests,
           \/ Gate(r) \/ DeleteLock(r)
           \/ Commit(r) /\ ~Unmoved(r)
           \/ \E o \in Orders :
                \/ \E to \in Targets, l \in Locations \cup {NoLoc}, hold \in BOOLEAN,
                      n \in 0 .. MaxQty : Read(r, o, to, l, hold, n)
                \/ \E n \in Quantities : EditRead(r, o, n)
                \/ DeleteRead(r, o)
    PROVE  Waits(r)
<1>1. req[r] \in RequestType /\ req \in [Requests -> RequestType]
  BY DEF IInv, TypeOK
<1>2. CASE Gate(r)
  <2>1. UNCHANGED <<order, level>> /\ req[r].pc = "gate"
    BY <1>2 DEF Gate, stock
  <2>2. \/ req'[r].pc = "idle"
        \/ req'[r].pc = "commit" /\ req'[r].o = req[r].o /\ req'[r].prev = req[r].prev
    BY <1>1, <1>2 DEF Gate, IdleRequest, RequestType
  <2> QED
    BY <2>1, <2>2 DEF Waits, Underway, Sure
<1>3. CASE DeleteLock(r)
  <2>1. UNCHANGED <<order, level>> /\ req[r].pc = "delete"
    BY <1>3 DEF DeleteLock, stock
  <2>2. req'[r].pc = "deleting"
    BY <1>1, <1>3 DEF DeleteLock, RequestType
  <2> QED
    BY <2>1, <2>2 DEF Waits, Underway
<1>4. CASE Commit(r) /\ ~Unmoved(r)
  <2>1. UNCHANGED <<order, level>> /\ req[r].pc = "commit" /\ req' = [req EXCEPT ![r] = IdleRequest]
    BY <1>4 DEF Commit, stock
  <2>2. req'[r].pc = "idle"
    BY <1>1, <2>1 DEF IdleRequest
  <2> QED
    BY <2>1, <2>2 DEF Waits, Underway
<1>5. ASSUME NEW o, NEW to, NEW l, NEW hold, NEW n, Read(r, o, to, l, hold, n) PROVE Waits(r)
  <2>1. UNCHANGED <<order, level>> /\ req[r].pc = "idle"
    BY <1>5 DEF Read, stock
  <2>2. req'[r].pc \in {"gate", "commit"} /\ req'[r].o = o /\ req'[r].prev = order[o].loc
    BY <1>1, <1>5 DEF Read, IdleRequest
  <2> QED
    BY <2>1, <2>2 DEF Waits, Underway
<1>6. ASSUME NEW o, NEW n, EditRead(r, o, n) PROVE Waits(r)
  <2>1. UNCHANGED <<order, level>> /\ req[r].pc = "idle"
    BY <1>6 DEF EditRead, stock
  <2>2. req'[r].pc = "edit" /\ req'[r].o = o /\ req'[r].loc = order[o].loc
        /\ req'[r].from = order[o].status
    BY <1>1, <1>6 DEF EditRead, IdleRequest
  <2> QED
    BY <2>1, <2>2 DEF Waits, Underway
<1>7. ASSUME NEW o, DeleteRead(r, o) PROVE Waits(r)
  <2>1. UNCHANGED <<order, level>> /\ req[r].pc = "idle"
    BY <1>7 DEF DeleteRead, stock
  <2>2. req'[r].pc = "delete"
    BY <1>1, <1>7 DEF DeleteRead, IdleRequest
  <2> QED
    BY <2>1, <2>2 DEF Waits, Underway
<1> QED
  BY <1>2, <1>3, <1>4, <1>5, <1>6, <1>7

LEMMA WaitReserves ==
    ASSUME OneDesk, IInv, NEW r \in Requests, Waits(r), Covered, Sure(r)
    PROVE  Covered' /\ Sure(r)'
<1>1. \A q \in Requests : q = r
  BY AllAtDesk
<1>2. UNCHANGED <<order, level>> /\ ~Underway(r) /\ ~Underway(r)'
  BY DEF Waits, Underway
<1>3. \A p \in Orders : Sleeps(p)
  BY <1>1, <1>2 DEF Sleeps, Aside, KeepsOrder
<1>4. Covered'
  BY <1>2, <1>3, SeatsKept
<1>5. Sure(r)'
  BY <1>2 DEF Waits, Sure
<1> QED
  BY <1>4, <1>5

LEMMA CommitReserves ==
    ASSUME OneDesk, IInv, IInv', NEW r \in Requests, NEW todo, NEW loc, Commits(r, todo, loc),
           Covered, Sure(r), Ready(r)
    PROVE  Covered' /\ Sure(r)'
<1>1. PICK o, from, to, prev : o = req[r].o /\ from = req[r].from /\ to = req[r].to /\ prev = req[r].prev
  OBVIOUS
<1>2. /\ o \in Orders /\ IsTransitionAllowed(from, to) /\ order[o].status = from
      /\ prev = order[o].loc /\ UNCHANGED level /\ req[r].pc = "commit"
      /\ order'[o].status = to /\ order'[o].loc = loc /\ order'[o].qty = order[o].qty
      /\ \A p \in Orders \ {o} : order'[p] = order[p]
      /\ to # "AGENT_ASSIGNED" => loc = prev
      /\ to = "AGENT_ASSIGNED" => loc = req[r].loc
      /\ todo = Effects(from, to, prev, loc)
  BY <1>1, InFlightRequest DEF Commits, Sure
<1>3. /\ todo = {} => req'[r].pc = "idle"
      /\ todo # {} => /\ req'[r].pc = "effects" /\ req'[r].o = o /\ req'[r].from = from
                      /\ req'[r].to = to /\ req'[r].loc = loc /\ req'[r].todo = todo
                      /\ req'[r].prev = prev
  BY <1>1 DEF Commits
<1>4. PICK s, t, q : s = Parked(from, prev) /\ t = Awaits(todo, to, prev, loc) /\ q = order[o].qty
  OBVIOUS
<1>5. Plan(todo, from, to, prev) /\ t \in {NoLoc, s} /\ ("reserve" \in todo => to = "AGENT_ASSIGNED")
  BY <1>2, <1>4, PlanAtCommit
<1>6. Seated(o, s)
  <2>1. Aside(o)
    <3>1. \A p \in Requests : p = r
      BY AllAtDesk
    <3> QED
      BY <1>2, <3>1 DEF Aside, Underway
  <2> QED
    BY <1>2, <1>4, <2>1, SeatFree
<1>7. Seated(o, t)'
  <2>1. CASE todo = {}
    <3>1. t = Parked(to, loc)
      BY <1>4, <2>1 DEF Awaits, Parked
    <3>2. t = Parked(order'[o].status, order'[o].loc)
      BY <1>2, <3>1
    <3> QED
      BY <1>3, <2>1, <3>2, SeatFreeNext
  <2>2. CASE todo # {}
    BY <1>3, <1>4, <2>2, SeatTakenNext
  <2> QED
    BY <2>1, <2>2
<1>8. \A p \in Orders \ {o} : Sleeps(p)
  BY <1>1, <1>2, <1>3, OthersSleep
<1>9. Pays(s, q, t, q)
  <2>1. \A l \in Locations : level[l].reserved \in Nat /\ q \in Nat /\ l # NoLoc
    BY <1>2, <1>4, OrdersAssumption DEF IInv, TypeOK, StockTypeOK, LevelType, OrderType
  <2> QED
    BY <1>2, <1>5, <2>1 DEF Pays
<1>10. Covered'
  BY <1>2, <1>4, <1>6, <1>7, <1>8, <1>9, SeatMoves
<1>11. Sure(r)'
  <2>1. ASSUME "reserve" \in todo PROVE loc \in Locations /\ Free(loc) >= order[o].qty
    BY <1>1, <1>2, <1>5, <2>1 DEF Ready, HasRoom, QtyOf
  <2>2. ASSUME todo # {}, "reserve" \in req'[r].todo PROVE HasRoom(r)'
    BY <1>2, <1>3, <2>1, <2>2 DEF HasRoom, QtyOf, Free
  <2>3. CASE todo = {}
    BY <1>3, <2>3 DEF Sure
  <2>4. CASE todo # {}
    BY <1>2, <1>3, <1>5, <2>2, <2>4 DEF Sure
  <2> QED
    BY <2>3, <2>4
<1> QED
  BY <1>10, <1>11

LEMMA RevertReserves ==
    ASSUME OneDesk, IInv, IInv', NEW r \in Requests, Reverts(r), Covered
    PROVE  Covered' /\ Sure(r)'
<1>1. PICK o : o = req[r].o
  OBVIOUS
<1>2. /\ o \in Orders /\ UNCHANGED level /\ req[r].pc = "revert" /\ req'[r].pc = "idle"
      /\ order'[o].status = req[r].from /\ order'[o].loc = order[o].loc
      /\ order'[o].qty = order[o].qty
      /\ \A p \in Orders \ {o} : order'[p] = order[p]
  BY <1>1, InFlightRequest DEF Reverts
<1>3. PICK s, q : s = Parked(req[r].from, order[o].loc) /\ q = order[o].qty
  OBVIOUS
<1>4. Seated(o, s)
  <2>1. SeatOf(r) = s /\ Underway(r)
    BY <1>1, <1>2, <1>3 DEF SeatOf, Underway
  <2> QED
    BY <1>1, <2>1, SeatTaken
<1>5. Seated(o, s)'
  BY <1>2, <1>3, SeatFreeNext
<1>6. \A p \in Orders \ {o} : Sleeps(p)
  BY <1>1, <1>2, OthersSleep
<1>7. Pays(s, q, s, q)
  <2>1. \A l \in Locations : level[l].reserved \in Nat /\ q \in Nat
    BY <1>2, <1>3 DEF IInv, TypeOK, StockTypeOK, LevelType, OrderType
  <2> QED
    BY <1>2, <2>1 DEF Pays
<1>8. Covered'
  BY <1>2, <1>3, <1>4, <1>5, <1>6, <1>7, SeatMoves
<1> QED
  BY <1>2, <1>8 DEF Sure

LEMMA DeleteReserves ==
    ASSUME OneDesk, IInv, IInv', NEW r \in Requests, DeleteCommit(r), Covered
    PROVE  Covered' /\ Sure(r)'
<1>1. PICK o : o = req[r].o
  OBVIOUS
<1>2. /\ o \in Orders /\ req[r].pc = "deleting" /\ req'[r].pc = "idle"
      /\ order'[o].status = "DELETED" /\ order'[o].qty = order[o].qty
      /\ \A p \in Orders \ {o} : order'[p] = order[p]
  BY <1>1, InFlightRequest, DeleteKind DEF Deletes
<1>3. PICK s, t, q : /\ s = Parked(order[o].status, order[o].loc) /\ q = order[o].qty
                     /\ t = Parked(order'[o].status, order'[o].loc)
  OBVIOUS
<1>4. Seated(o, s)
  <2>1. \A p \in Requests : p = r
    BY AllAtDesk
  <2>2. Aside(o)
    BY <1>2, <2>1 DEF Aside, Underway
  <2> QED
    BY <1>3, <2>2, SeatFree
<1>5. Seated(o, t)' /\ t = NoLoc
  <2>1. Seated(o, t)'
    BY <1>2, <1>3, SeatFreeNext
  <2> QED
    BY <1>2, <1>3, <2>1 DEF Parked, ReservedStatuses
<1>6. \A p \in Orders \ {o} : Sleeps(p)
  BY <1>1, <1>2, OthersSleep
<1>7. Pays(s, q, t, q)
  <2>1. level' = [l \in Locations |-> [level[l] EXCEPT !.stock = @ + req[r].owed[l]]]
    BY DEF DeleteCommit, Restore
  <2>2. \A l \in Locations : level'[l].reserved = level[l].reserved /\ level[l].reserved \in Nat
                             /\ q \in Nat /\ l # NoLoc
    BY <1>2, <1>3, <2>1, OrdersAssumption DEF IInv, TypeOK, StockTypeOK, LevelType, OrderType
  <2> QED
    BY <1>5, <2>2 DEF Pays
<1>8. Covered'
  BY <1>2, <1>3, <1>4, <1>5, <1>6, <1>7, SeatMoves
<1> QED
  BY <1>2, <1>8 DEF Sure

LEMMA EditReserves ==
    ASSUME OneDesk, IInv, IInv', NEW r \in Requests, EditCommit(r), Covered, Sure(r)
    PROVE  Covered' /\ Sure(r)'
<1>1. PICK o, k : o = req[r].o /\ k = req[r].loc
  OBVIOUS
<1>2. /\ o \in Orders /\ req[r].pc = "edit" /\ req[r] \in RequestType
      /\ req \in [Requests -> RequestType] /\ order \in [Orders -> OrderType]
      /\ req' = [req EXCEPT ![r] = IdleRequest]
      /\ req[r].from = order[o].status /\ k = order[o].loc
  BY <1>1, InFlightRequest, Zenon DEF EditCommit, Sure, IInv, TypeOK
<1>3. req'[r].pc = "idle"
  BY <1>2 DEF IdleRequest
<1>4. PICK s, q, n : /\ s = Parked(order[o].status, order[o].loc) /\ q = order[o].qty
                     /\ n = order'[o].qty
  OBVIOUS
<1>5. /\ q \in Nat /\ n \in Nat /\ \A l \in Locations : level[l].reserved \in Nat /\ l # NoLoc
      /\ level \in [Locations -> LevelType]
  BY <1>2, <1>4, OrdersAssumption DEF IInv, TypeOK, StockTypeOK, LevelType, OrderType
<1>6. PICK held : held = Lesser(q, level[k].reserved)
  OBVIOUS
<1>7. \/ /\ req[r].from \notin ReservedStatuses \/ k = NoLoc
         /\ order' = [order EXCEPT ![o].qty = req[r].n] /\ level' = level
      \/ /\ req[r].from \in ReservedStatuses /\ k # NoLoc
         /\ order' = [order EXCEPT ![o].qty = req[r].n]
         /\ level' = [level EXCEPT ![k].reserved = @ - held + req[r].n]
      \/ order' = order /\ level' = level
  BY <1>1, <1>4, <1>6, Zenon DEF EditCommit
<1>8. /\ order'[o].status = order[o].status /\ order'[o].loc = order[o].loc
      /\ \A p \in Orders \ {o} : order'[p] = order[p]
  BY <1>2, <1>7 DEF OrderType
<1>9. Seated(o, s)
  <2>1. \A p \in Requests : p = r
    BY AllAtDesk
  <2>2. Aside(o)
    BY <1>2, <2>1 DEF Aside, Underway
  <2> QED
    BY <1>4, <2>2, SeatFree
<1>10. Seated(o, s)'
  <2>1. s = Parked(order'[o].status, order'[o].loc)
    BY <1>4, <1>8
  <2> QED
    BY <1>3, <2>1, SeatFreeNext
<1>11. \A p \in Orders \ {o} : Sleeps(p)
  BY <1>1, <1>3, <1>8, OthersSleep
<1>12. Pays(s, q, s, n)
  <2>1. CASE order' = order /\ level' = level
    BY <1>4, <1>5, <2>1 DEF Pays
  <2>2. CASE level' = level /\ (req[r].from \notin ReservedStatuses \/ k = NoLoc)
    <3>1. s = NoLoc
      BY <1>2, <1>4, <2>2 DEF Parked
    <3> QED
      BY <1>5, <2>2, <3>1 DEF Pays
  <2>3. CASE /\ req[r].from \in ReservedStatuses /\ k # NoLoc
             /\ order' = [order EXCEPT ![o].qty = req[r].n]
             /\ level' = [level EXCEPT ![k].reserved = @ - held + req[r].n]
    <3>1. s = k /\ n = req[r].n
      BY <1>2, <1>4, <2>3 DEF Parked, OrderType
    <3>2. k \in Locations
      BY <1>1, <1>2, <2>3 DEF RequestType
    <3>3. PICK v : v = level[k].reserved - held + n
      OBVIOUS
    <3>4. held \in Nat /\ held <= q /\ held <= level[k].reserved /\ v \in Nat
      BY <1>5, <1>6, <3>2, <3>3 DEF Lesser
    <3>5. level' = [level EXCEPT ![k].reserved = v]
      BY <2>3, <3>1, <3>3
    <3>6. \A l \in Locations : /\ l = k => level'[l].reserved = v
                               /\ l # k => level'[l].reserved = level[l].reserved
      BY <1>5, <3>4, <3>5, ReservedSet
    <3> QED
      BY <1>5, <3>1, <3>3, <3>4, <3>6 DEF Pays
  <2> QED
    BY <1>7, <2>1, <2>2, <2>3
<1>13. Covered'
  BY <1>2, <1>4, <1>9, <1>10, <1>11, <1>12, SeatMoves
<1> QED
  BY <1>3, <1>13 DEF Sure

\* The first effect due is done.
LEMMA SettleReserves ==
    ASSUME OneDesk, IInv, IInv', Dues, Held, NEW r \in Requests, NEW e, Settles(r, e), Covered, Sure(r)
    PROVE  Covered' /\ Sure(r)'
<1>1. PICK o, from, to, prev, loc, todo, q :
         /\ o = req[r].o /\ from = req[r].from /\ to = req[r].to /\ prev = req[r].prev
         /\ loc = req[r].loc /\ todo = req[r].todo /\ q = order[req[r].o].qty
  OBVIOUS
<1>2. /\ Running(r, e) /\ UNCHANGED order /\ req[r].pc = "effects" /\ o \in Orders
      /\ First(e, todo) /\ Due(todo, from, to)
  <2>1. Running(r, e) /\ UNCHANGED order
    BY DEF Settles, Goes
  <2>2. req[r].pc = "effects" /\ o \in Orders /\ e \in todo /\ Due(todo, from, to)
    BY <1>1, <2>1, CurrentEffect
  <2>3. todo \subseteq EffectNames /\ \A f \in todo : EffectRank[e] <= EffectRank[f]
    BY <1>1, <2>1, EffectFacts DEF RequestType, Running, Current
  <2> QED
    BY <2>1, <2>2, <2>3 DEF First
<1>3. /\ todo = {e} => req'[r].pc = "idle"
      /\ todo # {e} => /\ req'[r].pc = "effects" /\ req'[r].todo = todo \ {e} /\ req'[r].o = o
                       /\ req'[r].from = from /\ req'[r].to = to /\ req'[r].loc = loc
                       /\ req'[r].prev = prev
  BY <1>1 DEF Settles, Goes
<1>4. /\ order[o].status = to /\ order[o].loc = loc /\ Plan(todo, from, to, prev)
      /\ "reserve" \in todo => loc \in Locations /\ Free(loc) >= q
  BY <1>1, <1>2 DEF Held, Underway, Sure, HasRoom, QtyOf
<1>5. PICK s, t : s = Awaits(todo, to, prev, loc) /\ t = Awaits(todo \ {e}, to, prev, loc)
  OBVIOUS
<1>6. /\ Plan(todo \ {e}, from, to, prev)
      /\ e \in {"reserve", "rereserve"} => t \in {s, loc, NoLoc}
      /\ e \in Lets => s = loc /\ t = NoLoc /\ from \in ReservedStatuses
      /\ e = "releasePrevious" => s = prev /\ t = NoLoc /\ prev # NoLoc
      /\ e \notin {"reserve", "rereserve", "releasePrevious"} \cup Lets => t = s
      /\ "reserve" \in todo /\ e # "reserve" => e \notin Lets /\ e # "writeOff"
      /\ e = "writeOff" => from \notin ReservedStatuses
  BY <1>2, <1>4, <1>5, PlanAfter
<1>7. Seated(o, s)
  <2>1. SeatOf(r) = s /\ Underway(r)
    BY <1>1, <1>2, <1>5 DEF SeatOf, Underway
  <2> QED
    BY <1>1, <2>1, SeatTaken
<1>8. Seated(o, t)'
  <2>1. CASE todo = {e}
    <3>1. t = Parked(to, loc)
      <4>1. todo \ {e} = {}
        BY <2>1
      <4> QED
        BY <1>5, <4>1 DEF Awaits, Parked
    <3>2. t = Parked(order'[o].status, order'[o].loc)
      BY <1>2, <1>4, <3>1
    <3> QED
      BY <1>3, <2>1, <3>2, SeatFreeNext
  <2>2. CASE todo # {e}
    BY <1>3, <1>5, <2>2, SeatTakenNext
  <2> QED
    BY <2>1, <2>2
<1>9. \A p \in Orders \ {o} : Sleeps(p)
  BY <1>1, <1>2, <1>3, OthersSleep
<1>10. /\ q \in Nat /\ QtyOf(r) = q
       /\ \A l \in Locations : /\ level[l].reserved \in Nat /\ level'[l].reserved \in Nat /\ l # NoLoc
                               /\ Free(l) \in Int /\ FreeAfter(l) \in Int
  <2>1. q \in Nat /\ QtyOf(r) = q
    BY <1>1, <1>2 DEF IInv, TypeOK, OrderType, QtyOf
  <2>2. level \in [Locations -> LevelType] /\ level' \in [Locations -> LevelType]
    BY DEF IInv, TypeOK, StockTypeOK
  <2>3. \A l \in Locations : /\ level[l].stock \in Nat /\ level[l].reserved \in Nat
                             /\ level'[l].stock \in Nat /\ level'[l].reserved \in Nat
    BY <2>2 DEF LevelType
  <2> QED
    BY <2>1, <2>3, OrdersAssumption DEF Free, FreeAfter
<1>11. Pays(s, q, t, q)
  <2>1. CASE e \in {"reserve", "rereserve"}
    <3>1. Pays(NoLoc, 0, loc, q) /\ t \in {s, loc, NoLoc}
      BY <1>1, <1>6, <1>10, <2>1 DEF Settles
    <3> QED
      BY <1>10, <3>1 DEF Pays
  <2>2. CASE e \in Lets
    <3>1. Pays(loc, q, NoLoc, 0) /\ s = loc /\ t = NoLoc
      BY <1>1, <1>6, <1>10, <2>2 DEF Settles
    <3> QED
      BY <1>10, <3>1 DEF Pays
  <2>3. CASE e = "releasePrevious"
    <3>1. Pays(prev, q, NoLoc, 0) /\ s = prev /\ t = NoLoc
      BY <1>1, <1>6, <1>10, <2>3 DEF Settles
    <3> QED
      BY <1>10, <3>1 DEF Pays
  <2>4. CASE e \notin {"reserve", "rereserve", "releasePrevious"} \cup Lets
    <3>1. Pays(NoLoc, 0, NoLoc, 0) /\ t = s
      BY <1>6, <2>4 DEF Settles
    <3> QED
      BY <1>10, <3>1 DEF Pays
  <2> QED
    BY <2>1, <2>2, <2>3, <2>4
<1>12. Covered'
  <2>1. q = order[o].qty /\ q = order'[o].qty
    BY <1>1, <1>2
  <2> QED
    BY <1>2, <1>7, <1>8, <1>9, <1>11, <2>1, SeatMoves
<1>13. Sure(r)'
  <2>1. ASSUME todo # {e}, "reserve" \in todo \ {e} PROVE FreeAfter(loc) >= q
    <3>1. e \in {"reverseRead", "reverseWrite", "logReservation", "releasePrevious"}
      <4>1. e \in EffectNames /\ e \notin Lets /\ e \notin {"reserve", "writeOff", "rereserve"}
        BY <1>2, <1>6, <2>1 DEF Due, First
      <4> QED
        BY <4>1 DEF EffectNames, EffectRank, Lets
    <3>2. loc \in Locations /\ FreeAfter(loc) >= Free(loc) /\ Free(loc) >= q
      BY <1>4, <2>1, <3>1 DEF Settles
    <3> QED
      BY <1>10, <3>2
  <2>2. CASE todo = {e}
    BY <1>3, <2>2 DEF Sure
  <2>3. CASE todo # {e}
    <3>1. "reserve" \in req'[r].todo => HasRoom(r)'
      BY <1>1, <1>2, <1>3, <1>4, <2>1, <2>3 DEF HasRoom, QtyOf, Free, FreeAfter
    <3> QED
      BY <1>2, <1>3, <1>4, <1>6, <2>3, <3>1 DEF Sure
  <2> QED
    BY <2>2, <2>3
<1> QED
  BY <1>12, <1>13

\* It cannot be done: only a shipment may be short of stock, and gives the seat back.
LEMMA BalkReserves ==
    ASSUME OneDesk, IInv, IInv', Dues, NEW r \in Requests, NEW e, Balks(r, e), Covered, Sure(r)
    PROVE  Covered' /\ Sure(r)'
<1>1. PICK o, from, to, prev, loc, todo, q :
         /\ o = req[r].o /\ from = req[r].from /\ to = req[r].to /\ prev = req[r].prev
         /\ loc = req[r].loc /\ todo = req[r].todo /\ q = order[req[r].o].qty
  OBVIOUS
<1>2. /\ Running(r, e) /\ UNCHANGED <<order, level>> /\ req[r].pc = "effects" /\ o \in Orders
      /\ First(e, todo)
      /\ req'[r].pc = "revert" /\ req'[r].o = o /\ req'[r].from = from
  <2>1. /\ Running(r, e) /\ UNCHANGED <<order, level>>
        /\ req'[r].pc = "revert" /\ req'[r].o = o /\ req'[r].from = from
    BY <1>1 DEF Balks, Throws
  <2>2. req[r].pc = "effects" /\ o \in Orders /\ e \in todo
    BY <1>1, <2>1, CurrentEffect
  <2>3. todo \subseteq EffectNames /\ \A f \in todo : EffectRank[e] <= EffectRank[f]
    BY <1>1, <2>1, EffectFacts DEF RequestType, Running, Current
  <2> QED
    BY <2>1, <2>2, <2>3 DEF First
<1>3. /\ order[o].loc = loc /\ Plan(todo, from, to, prev)
      /\ "reserve" \in todo => loc \in Locations /\ Free(loc) >= q
  BY <1>1, <1>2 DEF Sure, HasRoom, QtyOf
<1>4. PICK s, t, u : /\ s = Awaits(todo, to, prev, loc) /\ u = Awaits(todo \ {e}, to, prev, loc)
                     /\ t = Parked(from, loc)
  OBVIOUS
<1>5. /\ e \in Lets => s = loc /\ from \in ReservedStatuses
      /\ e = "releasePrevious" => s = prev /\ prev # NoLoc
      /\ e = "writeOff" => from \notin ReservedStatuses
  <2>1. /\ Plan(todo \ {e}, from, to, prev)
        /\ e \in {"reserve", "rereserve"} => u \in {s, loc, NoLoc}
        /\ e \in Lets => s = loc /\ u = NoLoc /\ from \in ReservedStatuses
        /\ e = "releasePrevious" => s = prev /\ u = NoLoc /\ prev # NoLoc
        /\ e \notin {"reserve", "rereserve", "releasePrevious"} \cup Lets => u = s
        /\ "reserve" \in todo /\ e # "reserve" => e \notin Lets /\ e # "writeOff"
        /\ e = "writeOff" => from \notin ReservedStatuses
    BY <1>2, <1>3, <1>4, PlanAfter
  <2> QED
    BY <2>1
<1>6. Seated(o, s)
  <2>1. SeatOf(r) = s /\ Underway(r)
    BY <1>1, <1>2, <1>4 DEF SeatOf, Underway
  <2> QED
    BY <1>1, <2>1, SeatTaken
<1>7. e \in {"deliver", "deliverPart", "writeOff"}
  <2>1. ~(e = "reserve" /\ ~CanReserve(r))
    BY <1>1, <1>2, <1>3 DEF CanReserve, QtyOf, First
  <2>2. ~(e = "releasePrevious" /\ ~CanRelease(r, req[r].prev))
    <3> SUFFICES ASSUME e = "releasePrevious" PROVE CanRelease(r, req[r].prev)
      OBVIOUS
    <3>1. s = prev /\ prev # NoLoc
      BY <1>5
    <3>2. prev \in Locations
      BY <1>1, <1>2, <3>1, EffectFacts DEF RequestType
    <3>3. order[o].qty <= level[prev].reserved
      BY <1>2, <1>6, <3>1, <3>2, SeatCovered
    <3>4. order[o].qty \in Nat /\ level[prev].reserved \in Nat
      BY <1>2, <3>2 DEF IInv, TypeOK, OrderType, StockTypeOK, LevelType
    <3> QED
      BY <1>1, <3>3, <3>4 DEF CanRelease, QtyOf
  <2> QED
    BY <2>1, <2>2 DEF Balks
<1>8. t \in {s, NoLoc}
  BY <1>4, <1>5, <1>7 DEF Lets, Parked
<1>9. Seated(o, t)'
  <2>1. t = Parked(req'[r].from, order'[o].loc)
    BY <1>2, <1>3, <1>4
  <2> QED
    BY <1>2, <2>1, SeatTakenNext
<1>10. \A p \in Orders \ {o} : Sleeps(p)
  BY <1>1, <1>2, OthersSleep
<1>11. q = order[o].qty /\ q = order'[o].qty /\ Pays(s, q, t, q)
  <2>1. q = order[o].qty /\ q = order'[o].qty
    BY <1>1, <1>2
  <2>2. \A l \in Locations : level[l].reserved \in Nat /\ q \in Nat /\ l # NoLoc
    BY <1>2, <2>1, OrdersAssumption DEF IInv, TypeOK, StockTypeOK, LevelType, OrderType
  <2> QED
    BY <1>2, <1>8, <2>1, <2>2 DEF Pays
<1>12. Covered'
  BY <1>2, <1>6, <1>9, <1>10, <1>11, SeatMoves
<1> QED
  BY <1>2, <1>12 DEF Sure

LEMMA RestReserves ==
    ASSUME IInv, Calm, Rests, Covered, \A r \in Requests : Sure(r)
    PROVE  Covered' /\ \A r \in Requests : Sure(r)'
<1>1. UNCHANGED <<req, level>> /\ \A o \in Orders : /\ order'[o].status = order[o].status
                                                    /\ order'[o].loc = order[o].loc
                                                    /\ order'[o].qty = order[o].qty
  BY DEF Rests, KeepsOrder
<1>2. \A r \in Requests : req[r].pc # "idle" => req[r].o \in Orders
  BY InFlightRequest
<1>3. ASSUME NEW o \in Orders, NEW l PROVE ClaimOf(o, l)' = ClaimOf(o, l)
  <2>1. Aside(o)' <=> Aside(o)
    BY <1>1 DEF Aside, Underway
  <2>2. ASSUME NEW r \in Requests, Underway(r) PROVE SeatOf(r)' = SeatOf(r)
    <3>1. req[r].o \in Orders
      BY <1>2, <2>2 DEF Underway
    <3> QED
      BY <1>1, <3>1 DEF SeatOf
  <2>3. \A r \in Requests : Underway(r)' <=> Underway(r)
    BY <1>1 DEF Underway
  <2>4. Sits(o, l)' <=> Sits(o, l)
    BY <1>1, <2>1, <2>2, <2>3 DEF Sits
  <2> QED
    BY <1>1, <2>4 DEF ClaimOf
<1>4. \A l : ClaimsAt(l)' = ClaimsAt(l)
  BY <1>3 DEF ClaimsAt
<1>5. Covered'
  <2>1. \A l : Sum(ClaimsAt(l))' = Sum(ClaimsAt(l))
    BY <1>4
  <2> QED
    BY <1>1, <2>1 DEF Covered
<1>6. ASSUME NEW r \in Requests PROVE Sure(r)'
  BY <1>1, <1>2, <1>6 DEF Sure, HasRoom, QtyOf, Free
<1> QED
  BY <1>5, <1>6

\* A warning in the log stays there.
LEMMA WarningsStay ==
    ASSUME [Next]_vars
    PROVE  warned \subseteq warned'
<1>1. ASSUME UNCHANGED stock PROVE warned \subseteq warned'
  BY <1>1 DEF stock
<1>2. ASSUME NEW r, Warn(r) PROVE warned \subseteq warned'
  BY <1>2 DEF Warn
<1>3. ASSUME NEW r, Effect(r) PROVE warned \subseteq warned'
  <2>1. CASE LogReservation(r) \/ ReverseRead(r)
    BY <1>1, <2>1 DEF LogReservation, ReverseRead
  <2>2. CASE Reserve(r) \/ ReReserve(r)
    BY <1>1, <1>2, <2>2 DEF Reserve, ReReserve, ReserveUnits
  <2>3. CASE ReleaseQuietly(r) \/ ReleasePrevious(r)
    BY <1>1, <1>2, <2>3 DEF ReleaseQuietly, ReleasePrevious, ReleaseUnits
  <2>4. CASE Deliver(r) \/ DeliverPart(r) \/ WriteOff(r)
    BY <1>1, <2>4 DEF Deliver, DeliverPart, WriteOff, ShipUnits
  <2>5. CASE ReverseWrite(r)
    BY <2>5 DEF ReverseWrite, Restore
  <2> QED
    BY <1>3, <2>1, <2>2, <2>3, <2>4, <2>5 DEF Effect
<1>4. ASSUME NEW r, Step(r) \/ Crash(r) PROVE warned \subseteq warned'
  <2>1. CASE Gate(r) \/ Commit(r) \/ Revert(r) \/ DeleteLock(r) \/ Crash(r)
    BY <1>1, <2>1 DEF Gate, Commit, Revert, DeleteLock, Crash
  <2>2. CASE EditCommit(r) \/ DeleteCommit(r)
    BY <2>2 DEF EditCommit, DeleteCommit, Restore
  <2> QED
    BY <1>3, <1>4, <2>1, <2>2 DEF Step
<1>5. ASSUME NEW r, NEW e, EffectFails(r, e) PROVE warned \subseteq warned'
  BY <1>1, <1>2, <1>5 DEF EffectFails
<1>6. ASSUME NEW r, NEW o, NEW to, NEW l, NEW hold, NEW n,
             Read(r, o, to, l, hold, n) \/ EditRead(r, o, n) \/ DeleteRead(r, o)
      PROVE  warned \subseteq warned'
  BY <1>1, <1>6 DEF Read, EditRead, DeleteRead
<1>7. ASSUME NEW o, ResolveRetrack(o) PROVE warned \subseteq warned'
  BY <1>1, <1>7 DEF ResolveRetrack
<1>8. ASSUME NEW l, NEW n, NEW d, NEW approved,
             Intake(l, n) \/ Adjust(l, d) \/ CountStock(l, d) \/ ResolveCount(l, approved)
      PROVE  warned \subseteq warned'
  BY <1>8 DEF Intake, Adjust, CountStock, ResolveCount
<1>9. CASE UNCHANGED vars
  BY <1>9 DEF vars
<1> QED
  BY <1>4, <1>5, <1>6, <1>7, <1>8, <1>9 DEF Next

LEMMA EffectReserves ==
    ASSUME OneDesk, IInv, IInv', QtyBounded, Dues, Held, NEW r \in Requests, Effect(r), warned' = {},
           left'.figures = left.figures, Covered, Sure(r)
    PROVE  Covered' /\ Sure(r)'
<1>1. PICK e : Settles(r, e) \/ Balks(r, e)
  BY EffectSettles
<1> QED
  BY <1>1, SettleReserves, BalkReserves

LEMMA ReservingKept ==
    ASSUME OneDesk, Crashes = 0, IInv, IInv', Calm, Dues, DeskInv, Exactly, Reserving, [Next]_vars
    PROVE  Reserving'
<1>1. SUFFICES ASSUME warned' = {}, left'.failures = Failures, left'.figures = Figures
               PROVE  Covered' /\ \A r \in Requests : Sure(r)'
  BY DEF Reserving, NothingFailed
<1>2. QtyBounded /\ LeftBounded /\ Held
  BY DEF DeskInv
<1>3. warned = {}
  BY <1>1, WarningsStay
<1>4. left.failures = Failures /\ left.figures = Figures /\ left'.figures = left.figures
  <2>1. CASE Rests
    BY <1>1, <2>1 DEF Rests
  <2>2. ASSUME NEW r \in Requests, Turns(r) PROVE left.failures = Failures
    BY <1>1, <1>2, <2>2, NoFailure
  <2>3. ASSUME NEW r \in Requests, Fumbles(r) PROVE FALSE
    BY <1>1, <1>2, <2>3, FumbleSpent
  <2>4. Rests \/ \E r \in Requests : Turns(r)
    BY <1>2, <2>3, NextKind
  <2>5. left'.figures = left.figures
    BY <2>4, FiguresKept
  <2> QED
    BY <1>1, <2>1, <2>2, <2>4, <2>5
<1>5. Covered /\ \A r \in Requests : Sure(r) /\ Ready(r)
  BY <1>3, <1>4 DEF Reserving, Exactly, NothingFailed
<1>6. left \in LeftType /\ Failures \in Nat
  BY BoundsAssumption DEF IInv, TypeOK
<1>7. ASSUME NEW r \in Requests, Covered' /\ Sure(r)'
      PROVE  Covered' /\ \A p \in Requests : Sure(p)'
  <2>1. \A p \in Requests : p = r
    BY AllAtDesk
  <2> QED
    BY <1>7, <2>1
<1>8. CASE \/ UNCHANGED vars
           \/ \E o \in Orders : ResolveRetrack(o)
           \/ \E l \in Locations :
                \/ \E n \in Quantities : Intake(l, n)
                \/ \E d \in Discrepancies : Adjust(l, d) \/ CountStock(l, d)
                \/ \E approved \in BOOLEAN : ResolveCount(l, approved)
  <2>1. Rests
    BY <1>8, RestsKind
  <2> QED
    BY <1>5, <2>1, RestReserves
<1>9. ASSUME NEW r \in Requests,
             \/ Gate(r) \/ DeleteLock(r)
             \/ Commit(r) /\ ~Unmoved(r)
             \/ \E o \in Orders :
                  \/ \E to \in Targets, l \in Locations \cup {NoLoc}, hold \in BOOLEAN,
                        n \in 0 .. MaxQty : Read(r, o, to, l, hold, n)
                  \/ \E n \in Quantities : EditRead(r, o, n)
                  \/ DeleteRead(r, o)
      PROVE  Covered' /\ Sure(r)'
  <2>1. Waits(r)
    BY <1>9, StepWaits
  <2> QED
    BY <1>5, <2>1, WaitReserves
<1>10. ASSUME NEW r \in Requests, Commit(r), Unmoved(r) PROVE Covered' /\ Sure(r)'
  <2>1. PICK todo, loc : Commits(r, todo, loc)
    BY <1>10, CommitWins
  <2> QED
    BY <1>5, <2>1, CommitReserves
<1>11. ASSUME NEW r \in Requests, Revert(r) \/ DeleteCommit(r) \/ EditCommit(r) \/ Effect(r)
       PROVE  Covered' /\ Sure(r)'
  BY <1>1, <1>2, <1>4, <1>5, <1>11, RevertKind, RevertReserves, DeleteReserves, EditReserves, EffectReserves
<1>12. ASSUME NEW r \in Requests, Crash(r) PROVE FALSE
  BY <1>2, <1>6, <1>12 DEF Crash, LeftBounded, LeftType
<1>13. ASSUME NEW r, NEW e, EffectFails(r, e) PROVE FALSE
  BY <1>1, <1>4, <1>6, <1>13 DEF EffectFails, LeftType
<1>14. ASSUME NEW r \in Requests, Step(r) PROVE Covered' /\ Sure(r)'
  BY <1>9, <1>10, <1>11, <1>14 DEF Step
<1> QED
  BY <1>7, <1>8, <1>9, <1>12, <1>13, <1>14 DEF Next

\* At one desk, while the process lives and no effect fails, every unit an allocated order
\* waits for is reserved where the order is, unless the log says one was skipped: the code
\* moves a reservation with its order, and finds it wherever it lets one go.
THEOREM ReservationsCovered ==
    OneDesk /\ Crashes = 0 /\ Adjustments = 0 => (Spec => []ShortOnlyAfterWarning)
<1> SUFFICES ASSUME OneDesk, Crashes = 0, Adjustments = 0 PROVE Spec => []ShortOnlyAfterWarning
  OBVIOUS
<1>1. Init => Calm /\ Dues /\ DeskInv /\ Once /\ Exactly /\ Reserving
  <2> SUFFICES ASSUME Init PROVE Exactly /\ Reserving
    BY DeskFromTheStart, CalmFromTheStart, OnceFromTheStart
  <2>1. Exactly
    BY ExactFromTheStart
  <2>2. \A r \in Requests : req[r].pc = "idle"
    BY DEF Init, IdleRequest
  <2>3. \A r \in Requests : Sure(r)
    BY <2>2 DEF Sure
  <2>4. \A o \in Orders : Aside(o) /\ order[o].status \notin ReservedStatuses
    BY <2>2, StartAssumption DEF Init, Aside, Underway, ReservedStatuses
  <2>5. ASSUME NEW l \in Locations PROVE Sum(ClaimsAt(l)) <= level[l].reserved
    <3>1. PICK f : f = ClaimsAt(l)
      OBVIOUS
    <3>2. \A o \in Orders : f[o] = 0
      BY <2>4, <3>1, OrdersAssumption DEF ClaimsAt, ClaimOf, Sits, Parked
    <3>3. Sum(f) = SumFunctionOnSet(f, Orders)
      BY <3>1 DEF ClaimsAt, Sum, SumFunction
    <3>4. Sum(f) = 0
      BY <3>2, <3>3, FinitenessAssumption, SumSigns
    <3>5. level[l].reserved = 0
      BY DEF Init
    <3> QED
      BY <3>1, <3>4, <3>5
  <2> QED
    BY <2>1, <2>3, <2>5 DEF Reserving, Covered
<1>2. /\ IInv /\ IInv' /\ Calm /\ Dues /\ DeskInv /\ Once /\ Exactly /\ Reserving /\ [Next]_vars
      => Calm' /\ Dues' /\ DeskInv' /\ Once' /\ Exactly' /\ Reserving'
  <2> SUFFICES ASSUME IInv, IInv', Calm, Dues, DeskInv, Once, Exactly, Reserving, [Next]_vars
               PROVE  Calm' /\ Dues' /\ DeskInv' /\ Once' /\ Exactly' /\ Reserving'
    OBVIOUS
  <2>1. Rests \/ \E r \in Requests : Turns(r) \/ Fumbles(r)
    BY NextKind DEF DeskInv
  <2>2. ASSUME NEW r \in Requests, Fumbles(r) PROVE Once' /\ Exactly'
    BY <2>2, FumbleSpent DEF Once, Exactly, NothingFailed, DeskInv
  <2> QED
    BY <2>1, <2>2, CalmKept, DuesKept, DeskKept, OnceKept, ExactlyKept, ReservingKept
<1>3. Reserving => ShortOnlyAfterWarning
  <2> SUFFICES ASSUME Reserving, Settled, warned = {}, NothingFailed, NEW l \in Locations
               PROVE  level[l].reserved >= ReservedFor(l)
    BY DEF ShortOnlyAfterWarning
  <2>1. \A o \in Orders : Aside(o)
    BY DEF Settled, Aside, Underway
  <2>2. \A o \in Orders : ClaimOf(o, l) = IF order[o].status \in ReservedStatuses /\ order[o].loc = l
                                            THEN order[o].qty ELSE 0
    BY <2>1, OrdersAssumption DEF ClaimOf, Sits, Parked
  <2>3. ReservedFor(l) = Sum(ClaimsAt(l))
    BY <2>2 DEF ReservedFor, ClaimsAt
  <2>4. Sum(ClaimsAt(l)) <= level[l].reserved
    BY DEF Reserving, Covered
  <2> QED
    BY <2>3, <2>4
<1> QED
  BY <1>1, <1>2, <1>3, Invariance, PTL DEF Spec
==============================================================================
