-------------------------- MODULE Settlement_proofs --------------------------
(***************************************************************************)
(* The books of an order nobody touched, the statuses a receipt leaves and *)
(* the outcome of a batch, for any number of orders, batches and requests  *)
(* in flight.                                                              *)
(*                                                                         *)
(* TInv is about types and the shape of requests, UInv about the orders    *)
(* nobody has retracked or deleted, OInv about requests that come one at a *)
(* time.                                                                   *)
(***************************************************************************)
EXTENDS Settlement, Sums, SequenceTheorems, TLAPS

SellPlan == <<"postSale">>
PayPlan == <<"postPayment">>

\* What requests that undo something still have to do.
WholePlans == {<<"reversePayment", "detach">>, <<"reversePayment", "reverseSale">>}
DetachPlans == {<<"reversePayment", "detach">>, <<"reverseSlice", "detach">>, <<"detach">>}
LeavingPlans == WholePlans \cup DetachPlans \cup {<<"reverseSlice", "reverseSale">>}
UndoPlans == LeavingPlans \cup {<<"unremit">>, <<"reverseSale">>, <<"undeliver", "reverseSale">>}

Working(r) == r.pc \in {"look", "post"}
Undoes(r) == Working(r) /\ r.jobs \in UndoPlans
Sells(r, o) == Working(r) /\ r.jobs = SellPlan /\ r.o = o
Pays(r, b) == Working(r) /\ r.jobs = PayPlan /\ r.b = b

\* The shape of requests.
Shaped(r) ==
    /\ r.pc = "delete" => r.o \in Orders
    /\ r.pc \in {"receive", "dispute"} => r.b \in Batches
    /\ Working(r) => \/ r.jobs = PayPlan /\ r.b \in Batches
                     \/ r.jobs = SellPlan /\ r.o \in Orders
                     \/ r.jobs \in UndoPlans /\ r.o \in Orders
    /\ Working(r) /\ r.jobs \in LeavingPlans => r.b \in Batches
    /\ r.pc = "post" => Head(r.jobs) \in Reversals \cup Postings

TInv == TypeOK /\ \A s \in Sessions : Shaped(req[s])

\* A batch that does not exist yet has left no trace.
Trackless(b) ==
    /\ Linked(b) = {} /\ approved[b] = <<>>
    /\ gl[<<"PAYMENT", b>>] = [posted |-> FALSE, debit |-> Zero]
    /\ \A s \in Sessions : req[s].b # b

UnusedTrackless == \A b \in Unused : Trackless(b)

\* Who undoes something undoes it for an order that was touched, and a payment is
\* reversed as a whole only if all who are still on the batch were.
UndoesTouched(s) ==
    Undoes(req[s]) =>
        /\ req[s].o \in touched
        /\ req[s].jobs \in WholePlans => Linked(req[s].b) \subseteq touched

\* Each receipt is followed by one payment.
PayersCounted(b) ==
    /\ approved[b] = <<>> => \A s \in Sessions : ~Pays(req[s], b)
    /\ Len(approved[b]) = 1 => \A s, t \in Sessions : Pays(req[s], b) /\ Pays(req[t], b) => s = t

\* An order that was never touched has moved forward only.
Forward(o) ==
    /\ ~order[o].hold /\ order[o].status # "DELETED"
    /\ order[o].status = "IN_TRANSIT" =>
         /\ batchOf[o] = NoBatch
         /\ \A s \in Sessions : req[s].pc = "create" => o \notin req[s].orders

Sale(o) == gl[<<"SALES_INVOICE", o>>]
Payment(b) == gl[<<"PAYMENT", b>>]

SaleBooked(o) ==
    /\ order[o].status = "IN_TRANSIT" => ~Sale(o).posted /\ Sale(o).debit[o] = 0
    /\ \A s \in Sessions : Sells(req[s], o) =>
         /\ order[o].status # "IN_TRANSIT" /\ ~Sale(o).posted /\ Sale(o).debit[o] = 0
         /\ \A t \in Sessions : Sells(req[t], o) => s = t
    /\ \/ order[o].status = "IN_TRANSIT"
       \/ o \in alerted
       \/ \E s \in Sessions : Sells(req[s], o)
       \/ Sale(o).debit[o] = 1

PaymentBooked(o, b) ==
    /\ approved[b] = <<>> => ~Payment(b).posted /\ Payment(b).debit[o] = 0
    /\ approved[b] # <<>> => order[o].status = "REMITTED"
    /\ Len(approved[b]) = 1 =>
         /\ (\E s \in Sessions : Pays(req[s], b)) => ~Payment(b).posted /\ Payment(b).debit[o] = 0
         /\ o \in alerted \/ (\E s \in Sessions : Pays(req[s], b)) \/ Payment(b).debit[o] = -1

\* Only two vouchers are about it.
OwnVouchers(o) ==
    \A v \in Vouchers :
        gl[v].debit[o] # 0 => v \in {<<"SALES_INVOICE", o>>, <<"PAYMENT", batchOf[o]>>}

\* What a posting under way will write about it.
Due(r, o) ==
    IF Sells(r, o) THEN 1 ELSE IF batchOf[o] # NoBatch /\ Pays(r, batchOf[o]) THEN -1 ELSE 0

LinesMean(s, o) == req[s].pc = "post" => req[s].lines[o] = Due(req[s], o)

Untouched(o) ==
    /\ Forward(o) /\ SaleBooked(o) /\ OwnVouchers(o)
    /\ batchOf[o] # NoBatch => PaymentBooked(o, batchOf[o])
    /\ \A s \in Sessions : LinesMean(s, o)

UInv ==
    /\ UnusedTrackless
    /\ \A s \in Sessions : UndoesTouched(s)
    /\ \A b \in Batches : PayersCounted(b)
    /\ \A o \in Orders \ touched : Untouched(o)

\* As long as requests come one at a time: who decides still sees what it read, who
\* detaches an order still finds it on the batch, and outcomes count what is linked.
OneBusy == \A s, t \in Sessions : req[s].pc # "idle" /\ req[t].pc # "idle" => s = t

Outcome(b) ==
    approved[b] = IF batch[b] = "RECEIVED" THEN <<Cardinality(Linked(b))>> ELSE <<>>

Decides(r) ==
    /\ r.pc \in {"receive", "dispute"} => batch[r.b] = "SENT"
    /\ r.pc = "receive" => r.n = Cardinality(Linked(r.b))
    /\ Working(r) /\ r.jobs \in DetachPlans => batchOf[r.o] = r.b

Serial ==
    /\ OneBusy
    /\ \A b \in Batches : Outcome(b)
    /\ \A s \in Sessions : Decides(req[s])

OInv == left.overlaps <= Overlaps /\ (~Overlapped => Serial)

------------------------------------------------------------------------------
(***************************************************************************)
(* Plans.                                                                  *)
(***************************************************************************)

LEMMA SimplePlans ==
    /\ SellPlan \in Seq(Jobs) /\ SellPlan # <<>> /\ Tail(SellPlan) = <<>> /\ Head(SellPlan) = "postSale"
    /\ PayPlan \in Seq(Jobs) /\ PayPlan # <<>> /\ Tail(PayPlan) = <<>> /\ Head(PayPlan) = "postPayment"
    /\ SellPlan # PayPlan /\ SellPlan \notin UndoPlans /\ PayPlan \notin UndoPlans
  BY DEF SellPlan, PayPlan, UndoPlans, LeavingPlans, WholePlans, DetachPlans, Jobs, Postings, Reversals

LEMMA Pairs ==
    ASSUME NEW a \in Jobs, NEW b \in Jobs
    PROVE  /\ <<a, b>> \in Seq(Jobs) /\ <<a, b>> # <<>> /\ Head(<<a, b>>) = a /\ Tail(<<a, b>>) = <<b>>
           /\ <<b>> \in Seq(Jobs) /\ <<b>> # <<>> /\ Head(<<b>>) = b /\ Tail(<<b>>) = <<>>
  OBVIOUS

LEMMA Joins ==
    ASSUME NEW a \in Jobs, NEW b \in Jobs
    PROVE  <<a>> \o <<b>> = <<a, b>> /\ <<a>> \o <<>> = <<a>> /\ <<a, b>> \o <<>> = <<a, b>>
<1>1. <<a>> \in Seq(Jobs) /\ <<b>> \in Seq(Jobs) /\ <<a, b>> \in Seq(Jobs) /\ <<>> \in Seq(Jobs)
  OBVIOUS
<1>2. <<a>> \o <<>> = <<a>> /\ <<a, b>> \o <<>> = <<a, b>>
  BY <1>1, ConcatEmptySeq
<1>3. PICK q : q = <<a>> \o <<b>>
  OBVIOUS
<1>4. q \in Seq(Jobs) /\ Len(q) = 2 /\ q[1] = a /\ q[2] = b
  BY <1>1, <1>3
<1>5. q = <<a, b>>
  BY <1>4
<1> QED
  BY <1>2, <1>3, <1>5

LEMMA TuplesDiffer ==
    ASSUME NEW a, NEW b, NEW c, NEW d
    PROVE  /\ <<a, b>> # <<c>>
           /\ <<a, b>> = <<c, d>> <=> a = c /\ b = d
           /\ <<a>> = <<c>> <=> a = c
           /\ <<>> # <<c>> /\ <<>> # <<a, b>>
  OBVIOUS

\* What is left of an undoing plan after its first job.
UndoTail(p) ==
    /\ p \in Seq(Jobs) /\ p # <<>> /\ Head(p) \in Jobs \ {"postSale", "postPayment"}
    /\ Tail(p) = <<>> \/ Tail(p) \in UndoPlans \ WholePlans
    /\ Tail(p) \in LeavingPlans => p \in LeavingPlans
    /\ Tail(p) \in DetachPlans => p \in DetachPlans
    /\ Head(p) = "reversePayment" <=> p \in WholePlans
    /\ Head(p) \in {"reversePayment", "detach"} => p \in LeavingPlans
    /\ Head(p) = "detach" => p \in DetachPlans /\ Tail(p) = <<>>
    /\ Head(p) = "unremit" => Tail(p) = <<>>
    /\ Head(p) = "undeliver" => Tail(p) = <<"reverseSale">>

LEMMA UndoTails == ASSUME NEW p \in UndoPlans PROVE UndoTail(p)
<1> USE DEF UndoPlans, LeavingPlans, WholePlans, DetachPlans, UndoTail
<1>0. /\ {"reversePayment", "reverseSlice", "reverseSale", "detach", "unremit", "undeliver"} \subseteq Jobs
      /\ "postSale" \in Jobs /\ "postPayment" \in Jobs
  BY DEF Jobs, Postings, Reversals
<1>1. ASSUME NEW a \in {"reversePayment", "reverseSlice", "undeliver"}, NEW b \in {"detach", "reverseSale"},
             p = <<a, b>>
      PROVE  UndoTail(p)
  BY <1>0, <1>1, Pairs, TuplesDiffer
<1>2. ASSUME NEW b \in {"detach", "reverseSale", "unremit"}, p = <<b>> PROVE UndoTail(p)
  BY <1>0, <1>2, Pairs, TuplesDiffer
<1> QED
  BY <1>1, <1>2

\* What Unsettle puts in front of the other jobs.
LEMMA UndoHeads ==
    ASSUME NEW whole \in BOOLEAN, NEW remitted \in BOOLEAN, NEW rest,
           rest = IF remitted THEN <<>> ELSE <<"reverseSale">>,
           NEW plan,
           plan = ((IF whole THEN <<"reversePayment">> ELSE <<"reverseSlice">>)
                     \o (IF remitted THEN <<"detach">> ELSE <<>>)) \o rest
    PROVE  plan \in LeavingPlans /\ (plan \in WholePlans => whole)
<1>1. PICK a : a = IF whole THEN "reversePayment" ELSE "reverseSlice"
  OBVIOUS
<1>2. PICK b : b = IF remitted THEN "detach" ELSE "reverseSale"
  OBVIOUS
<1>3. a \in Jobs /\ b \in Jobs
  BY <1>1, <1>2 DEF Jobs, Postings, Reversals
<1>4. (IF whole THEN <<"reversePayment">> ELSE <<"reverseSlice">>) = <<a>>
  BY <1>1
<1>5. plan = <<a, b>>
  <2>1. CASE remitted
    BY <1>2, <1>3, <1>4, <2>1, Joins
  <2>2. CASE ~remitted
    BY <1>2, <1>3, <1>4, <2>2, Joins
  <2> QED
    BY <2>1, <2>2
<1>6. plan \in LeavingPlans
  BY <1>1, <1>2, <1>5 DEF LeavingPlans, WholePlans, DetachPlans
<1>7. plan \in WholePlans => whole
  <2>1. <<a, b>> \in WholePlans => a = "reversePayment"
    BY TuplesDiffer DEF WholePlans
  <2> QED
    BY <1>1, <1>5, <2>1
<1> QED
  BY <1>6, <1>7

------------------------------------------------------------------------------
(***************************************************************************)
(* Types and shapes.                                                       *)
(***************************************************************************)

LEMMA VoucherNames ==
    /\ \A o \in Orders : <<"SALES_INVOICE", o>> \in Vouchers /\ <<"JOURNAL_ENTRY", o>> \in Vouchers
    /\ \A b \in Batches : <<"PAYMENT", b>> \in Vouchers
  BY DEF Vouchers

LEMMA EmptyJobs == <<>> \in Seq(Jobs) /\ Zero \in [Orders -> Int]
  BY DEF Zero

LEMMA IdleFacts == Idle \in RequestType /\ Shaped(Idle) /\ ~Working(Idle) /\ Idle.b = NoBatch /\ Idle.pc = "idle"
  BY DEF Idle, RequestType, Shaped, Working, Zero

LEMMA WithJobsFacts ==
    ASSUME NEW r \in RequestType, NEW q \in Seq(Jobs)
    PROVE  /\ WithJobs(r, q) \in RequestType
           /\ q = <<>> => WithJobs(r, q) = Idle
           /\ q # <<>> => WithJobs(r, q) = [r EXCEPT !.pc = "look", !.jobs = q]
<1>1. [r EXCEPT !.pc = "look", !.jobs = q] \in RequestType
  BY DEF RequestType
<1> QED
  BY <1>1, IdleFacts DEF WithJobs

\* The number of orders on a batch.
LEMMA LinkedCount ==
    ASSUME NEW b
    PROVE  IsFiniteSet(Linked(b)) /\ Cardinality(Linked(b)) \in Nat
  BY FinitenessAssumption, FS_Subset, FS_CardinalityType DEF Linked

\* What a request that has begun its jobs is about.
LEMMA WorkingFacts ==
    ASSUME NEW r \in RequestType, Shaped(r), Working(r)
    PROVE  /\ r.jobs \in Seq(Jobs) /\ r.jobs # <<>> /\ Head(r.jobs) \in Jobs
           /\ Tail(r.jobs) \in Seq(Jobs)
           /\ Tail(r.jobs) = <<>> \/ (r.jobs \in UndoPlans /\ Tail(r.jobs) \in UndoPlans \ WholePlans)
           /\ Head(r.jobs) \in {"postSale", "reverseSale", "reverseSlice", "unremit", "undeliver"} => r.o \in Orders
           /\ Head(r.jobs) \in {"postPayment", "reversePayment", "detach"} => r.b \in Batches
           /\ Head(r.jobs) = "detach" => r.o \in Orders
           /\ Head(r.jobs) = "postSale" <=> r.jobs = SellPlan
           /\ Head(r.jobs) = "postPayment" <=> r.jobs = PayPlan
<1>1. CASE r.jobs = PayPlan
  BY <1>1, SimplePlans, EmptySeq DEF Shaped
<1>2. CASE r.jobs = SellPlan
  BY <1>2, SimplePlans, EmptySeq DEF Shaped
<1>3. CASE r.jobs \in UndoPlans
  <2>1. UndoTail(r.jobs) /\ r.o \in Orders
    BY <1>3, UndoTails, SimplePlans DEF Shaped
  <2>2. Head(r.jobs) \in {"reversePayment", "detach"} => r.b \in Batches
    BY <2>1 DEF Shaped, UndoTail
  <2>3. r.jobs \in Seq(Jobs) /\ Tail(r.jobs) \in Seq(Jobs)
    BY <2>1, EmptySeq, UndoTails DEF UndoTail
  <2> QED
    BY <1>3, <2>1, <2>2, <2>3, SimplePlans DEF UndoTail
<1> QED
  BY <1>1, <1>2, <1>3 DEF Shaped

\* A job done: the request ends or goes on undoing.
LEMMA AfterJob ==
    ASSUME NEW r \in RequestType, Shaped(r), Working(r)
    PROVE  /\ Next1(r) \in RequestType /\ Shaped(Next1(r))
           /\ \/ Next1(r) = Idle
              \/ /\ Undoes(r) /\ Tail(r.jobs) \in UndoPlans \ WholePlans
                 /\ Next1(r) = [r EXCEPT !.pc = "look", !.jobs = Tail(r.jobs)]
<1>1. /\ Tail(r.jobs) \in Seq(Jobs)
      /\ Tail(r.jobs) = <<>> \/ (r.jobs \in UndoPlans /\ Tail(r.jobs) \in UndoPlans \ WholePlans)
  BY WorkingFacts
<1>2. Next1(r) \in RequestType
  BY <1>1, WithJobsFacts DEF Next1
<1>3. CASE Tail(r.jobs) = <<>>
  BY <1>1, <1>2, <1>3, WithJobsFacts, IdleFacts DEF Next1
<1>4. CASE Tail(r.jobs) # <<>>
  <2>1. Next1(r) = [r EXCEPT !.pc = "look", !.jobs = Tail(r.jobs)]
    BY <1>1, <1>4, WithJobsFacts DEF Next1
  <2>2. UndoTail(r.jobs) /\ r.o \in Orders
    BY <1>1, <1>4, UndoTails, SimplePlans DEF Shaped
  <2>3. Tail(r.jobs) \in LeavingPlans => r.b \in Batches
    BY <2>2 DEF UndoTail, Shaped
  <2>4. PICK n : n = Next1(r)
    OBVIOUS
  <2>5. n.pc = "look" /\ n.jobs = Tail(r.jobs) /\ n.o = r.o /\ n.b = r.b
    BY <2>1, <2>4 DEF RequestType
  <2>6. Shaped(n)
    BY <1>1, <1>4, <2>2, <2>3, <2>5 DEF Shaped
  <2> QED
    BY <1>1, <1>2, <1>4, <2>1, <2>4, <2>6 DEF Undoes
<1> QED
  BY <1>3, <1>4

LEMMA OneOrZero == \A o : One(o) = [p \in Orders |-> IF p = o THEN 1 ELSE 0]
  BY DEF One, Zero

LEMMA VoucherTyped ==
    ASSUME TInv, NEW s \in Sessions, Working(req[s]), NEW j, j = Head(req[s].jobs),
           j \in Reversals \cup Postings
    PROVE  Voucher(s, j) \in Vouchers /\ Lines(s, j) \in [Orders -> Int]
<1>1. req[s] \in RequestType /\ Shaped(req[s])
  BY DEF TInv, TypeOK
<1>2. Voucher(s, j) \in Vouchers
  BY <1>1, WorkingFacts, VoucherNames DEF Voucher, Reversals, Postings
<1>3. PICK d : d = gl[Voucher(s, j)].debit
  OBVIOUS
<1>4. d \in [Orders -> Int]
  BY <1>2, <1>3 DEF TInv, TypeOK
<1>5. Zero \in [Orders -> Int] /\ One(req[s].o) \in [Orders -> Int]
  BY OneOrZero DEF Zero
<1> QED
  BY <1>2, <1>3, <1>4, <1>5 DEF Lines

\* Requests when only that of s changes.
LEMMA NewRequest ==
    ASSUME TInv, NEW s \in Sessions, NEW r \in RequestType, Shaped(r), req' = [req EXCEPT ![s] = r]
    PROVE  /\ req' \in [Sessions -> RequestType] /\ \A t \in Sessions : Shaped(req'[t])
           /\ req'[s] = r /\ \A t \in Sessions \ {s} : req'[t] = req[t]
<1>1. req' \in [Sessions -> RequestType]
  BY DEF TInv, TypeOK
<1>2. req'[s] = r /\ \A t \in Sessions \ {s} : req'[t] = req[t]
  BY DEF TInv, TypeOK
<1> QED
  BY <1>1, <1>2 DEF TInv

\* A session begins a request.
LEMMA StartsTyped ==
    ASSUME TInv, NEW s \in Sessions, NEW r \in RequestType, Shaped(r), NEW u \in {0, 1}, Starts(s, r, u)
    PROVE  /\ req' \in [Sessions -> RequestType] /\ \A t \in Sessions : Shaped(req'[t])
           /\ req[s].pc = "idle" /\ req'[s] = r /\ \A t \in Sessions \ {s} : req'[t] = req[t]
           /\ left' \in [undoings : Nat, overlaps : Nat, yearEnds : Nat]
<1>1. PICK v \in {0, 1} : v <= left.overlaps /\ left' = [left EXCEPT !.undoings = @ - u, !.overlaps = @ - v]
  BY DEF Starts
<1>2. req[s].pc = "idle" /\ req' = [req EXCEPT ![s] = r] /\ u <= left.undoings
  BY DEF Starts
<1>3. left \in [undoings : Nat, overlaps : Nat, yearEnds : Nat]
  BY DEF TInv, TypeOK
<1>4. left' = [undoings |-> left.undoings - u, overlaps |-> left.overlaps - v, yearEnds |-> left.yearEnds]
  BY <1>1, <1>3
<1>5. left.undoings - u \in Nat /\ left.overlaps - v \in Nat
  BY <1>1, <1>2, <1>3
<1>6. left' \in [undoings : Nat, overlaps : Nat, yearEnds : Nat]
  BY <1>3, <1>4, <1>5
<1> QED
  BY <1>2, <1>6, NewRequest

\* The requests that operations begin with.
LEMMA Beginnings ==
    ASSUME NEW o \in Orders
    PROVE  /\ \A q \in {SellPlan, <<"unremit">>, <<"reverseSale">>} :
                /\ WithJobs([Idle EXCEPT !.o = o], q) \in RequestType
                /\ Shaped(WithJobs([Idle EXCEPT !.o = o], q))
                /\ WithJobs([Idle EXCEPT !.o = o], q) =
                     [pc |-> "look", o |-> o, b |-> NoBatch, orders |-> {}, now |-> FALSE, n |-> 0,
                      jobs |-> q, lines |-> Zero]
           /\ [Idle EXCEPT !.pc = "delete", !.o = o] \in RequestType
           /\ Shaped([Idle EXCEPT !.pc = "delete", !.o = o])
<1>1. PICK r : r = [Idle EXCEPT !.o = o]
  OBVIOUS
<1>2. r \in RequestType /\ r = [pc |-> "idle", o |-> o, b |-> NoBatch, orders |-> {}, now |-> FALSE, n |-> 0,
                                jobs |-> <<>>, lines |-> Zero]
  BY <1>1, EmptyJobs DEF Idle, RequestType
<1>3. ASSUME NEW q \in {SellPlan, <<"unremit">>, <<"reverseSale">>}
      PROVE  /\ WithJobs(r, q) \in RequestType /\ Shaped(WithJobs(r, q))
             /\ WithJobs(r, q) = [pc |-> "look", o |-> o, b |-> NoBatch, orders |-> {}, now |-> FALSE, n |-> 0,
                                  jobs |-> q, lines |-> Zero]
  <2>1. q \in Seq(Jobs) /\ q # <<>> /\ q \in {SellPlan} \cup (UndoPlans \ LeavingPlans)
    <3>1. {"unremit", "reverseSale"} \subseteq Jobs
      BY DEF Jobs, Reversals
    <3>2. \A j \in Jobs : <<j>> \in Seq(Jobs) /\ <<j>> # <<>>
      BY Pairs
    <3>3. \A j \in {"unremit", "reverseSale"} : <<j>> \in UndoPlans \ LeavingPlans
      BY TuplesDiffer DEF UndoPlans, LeavingPlans, WholePlans, DetachPlans
    <3> QED
      BY <3>1, <3>2, <3>3, SimplePlans
  <2>2. PICK w : w = WithJobs(r, q)
    OBVIOUS
  <2>3. w \in RequestType /\ w = [pc |-> "look", o |-> o, b |-> NoBatch, orders |-> {}, now |-> FALSE, n |-> 0,
                                  jobs |-> q, lines |-> Zero]
    <3>1. w \in RequestType /\ w = [r EXCEPT !.pc = "look", !.jobs = q]
      BY <1>2, <2>1, <2>2, WithJobsFacts
    <3> QED
      BY <1>2, <3>1
  <2>4. Shaped(w)
    <3>1. w.pc = "look" /\ w.jobs = q /\ w.o = o
      BY <2>3
    <3>2. q \in LeavingPlans => FALSE
      BY <2>1, SimplePlans DEF UndoPlans
    <3> QED
      BY <2>1, <3>1, <3>2, SimplePlans DEF Shaped
  <2> QED
    BY <2>2, <2>3, <2>4
<1>4. PICK d : d = [Idle EXCEPT !.pc = "delete", !.o = o]
  OBVIOUS
<1>5. d \in RequestType /\ Shaped(d)
  <2>1. d = [pc |-> "delete", o |-> o, b |-> NoBatch, orders |-> {}, now |-> FALSE, n |-> 0,
             jobs |-> <<>>, lines |-> Zero]
    BY <1>4 DEF Idle
  <2>2. d \in RequestType
    BY <2>1, EmptyJobs DEF RequestType
  <2> QED
    BY <2>1, <2>2 DEF Shaped, Working
<1> QED
  BY <1>1, <1>3, <1>4, <1>5

OrderRows == [Orders -> [status : Statuses, hold : BOOLEAN]]

LEMMA CascadeTyped ==
    ASSUME TypeOK, NEW S
    PROVE  /\ Cascade(S) \in OrderRows
           /\ \A o \in Orders :
                /\ Cascade(S)[o].hold = order[o].hold
                /\ Cascade(S)[o].status \in {order[o].status, "REMITTED"}
                /\ o \notin S \/ order[o].hold => Cascade(S)[o].status = order[o].status
                /\ o \in S /\ ~order[o].hold /\ order[o].status # "DELETED" =>
                     Cascade(S)[o].status = "REMITTED"
<1>1. \A o \in Orders : [order[o] EXCEPT !.status = "REMITTED"] =
                           [status |-> "REMITTED", hold |-> order[o].hold]
  BY DEF TypeOK
<1>2. order \in OrderRows
  BY DEF TypeOK, OrderRows
<1>3. \A o \in Orders : Cascade(S)[o] =
        IF o \in S /\ order[o].status \notin {"REMITTED", "DELETED"} /\ ~order[o].hold
          THEN [status |-> "REMITTED", hold |-> order[o].hold] ELSE order[o]
  BY <1>1 DEF Cascade
<1>4. Cascade(S) \in OrderRows
  BY <1>1, <1>2 DEF Cascade, OrderRows, Statuses
<1>5. ASSUME NEW o \in Orders
      PROVE  /\ Cascade(S)[o].hold = order[o].hold
             /\ Cascade(S)[o].status \in {order[o].status, "REMITTED"}
             /\ o \notin S \/ order[o].hold => Cascade(S)[o].status = order[o].status
             /\ o \in S /\ ~order[o].hold /\ order[o].status # "DELETED" =>
                  Cascade(S)[o].status = "REMITTED"
  <2>1. PICK c : c = Cascade(S)[o]
    OBVIOUS
  <2>2. CASE o \in S /\ order[o].status \notin {"REMITTED", "DELETED"} /\ ~order[o].hold
    <3>1. c = [status |-> "REMITTED", hold |-> order[o].hold]
      BY <1>3, <2>1, <2>2
    <3> QED
      BY <2>1, <2>2, <3>1
  <2>3. CASE ~(o \in S /\ order[o].status \notin {"REMITTED", "DELETED"} /\ ~order[o].hold)
    <3>1. c = order[o]
      BY <1>3, <2>1, <2>3
    <3> QED
      BY <2>1, <2>3, <3>1
  <2> QED
    BY <2>2, <2>3
<1> QED
  BY <1>4, <1>5

LEMMA OutcomesTyped ==
    ASSUME TypeOK, NEW b \in Batches
    PROVE  /\ LessOne(approved[b]) \in Seq(Nat) /\ Len(LessOne(approved[b])) = Len(approved[b])
           /\ \A n \in Nat : Append(approved[b], n) \in Seq(Nat)
                              /\ Len(Append(approved[b], n)) = Len(approved[b]) + 1
<1>1. PICK q : q = approved[b]
  OBVIOUS
<1>2. q \in Seq(Nat)
  BY <1>1 DEF TypeOK
<1>3. DOMAIN q = 1 .. Len(q) /\ Len(q) \in Nat /\ \A i \in 1 .. Len(q) : q[i] \in Nat
  BY <1>2
<1>4. LessOne(q) = [i \in 1 .. Len(q) |-> IF q[i] > 0 THEN q[i] - 1 ELSE 0]
  BY <1>3 DEF LessOne
<1>5. \A i \in 1 .. Len(q) : (IF q[i] > 0 THEN q[i] - 1 ELSE 0) \in Nat
  BY <1>3
<1>6. LessOne(q) \in [1 .. Len(q) -> Nat]
  BY <1>4, <1>5
<1>7. LessOne(q) \in Seq(Nat) /\ Len(LessOne(q)) = Len(q)
  BY <1>3, <1>6
<1>8. \A n \in Nat : Append(q, n) \in Seq(Nat) /\ Len(Append(q, n)) = Len(q) + 1
  BY <1>2, AppendProperties
<1> QED
  BY <1>1, <1>7, <1>8

(***************************************************************************)
(* What the steps of a request do to it.                                   *)
(***************************************************************************)

\* The request of s becomes n, well-shaped, and no other changes.
Becomes(s, n) ==
    /\ n \in RequestType /\ Shaped(n)
    /\ req' \in [Sessions -> RequestType] /\ \A t \in Sessions : Shaped(req'[t])
    /\ req'[s] = n /\ \A t \in Sessions \ {s} : req'[t] = req[t]

LEMMA BecomesNew ==
    ASSUME TInv, NEW s \in Sessions, NEW n \in RequestType, Shaped(n), req' = [req EXCEPT ![s] = n]
    PROVE  Becomes(s, n)
  BY NewRequest DEF Becomes

\* The jobs of r go on without the one just done.
GoesOn(r, n) ==
    \/ n = Idle
    \/ /\ Undoes(r) /\ Tail(r.jobs) \in UndoPlans \ WholePlans
       /\ n = [r EXCEPT !.pc = "look", !.jobs = Tail(r.jobs)]

LEMMA LookMoves ==
    ASSUME TInv, NEW s \in Sessions, NEW j \in Jobs, Look(s, j)
    PROVE  \E n : /\ Becomes(s, n)
                  /\ req[s].pc = "look" /\ j = Head(req[s].jobs)
                  /\ Voucher(s, j) \in Vouchers
                  /\ \/ Lines(s, j) = Zero /\ GoesOn(req[s], n)
                     \/ Lines(s, j) # Zero /\ n = [req[s] EXCEPT !.pc = "post", !.lines = Lines(s, j)]
<1>1. PICK r : r = req[s]
  OBVIOUS
<1>2. r \in RequestType /\ Shaped(r) /\ r.pc = "look" /\ Head(r.jobs) = j /\ j \in Reversals \cup Postings
  BY <1>1 DEF TInv, TypeOK, Look, Running
<1>3. Working(r)
  BY <1>2 DEF Working
<1>4. Voucher(s, j) \in Vouchers /\ Lines(s, j) \in [Orders -> Int]
  BY <1>1, <1>2, <1>3, VoucherTyped
<1>5. CASE Lines(s, j) = Zero
  <2>1. PICK n : n = Next1(r)
    OBVIOUS
  <2>2. n \in RequestType /\ Shaped(n) /\ GoesOn(r, n)
    BY <1>2, <1>3, <2>1, AfterJob DEF GoesOn
  <2>3. req' = [req EXCEPT ![s] = n]
    BY <1>1, <1>5, <2>1 DEF Look
  <2> QED
    BY <1>1, <1>2, <1>4, <1>5, <2>2, <2>3, BecomesNew
<1>6. CASE Lines(s, j) # Zero
  <2>1. PICK n : n = [r EXCEPT !.pc = "post", !.lines = Lines(s, j)]
    OBVIOUS
  <2>2. n \in RequestType /\ n.pc = "post" /\ n.jobs = r.jobs /\ n.o = r.o /\ n.b = r.b
    BY <1>2, <1>4, <2>1 DEF RequestType
  <2>3. Shaped(n)
    BY <1>2, <1>3, <2>2 DEF Shaped, Working
  <2>4. req' = [req EXCEPT ![s] = n]
    BY <1>1, <1>6, <2>1 DEF Look
  <2> QED
    BY <1>1, <1>2, <1>4, <1>6, <2>1, <2>2, <2>3, <2>4, BecomesNew
<1> QED
  BY <1>5, <1>6

LEMMA PostMoves ==
    ASSUME TInv, NEW s \in Sessions, Post(s)
    PROVE  \E n, m : /\ Becomes(s, n) /\ req[s].pc = "post"
                     /\ m = [req[s] EXCEPT !.lines = Zero] /\ GoesOn(m, n)
                     /\ Voucher(s, Head(req[s].jobs)) \in Vouchers
<1>1. PICK r : r = req[s]
  OBVIOUS
<1>2. r \in RequestType /\ Shaped(r) /\ r.pc = "post"
  BY <1>1 DEF TInv, TypeOK, Post
<1>3. Working(r) /\ Head(r.jobs) \in Reversals \cup Postings
  BY <1>2 DEF Working, Shaped
<1>4. Voucher(s, Head(r.jobs)) \in Vouchers
  BY <1>1, <1>3, VoucherTyped
<1>5. PICK m : m = [r EXCEPT !.lines = Zero]
  OBVIOUS
<1>6. m \in RequestType /\ m.pc = r.pc /\ m.jobs = r.jobs /\ m.o = r.o /\ m.b = r.b
  BY <1>2, <1>5, EmptyJobs DEF RequestType
<1>7. Shaped(m) /\ Working(m)
  BY <1>2, <1>3, <1>6 DEF Shaped, Working
<1>8. PICK n : n = Next1(m)
  OBVIOUS
<1>9. n \in RequestType /\ Shaped(n) /\ GoesOn(m, n)
  BY <1>6, <1>7, <1>8, AfterJob DEF GoesOn
<1>10. req' = [req EXCEPT ![s] = n]
  BY <1>1, <1>5, <1>8 DEF Post
<1> QED
  BY <1>1, <1>2, <1>4, <1>5, <1>9, <1>10, BecomesNew

LEMMA UnsettleMoves ==
    ASSUME TInv, NEW s \in Sessions, NEW j \in Jobs, Unsettle(s, j)
    PROVE  \E n, b : /\ Becomes(s, n) /\ req[s].pc = "look" /\ Undoes(req[s])
                     /\ req[s].o \in Orders /\ b = batchOf[req[s].o]
                     /\ \/ b = NoBatch /\ GoesOn(req[s], n)
                        \/ /\ b # NoBatch
                           /\ \E plan \in LeavingPlans :
                                /\ plan \in WholePlans => AloneOn(b)
                                /\ n = [req[s] EXCEPT !.b = b, !.jobs = plan]
<1>1. PICK r : r = req[s]
  OBVIOUS
<1>2. /\ r \in RequestType /\ Shaped(r) /\ r.pc = "look" /\ Head(r.jobs) = j
      /\ j \in {"unremit", "undeliver"}
  BY <1>1 DEF TInv, TypeOK, Unsettle, Running
<1>3. Working(r)
  BY <1>2 DEF Working
<1>4. r.o \in Orders /\ r.jobs \in UndoPlans /\ UndoTail(r.jobs)
  BY <1>2, <1>3, SimplePlans, UndoTails DEF Shaped
<1>5. PICK b : b = batchOf[r.o]
  OBVIOUS
<1>6. CASE b = NoBatch
  <2>1. PICK n : n = Next1(r)
    OBVIOUS
  <2>2. n \in RequestType /\ Shaped(n) /\ GoesOn(r, n)
    BY <1>2, <1>3, <2>1, AfterJob DEF GoesOn
  <2>3. req' = [req EXCEPT ![s] = n]
    BY <1>1, <1>5, <1>6, <2>1 DEF Unsettle
  <2> QED
    BY <1>1, <1>2, <1>3, <1>4, <1>5, <1>6, <2>2, <2>3, BecomesNew DEF Undoes
<1>7. CASE b # NoBatch
  <2>1. PICK plan : plan = ((IF AloneOn(b) THEN <<"reversePayment">> ELSE <<"reverseSlice">>)
                               \o (IF j = "unremit" THEN <<"detach">> ELSE <<>>)) \o Tail(r.jobs)
    OBVIOUS
  <2>2. plan \in LeavingPlans /\ (plan \in WholePlans => AloneOn(b))
    <3>1. Tail(r.jobs) = IF j = "unremit" THEN <<>> ELSE <<"reverseSale">>
      BY <1>2, <1>4 DEF UndoTail
    <3>2. PICK whole \in BOOLEAN : whole <=> AloneOn(b)
      OBVIOUS
    <3>3. PICK remitted \in BOOLEAN : remitted <=> j = "unremit"
      OBVIOUS
    <3>4. PICK rest : rest = Tail(r.jobs)
      OBVIOUS
    <3>5. /\ rest = IF remitted THEN <<>> ELSE <<"reverseSale">>
          /\ plan = ((IF whole THEN <<"reversePayment">> ELSE <<"reverseSlice">>)
                       \o (IF remitted THEN <<"detach">> ELSE <<>>)) \o rest
      BY <2>1, <3>1, <3>2, <3>3, <3>4
    <3>6. plan \in LeavingPlans /\ (plan \in WholePlans => whole)
      BY <3>5, UndoHeads
    <3> QED
      BY <3>2, <3>6
  <2>3. plan \in UndoPlans
    BY <2>2 DEF UndoPlans
  <2>4. plan \in Seq(Jobs) /\ b \in Batches
    BY <1>4, <1>5, <1>7, <2>3, UndoTails DEF UndoTail, TInv, TypeOK
  <2>5. PICK n : n = [r EXCEPT !.b = b, !.jobs = plan]
    OBVIOUS
  <2>6. n \in RequestType /\ n.pc = "look" /\ n.jobs = plan /\ n.o = r.o /\ n.b = b
    BY <1>2, <2>4, <2>5 DEF RequestType
  <2>7. Shaped(n)
    BY <1>4, <2>3, <2>4, <2>6 DEF Shaped, Working
  <2>8. req' = [req EXCEPT ![s] = n]
    <3>1. req' = [req EXCEPT ![s] =
                    IF batchOf[req[s].o] = NoBatch THEN Next1(req[s])
                    ELSE [req[s] EXCEPT !.b = batchOf[req[s].o],
                            !.jobs = ((IF AloneOn(batchOf[req[s].o]) THEN <<"reversePayment">> ELSE <<"reverseSlice">>)
                               \o (IF j = "unremit" THEN <<"detach">> ELSE <<>>)) \o Tail(req[s].jobs)]]
      BY Zenon DEF Unsettle
    <3> QED
      BY <1>1, <1>5, <1>7, <2>1, <2>5, <3>1
  <2> QED
    BY <1>1, <1>2, <1>3, <1>4, <1>5, <1>7, <2>2, <2>5, <2>6, <2>7, <2>8, BecomesNew DEF Undoes
<1> QED
  BY <1>6, <1>7

LEMMA DetachMoves ==
    ASSUME TInv, NEW s \in Sessions, Detach(s)
    PROVE  \E n : /\ Becomes(s, n) /\ req[s].pc = "look" /\ GoesOn(req[s], n) /\ Undoes(req[s])
                  /\ req[s].jobs \in DetachPlans
                  /\ req[s].o \in Orders /\ req[s].b \in Batches
<1>1. PICK r : r = req[s]
  OBVIOUS
<1>2. r \in RequestType /\ Shaped(r) /\ r.pc = "look" /\ Head(r.jobs) = "detach"
  BY <1>1 DEF TInv, TypeOK, Detach, Running
<1>3. Working(r)
  BY <1>2 DEF Working
<1>4. r.o \in Orders /\ r.b \in Batches /\ r.jobs \in UndoPlans
  BY <1>2, <1>3, WorkingFacts, SimplePlans DEF Shaped
<1>5. r.jobs \in DetachPlans
  BY <1>2, <1>4, UndoTails DEF UndoTail
<1>6. PICK n : n = Next1(r)
  OBVIOUS
<1>7. n \in RequestType /\ Shaped(n) /\ GoesOn(r, n)
  BY <1>2, <1>3, <1>6, AfterJob DEF GoesOn
<1>8. req' = [req EXCEPT ![s] = n]
  BY <1>1, <1>6 DEF Detach
<1> QED
  BY <1>1, <1>2, <1>3, <1>4, <1>5, <1>7, <1>8, BecomesNew DEF Undoes

\* Session s begins with n; unless it is counted, nobody else is busy.
LeftType == [undoings : Nat, overlaps : Nat, yearEnds : Nat]

Begins(s, n) ==
    /\ Becomes(s, n) /\ req[s].pc = "idle"
    /\ left' \in LeftType
    /\ \/ left'.overlaps < left.overlaps
       \/ left'.overlaps = left.overlaps /\ \A z \in Sessions : req[z].pc = "idle"

LEMMA BeginsNew ==
    ASSUME TInv, NEW s \in Sessions, NEW n \in RequestType, Shaped(n), NEW u \in {0, 1}, Starts(s, n, u)
    PROVE  Begins(s, n)
<1>1. req' = [req EXCEPT ![s] = n] /\ req[s].pc = "idle"
  BY DEF Starts
<1>2. left' \in LeftType
  BY StartsTyped DEF LeftType
<1>3. left \in LeftType
  BY DEF TInv, TypeOK, LeftType
<1>4. CASE \A z \in Sessions : req[z].pc = "idle"
  <2>1. left' = [left EXCEPT !.undoings = @ - u, !.overlaps = @ - 0]
    BY <1>4 DEF Starts
  <2>2. left'.overlaps = left.overlaps
    BY <1>3, <2>1 DEF LeftType
  <2> QED
    BY <1>1, <1>2, <1>4, <2>2, BecomesNew DEF Begins
<1>5. CASE ~ \A z \in Sessions : req[z].pc = "idle"
  <2>1. left' = [left EXCEPT !.undoings = @ - u, !.overlaps = @ - 1]
    BY <1>5 DEF Starts
  <2>2. left'.overlaps = left.overlaps - 1
    BY <1>3, <2>1 DEF LeftType
  <2>3. left'.overlaps < left.overlaps
    BY <1>3, <2>2 DEF LeftType
  <2> QED
    BY <1>1, <1>2, <2>3, BecomesNew DEF Begins
<1> QED
  BY <1>4, <1>5

Fresh(o, pc, jobs) ==
    [pc |-> pc, o |-> o, b |-> NoBatch, orders |-> {}, now |-> FALSE, n |-> 0, jobs |-> jobs, lines |-> Zero]

LEMMA DeliverMoves ==
    ASSUME TInv, NEW s \in Sessions, NEW o \in Orders, Deliver(s, o)
    PROVE  \E n : Begins(s, n) /\ n = Fresh(o, "look", SellPlan)
<1>1. PICK n : n = WithJobs([Idle EXCEPT !.o = o], SellPlan)
  OBVIOUS
<1>2. n \in RequestType /\ Shaped(n) /\ n = Fresh(o, "look", SellPlan)
  BY <1>1, Beginnings DEF Fresh
<1>3. Starts(s, n, 0)
  BY <1>1 DEF Deliver, SellPlan
<1> QED
  BY <1>2, <1>3, BeginsNew

LEMMA RetrackMoves ==
    ASSUME TInv, NEW s \in Sessions, NEW o \in Orders, NEW to \in Statuses, NEW hold \in BOOLEAN,
           Retrack(s, o, to, hold)
    PROVE  \E n, q : /\ Begins(s, n) /\ q \in {<<"unremit">>, <<"reverseSale">>}
                     /\ n = Fresh(o, "look", q)
                     /\ q \in UndoPlans \ LeavingPlans
<1>1. PICK q : q = IF order[o].status = "REMITTED" THEN <<"unremit">> ELSE <<"reverseSale">>
  OBVIOUS
<1>2. PICK n : n = WithJobs([Idle EXCEPT !.o = o], q)
  OBVIOUS
<1>3. q \in {<<"unremit">>, <<"reverseSale">>}
  BY <1>1
<1>4. n \in RequestType /\ Shaped(n) /\ n = Fresh(o, "look", q)
  BY <1>2, <1>3, Beginnings DEF Fresh
<1>5. q \in UndoPlans \ LeavingPlans
  BY <1>3, TuplesDiffer DEF UndoPlans, LeavingPlans, WholePlans, DetachPlans
<1>6. Starts(s, n, 1)
  BY <1>1, <1>2, Zenon DEF Retrack
<1> QED
  BY <1>3, <1>4, <1>5, <1>6, BeginsNew

LEMMA DeleteReadMoves ==
    ASSUME TInv, NEW s \in Sessions, NEW o \in Orders, DeleteRead(s, o)
    PROVE  \E n : Begins(s, n) /\ n = Fresh(o, "delete", <<>>)
<1>1. PICK n : n = [Idle EXCEPT !.pc = "delete", !.o = o]
  OBVIOUS
<1>2. n \in RequestType /\ Shaped(n)
  BY <1>1, Beginnings
<1>3. n = Fresh(o, "delete", <<>>)
  BY <1>1 DEF Idle, Fresh
<1>4. Starts(s, n, 1)
  BY <1>1 DEF DeleteRead
<1> QED
  BY <1>2, <1>3, <1>4, BeginsNew

LEMMA CreateReadMoves ==
    ASSUME TInv, NEW s \in Sessions, NEW S \in SUBSET Orders, NEW now \in BOOLEAN, CreateRead(s, S, now)
    PROVE  \E n : /\ Begins(s, n)
                  /\ n.pc = "create" /\ n.o = NoOrder /\ n.b = NoBatch /\ n.orders = S
<1>1. PICK n : n = [Idle EXCEPT !.pc = "create", !.orders = S, !.now = now]
  OBVIOUS
<1>2. n = [pc |-> "create", o |-> NoOrder, b |-> NoBatch, orders |-> S, now |-> now, n |-> 0,
           jobs |-> <<>>, lines |-> Zero]
  BY <1>1 DEF Idle
<1>3. n \in RequestType
  BY <1>2, EmptyJobs DEF RequestType
<1>4. Shaped(n)
  BY <1>2 DEF Shaped, Working
<1>5. Starts(s, n, 0)
  BY <1>1 DEF CreateRead
<1> QED
  BY <1>2, <1>3, <1>4, <1>5, BeginsNew

LEMMA DecideReadMoves ==
    ASSUME TInv, NEW s \in Sessions, NEW b \in Batches, NEW d \in {"receive", "dispute"},
           DecideRead(s, b, d)
    PROVE  \E n : /\ Begins(s, n)
                  /\ n.pc = d /\ n.o = NoOrder /\ n.b = b /\ n.orders = {}
                  /\ n.n = Cardinality(Linked(b))
<1>1. PICK n : n = [Idle EXCEPT !.pc = d, !.b = b, !.n = Cardinality(Linked(b))]
  OBVIOUS
<1>2. n = [pc |-> d, o |-> NoOrder, b |-> b, orders |-> {}, now |-> FALSE, n |-> Cardinality(Linked(b)),
           jobs |-> <<>>, lines |-> Zero]
  BY <1>1 DEF Idle
<1>3. n \in RequestType
  BY <1>2, EmptyJobs, LinkedCount DEF RequestType
<1>4. Shaped(n)
  BY <1>2 DEF Shaped, Working
<1>5. Starts(s, n, 0)
  BY <1>1 DEF DecideRead
<1> QED
  BY <1>2, <1>3, <1>4, <1>5, BeginsNew

LEMMA DeleteCommitMoves ==
    ASSUME TInv, NEW s \in Sessions, DeleteCommit(s)
    PROVE  \E n, q : /\ Becomes(s, n) /\ req[s].pc = "delete" /\ req[s].o \in Orders
                     /\ q \in UndoPlans \ LeavingPlans
                     /\ n = [req[s] EXCEPT !.pc = "look", !.jobs = q]
<1>1. PICK r : r = req[s]
  OBVIOUS
<1>2. r \in RequestType /\ Shaped(r) /\ r.pc = "delete" /\ r.o \in Orders
  BY <1>1 DEF TInv, TypeOK, DeleteCommit, Shaped
<1>3. PICK q : q = <<"undeliver", "reverseSale">>
  OBVIOUS
<1>4. q \in UndoPlans \ LeavingPlans
  BY <1>3, TuplesDiffer DEF UndoPlans, LeavingPlans, WholePlans, DetachPlans
<1>5. q \in Seq(Jobs) /\ q # <<>>
  BY <1>4, UndoTails DEF UndoTail
<1>6. PICK n : n = WithJobs(r, q)
  OBVIOUS
<1>7. n \in RequestType /\ n = [r EXCEPT !.pc = "look", !.jobs = q]
  BY <1>2, <1>5, <1>6, WithJobsFacts
<1>8. Shaped(n)
  <2>1. n.pc = "look" /\ n.jobs = q /\ n.o = r.o
    BY <1>2, <1>7 DEF RequestType
  <2> QED
    BY <1>2, <1>4, <2>1 DEF Shaped
<1>9. req' = [req EXCEPT ![s] = n]
  BY <1>1, <1>3, <1>6 DEF DeleteCommit
<1> QED
  BY <1>1, <1>2, <1>4, <1>7, <1>8, <1>9, BecomesNew

LEMMA PayPlanMoves ==
    ASSUME NEW r \in RequestType, r.b \in Batches
    PROVE  /\ WithJobs(r, PayPlan) \in RequestType /\ Shaped(WithJobs(r, PayPlan))
           /\ WithJobs(r, PayPlan) = [r EXCEPT !.pc = "look", !.jobs = PayPlan]
<1>1. PICK n : n = WithJobs(r, PayPlan)
  OBVIOUS
<1>2. n \in RequestType /\ n = [r EXCEPT !.pc = "look", !.jobs = PayPlan]
  BY <1>1, SimplePlans, WithJobsFacts
<1>3. n.pc = "look" /\ n.jobs = PayPlan /\ n.b \in Batches
  BY <1>2 DEF RequestType
<1>4. Shaped(n)
  BY <1>3, SimplePlans DEF Shaped, UndoPlans
<1> QED
  BY <1>1, <1>2, <1>4

LEMMA ReceiveMoves ==
    ASSUME TInv, NEW s \in Sessions, ReceiveCommit(s)
    PROVE  \E n : /\ Becomes(s, n) /\ req[s].pc = "receive" /\ req[s].b \in Batches
                  /\ n = [req[s] EXCEPT !.pc = "look", !.jobs = PayPlan]
<1>1. PICK r : r = req[s]
  OBVIOUS
<1>2. r \in RequestType /\ Shaped(r) /\ r.pc = "receive" /\ r.b \in Batches
  BY <1>1 DEF TInv, TypeOK, ReceiveCommit, Shaped
<1>3. PICK n : n = WithJobs(r, PayPlan)
  OBVIOUS
<1>4. req' = [req EXCEPT ![s] = n]
  BY <1>1, <1>3 DEF ReceiveCommit, PayPlan
<1> QED
  BY <1>1, <1>2, <1>3, <1>4, PayPlanMoves, BecomesNew

LEMMA CreateCommitMoves ==
    ASSUME TInv, NEW s \in Sessions, NEW b \in Batches, CreateCommit(s, b)
    PROVE  \E n : /\ Becomes(s, n) /\ req[s].pc = "create" /\ req[s].orders \in SUBSET Orders
                  /\ \/ req[s].now /\ n = [req[s] EXCEPT !.b = b, !.pc = "look", !.jobs = PayPlan]
                     \/ ~req[s].now /\ n = Idle
<1>1. PICK r : r = req[s]
  OBVIOUS
<1>2. r \in RequestType /\ Shaped(r) /\ r.pc = "create" /\ r.orders \in SUBSET Orders
  BY <1>1 DEF TInv, TypeOK, CreateCommit, RequestType
<1>3. PICK m : m = [r EXCEPT !.b = b]
  OBVIOUS
<1>4. m \in RequestType /\ m.b = b
  BY <1>2, <1>3 DEF RequestType
<1>5. req' = [req EXCEPT ![s] = WithJobs(m, IF r.now THEN <<"postPayment">> ELSE <<>>)]
  BY <1>1, <1>3, Zenon DEF CreateCommit
<1>6. CASE r.now
  <2>1. PICK n : n = WithJobs(m, PayPlan)
    OBVIOUS
  <2>2. req' = [req EXCEPT ![s] = n]
    BY <1>5, <1>6, <2>1 DEF PayPlan
  <2>3. n \in RequestType /\ Shaped(n) /\ n = [m EXCEPT !.pc = "look", !.jobs = PayPlan]
    BY <1>4, <2>1, PayPlanMoves
  <2>4. n = [r EXCEPT !.b = b, !.pc = "look", !.jobs = PayPlan]
    BY <1>2, <1>3, <2>3 DEF RequestType
  <2> QED
    BY <1>1, <1>2, <1>6, <2>2, <2>3, <2>4, BecomesNew
<1>7. CASE ~r.now
  <2>1. req' = [req EXCEPT ![s] = Idle]
    BY <1>4, <1>5, <1>7, EmptyJobs, WithJobsFacts
  <2> QED
    BY <1>1, <1>2, <1>7, <2>1, IdleFacts, BecomesNew
<1> QED
  BY <1>6, <1>7

LEMMA EndMoves ==
    ASSUME TInv, NEW s \in Sessions, CreateFails(s) \/ DisputeCommit(s) \/ PostFails(s)
    PROVE  Becomes(s, Idle)
<1>1. req' = [req EXCEPT ![s] = Idle]
  BY DEF CreateFails, DisputeCommit, PostFails
<1> QED
  BY <1>1, IdleFacts, BecomesNew

RequestsTyped == req \in [Sessions -> RequestType] /\ \A s \in Sessions : Shaped(req[s])

BatchesTyped ==
    /\ batchOf \in [Orders -> Batches \cup {NoBatch}]
    /\ batch \in [Batches -> {"NONE", "SENT", "RECEIVED", "DISPUTED"}]
    /\ approved \in [Batches -> Seq(Nat)]
    /\ disputed \in [Batches -> Nat]

BooksTyped ==
    /\ gl \in [Vouchers -> [posted : BOOLEAN, debit : [Orders -> Int]]]
    /\ alerted \subseteq Orders

RestTyped == order \in OrderRows /\ yearOpen \in BOOLEAN /\ touched \subseteq Orders /\ left \in LeftType

LEMMA TInvParts == TInv <=> RequestsTyped /\ BatchesTyped /\ BooksTyped /\ RestTyped
  BY DEF TInv, TypeOK, RequestsTyped, BatchesTyped, BooksTyped, RestTyped, OrderRows, LeftType

LEMMA InitTInv == Init => TInv
<1> SUFFICES ASSUME Init PROVE TInv
  OBVIOUS
<1>1. RequestsTyped
  BY IdleFacts DEF Init, RequestsTyped
<1>2. BatchesTyped
  BY DEF Init, BatchesTyped
<1>3. BooksTyped
  BY EmptyJobs DEF Init, BooksTyped
<1>4. RestTyped
  BY BoundsAssumption DEF Init, RestTyped, OrderRows, Statuses, LeftType
<1> QED
  BY <1>1, <1>2, <1>3, <1>4, TInvParts

LEMMA BecomesTyped == ASSUME NEW s \in Sessions, NEW n, Becomes(s, n) PROVE RequestsTyped'
  BY DEF Becomes, RequestsTyped

\* Steps that leave batches and books alone.
LEMMA OrdersTyped ==
    ASSUME TInv, order' \in OrderRows, UNCHANGED <<batches, books>>, yearOpen' \in BOOLEAN,
           touched' \subseteq Orders, left' \in LeftType, RequestsTyped'
    PROVE  TInv'
<1>1. BatchesTyped' /\ BooksTyped' /\ RestTyped'
  BY DEF TInv, TypeOK, batches, books, BatchesTyped, BooksTyped, RestTyped
<1> QED
  BY <1>1, TInvParts, PTL

LEMMA OpeningsTyped ==
    ASSUME TInv, NEW s \in Sessions,
           \/ \E o \in Orders : \/ Deliver(s, o) \/ DeleteRead(s, o)
                                \/ \E to \in Statuses, hold \in BOOLEAN : Retrack(s, o, to, hold)
           \/ \E S \in SUBSET Orders, now \in BOOLEAN : CreateRead(s, S, now)
           \/ \E b \in Batches, d \in {"receive", "dispute"} : DecideRead(s, b, d)
    PROVE  TInv'
<1> USE DEF Begins
<1>0. order \in OrderRows /\ yearOpen \in BOOLEAN /\ touched \subseteq Orders
  BY DEF TInv, TypeOK, OrderRows
<1>1. ASSUME NEW o \in Orders, Deliver(s, o) PROVE TInv'
  <2>1. RequestsTyped' /\ left' \in LeftType
    BY <1>1, DeliverMoves, BecomesTyped
  <2>2. order' \in OrderRows
    BY <1>0, <1>1 DEF Deliver, OrderRows, Statuses
  <2> QED
    BY <1>0, <1>1, <2>1, <2>2, OrdersTyped DEF Deliver
<1>2. ASSUME NEW o \in Orders, DeleteRead(s, o) PROVE TInv'
  <2>1. RequestsTyped' /\ left' \in LeftType
    BY <1>2, DeleteReadMoves, BecomesTyped
  <2> QED
    BY <1>0, <1>2, <2>1, OrdersTyped DEF DeleteRead
<1>3. ASSUME NEW o \in Orders, NEW to \in Statuses, NEW hold \in BOOLEAN, Retrack(s, o, to, hold) PROVE TInv'
  <2>1. RequestsTyped' /\ left' \in LeftType
    BY <1>3, RetrackMoves, BecomesTyped
  <2>2. order' = [order EXCEPT ![o] = [status |-> to, hold |-> @.hold \/ hold]] /\ touched' = touched \cup {o}
        /\ UNCHANGED <<batches, books, yearOpen>>
    BY <1>3 DEF Retrack
  <2>3. (order[o].hold \/ hold) \in BOOLEAN
    OBVIOUS
  <2>4. order' \in OrderRows
    BY <1>0, <2>2, <2>3 DEF OrderRows
  <2> QED
    BY <1>0, <2>1, <2>2, <2>4, OrdersTyped
<1>4. ASSUME NEW S \in SUBSET Orders, NEW now \in BOOLEAN, CreateRead(s, S, now) PROVE TInv'
  <2>1. RequestsTyped' /\ left' \in LeftType
    BY <1>4, CreateReadMoves, BecomesTyped
  <2> QED
    BY <1>0, <1>4, <2>1, OrdersTyped DEF CreateRead
<1>5. ASSUME NEW b \in Batches, NEW d \in {"receive", "dispute"}, DecideRead(s, b, d) PROVE TInv'
  <2>1. RequestsTyped' /\ left' \in LeftType
    BY <1>5, DecideReadMoves, BecomesTyped
  <2> QED
    BY <1>0, <1>5, <2>1, OrdersTyped DEF DecideRead
<1> QED
  BY <1>1, <1>2, <1>3, <1>4, <1>5

LEMMA OrderStepsTyped ==
    ASSUME TInv, \/ \E o \in Orders : RemitByHand(o) \/ ResolveRetrack(o) \/ Restore(o)
                 \/ Heal
                 \/ CloseYear \/ ReopenYear
    PROVE  TInv'
<1>0. /\ order \in OrderRows /\ yearOpen \in BOOLEAN /\ touched \subseteq Orders
      /\ left \in LeftType /\ RequestsTyped
  BY DEF TInv, TypeOK, OrderRows, LeftType, RequestsTyped
<1>1. UNCHANGED <<batches, books, req, touched>>
  BY DEF RemitByHand, ResolveRetrack, Restore, Heal, CloseYear, ReopenYear
<1>2. RequestsTyped'
  BY <1>0, <1>1 DEF RequestsTyped
<1>3. order' \in OrderRows
  <2>1. CASE Heal
    BY <2>1, CascadeTyped DEF Heal, TInv
  <2>2. ASSUME NEW o \in Orders, RemitByHand(o) \/ Restore(o) PROVE order' \in OrderRows
    <3>1. PICK to \in Statuses : order' = [order EXCEPT ![o].status = to]
      BY <2>2 DEF RemitByHand, Restore, Statuses
    <3> QED
      BY <1>0, <3>1 DEF OrderRows
  <2>3. ASSUME NEW o \in Orders, ResolveRetrack(o) PROVE order' \in OrderRows
    BY <1>0, <2>3 DEF ResolveRetrack, OrderRows
  <2>4. CASE CloseYear \/ ReopenYear
    BY <1>0, <2>4 DEF CloseYear, ReopenYear
  <2> QED
    BY <2>1, <2>2, <2>3, <2>4
<1>4. yearOpen' \in BOOLEAN /\ left' \in LeftType
  <2>1. CASE CloseYear
    <3>1. left' = [undoings |-> left.undoings, overlaps |-> left.overlaps, yearEnds |-> left.yearEnds - 1]
          /\ left.yearEnds > 0 /\ yearOpen' = FALSE
      BY <1>0, <2>1 DEF CloseYear, LeftType
    <3>2. left.undoings \in Nat /\ left.overlaps \in Nat /\ left.yearEnds - 1 \in Nat
      BY <1>0, <3>1 DEF LeftType
    <3>3. left' \in LeftType
      BY <3>1, <3>2 DEF LeftType
    <3> QED
      BY <3>1, <3>3
  <2>2. CASE ~CloseYear
    BY <1>0, <2>2 DEF RemitByHand, ResolveRetrack, Restore, Heal, ReopenYear
  <2> QED
    BY <2>1, <2>2
<1> QED
  BY <1>0, <1>1, <1>2, <1>3, <1>4, OrdersTyped

LEMMA CommitsTyped ==
    ASSUME TInv, NEW s \in Sessions,
           \/ DeleteCommit(s) \/ CreateFails(s) \/ ReceiveCommit(s) \/ DisputeCommit(s)
           \/ \E b \in Batches : CreateCommit(s, b)
    PROVE  TInv'
<1>0. /\ order \in OrderRows /\ yearOpen \in BOOLEAN /\ touched \subseteq Orders
      /\ left \in LeftType /\ BatchesTyped /\ BooksTyped /\ RestTyped /\ TypeOK
  BY TInvParts DEF RestTyped, TInv
<1>1. CASE DeleteCommit(s)
  <2>1. RequestsTyped' /\ req[s].o \in Orders
    BY <1>1, DeleteCommitMoves, BecomesTyped
  <2>2. order' \in OrderRows
    BY <1>0, <1>1 DEF DeleteCommit, OrderRows, Statuses
  <2> QED
    BY <1>0, <1>1, <2>1, <2>2, OrdersTyped DEF DeleteCommit
<1>2. CASE CreateFails(s)
  <2>1. RequestsTyped'
    BY <1>2, EndMoves, BecomesTyped
  <2> QED
    BY <1>0, <1>2, <2>1, OrdersTyped DEF CreateFails
<1>3. CASE ReceiveCommit(s)
  <2>1. RequestsTyped' /\ req[s].b \in Batches /\ req[s].n \in Nat
    BY <1>3, ReceiveMoves, BecomesTyped DEF TInv, TypeOK, RequestType
  <2>2. order' \in OrderRows
    BY <1>0, <1>3, CascadeTyped DEF ReceiveCommit
  <2>3. Append(approved[req[s].b], req[s].n) \in Seq(Nat)
    BY <1>0, <2>1, OutcomesTyped
  <2>4. BatchesTyped'
    BY <1>0, <1>3, <2>3 DEF ReceiveCommit, BatchesTyped
  <2>5. BooksTyped' /\ RestTyped'
    BY <1>0, <1>3, <2>2 DEF ReceiveCommit, BooksTyped, RestTyped, books
  <2> QED
    BY <2>1, <2>4, <2>5, TInvParts, PTL
<1>4. CASE DisputeCommit(s)
  <2>1. RequestsTyped'
    BY <1>4, EndMoves, BecomesTyped
  <2>2. BatchesTyped'
    <3>1. /\ batch' = [batch EXCEPT ![req[s].b] = "DISPUTED"]
          /\ disputed' = [disputed EXCEPT ![req[s].b] = disputed[req[s].b] + 1]
          /\ UNCHANGED <<batchOf, approved>>
      BY <1>4 DEF DisputeCommit
    <3>2. req[s].b \in Batches
      BY <1>4 DEF DisputeCommit, TInv, Shaped
    <3> QED
      BY <1>0, <3>1, <3>2 DEF BatchesTyped
  <2>3. BooksTyped' /\ RestTyped'
    BY <1>0, <1>4 DEF DisputeCommit, BooksTyped, RestTyped, books
  <2> QED
    BY <2>1, <2>2, <2>3, TInvParts, PTL
<1>5. ASSUME NEW b \in Batches, CreateCommit(s, b) PROVE TInv'
  <2>1. RequestsTyped' /\ req[s].orders \in SUBSET Orders
    BY <1>5, CreateCommitMoves, BecomesTyped
  <2>2. order' \in OrderRows
    BY <1>0, <1>5, CascadeTyped DEF CreateCommit
  <2>3. Cardinality(req[s].orders) \in Nat
    BY <2>1, FinitenessAssumption, FS_Subset, FS_CardinalityType
  <2>4. Append(approved[b], Cardinality(req[s].orders)) \in Seq(Nat)
    BY <1>0, <2>3, OutcomesTyped
  <2>5. BatchesTyped'
    <3>1. batchOf' = [o \in Orders |-> IF o \in req[s].orders THEN b ELSE batchOf[o]]
      BY <1>5 DEF CreateCommit
    <3>2. batch' \in {[batch EXCEPT ![b] = "RECEIVED"], [batch EXCEPT ![b] = "SENT"]} /\ disputed' = disputed
      BY <1>5 DEF CreateCommit
    <3>3. approved' \in {approved, [approved EXCEPT ![b] = Append(@, Cardinality(req[s].orders))]}
      BY <1>5 DEF CreateCommit
    <3>4. approved' \in [Batches -> Seq(Nat)]
      BY <1>0, <2>4, <3>3 DEF BatchesTyped
    <3> QED
      BY <1>0, <3>1, <3>2, <3>4 DEF BatchesTyped
  <2>6. BooksTyped' /\ RestTyped'
    BY <1>0, <1>5, <2>2 DEF CreateCommit, BooksTyped, RestTyped, books
  <2> QED
    BY <2>1, <2>5, <2>6, TInvParts, PTL
<1> QED
  BY <1>1, <1>2, <1>3, <1>4, <1>5

LEMMA LedgerTyped ==
    ASSUME TInv, NEW s \in Sessions, LedgerStep(s)
    PROVE  TInv'
<1>0. /\ order \in OrderRows /\ yearOpen \in BOOLEAN /\ touched \subseteq Orders
      /\ left \in LeftType /\ BatchesTyped /\ BooksTyped /\ RestTyped /\ TypeOK
  BY TInvParts DEF RestTyped, TInv
<1>1. ASSUME NEW j \in Jobs, Look(s, j) \/ Unsettle(s, j) PROVE TInv'
  <2>1. RequestsTyped'
    BY <1>1, LookMoves, UnsettleMoves, BecomesTyped
  <2> QED
    BY <1>0, <1>1, <2>1, OrdersTyped DEF Look, Unsettle
<1>2. CASE Post(s)
  <2>1. RequestsTyped'
    BY <1>2, PostMoves, BecomesTyped
  <2>2. PICK v \in Vouchers : v = Voucher(s, Head(req[s].jobs))
    BY <1>2, PostMoves
  <2>3. PICK l : l = req[s].lines
    OBVIOUS
  <2>4. l \in [Orders -> Int] /\ gl[v].debit \in [Orders -> Int]
    BY <1>0, <2>3 DEF TypeOK, RequestType
  <2>5. gl' = [gl EXCEPT ![v] = [posted |-> TRUE, debit |-> [p \in Orders |-> gl[v].debit[p] + l[p]]]]
    BY <1>2, <2>2, <2>3 DEF Post
  <2>6. BooksTyped'
    <3>1. PICK d : d = [p \in Orders |-> gl[v].debit[p] + l[p]]
      OBVIOUS
    <3>2. d \in [Orders -> Int]
      BY <2>4, <3>1
    <3>3. gl' = [gl EXCEPT ![v] = [posted |-> TRUE, debit |-> d]] /\ alerted' = alerted
      BY <1>2, <2>5, <3>1 DEF Post
    <3> QED
      BY <1>0, <3>2, <3>3 DEF BooksTyped
  <2>7. BatchesTyped' /\ RestTyped'
    BY <1>0, <1>2 DEF Post, BatchesTyped, RestTyped, batches
  <2> QED
    BY <2>1, <2>6, <2>7, TInvParts, PTL
<1>3. CASE PostFails(s)
  <2>1. RequestsTyped'
    BY <1>3, EndMoves, BecomesTyped
  <2>2. BooksTyped' /\ BatchesTyped' /\ RestTyped'
    BY <1>0, <1>3 DEF PostFails, BatchesTyped, BooksTyped, RestTyped, batches
  <2> QED
    BY <2>1, <2>2, TInvParts, PTL
<1>4. CASE Detach(s)
  <2>1. RequestsTyped' /\ req[s].b \in Batches
    BY <1>4, DetachMoves, BecomesTyped
  <2>2. LessOne(approved[req[s].b]) \in Seq(Nat)
    BY <1>0, <2>1, OutcomesTyped
  <2>3. BatchesTyped'
    BY <1>0, <1>4, <2>2 DEF Detach, BatchesTyped
  <2>4. BooksTyped' /\ RestTyped'
    BY <1>0, <1>4 DEF Detach, BooksTyped, RestTyped, books
  <2> QED
    BY <2>1, <2>3, <2>4, TInvParts, PTL
<1> QED
  BY <1>1, <1>2, <1>3, <1>4 DEF LedgerStep

LEMMA TInvStep == TInv /\ [Next]_vars => TInv'
<1> SUFFICES ASSUME TInv, [Next]_vars PROVE TInv'
  OBVIOUS
<1>1. CASE UNCHANGED vars
  BY <1>1 DEF vars, TInv, TypeOK, batches, books
<1>2. CASE Next
  BY <1>2, OpeningsTyped, OrderStepsTyped, CommitsTyped, LedgerTyped DEF Next
<1> QED
  BY <1>1, <1>2

\* Types of the settlement, for any number of orders, batches and requests: an outcome
\* never counts fewer than no orders.
THEOREM SettlementTyped == Spec => []TypeOK
<1>1. TInv => TypeOK
  BY DEF TInv
<1> QED
  BY <1>1, InitTInv, TInvStep, PTL DEF Spec

------------------------------------------------------------------------------
(***************************************************************************)
(* The orders nobody touched.                                              *)
(***************************************************************************)

\* Order o moves forward or not at all, and stays on its batch.
Steady(o) ==
    /\ batchOf'[o] = batchOf[o] /\ alerted \subseteq alerted'
    /\ order'[o].hold = order[o].hold
    /\ \/ order'[o].status = order[o].status
       \/ order[o].status = "DELIVERED" /\ order'[o].status = "REMITTED"

SameReceipts(b) ==
    Len(approved'[b]) = Len(approved[b]) /\ (approved'[b] = <<>> <=> approved[b] = <<>>)

BooksSame(o) ==
    /\ \A v \in Vouchers : gl'[v].debit[o] = gl[v].debit[o]
    /\ \A v \in Vouchers :
         v \in {<<"SALES_INVOICE", o>>, <<"PAYMENT", batchOf[o]>>} => gl'[v].posted = gl[v].posted

\* A request r that becomes n: what n writes about o, and what it still owes o.
Proper(n, o) ==
    /\ n.pc = "create" /\ o \in n.orders => order[o].status # "IN_TRANSIT"
    /\ n.pc = "post" => n.lines[o] = Due(n, o)

SellsOn(r, n, o) == (Sells(n, o) => Sells(r, o)) /\ (Sells(r, o) => Sells(n, o) \/ o \in alerted')

PaysOn(r, n, o, b) ==
    /\ Pays(n, b) => Pays(r, b)
    /\ Len(approved[b]) = 1 /\ Pays(r, b) => Pays(n, b) \/ o \in alerted'

Agrees(r, n, o) ==
    Proper(n, o) /\ SellsOn(r, n, o) /\ (batchOf[o] # NoBatch => PaysOn(r, n, o, batchOf[o]))

LEMMA ForwardKept ==
    ASSUME NEW o, Forward(o), Steady(o), \A t \in Sessions : Proper(req'[t], o)
    PROVE  Forward(o)' /\ \A t \in Sessions : LinesMean(t, o)'
<1>1. Forward(o)'
  BY DEF Forward, Steady, Proper
<1>2. \A t \in Sessions : LinesMean(t, o)'
  BY DEF LinesMean, Due, Steady, Proper
<1> QED
  BY <1>1, <1>2

LEMMA SaleKept ==
    ASSUME NEW o \in Orders, SaleBooked(o), Steady(o), \A t \in Sessions : SellsOn(req[t], req'[t], o),
           Sale(o)'.debit[o] = Sale(o).debit[o], Sale(o)'.posted = Sale(o).posted
    PROVE  SaleBooked(o)'
<1>1. order'[o].status = "IN_TRANSIT" <=> order[o].status = "IN_TRANSIT"
  BY DEF Steady
<1>2. \A t \in Sessions : (Sells(req'[t], o) => Sells(req[t], o))
                           /\ (Sells(req[t], o) => Sells(req'[t], o) \/ o \in alerted')
  BY DEF SellsOn
<1>3. alerted \subseteq alerted'
  BY DEF Steady
<1> QED
  BY <1>1, <1>2, <1>3 DEF SaleBooked

LEMMA PaymentKept ==
    ASSUME NEW o \in Orders, NEW b \in Batches, PaymentBooked(o, b), Steady(o), SameReceipts(b),
           \A t \in Sessions : PaysOn(req[t], req'[t], o, b),
           Payment(b)'.debit[o] = Payment(b).debit[o], Payment(b)'.posted = Payment(b).posted
    PROVE  PaymentBooked(o, b)'
<1>1. \A t \in Sessions : (Pays(req'[t], b) => Pays(req[t], b))
        /\ (Len(approved[b]) = 1 /\ Pays(req[t], b) => Pays(req'[t], b) \/ o \in alerted')
  BY DEF PaysOn
<1>2. alerted \subseteq alerted' /\ (order[o].status = "REMITTED" => order'[o].status = "REMITTED")
  BY DEF Steady
<1>3. Len(approved'[b]) = Len(approved[b]) /\ (approved'[b] = <<>> <=> approved[b] = <<>>)
  BY DEF SameReceipts
<1> QED
  BY <1>1, <1>2, <1>3 DEF PaymentBooked

LEMMA OwnKept ==
    ASSUME NEW o \in Orders, OwnVouchers(o), batchOf'[o] = batchOf[o],
           \A v \in Vouchers \ {<<"SALES_INVOICE", o>>, <<"PAYMENT", batchOf[o]>>} :
               gl'[v].debit[o] = gl[v].debit[o]
    PROVE  OwnVouchers(o)'
  BY DEF OwnVouchers

LEMMA UntouchedKept ==
    ASSUME TInv, NEW o \in Orders, Untouched(o), Steady(o), BooksSame(o),
           batchOf[o] # NoBatch => SameReceipts(batchOf[o]),
           \A t \in Sessions : Agrees(req[t], req'[t], o)
    PROVE  Untouched(o)'
<1>0. PICK b : b = batchOf[o]
  OBVIOUS
<1>1. batchOf'[o] = b
  BY <1>0 DEF Steady
<1>2. Forward(o)' /\ \A t \in Sessions : LinesMean(t, o)'
  BY ForwardKept DEF Untouched, Agrees
<1>3. SaleBooked(o)'
  BY VoucherNames, SaleKept DEF Untouched, Agrees, BooksSame, Sale
<1>4. OwnVouchers(o)'
  BY <1>0, <1>1, OwnKept DEF Untouched, BooksSame
<1>5. ASSUME b # NoBatch PROVE PaymentBooked(o, b)'
  <2>1. b \in Batches
    BY <1>0, <1>5 DEF TInv, TypeOK
  <2>2. PaymentBooked(o, b) /\ SameReceipts(b) /\ \A t \in Sessions : PaysOn(req[t], req'[t], o, b)
    BY <1>0, <1>5 DEF Untouched, Agrees
  <2>3. Payment(b)'.debit[o] = Payment(b).debit[o] /\ Payment(b)'.posted = Payment(b).posted
    BY <1>0, <2>1, VoucherNames DEF BooksSame, Payment
  <2> QED
    BY <2>1, <2>2, <2>3, PaymentKept
<1>6. (batchOf[o] # NoBatch => PaymentBooked(o, batchOf[o]))'
  <2>1. PICK c : c = batchOf'[o]
    OBVIOUS
  <2> QED
    BY <1>1, <1>5, <2>1
<1> QED
  BY <1>2, <1>3, <1>4, <1>6 DEF Untouched

\* A request that neither sells nor pays.
Neutral(r) == Working(r) => r.jobs \in UndoPlans

LEMMA NeutralFacts ==
    ASSUME NEW r, Neutral(r)
    PROVE  \A o : ~Sells(r, o) /\ ~Pays(r, o)
  BY SimplePlans DEF Neutral, Sells, Pays

LEMMA NeutralAgrees ==
    ASSUME NEW o, NEW r, NEW n, Neutral(r), Neutral(n), Proper(n, o)
    PROVE  Agrees(r, n, o)
  BY NeutralFacts DEF Agrees, SellsOn, PaysOn

LEMMA QuietProper ==
    ASSUME NEW o, NEW n, n.pc \notin {"create", "post"}
    PROVE  Proper(n, o)
  BY DEF Proper

LEMMA IdleNeutral == Neutral(Idle) /\ Idle.pc \notin {"create", "post"}
  BY IdleFacts DEF Neutral

LEMMA GoesOnFacts ==
    ASSUME NEW r \in RequestType, NEW n, GoesOn(r, n)
    PROVE  /\ Neutral(n) /\ n.pc \notin {"create", "post"}
           /\ n = Idle \/ (Undoes(r) /\ n.o = r.o /\ n.b = r.b /\ n.jobs = Tail(r.jobs)
                             /\ n.jobs \in UndoPlans \ WholePlans)
<1>1. CASE n = Idle
  BY <1>1, IdleNeutral
<1>2. CASE n # Idle
  <2>1. n = [r EXCEPT !.pc = "look", !.jobs = Tail(r.jobs)] /\ Undoes(r)
        /\ Tail(r.jobs) \in UndoPlans \ WholePlans
    BY <1>2 DEF GoesOn
  <2>2. n.pc = "look" /\ n.jobs = Tail(r.jobs) /\ n.o = r.o /\ n.b = r.b
    BY <2>1 DEF RequestType
  <2> QED
    BY <2>1, <2>2 DEF Neutral
<1> QED
  BY <1>1, <1>2

LEMMA SameAgrees ==
    ASSUME NEW o, Untouched(o), NEW t \in Sessions
    PROVE  Agrees(req[t], req[t], o)
<1>1. Proper(req[t], o)
  BY DEF Untouched, Forward, LinesMean, Proper
<1> QED
  BY <1>1 DEF Agrees, SellsOn, PaysOn

LEMMA OneAgrees ==
    ASSUME NEW o, Untouched(o), NEW s \in Sessions, NEW n, Becomes(s, n), Agrees(req[s], n, o)
    PROVE  \A t \in Sessions : Agrees(req[t], req'[t], o)
<1> SUFFICES ASSUME NEW t \in Sessions PROVE Agrees(req[t], req'[t], o)
  OBVIOUS
<1>1. PICK m : m = req'[t]
  OBVIOUS
<1>2. CASE t = s
  <2>1. m = n
    BY <1>1, <1>2 DEF Becomes
  <2> QED
    BY <1>1, <1>2, <2>1
<1>3. CASE t # s
  <2>1. m = req[t]
    BY <1>1, <1>3 DEF Becomes
  <2>2. Agrees(req[t], m, o)
    BY <2>1, SameAgrees
  <2> QED
    BY <1>1, <2>2
<1> QED
  BY <1>2, <1>3

LEMMA NoneAgrees ==
    ASSUME NEW o, Untouched(o), UNCHANGED req
    PROVE  \A t \in Sessions : Agrees(req[t], req'[t], o)
<1> SUFFICES ASSUME NEW t \in Sessions PROVE Agrees(req[t], req'[t], o)
  OBVIOUS
<1>1. PICK m : m = req'[t]
  OBVIOUS
<1>2. m = req[t]
  BY <1>1
<1> QED
  BY <1>1, <1>2, SameAgrees

LEMMA SameBooks ==
    ASSUME UNCHANGED gl, NEW o
    PROVE  BooksSame(o)
  BY DEF BooksSame

LEMMA SameOutcomes == ASSUME UNCHANGED approved PROVE \A b : SameReceipts(b)
  BY DEF SameReceipts

\* Openings: the order delivered, and everyone else.
LEMMA OpenUntouched ==
    ASSUME TInv, NEW o \in Orders, Untouched(o), NEW s \in Sessions,
           \/ \E p \in Orders : DeleteRead(s, p)
           \/ \E S \in SUBSET Orders, now \in BOOLEAN : CreateRead(s, S, now)
           \/ \E b \in Batches, d \in {"receive", "dispute"} : DecideRead(s, b, d)
    PROVE  Untouched(o)'
<1>1. UNCHANGED <<order, batches, books>>
  BY DEF DeleteRead, CreateRead, DecideRead
<1>2. \E n : Becomes(s, n) /\ req[s].pc = "idle" /\ n.pc \in {"delete", "create", "receive", "dispute"}
             /\ (n.pc = "create" /\ o \in n.orders => order[o].status # "IN_TRANSIT")
  <2>1. ASSUME NEW p \in Orders, DeleteRead(s, p)
        PROVE  \E n : Becomes(s, n) /\ req[s].pc = "idle" /\ n.pc = "delete"
    BY <2>1, DeleteReadMoves DEF Begins, Fresh
  <2>2. ASSUME NEW S \in SUBSET Orders, NEW now \in BOOLEAN, CreateRead(s, S, now)
        PROVE  \E n : Becomes(s, n) /\ req[s].pc = "idle" /\ n.pc = "create"
                      /\ (o \in n.orders => order[o].status # "IN_TRANSIT")
    <3>1. \A p \in S : order[p].status # "IN_TRANSIT"
      BY <2>2 DEF CreateRead
    <3> QED
      BY <2>2, <3>1, CreateReadMoves DEF Begins
  <2>3. ASSUME NEW b \in Batches, NEW d \in {"receive", "dispute"}, DecideRead(s, b, d)
        PROVE  \E n : Becomes(s, n) /\ req[s].pc = "idle" /\ n.pc \in {"receive", "dispute"}
    BY <2>3, DecideReadMoves DEF Begins
  <2> QED
    BY <2>1, <2>2, <2>3
<1>3. PICK n : Becomes(s, n) /\ req[s].pc = "idle" /\ n.pc \in {"delete", "create", "receive", "dispute"}
             /\ (n.pc = "create" /\ o \in n.orders => order[o].status # "IN_TRANSIT")
  BY <1>2
<1>4. Neutral(req[s]) /\ Neutral(n) /\ Proper(n, o)
  BY <1>3 DEF Neutral, Working, Proper
<1>5. \A t \in Sessions : Agrees(req[t], req'[t], o)
  BY <1>3, <1>4, NeutralAgrees, OneAgrees
<1>6. Steady(o) /\ BooksSame(o) /\ \A b : SameReceipts(b)
  BY <1>1, SameBooks, SameOutcomes DEF Steady, batches, books
<1> QED
  BY <1>5, <1>6, UntouchedKept

LEMMA StatusesUntouched ==
    ASSUME TInv, NEW o \in Orders, Untouched(o),
           \/ \E p \in Orders : RemitByHand(p) \/ ResolveRetrack(p) \/ Restore(p)
           \/ Heal
           \/ CloseYear \/ ReopenYear
    PROVE  Untouched(o)'
<1>1. UNCHANGED <<batches, books, req>>
  BY DEF RemitByHand, ResolveRetrack, Restore, Heal, CloseYear, ReopenYear
<1>2. ~order[o].hold /\ order[o].status # "DELETED"
      /\ (order[o].status = "IN_TRANSIT" => batchOf[o] = NoBatch)
  BY DEF Untouched, Forward
<1>3. order \in OrderRows /\ TypeOK
  BY DEF TInv, TypeOK, OrderRows
<1>4. /\ order'[o].hold = order[o].hold
      /\ \/ order'[o].status = order[o].status
         \/ order[o].status = "DELIVERED" /\ order'[o].status = "REMITTED"
  <2>1. CASE \E p \in Orders : RemitByHand(p)
    <3>1. PICK p \in Orders : order[p].status = "DELIVERED" /\ order' = [order EXCEPT ![p].status = "REMITTED"]
      BY <2>1 DEF RemitByHand
    <3> QED
      BY <1>3, <3>1 DEF OrderRows
  <2>2. CASE \E p \in Orders : ResolveRetrack(p)
    <3>1. PICK p \in Orders : order[p].hold /\ order' = [order EXCEPT ![p].hold = FALSE]
      BY <2>2 DEF ResolveRetrack
    <3> QED
      BY <1>2, <1>3, <3>1 DEF OrderRows
  <2>3. CASE \E p \in Orders : Restore(p)
    <3>1. PICK p \in Orders : order[p].status = "DELETED" /\ order' = [order EXCEPT ![p].status = "IN_TRANSIT"]
      BY <2>3 DEF Restore
    <3> QED
      BY <1>2, <1>3, <3>1 DEF OrderRows
  <2>4. CASE Heal
    <3>1. PICK S : S = {p \in Orders : batchOf[p] # NoBatch /\ batch[batchOf[p]] = "RECEIVED"}
      OBVIOUS
    <3>2. order' = Cascade(S)
      BY <2>4, <3>1 DEF Heal
    <3>3. /\ Cascade(S)[o].hold = order[o].hold
          /\ Cascade(S)[o].status \in {order[o].status, "REMITTED"}
          /\ o \notin S => Cascade(S)[o].status = order[o].status
      BY <1>3, CascadeTyped
    <3>4. order[o].status = "IN_TRANSIT" => o \notin S
      BY <1>2, <3>1
    <3> QED
      BY <1>2, <1>3, <3>2, <3>3, <3>4 DEF OrderRows, Statuses
  <2>5. CASE CloseYear \/ ReopenYear
    BY <2>5 DEF CloseYear, ReopenYear
  <2> QED
    BY <2>1, <2>2, <2>3, <2>4, <2>5
<1>5. Steady(o) /\ BooksSame(o) /\ \A b : SameReceipts(b)
  BY <1>1, <1>4, SameBooks, SameOutcomes DEF Steady, batches, books
<1> QED
  BY <1>1, <1>5, NoneAgrees, UntouchedKept

LEMMA DeliverUntouched ==
    ASSUME TInv, NEW o \in Orders, Untouched(o), NEW s \in Sessions, NEW d \in Orders, Deliver(s, d)
    PROVE  Untouched(o)'
<1>1. UNCHANGED <<batches, books>> /\ order' = [order EXCEPT ![d].status = "DELIVERED"]
      /\ order[d].status = "IN_TRANSIT"
  BY DEF Deliver
<1>2. PICK n : Begins(s, n) /\ n = Fresh(d, "look", SellPlan)
  BY DeliverMoves
<1>3. Becomes(s, n) /\ req[s].pc = "idle"
  BY <1>2 DEF Begins
<1>4. n.pc = "look" /\ n.jobs = SellPlan /\ n.o = d
  BY <1>2 DEF Fresh
<1>5. order \in OrderRows
  BY DEF TInv, TypeOK, OrderRows
<1>6. CASE o # d
  <2>1. Steady(o)
    BY <1>1, <1>5, <1>6 DEF Steady, batches, books, OrderRows
  <2>2. ~Sells(n, o) /\ \A b : ~Pays(n, b)
    BY <1>4, <1>6, SimplePlans DEF Sells, Pays
  <2>3. ~Sells(req[s], o) /\ \A b : ~Pays(req[s], b)
    BY <1>3 DEF Sells, Pays, Working
  <2>4. Agrees(req[s], n, o)
    BY <1>4, <2>2, <2>3 DEF Agrees, Proper, SellsOn, PaysOn
  <2>5. BooksSame(o) /\ \A b : SameReceipts(b)
    BY <1>1, SameBooks, SameOutcomes DEF batches, books
  <2> QED
    BY <1>3, <2>1, <2>4, <2>5, OneAgrees, UntouchedKept
<1>7. CASE o = d
  <2>1. Forward(o) /\ SaleBooked(o) /\ OwnVouchers(o) /\ \A t \in Sessions : LinesMean(t, o)
    BY DEF Untouched
  <2>2. order'[o].status = "DELIVERED" /\ order'[o].hold = order[o].hold
    BY <1>1, <1>5, <1>7 DEF OrderRows
  <2>3. batchOf' = batchOf /\ gl' = gl /\ batchOf[o] = NoBatch
    BY <1>1, <1>7, <2>1 DEF batches, books, Forward
  <2>4. Forward(o)'
    BY <2>1, <2>2 DEF Forward
  <2>5. OwnVouchers(o)'
    BY <2>1, <2>3 DEF OwnVouchers
  <2>6. req'[s] = n /\ \A t \in Sessions \ {s} : req'[t] = req[t]
    BY <1>3 DEF Becomes
  <2>7. \A t \in Sessions : LinesMean(t, o)'
    <3>1. \A t \in Sessions : req'[t].pc = "post" => t # s /\ req'[t] = req[t]
      BY <1>4, <2>6
    <3> QED
      BY <2>1, <2>3, <3>1 DEF LinesMean, Due
  <2>8. \A t \in Sessions : Sells(req'[t], o) => t = s
    <3>1. \A t \in Sessions : ~Sells(req[t], o)
      BY <1>1, <1>7, <2>1 DEF SaleBooked
    <3> QED
      BY <2>6, <3>1
  <2>9. Sells(n, o)
    BY <1>4, <1>7 DEF Sells, Working
  <2>10. SaleBooked(o)'
    <3>1. ~Sale(o).posted /\ Sale(o).debit[o] = 0
      BY <1>1, <1>7, <2>1 DEF SaleBooked
    <3>2. Sale(o)' = Sale(o)
      BY <2>3 DEF Sale
    <3> QED
      BY <2>2, <2>6, <2>8, <2>9, <3>1, <3>2 DEF SaleBooked
  <2> QED
    BY <2>3, <2>4, <2>5, <2>7, <2>10 DEF Untouched
<1> QED
  BY <1>6, <1>7

LEMMA RetrackUntouched ==
    ASSUME TInv, NEW o \in Orders, Untouched(o), o \notin touched', NEW s \in Sessions,
           NEW d \in Orders, NEW to \in Statuses, NEW hold \in BOOLEAN, Retrack(s, d, to, hold)
    PROVE  Untouched(o)'
<1>1. /\ UNCHANGED <<batches, books>> /\ touched' = touched \cup {d}
      /\ order' = [order EXCEPT ![d] = [status |-> to, hold |-> @.hold \/ hold]]
  BY DEF Retrack
<1>2. PICK n, q : Begins(s, n) /\ n = Fresh(d, "look", q) /\ q \in UndoPlans \ LeavingPlans
  BY RetrackMoves
<1>3. Becomes(s, n) /\ Neutral(req[s]) /\ Neutral(n) /\ Proper(n, o)
  BY <1>2 DEF Begins, Fresh, Neutral, Working, Proper
<1>4. Steady(o)
  <2>1. order'[o] = order[o]
    BY <1>1 DEF TInv, TypeOK
  <2> QED
    BY <1>1, <2>1 DEF Steady, batches, books
<1>5. BooksSame(o) /\ \A b : SameReceipts(b)
  BY <1>1, SameBooks, SameOutcomes DEF batches, books
<1> QED
  BY <1>3, <1>4, <1>5, NeutralAgrees, OneAgrees, UntouchedKept

LEMMA DeleteUntouched ==
    ASSUME TInv, NEW o \in Orders, Untouched(o), o \notin touched', NEW s \in Sessions, DeleteCommit(s)
    PROVE  Untouched(o)'
<1>1. /\ UNCHANGED <<batches, books>> /\ touched' = touched \cup {req[s].o}
      /\ order' = [order EXCEPT ![req[s].o].status = "DELETED"]
  BY DEF DeleteCommit
<1>2. PICK n, q : /\ Becomes(s, n) /\ req[s].pc = "delete" /\ q \in UndoPlans \ LeavingPlans
                  /\ n = [req[s] EXCEPT !.pc = "look", !.jobs = q]
  BY DeleteCommitMoves
<1>3. n.pc = "look" /\ n.jobs = q
  BY <1>2 DEF TInv, TypeOK, RequestType
<1>4. Neutral(req[s]) /\ Neutral(n) /\ Proper(n, o)
  BY <1>2, <1>3 DEF Neutral, Working, Proper
<1>5. Steady(o)
  <2>1. order'[o] = order[o]
    BY <1>1 DEF TInv, TypeOK
  <2> QED
    BY <1>1, <2>1 DEF Steady, batches, books
<1>6. BooksSame(o) /\ \A b : SameReceipts(b)
  BY <1>1, SameBooks, SameOutcomes DEF batches, books
<1> QED
  BY <1>2, <1>4, <1>5, <1>6, NeutralAgrees, OneAgrees, UntouchedKept

LEMMA EndUntouched ==
    ASSUME TInv, NEW o \in Orders, Untouched(o), NEW s \in Sessions, CreateFails(s) \/ DisputeCommit(s)
    PROVE  Untouched(o)'
<1>1. UNCHANGED <<order, batchOf, approved, books>> /\ req[s].pc \in {"create", "dispute"}
  BY DEF CreateFails, DisputeCommit, batches
<1>2. Becomes(s, Idle)
  BY EndMoves
<1>3. Neutral(req[s]) /\ Neutral(Idle) /\ Proper(Idle, o)
  BY <1>1, IdleNeutral, QuietProper DEF Neutral, Working
<1>4. Steady(o) /\ BooksSame(o) /\ \A b : SameReceipts(b)
  BY <1>1, SameBooks, SameOutcomes DEF Steady, books
<1> QED
  BY <1>2, <1>3, <1>4, NeutralAgrees, OneAgrees, UntouchedKept

LEMMA OneProper ==
    ASSUME NEW o, Untouched(o), NEW s \in Sessions, NEW n, Becomes(s, n), Proper(n, o)
    PROVE  \A t \in Sessions : Proper(req'[t], o)
<1> SUFFICES ASSUME NEW t \in Sessions PROVE Proper(req'[t], o)
  OBVIOUS
<1>1. PICK m : m = req'[t]
  OBVIOUS
<1>2. CASE t = s
  BY <1>1, <1>2 DEF Becomes
<1>3. CASE t # s
  <2>1. m = req[t]
    BY <1>1, <1>3 DEF Becomes
  <2>2. Proper(m, o)
    BY <2>1, SameAgrees DEF Agrees
  <2> QED
    BY <1>1, <2>2
<1> QED
  BY <1>2, <1>3

LEMMA OneSells ==
    ASSUME NEW o, NEW s \in Sessions, NEW n, Becomes(s, n), SellsOn(req[s], n, o)
    PROVE  \A t \in Sessions : SellsOn(req[t], req'[t], o)
  BY DEF Becomes, SellsOn

LEMMA ReceiveUntouched ==
    ASSUME TInv, NEW o \in Orders, Untouched(o), NEW s \in Sessions, ReceiveCommit(s)
    PROVE  Untouched(o)'
<1>1. PICK b : b = req[s].b
  OBVIOUS
<1>2. PICK n : /\ Becomes(s, n) /\ req[s].pc = "receive" /\ b \in Batches
               /\ n = [req[s] EXCEPT !.pc = "look", !.jobs = PayPlan]
  BY <1>1, ReceiveMoves
<1>3. n.pc = "look" /\ n.jobs = PayPlan /\ n.b = b
  BY <1>1, <1>2 DEF TInv, TypeOK, RequestType
<1>4. /\ UNCHANGED <<batchOf, gl, alerted>> /\ order' = Cascade(Linked(b))
      /\ approved' = [approved EXCEPT ![b] = Append(@, req[s].n)]
  BY <1>1 DEF ReceiveCommit, books
<1>5. Forward(o) /\ SaleBooked(o) /\ OwnVouchers(o)
  BY DEF Untouched
<1>6. b # NoBatch /\ (batchOf[o] = b => order[o].status \in {"DELIVERED", "REMITTED"})
  <2>1. b # NoBatch
    BY <1>2, SettlementAssumption
  <2> QED
    BY <1>5, <2>1 DEF TInv, TypeOK, Statuses, Forward
<1>7. /\ order'[o].hold = order[o].hold
      /\ o \notin Linked(b) => order'[o].status = order[o].status
      /\ o \in Linked(b) => order'[o].status = "REMITTED"
  BY <1>4, <1>5, CascadeTyped DEF TInv, Forward
<1>8. Steady(o)
  BY <1>4, <1>6, <1>7 DEF Steady, Linked
<1>9. BooksSame(o)
  BY <1>4, SameBooks
<1>10. ~Sells(n, o) /\ ~Sells(req[s], o) /\ \A c : ~Pays(req[s], c)
  BY <1>2, <1>3, SimplePlans DEF Sells, Pays, Working
<1>11. Proper(n, o)
  BY <1>3, QuietProper
<1>12. CASE batchOf[o] # b
  <2>1. Agrees(req[s], n, o)
    BY <1>3, <1>10, <1>11, <1>12 DEF Agrees, SellsOn, PaysOn, Pays
  <2>2. batchOf[o] # NoBatch => SameReceipts(batchOf[o])
    BY <1>4, <1>12 DEF SameReceipts, TInv, TypeOK
  <2> QED
    BY <1>2, <1>8, <1>9, <2>1, <2>2, OneAgrees, UntouchedKept
<1>13. CASE batchOf[o] = b
  <2>1. Forward(o)' /\ \A t \in Sessions : LinesMean(t, o)'
    BY <1>2, <1>5, <1>8, <1>11, OneProper, ForwardKept
  <2>2. SaleBooked(o)'
    <3>1. Sale(o)' = Sale(o)
      BY <1>4 DEF Sale
    <3>2. \A t \in Sessions : SellsOn(req[t], req'[t], o)
      BY <1>2, <1>10, OneSells DEF SellsOn
    <3> QED
      BY <1>5, <1>8, <3>1, <3>2, SaleKept
  <2>3. OwnVouchers(o)'
    BY <1>4, <1>5 DEF OwnVouchers
  <2>4. PaymentBooked(o, b)'
    <3>1. PaymentBooked(o, b)
      BY <1>6, <1>13 DEF Untouched
    <3>2. approved'[b] = Append(approved[b], req[s].n) /\ Len(approved'[b]) = Len(approved[b]) + 1
      BY <1>2, <1>4, OutcomesTyped DEF TInv, TypeOK, RequestType
    <3>3. approved[b] \in Seq(Nat)
      BY <1>2 DEF TInv, TypeOK
    <3>4. approved'[b] # <<>>
      BY <3>2, <3>3
    <3>5. order'[o].status = "REMITTED"
      BY <1>7, <1>13 DEF Linked
    <3>6. Len(approved'[b]) = 1 => approved[b] = <<>>
      BY <3>2, <3>3
    <3>7. Pays(req'[s], b)
      BY <1>2, <1>3 DEF Becomes, Pays, Working
    <3>8. Payment(b)' = Payment(b)
      BY <1>4 DEF Payment
    <3> QED
      BY <3>1, <3>4, <3>5, <3>6, <3>7, <3>8 DEF PaymentBooked
  <2>5. (batchOf[o] # NoBatch => PaymentBooked(o, batchOf[o]))'
    BY <1>4, <1>13, <2>4
  <2> QED
    BY <2>1, <2>2, <2>3, <2>5 DEF Untouched
<1> QED
  BY <1>12, <1>13

LEMMA CreateUntouched ==
    ASSUME TInv, UInv, NEW o \in Orders, Untouched(o), NEW s \in Sessions, NEW b \in Batches,
           CreateCommit(s, b)
    PROVE  Untouched(o)'
<1>1. PICK S : S = req[s].orders
  OBVIOUS
<1>2. PICK n : /\ Becomes(s, n) /\ req[s].pc = "create" /\ S \in SUBSET Orders
               /\ \/ req[s].now /\ n = [req[s] EXCEPT !.b = b, !.pc = "look", !.jobs = PayPlan]
                  \/ ~req[s].now /\ n = Idle
  BY <1>1, CreateCommitMoves
<1>3. req[s].now => n.pc = "look" /\ n.jobs = PayPlan /\ n.b = b
  BY <1>2 DEF TInv, TypeOK, RequestType
<1>4. n.pc \notin {"create", "post"} /\ ~Sells(n, o) /\ (\A c : Pays(n, c) => c = b)
  BY <1>2, <1>3, IdleNeutral, NeutralFacts, SimplePlans DEF Sells, Pays
<1>5. ~Sells(req[s], o) /\ (\A c : ~Pays(req[s], c))
  BY <1>2 DEF Sells, Pays, Working
<1>6. Proper(n, o)
  BY <1>4, QuietProper
<1>7. /\ UNCHANGED <<gl, alerted>> /\ b \in Unused
      /\ batchOf' = [p \in Orders |-> IF p \in S THEN b ELSE batchOf[p]]
      /\ \A p \in S : batchOf[p] = NoBatch
      /\ order' = IF req[s].now THEN Cascade(S) ELSE order
      /\ approved' = IF req[s].now THEN [approved EXCEPT ![b] = Append(@, Cardinality(S))] ELSE approved
  BY <1>1, Zenon DEF CreateCommit, books
<1>8. Trackless(b)
  BY <1>7 DEF UInv, UnusedTrackless
<1>9. Forward(o) /\ SaleBooked(o) /\ OwnVouchers(o) /\ \A t \in Sessions : LinesMean(t, o)
  BY DEF Untouched
<1>10. o \in S => order[o].status \in {"DELIVERED", "REMITTED"}
  BY <1>1, <1>2, <1>9 DEF TInv, TypeOK, Statuses, Forward
<1>11. /\ order'[o].hold = order[o].hold
       /\ o \notin S => order'[o].status = order[o].status
       /\ o \in S /\ req[s].now => order'[o].status = "REMITTED"
       /\ ~req[s].now => order'[o].status = order[o].status
  BY <1>7, <1>9, CascadeTyped DEF TInv, Forward
<1>12. CASE o \notin S
  <2>1. batchOf[o] # b
    BY <1>8 DEF Trackless, Linked
  <2>2. Steady(o) /\ BooksSame(o)
    BY <1>7, <1>11, <1>12, SameBooks DEF Steady
  <2>3. Agrees(req[s], n, o)
    BY <1>4, <1>5, <1>6, <2>1 DEF Agrees, SellsOn, PaysOn
  <2>4. batchOf[o] # NoBatch => SameReceipts(batchOf[o])
    BY <1>7, <2>1 DEF SameReceipts, TInv, TypeOK
  <2> QED
    BY <1>2, <2>2, <2>3, <2>4, OneAgrees, UntouchedKept
<1>13. CASE o \in S
  <2>0. batchOf[o] = NoBatch /\ batchOf'[o] = b /\ b # NoBatch
    BY <1>7, <1>13, SettlementAssumption
  <2>1. order'[o].status \in {"DELIVERED", "REMITTED"}
    BY <1>10, <1>11, <1>13
  <2>2. Forward(o)'
    BY <1>9, <1>11, <2>1 DEF Forward
  <2>3. \A t \in Sessions : LinesMean(t, o)'
    <3>1. \A t \in Sessions : req'[t].pc = "post" => req'[t] = req[t]
      BY <1>2, <1>4 DEF Becomes
    <3>2. \A t \in Sessions : req[t].pc = "post" => ~Pays(req[t], b)
      BY <1>8 DEF Trackless, Pays
    <3>3. \A t \in Sessions : req[t].pc = "post" => req[t].lines[o] = IF Sells(req[t], o) THEN 1 ELSE 0
      BY <1>9, <2>0 DEF LinesMean, Due
    <3> QED
      BY <2>0, <3>1, <3>2, <3>3 DEF LinesMean, Due
  <2>4. SaleBooked(o)'
    <3>1. Sale(o)' = Sale(o) /\ alerted' = alerted
      BY <1>7 DEF Sale
    <3>2. \A t \in Sessions : Sells(req'[t], o) <=> Sells(req[t], o)
      BY <1>2, <1>4, <1>5 DEF Becomes
    <3> QED
      BY <1>9, <1>10, <1>13, <2>1, <3>1, <3>2 DEF SaleBooked
  <2>5. OwnVouchers(o)'
    <3>1. \A v \in Vouchers : v # <<"PAYMENT", NoBatch>>
      <4>1. NoBatch \notin Batches
        BY SettlementAssumption
      <4>2. ASSUME NEW c \in Batches PROVE <<"PAYMENT", c>> # <<"PAYMENT", NoBatch>>
        BY <4>1, TuplesDiffer
      <4>3. ASSUME NEW k \in {"SALES_INVOICE", "JOURNAL_ENTRY"}, NEW p \in Orders
            PROVE  <<k, p>> # <<"PAYMENT", NoBatch>>
        BY TuplesDiffer
      <4> QED
        BY <4>2, <4>3 DEF Vouchers
    <3>2. \A v \in Vouchers : gl[v].debit[o] # 0 => v = <<"SALES_INVOICE", o>>
      BY <1>9, <2>0, <3>1 DEF OwnVouchers
    <3> QED
      BY <1>7, <3>2 DEF OwnVouchers
  <2>6. PaymentBooked(o, b)'
    <3>1. Payment(b)' = [posted |-> FALSE, debit |-> Zero] /\ approved[b] = <<>>
      BY <1>7, <1>8 DEF Payment, Trackless
    <3>2. ~Payment(b)'.posted /\ Payment(b)'.debit[o] = 0
      BY <3>1 DEF Zero
    <3>3. CASE req[s].now
      <4>1. order'[o].status = "REMITTED"
        BY <1>11, <1>13, <3>3
      <4>2. Pays(req'[s], b)
        BY <1>2, <1>3, <3>3 DEF Becomes, Pays, Working
      <4>3. approved'[b] # <<>>
        <5>1. approved'[b] = Append(approved[b], Cardinality(S))
          BY <1>7, <3>3 DEF TInv, TypeOK
        <5> QED
          BY <3>1, <5>1
      <4> QED
        BY <3>2, <4>1, <4>2, <4>3 DEF PaymentBooked
    <3>4. CASE ~req[s].now
      <4>1. approved'[b] = <<>>
        BY <1>7, <3>1, <3>4
      <4> QED
        BY <3>2, <4>1 DEF PaymentBooked
    <3> QED
      BY <3>3, <3>4
  <2>7. (batchOf[o] # NoBatch => PaymentBooked(o, batchOf[o]))'
    BY <2>0, <2>6
  <2> QED
    BY <2>2, <2>3, <2>4, <2>5, <2>7 DEF Untouched
<1> QED
  BY <1>12, <1>13

\* The ledger jobs that undo something leave the vouchers of an untouched order alone.
LEMMA UndoVoucher ==
    ASSUME TInv, UInv, NEW o \in Orders, o \notin touched, NEW s \in Sessions, Undoes(req[s]),
           NEW j \in Reversals \cup Postings, j = Head(req[s].jobs)
    PROVE  /\ Voucher(s, j) \notin {<<"SALES_INVOICE", o>>, <<"PAYMENT", batchOf[o]>>}
           /\ gl[Voucher(s, j)].debit[o] = 0
           /\ Lines(s, j)[o] = 0
<1>1. PICK r : r = req[s]
  OBVIOUS
<1>2. r.jobs \in UndoPlans /\ Working(r) /\ UndoTail(r.jobs) /\ r \in RequestType /\ Shaped(r)
  BY <1>1, UndoTails DEF Undoes, TInv, TypeOK
<1>3. r.o \in touched /\ (r.jobs \in WholePlans => Linked(r.b) \subseteq touched)
  BY <1>1 DEF UInv, UndoesTouched
<1>4. r.o \in Orders /\ r.o # o
  BY <1>2, <1>3, SimplePlans DEF Shaped
<1>5. j \in {"reverseSale", "reversePayment", "reverseSlice"}
  BY <1>1, <1>2 DEF UndoTail, Reversals, Postings
<1>6. OwnVouchers(o)
  BY DEF UInv, Untouched
<1>7. PICK v : v = Voucher(s, j)
  OBVIOUS
<1>8. v \in Vouchers
  BY <1>1, <1>2, <1>7, VoucherTyped
<1>9. v \notin {<<"SALES_INVOICE", o>>, <<"PAYMENT", batchOf[o]>>}
  <2>1. CASE j = "reverseSale"
    <3>1. v = <<"SALES_INVOICE", r.o>>
      BY <1>1, <1>7, <2>1 DEF Voucher
    <3> QED
      BY <1>4, <3>1, TuplesDiffer
  <2>2. CASE j = "reverseSlice"
    <3>1. v = <<"JOURNAL_ENTRY", r.o>>
      BY <1>1, <1>7, <2>2 DEF Voucher
    <3> QED
      BY <3>1, TuplesDiffer
  <2>3. CASE j = "reversePayment"
    <3>1. v = <<"PAYMENT", r.b>>
      BY <1>1, <1>7, <2>3 DEF Voucher
    <3>2. Linked(r.b) \subseteq touched
      BY <1>1, <1>2, <1>3, <2>3 DEF UndoTail
    <3>3. r.b # batchOf[o]
      BY <3>2 DEF Linked
    <3> QED
      BY <3>1, <3>3, TuplesDiffer
  <2> QED
    BY <1>5, <2>1, <2>2, <2>3
<1>10. gl[v].debit[o] = 0
  BY <1>6, <1>8, <1>9 DEF OwnVouchers
<1>11. Lines(s, j)[o] = 0
  <2>1. CASE j \in Reversals
    <3>1. Lines(s, j) = [p \in Orders |-> -gl[v].debit[p]]
      BY <1>7, <2>1 DEF Lines
    <3> QED
      BY <1>10, <3>1
  <2>2. CASE j = "reverseSlice"
    <3>1. Lines(s, j) \in {Zero, One(r.o)}
      BY <1>1, <2>2 DEF Lines, Reversals
    <3> QED
      BY <1>4, <3>1, OneOrZero DEF Zero
  <2> QED
    BY <1>5, <2>1, <2>2 DEF Reversals
<1> QED
  BY <1>7, <1>9, <1>10, <1>11

LEMMA LookAgrees ==
    ASSUME TInv, UInv, NEW o \in Orders, o \notin touched, NEW s \in Sessions, NEW j \in Jobs,
           Look(s, j), NEW n, Becomes(s, n),
           \/ Lines(s, j) = Zero /\ GoesOn(req[s], n)
           \/ Lines(s, j) # Zero /\ n = [req[s] EXCEPT !.pc = "post", !.lines = Lines(s, j)]
    PROVE  Agrees(req[s], n, o)
<1>0. PICK r : r = req[s]
  OBVIOUS
<1>1. /\ r \in RequestType /\ Shaped(r) /\ r.pc = "look" /\ j = Head(r.jobs)
      /\ j \in Reversals \cup Postings
  BY <1>0 DEF TInv, TypeOK, Look, Running
<1>2. Working(r) /\ Untouched(o)
  BY <1>1 DEF Working, UInv
<1>3. PICK l : l = Lines(s, j)
  OBVIOUS
<1>4. CASE r.jobs \in UndoPlans
  <2>1. Neutral(r) /\ Undoes(r)
    BY <1>2, <1>4 DEF Neutral, Undoes
  <2>2. CASE l = Zero
    <3>1. Neutral(n) /\ n.pc \notin {"create", "post"}
      BY <1>0, <1>1, <1>3, <2>2, GoesOnFacts
    <3> QED
      BY <1>0, <2>1, <3>1, QuietProper, NeutralAgrees
  <2>3. CASE l # Zero
    <3>1. n.pc = "post" /\ n.lines = l /\ n.jobs = r.jobs
      BY <1>0, <1>1, <1>3, <2>3 DEF RequestType
    <3>2. Neutral(n)
      BY <1>4, <3>1 DEF Neutral
    <3>3. l[o] = 0
      BY <1>0, <1>1, <1>3, <2>1, UndoVoucher
    <3>4. Proper(n, o)
      BY <3>1, <3>2, <3>3, NeutralFacts DEF Proper, Due
    <3> QED
      BY <1>0, <2>1, <3>2, <3>4, NeutralAgrees
  <2> QED
    BY <2>2, <2>3
<1>5. CASE r.jobs = SellPlan
  <2>1. j = "postSale" /\ r.o \in Orders /\ ~Undoes(r)
    BY <1>1, <1>2, <1>5, SimplePlans DEF Shaped, Undoes
  <2>2. l = IF Sale(r.o).posted THEN Zero ELSE One(r.o)
    BY <1>0, <1>3, <2>1 DEF Lines, Voucher, Sale, Reversals
  <2>3. \A c : ~Pays(r, c)
    BY <1>5, SimplePlans DEF Pays
  <2>4. CASE l = Zero
    <3>1. n = Idle
      BY <1>0, <1>3, <2>1, <2>4 DEF GoesOn
    <3>2. r.o # o
      <4>1. ASSUME r.o = o PROVE FALSE
        <5>1. Sells(r, o)
          BY <1>2, <1>5, <4>1 DEF Sells
        <5>2. ~Sale(o).posted
          BY <1>0, <1>2, <5>1 DEF Untouched, SaleBooked
        <5>3. l[o] = 1
          BY <2>2, <4>1, <5>2, OneOrZero
        <5> QED
          BY <2>4, <5>3 DEF Zero
      <4> QED
        BY <4>1
    <3>3. ~Sells(r, o)
      BY <3>2 DEF Sells
    <3>4. Proper(n, o) /\ ~Sells(n, o) /\ \A c : ~Pays(n, c)
      BY <3>1, IdleNeutral, QuietProper, NeutralFacts
    <3> QED
      BY <1>0, <2>3, <3>3, <3>4 DEF Agrees, SellsOn, PaysOn
  <2>5. CASE l # Zero
    <3>1. n.pc = "post" /\ n.lines = l /\ n.jobs = r.jobs /\ n.o = r.o
      BY <1>0, <1>1, <1>3, <2>5 DEF RequestType
    <3>2. Working(n)
      BY <3>1 DEF Working
    <3>3. (Sells(n, o) <=> Sells(r, o)) /\ (Sells(n, o) <=> r.o = o) /\ \A c : ~Pays(n, c)
      BY <1>2, <1>5, <3>1, <3>2, SimplePlans DEF Sells, Pays
    <3>4. l[o] = IF r.o = o THEN 1 ELSE 0
      BY <2>2, <2>5, OneOrZero
    <3>5. Proper(n, o)
      BY <3>1, <3>3, <3>4 DEF Proper, Due
    <3> QED
      BY <1>0, <2>3, <3>3, <3>5 DEF Agrees, SellsOn, PaysOn
  <2> QED
    BY <2>4, <2>5
<1>6. CASE r.jobs = PayPlan
  <2>1. j = "postPayment" /\ r.b \in Batches /\ ~Undoes(r)
    BY <1>1, <1>2, <1>6, SimplePlans DEF Shaped, Undoes
  <2>2. l = IF Payment(r.b).posted THEN Zero ELSE [p \in Orders |-> IF batchOf[p] = r.b THEN -1 ELSE 0]
    <3>1. Voucher(s, j) = <<"PAYMENT", r.b>>
      BY <1>0, <2>1 DEF Voucher
    <3>2. l = IF gl[Voucher(s, j)].posted THEN Zero
              ELSE [p \in Orders |-> IF batchOf[p] = req[s].b THEN -1 ELSE 0]
      BY <1>3, <2>1 DEF Lines, Reversals
    <3> QED
      BY <1>0, <3>1, <3>2 DEF Payment
  <2>3. ~Sells(r, o) /\ r.b # NoBatch
    BY <1>6, <2>1, SimplePlans, SettlementAssumption DEF Sells
  <2>4. CASE l = Zero
    <3>1. n = Idle
      BY <1>0, <1>3, <2>1, <2>4 DEF GoesOn
    <3>2. Proper(n, o) /\ ~Sells(n, o) /\ \A c : ~Pays(n, c)
      BY <3>1, IdleNeutral, QuietProper, NeutralFacts
    <3>3. ASSUME batchOf[o] # NoBatch, Len(approved[batchOf[o]]) = 1, Pays(r, batchOf[o]) PROVE FALSE
      <4>1. r.b = batchOf[o]
        BY <3>3 DEF Pays
      <4>2. ~Payment(r.b).posted
        BY <1>0, <1>2, <3>3, <4>1 DEF Untouched, PaymentBooked
      <4>3. l[o] = -1
        BY <2>2, <4>1, <4>2
      <4> QED
        BY <2>4, <4>3 DEF Zero
    <3> QED
      BY <1>0, <2>3, <3>2, <3>3 DEF Agrees, SellsOn, PaysOn
  <2>5. CASE l # Zero
    <3>1. n.pc = "post" /\ n.lines = l /\ n.jobs = r.jobs /\ n.b = r.b
      BY <1>0, <1>1, <1>3, <2>5 DEF RequestType
    <3>2. ~Sells(n, o) /\ \A c : (Pays(n, c) <=> c = r.b) /\ (Pays(r, c) <=> c = r.b)
      BY <1>2, <1>6, <3>1, SimplePlans DEF Sells, Pays, Working
    <3>3. l[o] = IF batchOf[o] = r.b THEN -1 ELSE 0
      BY <2>2, <2>5
    <3>4. Proper(n, o)
      BY <2>3, <3>1, <3>2, <3>3 DEF Proper, Due
    <3> QED
      BY <1>0, <2>3, <3>2, <3>4 DEF Agrees, SellsOn, PaysOn
  <2> QED
    BY <2>4, <2>5
<1> QED
  BY <1>1, <1>2, <1>4, <1>5, <1>6 DEF Shaped

LEMMA LookUntouched ==
    ASSUME TInv, UInv, NEW o \in Orders, o \notin touched, NEW s \in Sessions, NEW j \in Jobs, Look(s, j)
    PROVE  Untouched(o)'
<1>1. UNCHANGED <<order, batches, books>>
  BY DEF Look
<1>2. PICK n : /\ Becomes(s, n)
               /\ \/ Lines(s, j) = Zero /\ GoesOn(req[s], n)
                  \/ Lines(s, j) # Zero /\ n = [req[s] EXCEPT !.pc = "post", !.lines = Lines(s, j)]
  BY LookMoves
<1>3. Agrees(req[s], n, o)
  BY <1>2, LookAgrees
<1>4. Steady(o) /\ BooksSame(o) /\ (\A b : SameReceipts(b)) /\ Untouched(o)
  BY <1>1, SameBooks, SameOutcomes DEF Steady, batches, books, UInv
<1> QED
  BY <1>2, <1>3, <1>4, OneAgrees, UntouchedKept

LEMMA UnsettleUntouched ==
    ASSUME TInv, UInv, NEW o \in Orders, o \notin touched, NEW s \in Sessions, NEW j \in Jobs, Unsettle(s, j)
    PROVE  Untouched(o)'
<1>1. UNCHANGED <<order, batches, books>>
  BY DEF Unsettle
<1>2. PICK n, b : /\ Becomes(s, n) /\ req[s].pc = "look" /\ Undoes(req[s])
                  /\ req[s].o \in Orders /\ b = batchOf[req[s].o]
                  /\ \/ b = NoBatch /\ GoesOn(req[s], n)
                     \/ /\ b # NoBatch
                        /\ \E plan \in LeavingPlans :
                             /\ plan \in WholePlans => AloneOn(b)
                             /\ n = [req[s] EXCEPT !.b = b, !.jobs = plan]
  BY UnsettleMoves
<1>3. req[s] \in RequestType /\ Neutral(req[s])
  BY <1>2 DEF TInv, TypeOK, Undoes, Neutral
<1>4. Neutral(n) /\ n.pc \notin {"create", "post"}
  <2>1. CASE GoesOn(req[s], n)
    BY <1>3, <2>1, GoesOnFacts
  <2>2. CASE \E plan \in LeavingPlans : n = [req[s] EXCEPT !.b = b, !.jobs = plan]
    <3>1. PICK plan \in LeavingPlans : n = [req[s] EXCEPT !.b = b, !.jobs = plan]
      BY <2>2
    <3>2. n.pc = "look" /\ n.jobs = plan
      BY <1>2, <1>3, <3>1 DEF RequestType
    <3> QED
      BY <3>2 DEF Neutral, UndoPlans
  <2> QED
    BY <1>2, <2>1, <2>2
<1>5. Agrees(req[s], n, o)
  BY <1>3, <1>4, QuietProper, NeutralAgrees
<1>6. Steady(o) /\ BooksSame(o) /\ (\A c : SameReceipts(c)) /\ Untouched(o)
  BY <1>1, SameBooks, SameOutcomes DEF Steady, batches, books, UInv
<1> QED
  BY <1>2, <1>5, <1>6, OneAgrees, UntouchedKept

LEMMA PostFailsUntouched ==
    ASSUME TInv, UInv, NEW o \in Orders, o \notin touched, NEW s \in Sessions, PostFails(s)
    PROVE  Untouched(o)'
<1>0. PICK r : r = req[s]
  OBVIOUS
<1>1. UNCHANGED <<order, batches, gl>> /\ r.pc = "post"
      /\ alerted' = alerted \cup {p \in Orders : p = r.o \/ r.lines[p] # 0}
  BY <1>0 DEF PostFails
<1>2. Becomes(s, Idle) /\ Untouched(o)
  BY EndMoves DEF UInv
<1>3. Proper(Idle, o) /\ ~Sells(Idle, o) /\ \A c : ~Pays(Idle, c)
  BY IdleNeutral, QuietProper, NeutralFacts
<1>4. Sells(r, o) => o \in alerted'
  BY <1>1 DEF Sells
<1>5. ASSUME batchOf[o] # NoBatch, Pays(r, batchOf[o]) PROVE o \in alerted'
  <2>1. ~Sells(r, o)
    BY <1>5, SimplePlans DEF Sells, Pays
  <2>2. r.lines[o] = -1
    BY <1>0, <1>1, <1>2, <1>5, <2>1 DEF Untouched, LinesMean, Due
  <2> QED
    BY <1>1, <2>2
<1>6. Agrees(r, Idle, o)
  BY <1>3, <1>4, <1>5 DEF Agrees, SellsOn, PaysOn
<1>7. Steady(o) /\ BooksSame(o) /\ (\A b : SameReceipts(b))
  BY <1>1, SameBooks, SameOutcomes DEF Steady, batches
<1> QED
  BY <1>0, <1>2, <1>6, <1>7, OneAgrees, UntouchedKept

LEMMA DetachUntouched ==
    ASSUME TInv, UInv, NEW o \in Orders, o \notin touched, NEW s \in Sessions, Detach(s)
    PROVE  Untouched(o)'
<1>0. PICK r, b : r = req[s] /\ b = r.b
  OBVIOUS
<1>1. /\ UNCHANGED <<order, books>> /\ batchOf' = [batchOf EXCEPT ![r.o] = IF @ = b THEN NoBatch ELSE @]
      /\ approved' = [approved EXCEPT ![b] = LessOne(@)]
  BY <1>0 DEF Detach
<1>2. PICK n : Becomes(s, n) /\ r.pc = "look" /\ GoesOn(r, n) /\ Undoes(r) /\ r.o \in Orders /\ b \in Batches
  BY <1>0, DetachMoves
<1>3. r \in RequestType /\ Neutral(r) /\ Neutral(n) /\ n.pc \notin {"create", "post"}
  BY <1>0, <1>2, GoesOnFacts DEF TInv, TypeOK, Undoes, Neutral
<1>4. Agrees(r, n, o)
  BY <1>3, QuietProper, NeutralAgrees
<1>5. r.o # o /\ Untouched(o)
  BY <1>0, <1>2 DEF UInv, UndoesTouched
<1>6. Steady(o)
  BY <1>1, <1>5 DEF Steady, books, TInv, TypeOK
<1>7. BooksSame(o)
  BY <1>1, SameBooks DEF books
<1>8. \A c \in Batches : SameReceipts(c)
  <2>1. \A c \in Batches : approved[c] \in Seq(Nat) /\ approved'[c] \in Seq(Nat)
                           /\ Len(approved'[c]) = Len(approved[c])
    BY <1>1, <1>2, OutcomesTyped DEF TInv, TypeOK
  <2>2. \A q \in Seq(Nat) : q = <<>> <=> Len(q) = 0
    BY EmptySeq
  <2> QED
    BY <2>1, <2>2 DEF SameReceipts
<1>9. batchOf[o] # NoBatch => batchOf[o] \in Batches
  BY DEF TInv, TypeOK
<1> QED
  BY <1>0, <1>2, <1>4, <1>5, <1>6, <1>7, <1>8, <1>9, OneAgrees, UntouchedKept

LEMMA PostUntouched ==
    ASSUME TInv, UInv, NEW o \in Orders, o \notin touched, NEW s \in Sessions, Post(s)
    PROVE  Untouched(o)'
<1>0. PICK r, j, v : r = req[s] /\ j = Head(r.jobs) /\ v = Voucher(s, j)
  OBVIOUS
<1>1. PICK n, m : /\ Becomes(s, n) /\ r.pc = "post"
                  /\ m = [r EXCEPT !.lines = Zero] /\ GoesOn(m, n)
                  /\ v \in Vouchers
  BY <1>0, PostMoves
<1>2. /\ UNCHANGED <<order, batches, alerted>>
      /\ gl' = [gl EXCEPT ![v] = [posted |-> TRUE, debit |-> [p \in Orders |-> @.debit[p] + r.lines[p]]]]
  BY <1>0 DEF Post
<1>3. gl \in [Vouchers -> [posted : BOOLEAN, debit : [Orders -> Int]]] /\ r \in RequestType /\ Shaped(r)
  BY <1>0 DEF TInv, TypeOK
<1>4. Working(r) /\ j \in Reversals \cup Postings /\ Untouched(o)
  BY <1>0, <1>1, <1>3 DEF Working, Shaped, UInv
<1>5. /\ \A w \in Vouchers \ {v} : gl'[w] = gl[w]
      /\ gl'[v].debit[o] = gl[v].debit[o] + r.lines[o]
  <2>1. PICK d : d = [p \in Orders |-> gl[v].debit[p] + r.lines[p]]
    OBVIOUS
  <2>2. gl' = [gl EXCEPT ![v] = [posted |-> TRUE, debit |-> d]] /\ d[o] = gl[v].debit[o] + r.lines[o]
    BY <1>2, <2>1
  <2> QED
    BY <1>1, <1>3, <2>2
<1>6. r.lines[o] = Due(r, o) /\ gl[v].debit[o] \in Int
  BY <1>0, <1>1, <1>3, <1>4 DEF Untouched, LinesMean
<1>7. Neutral(n) /\ n.pc \notin {"create", "post"}
  <2>1. m \in RequestType
    BY <1>1, <1>3, EmptyJobs DEF RequestType
  <2> QED
    BY <1>1, <2>1, GoesOnFacts
<1>8. Steady(o) /\ \A b : SameReceipts(b)
  BY <1>2, SameOutcomes DEF Steady, batches
<1>9. Proper(n, o) /\ ~Sells(n, o) /\ \A c : ~Pays(n, c)
  BY <1>7, QuietProper, NeutralFacts
<1>10. Forward(o)' /\ \A t \in Sessions : LinesMean(t, o)'
  BY <1>1, <1>4, <1>8, <1>9, OneProper, ForwardKept DEF Untouched
<1>11. batchOf' = batchOf /\ approved' = approved /\ order' = order
  BY <1>2 DEF batches
<1>12. CASE ~Sells(r, o) /\ ~(batchOf[o] # NoBatch /\ Pays(r, batchOf[o]))
  <2>1. gl'[v].debit[o] = gl[v].debit[o]
    BY <1>5, <1>6, <1>12 DEF Due
  <2>2. v \notin {<<"SALES_INVOICE", o>>, <<"PAYMENT", batchOf[o]>>}
    <3>1. CASE r.jobs \in UndoPlans
      BY <1>0, <1>4, <3>1, UndoVoucher DEF Undoes
    <3>2. CASE r.jobs = SellPlan
      <4>1. v = <<"SALES_INVOICE", r.o>>
        BY <1>0, <3>2, SimplePlans DEF Voucher
      <4>2. r.o # o
        BY <1>4, <1>12, <3>2 DEF Sells
      <4> QED
        BY <4>1, <4>2, TuplesDiffer
    <3>3. CASE r.jobs = PayPlan
      <4>1. v = <<"PAYMENT", r.b>>
        BY <1>0, <3>3, SimplePlans DEF Voucher
      <4>2. r.b # NoBatch
        BY <1>3, <1>4, <3>3, SimplePlans, SettlementAssumption DEF Shaped
      <4>3. r.b # batchOf[o]
        BY <1>4, <1>12, <3>3, <4>2 DEF Pays
      <4> QED
        BY <4>1, <4>3, TuplesDiffer
    <3> QED
      BY <1>3, <1>4, <3>1, <3>2, <3>3 DEF Shaped
  <2>3. BooksSame(o)
    BY <1>5, <2>1, <2>2 DEF BooksSame
  <2>4. Agrees(r, n, o)
    BY <1>9, <1>12 DEF Agrees, SellsOn, PaysOn
  <2> QED
    BY <1>0, <1>1, <1>4, <1>8, <2>3, <2>4, OneAgrees, UntouchedKept
<1>13. CASE Sells(r, o)
  <2>1. v = <<"SALES_INVOICE", o>>
    BY <1>0, <1>13, SimplePlans DEF Sells, Voucher
  <2>2. gl'[v].debit[o] = 1
    <3>1. gl[v].debit[o] = 0
      BY <1>0, <1>4, <1>13, <2>1 DEF Untouched, SaleBooked, Sale
    <3> QED
      BY <1>5, <1>6, <1>13, <3>1 DEF Due
  <2>3. order[o].status # "IN_TRANSIT"
    BY <1>0, <1>4, <1>13 DEF Untouched, SaleBooked
  <2>4. \A t \in Sessions : ~Sells(req'[t], o)
    <3>1. \A t \in Sessions : Sells(req[t], o) => s = t
      BY <1>0, <1>4, <1>13 DEF Untouched, SaleBooked
    <3> QED
      BY <1>1, <1>9, <3>1 DEF Becomes
  <2>5. SaleBooked(o)'
    <3>1. Sale(o)'.debit[o] = 1
      BY <2>1, <2>2 DEF Sale
    <3> QED
      BY <1>11, <2>3, <2>4, <3>1 DEF SaleBooked
  <2>6. OwnVouchers(o)'
    BY <1>4, <1>5, <1>11, <2>1, OwnKept DEF Untouched
  <2>7. ASSUME batchOf[o] # NoBatch PROVE PaymentBooked(o, batchOf[o])'
    <3>1. PICK b : b = batchOf[o]
      OBVIOUS
    <3>2. b \in Batches /\ PaymentBooked(o, b)
      BY <1>4, <2>7, <3>1 DEF Untouched, TInv, TypeOK
    <3>3. \A t \in Sessions : PaysOn(req[t], req'[t], o, b)
      <4>1. ~Pays(r, b)
        BY <1>13, SimplePlans DEF Sells, Pays
      <4>2. \A t \in Sessions : Pays(req'[t], b) <=> Pays(req[t], b)
        BY <1>0, <1>1, <1>9, <4>1 DEF Becomes
      <4> QED
        BY <4>2 DEF PaysOn
    <3>4. Payment(b)' = Payment(b)
      <4>1. <<"PAYMENT", b>> # v
        BY <2>1, TuplesDiffer
      <4> QED
        BY <1>5, <3>2, <4>1, VoucherNames DEF Payment
    <3>5. PaymentBooked(o, b)'
      BY <1>8, <3>2, <3>3, <3>4, PaymentKept
    <3> QED
      BY <1>11, <3>1, <3>5
  <2>8. (batchOf[o] # NoBatch => PaymentBooked(o, batchOf[o]))'
    BY <1>11, <2>7
  <2> QED
    BY <1>10, <2>5, <2>6, <2>8 DEF Untouched
<1>14. CASE batchOf[o] # NoBatch /\ Pays(r, batchOf[o])
  <2>1. PICK b : b = batchOf[o] /\ b = r.b
    BY <1>14 DEF Pays
  <2>2. ~Sells(r, o) /\ v = <<"PAYMENT", b>>
    <3>1. r.jobs = PayPlan
      BY <1>14 DEF Pays
    <3>2. ~Sells(r, o)
      BY <3>1, SimplePlans DEF Sells
    <3>3. v = <<"PAYMENT", r.b>>
      BY <1>0, <3>1, SimplePlans DEF Voucher
    <3> QED
      BY <2>1, <3>2, <3>3
  <2>3. b \in Batches /\ PaymentBooked(o, b)
    BY <1>4, <1>14, <2>1 DEF Untouched, TInv, TypeOK
  <2>4. gl'[v].debit[o] = gl[v].debit[o] - 1
    BY <1>5, <1>6, <1>14, <2>2 DEF Due
  <2>5. SaleBooked(o)'
    <3>1. \A t \in Sessions : SellsOn(req[t], req'[t], o)
      BY <1>0, <1>1, <1>9, <2>2, OneSells DEF SellsOn
    <3>2. Sale(o)' = Sale(o)
      <4>1. <<"SALES_INVOICE", o>> # v
        BY <2>2, TuplesDiffer
      <4> QED
        BY <1>5, <4>1, VoucherNames DEF Sale
    <3> QED
      BY <1>4, <1>8, <3>1, <3>2, SaleKept DEF Untouched
  <2>6. OwnVouchers(o)'
    BY <1>4, <1>5, <1>11, <2>1, <2>2, OwnKept DEF Untouched
  <2>7. PaymentBooked(o, b)'
    <3>1. approved[b] # <<>> /\ PayersCounted(b)
      BY <1>0, <1>14, <2>1, <2>3 DEF UInv, PayersCounted
    <3>2. order'[o].status = "REMITTED"
      BY <1>11, <2>3, <3>1 DEF PaymentBooked
    <3>3. ASSUME Len(approved[b]) = 1
          PROVE  (\A t \in Sessions : ~Pays(req'[t], b)) /\ Payment(b)'.debit[o] = -1
      <4>1. gl[v].debit[o] = 0
        BY <1>0, <1>14, <2>1, <2>2, <2>3, <3>3 DEF PaymentBooked, Payment
      <4>2. \A t \in Sessions : Pays(req[t], b) => s = t
        BY <1>0, <1>14, <2>1, <3>1, <3>3 DEF PayersCounted
      <4>3. \A t \in Sessions : ~Pays(req'[t], b)
        BY <1>1, <1>9, <4>2 DEF Becomes
      <4> QED
        BY <2>2, <2>4, <4>1, <4>3 DEF Payment
    <3> QED
      BY <1>11, <3>1, <3>2, <3>3 DEF PaymentBooked
  <2>8. (batchOf[o] # NoBatch => PaymentBooked(o, batchOf[o]))'
    BY <1>11, <2>1, <2>7
  <2> QED
    BY <1>10, <2>5, <2>6, <2>8 DEF Untouched
<1> QED
  BY <1>12, <1>13, <1>14

LEMMA UntouchedStep ==
    ASSUME TInv, UInv, Next, NEW o \in Orders, o \notin touched'
    PROVE  Untouched(o)'
<1>1. touched \subseteq touched'
  <2>1. ASSUME NEW s \in Sessions, NEW d \in Orders,
               \/ Deliver(s, d) \/ DeleteRead(s, d)
               \/ \E to \in Statuses, hold \in BOOLEAN : Retrack(s, d, to, hold)
        PROVE  touched \subseteq touched'
    BY <2>1 DEF Deliver, DeleteRead, Retrack
  <2>2. ASSUME NEW d \in Orders, RemitByHand(d) \/ ResolveRetrack(d) \/ Restore(d)
        PROVE  touched \subseteq touched'
    BY <2>2 DEF RemitByHand, ResolveRetrack, Restore
  <2>3. ASSUME NEW s \in Sessions,
               DeleteCommit(s) \/ CreateFails(s) \/ ReceiveCommit(s) \/ DisputeCommit(s)
        PROVE  touched \subseteq touched'
    BY <2>3 DEF DeleteCommit, CreateFails, ReceiveCommit, DisputeCommit
  <2>4. ASSUME NEW s \in Sessions, LedgerStep(s) PROVE touched \subseteq touched'
    BY <2>4 DEF LedgerStep, Look, Unsettle, Post, PostFails, Detach
  <2>5. ASSUME NEW s \in Sessions,
               \/ \E S \in SUBSET Orders, now \in BOOLEAN : CreateRead(s, S, now)
               \/ \E b \in Batches :
                    CreateCommit(s, b) \/ \E d \in {"receive", "dispute"} : DecideRead(s, b, d)
        PROVE  touched \subseteq touched'
    BY <2>5 DEF CreateRead, CreateCommit, DecideRead
  <2>6. CASE Heal \/ CloseYear \/ ReopenYear
    BY <2>6 DEF Heal, CloseYear, ReopenYear
  <2> QED
    BY <2>1, <2>2, <2>3, <2>4, <2>5, <2>6 DEF Next
<1>2. o \notin touched /\ Untouched(o)
  BY <1>1 DEF UInv
<1>3. ASSUME NEW s \in Sessions, LedgerStep(s) PROVE Untouched(o)'
  BY <1>2, <1>3, LookUntouched, UnsettleUntouched, PostUntouched, PostFailsUntouched, DetachUntouched
     DEF LedgerStep
<1> QED
  BY <1>2, <1>3, OpenUntouched, StatusesUntouched, DeliverUntouched, RetrackUntouched, DeleteUntouched,
     EndUntouched, ReceiveUntouched, CreateUntouched DEF Next

------------------------------------------------------------------------------
(***************************************************************************)
(* Batches without a trace, requests that undo, and payments under way.    *)
(***************************************************************************)

RequestsKnown ==
    UnusedTrackless /\ (\A s \in Sessions : UndoesTouched(s)) /\ \A b \in Batches : PayersCounted(b)

LEMMA UInvParts == UInv <=> RequestsKnown /\ \A o \in Orders \ touched : Untouched(o)
  BY DEF UInv, RequestsKnown

\* A step other than the creation or the receipt of a batch.
Plain ==
    /\ touched \subseteq touched'
    /\ \A p \in Orders : batchOf'[p] \in {batchOf[p], NoBatch}
    /\ \A b \in Batches : batch'[b] = "NONE" => batch[b] = "NONE"
    /\ \A b \in Batches : SameReceipts(b)
    /\ \A b \in Unused : gl'[<<"PAYMENT", b>>] = gl[<<"PAYMENT", b>>]

Modest(s, n) ==
    /\ Becomes(s, n)
    /\ \A b \in Unused : n.b # b
    /\ Undoes(n) => n.o \in touched' /\ (n.jobs \in WholePlans => Linked(n.b) \subseteq touched)
    /\ \A b \in Batches : Pays(n, b) => Pays(req[s], b)

\* Requests that undo nothing and name no batch, or no other batch than before.
LEMMA ModestEasy ==
    ASSUME UInv, NEW s \in Sessions, NEW n, Becomes(s, n), n.b = NoBatch \/ n.b = req[s].b,
           Neutral(n), Undoes(n) => n.o \in touched' /\ n.jobs \notin WholePlans
    PROVE  Modest(s, n)
<1>1. \A b \in Unused : n.b # b
  BY SettlementAssumption DEF UInv, UnusedTrackless, Trackless, Unused
<1>2. \A b \in Batches : ~Pays(n, b)
  BY NeutralFacts
<1> QED
  BY <1>1, <1>2 DEF Modest

LEMMA ModestNext ==
    ASSUME TInv, UInv, NEW s \in Sessions, NEW n, Becomes(s, n), NEW m \in RequestType, GoesOn(m, n),
           m.o = req[s].o, m.b = req[s].b, Undoes(m) => Undoes(req[s]), touched \subseteq touched'
    PROVE  Modest(s, n)
<1>1. /\ Neutral(n)
      /\ n = Idle \/ (Undoes(m) /\ n.o = m.o /\ n.b = m.b /\ n.jobs \in UndoPlans \ WholePlans)
  BY GoesOnFacts
<1>2. Undoes(m) => m.o \in touched'
  BY DEF UInv, UndoesTouched
<1>3. CASE n = Idle
  BY <1>1, <1>3, IdleFacts, ModestEasy DEF Undoes
<1>4. CASE n # Idle
  BY <1>1, <1>2, <1>4, ModestEasy
<1> QED
  BY <1>3, <1>4

LEMMA PlainKnown ==
    ASSUME TInv, UInv, Plain, NEW s \in Sessions, NEW n, Modest(s, n)
    PROVE  RequestsKnown'
<1>0. Becomes(s, n)
  BY DEF Modest
<1>1. req'[s] = n /\ \A t \in Sessions \ {s} : req'[t] = req[t]
  BY <1>0 DEF Becomes
<1>2. UnusedTrackless'
  <2> SUFFICES ASSUME NEW b \in Batches, batch'[b] = "NONE" PROVE Trackless(b)'
    BY DEF UnusedTrackless, Unused
  <2>1. b \in Unused /\ Trackless(b)
    BY DEF Plain, Unused, UInv, UnusedTrackless
  <2>2. b # NoBatch
    BY SettlementAssumption
  <2>3. Linked(b)' = {}
    BY <2>1, <2>2 DEF Plain, Linked, Trackless
  <2>4. approved'[b] = <<>> /\ gl'[<<"PAYMENT", b>>] = gl[<<"PAYMENT", b>>]
    BY <2>1 DEF Plain, SameReceipts, Trackless
  <2>5. \A t \in Sessions : req'[t].b # b
    BY <1>1, <2>1 DEF Modest, Trackless
  <2> QED
    BY <2>1, <2>3, <2>4, <2>5 DEF Trackless
<1>3. ASSUME NEW t \in Sessions PROVE UndoesTouched(t)'
  <2>1. PICK m : m = req'[t]
    OBVIOUS
  <2>2. Undoes(m) => m.o \in touched' /\ (m.jobs \in WholePlans => m.b \in Batches /\ Linked(m.b) \subseteq touched)
    <3>1. Undoes(m) /\ m.jobs \in WholePlans => m.b \in Batches
      <4>1. Shaped(m)
        BY <1>0, <2>1 DEF Becomes
      <4> QED
        BY <4>1 DEF Undoes, Shaped, LeavingPlans
    <3>2. CASE t = s
      BY <1>1, <2>1, <3>1, <3>2 DEF Modest
    <3>3. CASE t # s
      <4>1. m = req[t] /\ UndoesTouched(t)
        BY <1>1, <2>1, <3>3 DEF UInv
      <4> QED
        BY <3>1, <4>1 DEF UndoesTouched, Plain
    <3> QED
      BY <3>2, <3>3
  <2>3. ASSUME NEW b \in Batches, Linked(b) \subseteq touched PROVE Linked(b)' \subseteq touched'
    BY <2>3, SettlementAssumption DEF Linked, Plain
  <2>4. Undoes(m) => m.o \in touched' /\ (m.jobs \in WholePlans => \A p \in Orders : batchOf'[p] = m.b => p \in touched')
    BY <2>2, <2>3 DEF Linked
  <2> QED
    BY <2>1, <2>4 DEF UndoesTouched, Linked
<1>4. ASSUME NEW b \in Batches PROVE PayersCounted(b)'
  <2>1. \A t \in Sessions : Pays(req'[t], b) => Pays(req[t], b)
    BY <1>1 DEF Modest
  <2>2. SameReceipts(b) /\ PayersCounted(b)
    BY DEF Plain, UInv
  <2> QED
    BY <2>1, <2>2 DEF SameReceipts, PayersCounted
<1> QED
  BY <1>2, <1>3, <1>4 DEF RequestsKnown

LEMMA PlainFrame ==
    ASSUME UNCHANGED <<batches, gl>>, touched \subseteq touched'
    PROVE  Plain
  BY DEF Plain, batches, SameReceipts

LEMMA OpeningsKnown ==
    ASSUME TInv, UInv, NEW s \in Sessions,
           \/ \E o \in Orders : \/ Deliver(s, o) \/ DeleteRead(s, o)
                                \/ \E to \in Statuses, hold \in BOOLEAN : Retrack(s, o, to, hold)
           \/ \E S \in SUBSET Orders, now \in BOOLEAN : CreateRead(s, S, now)
           \/ \E b \in Batches, d \in {"receive", "dispute"} : DecideRead(s, b, d)
    PROVE  RequestsKnown'
<1>1. Plain
  <2>1. UNCHANGED <<batches, gl>> /\ touched \subseteq touched'
    BY DEF Deliver, DeleteRead, Retrack, CreateRead, DecideRead, books
  <2> QED
    BY <2>1, PlainFrame
<1>2. ASSUME NEW n, Begins(s, n), n.pc \in {"delete", "create", "receive", "dispute"},
             \A b \in Unused : n.b # b
      PROVE  Modest(s, n)
  BY <1>2 DEF Begins, Modest, Undoes, Pays, Working
<1>3. \A b \in Unused : NoBatch # b
  BY SettlementAssumption DEF Unused
<1>4. ASSUME NEW o \in Orders, Deliver(s, o) PROVE RequestsKnown'
  <2>1. PICK n : Begins(s, n) /\ n = Fresh(o, "look", SellPlan)
    BY <1>4, DeliverMoves
  <2>2. Becomes(s, n) /\ n.b = NoBatch /\ n.jobs = SellPlan
    BY <2>1 DEF Begins, Fresh
  <2>3. Modest(s, n)
    BY <1>3, <2>2, SimplePlans DEF Modest, Undoes, Pays
  <2> QED
    BY <1>1, <2>3, PlainKnown
<1>5. ASSUME NEW o \in Orders, DeleteRead(s, o) PROVE RequestsKnown'
  <2>1. PICK n : Begins(s, n) /\ n = Fresh(o, "delete", <<>>)
    BY <1>5, DeleteReadMoves
  <2>2. n.pc = "delete" /\ n.b = NoBatch
    BY <2>1 DEF Fresh
  <2> QED
    BY <1>1, <1>2, <1>3, <2>1, <2>2, PlainKnown
<1>6. ASSUME NEW o \in Orders, NEW to \in Statuses, NEW hold \in BOOLEAN, Retrack(s, o, to, hold)
      PROVE  RequestsKnown'
  <2>1. PICK n, q : /\ Begins(s, n) /\ q \in {<<"unremit">>, <<"reverseSale">>}
                    /\ n = Fresh(o, "look", q)
                    /\ q \in UndoPlans \ LeavingPlans
    BY <1>6, RetrackMoves
  <2>2. Becomes(s, n) /\ n.b = NoBatch /\ n.o = o /\ n.jobs = q
    BY <2>1 DEF Begins, Fresh
  <2>3. o \in touched' /\ Neutral(n) /\ n.jobs \notin WholePlans
    BY <1>6, <2>1, <2>2 DEF Retrack, Neutral, LeavingPlans
  <2> QED
    BY <1>1, <2>2, <2>3, ModestEasy, PlainKnown
<1>7. ASSUME NEW S \in SUBSET Orders, NEW now \in BOOLEAN, CreateRead(s, S, now) PROVE RequestsKnown'
  <2>1. PICK n : /\ Begins(s, n)
                 /\ n.pc = "create" /\ n.o = NoOrder /\ n.b = NoBatch /\ n.orders = S
    BY <1>7, CreateReadMoves
  <2> QED
    BY <1>1, <1>2, <1>3, <2>1, PlainKnown
<1>8. ASSUME NEW b \in Batches, NEW d \in {"receive", "dispute"}, DecideRead(s, b, d) PROVE RequestsKnown'
  <2>1. PICK n : /\ Begins(s, n)
                 /\ n.pc = d /\ n.o = NoOrder /\ n.b = b /\ n.orders = {}
                 /\ n.n = Cardinality(Linked(b))
    BY <1>8, DecideReadMoves
  <2>2. \A c \in Unused : n.b # c
    BY <1>8, <2>1 DEF DecideRead, Unused
  <2> QED
    BY <1>1, <1>2, <2>1, <2>2, PlainKnown
<1> QED
  BY <1>4, <1>5, <1>6, <1>7, <1>8

LEMMA QuietKnown ==
    ASSUME UInv, UNCHANGED <<batches, gl, req, touched>>
    PROVE  RequestsKnown'
<1>1. RequestsKnown
  BY UInvParts
<1>2. UnusedTrackless'
  BY <1>1 DEF batches, RequestsKnown, UnusedTrackless, Unused, Trackless, Linked
<1>3. \A s \in Sessions : UndoesTouched(s)'
  BY <1>1 DEF batches, RequestsKnown, UndoesTouched, Linked
<1>4. \A b \in Batches : PayersCounted(b)'
  BY <1>1 DEF batches, RequestsKnown, PayersCounted
<1> QED
  BY <1>2, <1>3, <1>4 DEF RequestsKnown

LEMMA EndsKnown ==
    ASSUME TInv, UInv, NEW s \in Sessions,
           DeleteCommit(s) \/ CreateFails(s) \/ DisputeCommit(s) \/ PostFails(s)
    PROVE  RequestsKnown'
<1>1. Plain
  <2>1. UNCHANGED <<batchOf, approved, gl>> /\ touched \subseteq touched'
    BY DEF DeleteCommit, CreateFails, DisputeCommit, PostFails, batches, books
  <2>2. \A b \in Batches : batch'[b] = "NONE" => batch[b] = "NONE"
    <3>1. CASE DisputeCommit(s)
      BY <3>1 DEF DisputeCommit, TInv, TypeOK
    <3>2. CASE ~DisputeCommit(s)
      BY <3>2 DEF DeleteCommit, CreateFails, PostFails, batches
    <3> QED
      BY <3>1, <3>2
  <2> QED
    BY <2>1, <2>2, SameOutcomes DEF Plain
<1>2. CASE DeleteCommit(s)
  <2>1. PICK n, q : /\ Becomes(s, n) /\ req[s].pc = "delete" /\ req[s].o \in Orders
                    /\ q \in UndoPlans \ LeavingPlans
                    /\ n = [req[s] EXCEPT !.pc = "look", !.jobs = q]
    BY <1>2, DeleteCommitMoves
  <2>2. n.o = req[s].o /\ n.b = req[s].b /\ n.jobs = q
    BY <2>1 DEF TInv, TypeOK, RequestType
  <2>3. n.o \in touched' /\ Neutral(n) /\ n.jobs \notin WholePlans
    BY <1>2, <2>1, <2>2 DEF DeleteCommit, Neutral, LeavingPlans
  <2> QED
    BY <1>1, <2>1, <2>2, <2>3, ModestEasy, PlainKnown
<1>3. CASE ~DeleteCommit(s)
  <2>1. Becomes(s, Idle)
    BY <1>3, EndMoves
  <2>2. Modest(s, Idle)
    BY <2>1, IdleFacts, IdleNeutral, ModestEasy DEF Undoes
  <2> QED
    BY <1>1, <2>2, PlainKnown
<1> QED
  BY <1>2, <1>3

LEMMA LedgerKnown ==
    ASSUME TInv, UInv, NEW s \in Sessions, LedgerStep(s)
    PROVE  RequestsKnown'
<1>0. PICK r : r = req[s]
  OBVIOUS
<1>1. r \in RequestType /\ Shaped(r) /\ (\A b \in Unused : r.b # b) /\ UndoesTouched(s)
  BY <1>0 DEF TInv, TypeOK, UInv, UnusedTrackless, Trackless
<1>2. touched' = touched
  BY DEF LedgerStep, Look, Unsettle, Post, PostFails, Detach
<1>3. ASSUME NEW j \in Jobs, Look(s, j) PROVE RequestsKnown'
  <2>1. PICK n : /\ Becomes(s, n)
                 /\ \/ Lines(s, j) = Zero /\ GoesOn(req[s], n)
                    \/ Lines(s, j) # Zero /\ n = [req[s] EXCEPT !.pc = "post", !.lines = Lines(s, j)]
    BY <1>3, LookMoves
  <2>2. Plain
    BY <1>2, <1>3, PlainFrame DEF Look, books
  <2>3. CASE GoesOn(r, n)
    BY <1>0, <1>1, <1>2, <2>1, <2>2, <2>3, ModestNext, PlainKnown
  <2>4. CASE n = [r EXCEPT !.pc = "post", !.lines = Lines(s, j)]
    <3>1. n.o = r.o /\ n.b = r.b /\ n.jobs = r.jobs
      BY <1>1, <2>4 DEF RequestType
    <3>2. Working(r)
      BY <1>0, <1>3 DEF Look, Running, Working
    <3>3. Modest(s, n)
      BY <1>0, <1>1, <1>2, <2>1, <3>1, <3>2 DEF Modest, Undoes, Pays, UndoesTouched
    <3> QED
      BY <2>2, <3>3, PlainKnown
  <2> QED
    BY <1>0, <2>1, <2>3, <2>4
<1>4. ASSUME NEW j \in Jobs, Unsettle(s, j) PROVE RequestsKnown'
  <2>1. PICK n, b : /\ Becomes(s, n) /\ req[s].pc = "look" /\ Undoes(req[s])
                    /\ req[s].o \in Orders /\ b = batchOf[req[s].o]
                    /\ \/ b = NoBatch /\ GoesOn(req[s], n)
                       \/ /\ b # NoBatch
                          /\ \E plan \in LeavingPlans :
                               /\ plan \in WholePlans => AloneOn(b)
                               /\ n = [req[s] EXCEPT !.b = b, !.jobs = plan]
    BY <1>4, UnsettleMoves
  <2>2. Plain
    BY <1>2, <1>4, PlainFrame DEF Unsettle, books
  <2>3. CASE GoesOn(r, n)
    BY <1>0, <1>1, <1>2, <2>1, <2>2, <2>3, ModestNext, PlainKnown
  <2>4. ASSUME b # NoBatch, NEW plan \in LeavingPlans, plan \in WholePlans => AloneOn(b),
               n = [r EXCEPT !.b = b, !.jobs = plan]
        PROVE  RequestsKnown'
    <3>1. n.o = r.o /\ n.b = b /\ n.jobs = plan /\ b \in Batches
      <4>1. b \in Batches
        BY <2>1, <2>4 DEF TInv, TypeOK
      <4>2. plan \in Seq(Jobs)
        BY UndoTails DEF UndoTail, UndoPlans
      <4> QED
        BY <1>1, <2>4, <4>1, <4>2 DEF RequestType
    <3>2. r.o \in touched /\ r.o \in Linked(b)
      BY <1>0, <1>1, <2>1 DEF UndoesTouched, Linked
    <3>3. \A c \in Unused : n.b # c
      BY <3>1, <3>2 DEF UInv, UnusedTrackless, Trackless
    <3>4. plan \in WholePlans => Linked(b) \subseteq touched
      <4>1. IsFiniteSet(Linked(b))
        BY LinkedCount
      <4>2. AloneOn(b) => Linked(b) = {r.o}
        <5>1. AloneOn(b) => \E x : Linked(b) = {x}
          BY <4>1, FS_Singleton DEF AloneOn
        <5> QED
          BY <3>2, <5>1
      <4> QED
        BY <2>4, <3>2, <4>2
    <3>5. n.jobs \in UndoPlans
      BY <3>1 DEF UndoPlans
    <3>6. \A c : ~Pays(n, c)
      BY <3>5, NeutralFacts DEF Neutral
    <3>7. Modest(s, n)
      BY <1>2, <2>1, <3>1, <3>2, <3>3, <3>4, <3>6 DEF Modest
    <3> QED
      BY <2>2, <3>7, PlainKnown
  <2> QED
    BY <1>0, <2>1, <2>3, <2>4
<1>5. CASE Post(s)
  <2>1. PICK n, m : /\ Becomes(s, n) /\ req[s].pc = "post"
                    /\ m = [req[s] EXCEPT !.lines = Zero] /\ GoesOn(m, n)
                    /\ Voucher(s, Head(req[s].jobs)) \in Vouchers
    BY <1>5, PostMoves
  <2>2. m \in RequestType /\ m.o = r.o /\ m.b = r.b /\ m.pc = r.pc /\ m.jobs = r.jobs
    BY <1>0, <1>1, <2>1, EmptyJobs DEF RequestType
  <2>3. Plain
    <3>1. PICK v \in Vouchers : v = Voucher(s, Head(r.jobs))
      BY <1>0, <2>1
    <3>2. UNCHANGED batches /\ \A w \in Vouchers \ {v} : gl'[w] = gl[w]
      BY <1>0, <1>5, <3>1 DEF Post, TInv, TypeOK
    <3>3. ASSUME NEW b \in Unused PROVE gl'[<<"PAYMENT", b>>] = gl[<<"PAYMENT", b>>]
      <4>1. v \in {<<"SALES_INVOICE", r.o>>, <<"JOURNAL_ENTRY", r.o>>, <<"PAYMENT", r.b>>}
        BY <1>0, <3>1 DEF Voucher
      <4>2. v # <<"PAYMENT", b>>
        BY <1>1, <4>1, TuplesDiffer
      <4> QED
        BY <3>2, <4>2, VoucherNames DEF Unused
    <3> QED
      BY <1>2, <3>2, <3>3, SameOutcomes DEF Plain, batches
  <2> QED
    BY <1>0, <1>2, <2>1, <2>2, <2>3, ModestNext, PlainKnown DEF Undoes, Working
<1>6. CASE PostFails(s)
  BY <1>6, EndsKnown
<1>7. CASE Detach(s)
  <2>1. PICK n : Becomes(s, n) /\ req[s].pc = "look" /\ GoesOn(req[s], n) /\ Undoes(req[s])
                  /\ req[s].jobs \in DetachPlans
                  /\ req[s].o \in Orders /\ req[s].b \in Batches
    BY <1>7, DetachMoves
  <2>2. Plain
    <3>1. /\ UNCHANGED <<batch, gl>>
          /\ batchOf' = [batchOf EXCEPT ![r.o] = IF batchOf[r.o] = r.b THEN NoBatch ELSE batchOf[r.o]]
          /\ approved' = [approved EXCEPT ![r.b] = LessOne(approved[r.b])]
      BY <1>0, <1>7 DEF Detach, books
    <3>2. \A p \in Orders : batchOf'[p] \in {batchOf[p], NoBatch}
      BY <3>1 DEF TInv, TypeOK
    <3>3. \A c \in Batches : SameReceipts(c)
      <4>1. \A c \in Batches : approved[c] \in Seq(Nat) /\ approved'[c] \in Seq(Nat)
                               /\ Len(approved'[c]) = Len(approved[c])
        BY <1>0, <2>1, <3>1, OutcomesTyped DEF TInv, TypeOK
      <4>2. \A q \in Seq(Nat) : q = <<>> <=> Len(q) = 0
        BY EmptySeq
      <4> QED
        BY <4>1, <4>2 DEF SameReceipts
    <3> QED
      BY <1>2, <3>1, <3>2, <3>3 DEF Plain
  <2> QED
    BY <1>0, <1>1, <1>2, <2>1, <2>2, ModestNext, PlainKnown
<1> QED
  BY <1>3, <1>4, <1>5, <1>6, <1>7 DEF LedgerStep

LEMMA OneMorePayer ==
    ASSUME TInv, NEW b \in Batches, PayersCounted(b), NEW s \in Sessions, NEW n, Becomes(s, n),
           NEW c \in Nat, approved'[b] = Append(approved[b], c)
    PROVE  PayersCounted(b)'
<1>1. approved[b] \in Seq(Nat) /\ Len(approved'[b]) = Len(approved[b]) + 1
  BY OutcomesTyped DEF TInv, TypeOK
<1>2. approved'[b] # <<>> /\ (Len(approved'[b]) = 1 => approved[b] = <<>>)
  BY <1>1
<1>3. \A t \in Sessions \ {s} : req'[t] = req[t]
  BY DEF Becomes
<1> QED
  BY <1>2, <1>3 DEF PayersCounted

LEMMA ReceiveKnown ==
    ASSUME TInv, UInv, NEW s \in Sessions, ReceiveCommit(s)
    PROVE  RequestsKnown'
<1>0. PICK r, b : r = req[s] /\ b = r.b
  OBVIOUS
<1>1. PICK n : /\ Becomes(s, n) /\ r.pc = "receive" /\ b \in Batches
               /\ n = [r EXCEPT !.pc = "look", !.jobs = PayPlan]
  BY <1>0, ReceiveMoves
<1>2. n.jobs = PayPlan /\ n.b = b /\ r.n \in Nat
  BY <1>0, <1>1 DEF TInv, TypeOK, RequestType
<1>3. /\ UNCHANGED <<batchOf, gl, touched>> /\ batch' = [batch EXCEPT ![b] = "RECEIVED"]
      /\ approved' = [approved EXCEPT ![b] = Append(@, r.n)]
  BY <1>0 DEF ReceiveCommit, books
<1>4. req'[s] = n /\ \A t \in Sessions \ {s} : req'[t] = req[t]
  BY <1>1 DEF Becomes
<1>5. UnusedTrackless'
  <2> SUFFICES ASSUME NEW c \in Batches, batch'[c] = "NONE" PROVE Trackless(c)'
    BY DEF UnusedTrackless, Unused
  <2>1. c # b /\ c \in Unused /\ Trackless(c)
    BY <1>1, <1>3 DEF TInv, TypeOK, Unused, UInv, UnusedTrackless
  <2>2. approved'[c] = approved[c]
    BY <1>3, <2>1 DEF TInv, TypeOK
  <2>3. \A t \in Sessions : req'[t].b # c
    BY <1>2, <1>4, <2>1 DEF Trackless
  <2> QED
    BY <1>3, <2>1, <2>2, <2>3 DEF Trackless, Linked
<1>6. ASSUME NEW t \in Sessions PROVE UndoesTouched(t)'
  <2>1. Undoes(req'[t]) => req'[t] = req[t]
    BY <1>2, <1>4, SimplePlans DEF Undoes
  <2>2. UndoesTouched(t)
    BY DEF UInv
  <2> QED
    BY <1>3, <2>1, <2>2 DEF UndoesTouched, Linked
<1>7. ASSUME NEW c \in Batches PROVE PayersCounted(c)'
  <2>1. PayersCounted(c)
    BY DEF UInv
  <2>2. CASE c = b
    BY <1>1, <1>2, <1>3, <2>1, <2>2, OneMorePayer DEF TInv, TypeOK
  <2>3. CASE c # b
    <3>1. \A t \in Sessions : Pays(req'[t], c) => Pays(req[t], c)
      BY <1>2, <1>4, <2>3 DEF Pays
    <3>2. approved'[c] = approved[c]
      BY <1>3, <2>3 DEF TInv, TypeOK
    <3> QED
      BY <2>1, <3>1, <3>2 DEF PayersCounted
  <2> QED
    BY <2>2, <2>3
<1> QED
  BY <1>5, <1>6, <1>7 DEF RequestsKnown

LEMMA CreateKnown ==
    ASSUME TInv, UInv, NEW s \in Sessions, NEW b \in Batches, CreateCommit(s, b)
    PROVE  RequestsKnown'
<1>0. PICK r, S : r = req[s] /\ S = r.orders
  OBVIOUS
<1>1. PICK n : /\ Becomes(s, n) /\ r.pc = "create" /\ S \in SUBSET Orders
               /\ \/ r.now /\ n = [r EXCEPT !.b = b, !.pc = "look", !.jobs = PayPlan]
                  \/ ~r.now /\ n = Idle
  BY <1>0, CreateCommitMoves
<1>2. /\ r.now => n.jobs = PayPlan /\ n.b = b
      /\ Cardinality(S) \in Nat
  <2>1. Cardinality(S) \in Nat
    BY <1>1, FinitenessAssumption, FS_Subset, FS_CardinalityType
  <2> QED
    BY <1>0, <1>1, <2>1 DEF TInv, TypeOK, RequestType
<1>3. /\ UNCHANGED <<gl, touched>> /\ b \in Unused
      /\ batchOf' = [o \in Orders |-> IF o \in S THEN b ELSE batchOf[o]]
      /\ \A o \in S : batchOf[o] = NoBatch
      /\ batch' = [batch EXCEPT ![b] = IF r.now THEN "RECEIVED" ELSE "SENT"]
      /\ approved' = IF r.now THEN [approved EXCEPT ![b] = Append(approved[b], Cardinality(S))] ELSE approved
  BY <1>0, Zenon DEF CreateCommit, books
<1>4. req'[s] = n /\ \A t \in Sessions \ {s} : req'[t] = req[t]
  BY <1>1 DEF Becomes
<1>5. n.b \in {b, NoBatch} /\ ~Undoes(n) /\ \A c : Pays(n, c) => c = b /\ r.now
  BY <1>1, <1>2, IdleFacts, SimplePlans DEF Undoes, Pays
<1>6. UnusedTrackless'
  <2> SUFFICES ASSUME NEW c \in Batches, batch'[c] = "NONE" PROVE Trackless(c)'
    BY DEF UnusedTrackless, Unused
  <2>1. c # b /\ c \in Unused /\ Trackless(c) /\ c # NoBatch
    BY <1>3, SettlementAssumption DEF TInv, TypeOK, Unused, UInv, UnusedTrackless
  <2>2. approved'[c] = approved[c]
    BY <1>3, <2>1 DEF TInv, TypeOK
  <2>3. \A t \in Sessions : req'[t].b # c
    BY <1>4, <1>5, <2>1 DEF Trackless
  <2>4. Linked(c)' = {}
    BY <1>3, <2>1 DEF Trackless, Linked
  <2> QED
    BY <1>3, <2>1, <2>2, <2>3, <2>4 DEF Trackless
<1>7. ASSUME NEW t \in Sessions PROVE UndoesTouched(t)'
  <2>1. PICK m : m = req'[t]
    OBVIOUS
  <2>2. CASE ~Undoes(m)
    BY <2>1, <2>2 DEF UndoesTouched
  <2>3. CASE Undoes(m)
    <3>1. m = req[t] /\ UndoesTouched(t) /\ Shaped(m)
      BY <1>1, <1>4, <1>5, <2>1, <2>3 DEF UInv, Becomes
    <3>2. m.jobs \in WholePlans => m.b \in Batches
      BY <2>3, <3>1 DEF Shaped, Undoes, LeavingPlans
    <3>3. m.b # b
      BY <1>3, <3>1 DEF UInv, UnusedTrackless, Trackless
    <3>4. \A o \in Orders : batchOf'[o] = m.b => batchOf[o] = m.b
      BY <1>3, <3>3
    <3>5. m.jobs \in WholePlans => \A o \in Orders : batchOf'[o] = m.b => o \in touched'
      BY <1>3, <2>3, <3>1, <3>4 DEF UndoesTouched, Linked
    <3> QED
      BY <1>3, <2>1, <2>3, <3>1, <3>5 DEF UndoesTouched, Linked
  <2> QED
    BY <2>2, <2>3
<1>8. ASSUME NEW c \in Batches PROVE PayersCounted(c)'
  <2>1. PayersCounted(c)
    BY DEF UInv
  <2>2. CASE c = b /\ r.now
    <3>1. approved'[b] = Append(approved[b], Cardinality(S))
      BY <1>3, <2>2 DEF TInv, TypeOK
    <3> QED
      BY <1>1, <1>2, <2>1, <2>2, <3>1, OneMorePayer
  <2>3. CASE ~(c = b /\ r.now)
    <3>1. \A t \in Sessions : Pays(req'[t], c) => Pays(req[t], c)
      BY <1>4, <1>5, <2>3
    <3>2. approved'[c] = approved[c]
      BY <1>3, <2>3 DEF TInv, TypeOK
    <3> QED
      BY <2>1, <3>1, <3>2 DEF PayersCounted
  <2> QED
    BY <2>2, <2>3
<1> QED
  BY <1>6, <1>7, <1>8 DEF RequestsKnown

LEMMA InitUInv == Init => UInv
<1> SUFFICES ASSUME Init PROVE UInv
  OBVIOUS
<1>1. /\ \A s \in Sessions : req[s] = Idle
      /\ \A o \in Orders : order[o] = [status |-> "IN_TRANSIT", hold |-> FALSE] /\ batchOf[o] = NoBatch
      /\ \A b \in Batches : approved[b] = <<>>
      /\ \A v \in Vouchers : gl[v] = [posted |-> FALSE, debit |-> Zero]
  BY DEF Init
<1>2. \A c : ~Pays(Idle, c) /\ ~Sells(Idle, c)
  BY IdleFacts DEF Pays, Sells
<1>3. UnusedTrackless
  BY <1>1, VoucherNames, IdleFacts, SettlementAssumption DEF UnusedTrackless, Unused, Trackless, Linked
<1>4. \A s \in Sessions : UndoesTouched(s)
  BY <1>1, IdleFacts DEF UndoesTouched, Undoes
<1>5. \A b \in Batches : PayersCounted(b)
  BY <1>1, <1>2, EmptySeq DEF PayersCounted
<1>6. ASSUME NEW o \in Orders PROVE Untouched(o)
  <2>1. Forward(o) /\ OwnVouchers(o) /\ \A s \in Sessions : LinesMean(s, o)
    BY <1>1, IdleFacts DEF Forward, OwnVouchers, LinesMean, Zero
  <2>2. SaleBooked(o)
    <3>1. order[o].status = "IN_TRANSIT" /\ \A s \in Sessions : ~Sells(req[s], o)
      BY <1>1, <1>2
    <3>2. Sale(o) = [posted |-> FALSE, debit |-> Zero] /\ Zero[o] = 0
      BY <1>1, VoucherNames DEF Sale, Zero
    <3> QED
      BY <3>1, <3>2 DEF SaleBooked
  <2> QED
    BY <1>1, <2>1, <2>2 DEF Untouched
<1> QED
  BY <1>3, <1>4, <1>5, <1>6 DEF UInv

LEMMA UInvStep == TInv /\ UInv /\ [Next]_vars => UInv'
<1> SUFFICES ASSUME TInv, UInv, [Next]_vars PROVE UInv'
  OBVIOUS
<1>1. CASE UNCHANGED vars
  <2>1. UNCHANGED <<order, batches, books, req, touched>>
    BY <1>1 DEF vars
  <2>2. RequestsKnown'
    BY <2>1, QuietKnown DEF books
  <2>3. ASSUME NEW o \in Orders \ touched PROVE Untouched(o)'
    <3>1. Untouched(o)
      BY DEF UInv
    <3>2. Steady(o) /\ BooksSame(o) /\ \A b : SameReceipts(b)
      BY <2>1, SameBooks, SameOutcomes DEF Steady, batches, books
    <3> QED
      BY <2>1, <3>1, <3>2, NoneAgrees, UntouchedKept
  <2> QED
    BY <2>1, <2>2, <2>3 DEF UInv, RequestsKnown
<1>2. CASE Next
  <2>1. RequestsKnown'
    <3>1. ASSUME \/ \E o \in Orders : RemitByHand(o) \/ ResolveRetrack(o) \/ Restore(o)
                 \/ Heal \/ CloseYear \/ ReopenYear
          PROVE  RequestsKnown'
      <4>1. UNCHANGED <<batches, gl, req, touched>>
        BY <3>1 DEF RemitByHand, ResolveRetrack, Restore, Heal, CloseYear, ReopenYear, books
      <4> QED
        BY <4>1, QuietKnown
    <3> QED
      BY <1>2, <3>1, OpeningsKnown, EndsKnown, LedgerKnown, ReceiveKnown, CreateKnown DEF Next
  <2>2. \A o \in Orders \ touched' : Untouched(o)'
    BY <1>2, UntouchedStep
  <2> QED
    BY <2>1, <2>2 DEF UInv, RequestsKnown
<1> QED
  BY <1>1, <1>2

------------------------------------------------------------------------------
LEMMA Invariants == Spec => [](TInv /\ UInv)
  BY InitTInv, InitUInv, TInvStep, UInvStep, PTL DEF Spec

\* Once a receipt of its batch is recorded, an order that nobody ever retracked or deleted
\* is REMITTED: the cascade of markDeliveryRemittanceReceived and of
\* createDeliveryRemittance skips none of them, whatever is in flight.
THEOREM ReceiptsRemit == Spec => []ReceiptRemitsAll
<1>1. TInv /\ UInv => ReceiptRemitsAll
  <2> SUFFICES ASSUME TInv, UInv, NEW o \in Orders \ touched, ReceivedOnce(o)
               PROVE  order[o].status = "REMITTED"
    BY DEF ReceiptRemitsAll
  <2>1. Untouched(o)
    BY DEF UInv
  <2> QED
    BY <2>1 DEF ReceivedOnce, Untouched, PaymentBooked
<1> QED
  BY <1>1, Invariants, PTL

LEMMA VouchersFinite == IsFiniteSet(Vouchers)
<1>1. IsFiniteSet({"SALES_INVOICE", "JOURNAL_ENTRY"}) /\ IsFiniteSet({"PAYMENT"})
  <2>1. IsFiniteSet({"SALES_INVOICE"}) /\ IsFiniteSet({"JOURNAL_ENTRY"}) /\ IsFiniteSet({"PAYMENT"})
    BY FS_Singleton
  <2>2. {"SALES_INVOICE", "JOURNAL_ENTRY"} = {"SALES_INVOICE"} \cup {"JOURNAL_ENTRY"}
    OBVIOUS
  <2>3. IsFiniteSet({"SALES_INVOICE"} \cup {"JOURNAL_ENTRY"})
    BY <2>1, FS_Union
  <2> QED
    BY <2>1, <2>2, <2>3
<1>2. IsFiniteSet({"SALES_INVOICE", "JOURNAL_ENTRY"} \X Orders) /\ IsFiniteSet({"PAYMENT"} \X Batches)
  BY <1>1, FinitenessAssumption, FS_Product
<1> QED
  BY <1>2, FS_Union DEF Vouchers

\* What the customer owes is on two vouchers.
LEMMA ReceivableSplit ==
    ASSUME TInv, NEW o \in Orders, OwnVouchers(o)
    PROVE  Receivable(o) = Sale(o).debit[o]
                             + IF batchOf[o] = NoBatch THEN 0 ELSE Payment(batchOf[o]).debit[o]
<1>1. PICK f : f = [v \in Vouchers |-> gl[v].debit[o]]
  OBVIOUS
<1>2. Receivable(o) = SumFunctionOnSet(f, Vouchers)
  BY <1>1 DEF Receivable
<1>3. \A v \in Vouchers : f[v] = gl[v].debit[o] /\ f[v] \in Int
  BY <1>1 DEF TInv, TypeOK
<1>4. PICK x : x = <<"SALES_INVOICE", o>>
  OBVIOUS
<1>5. PICK T : T = Vouchers \ {x}
  OBVIOUS
<1>6. x \in Vouchers /\ f[x] = Sale(o).debit[o] /\ IsFiniteSet(T)
  BY <1>3, <1>4, <1>5, VoucherNames, VouchersFinite, FS_RemoveElement DEF Sale
<1>7. SumFunctionOnSet(f, Vouchers) = f[x] + SumFunctionOnSet(f, T)
  BY <1>3, <1>5, <1>6, VouchersFinite, SumRemove
<1>8. PICK y : y = <<"PAYMENT", batchOf[o]>>
  OBVIOUS
<1>9. \A v \in T \ {y} : f[v] = 0
  BY <1>3, <1>4, <1>5, <1>8 DEF OwnVouchers
<1>10. CASE batchOf[o] = NoBatch
  <2>1. y \notin T
    <3>1. \A c \in Batches : <<"PAYMENT", c>> # y
      BY <1>8, <1>10, SettlementAssumption, TuplesDiffer
    <3>2. \A k \in {"SALES_INVOICE", "JOURNAL_ENTRY"} : \A p \in Orders : <<k, p>> # y
      BY <1>8, TuplesDiffer
    <3> QED
      BY <1>5, <3>1, <3>2 DEF Vouchers
  <2>2. SumFunctionOnSet(f, T) = 0
    BY <1>6, <1>9, <2>1, SumSigns
  <2> QED
    BY <1>2, <1>3, <1>6, <1>7, <1>10, <2>2
<1>11. CASE batchOf[o] # NoBatch
  <2>1. batchOf[o] \in Batches
    BY <1>11 DEF TInv, TypeOK
  <2>2. y \in T /\ f[y] = Payment(batchOf[o]).debit[o]
    <3>1. y \in Vouchers /\ y # x
      BY <1>4, <1>8, <2>1, VoucherNames, TuplesDiffer
    <3> QED
      BY <1>3, <1>5, <1>8, <3>1 DEF Payment
  <2>3. SumFunctionOnSet(f, T) = f[y] + SumFunctionOnSet(f, T \ {y})
    BY <1>3, <1>5, <1>6, <2>2, SumRemove
  <2>4. IsFiniteSet(T \ {y})
    BY <1>6, FS_RemoveElement
  <2>5. SumFunctionOnSet(f, T \ {y}) = 0
    BY <1>9, <2>4, SumSigns
  <2> QED
    BY <1>2, <1>3, <1>5, <1>6, <1>7, <1>11, <2>2, <2>3, <2>5
<1> QED
  BY <1>10, <1>11

\* Between requests the customer of an order nobody touched owes its price from the
\* delivery to the receipt of its batch, and nothing before or after, however many orders
\* share the batch and in whatever order postings, reversals and detachments of the others
\* were interleaved with its own.
THEOREM BooksOfUntouched == Spec => []UntouchedBooks
<1>1. TInv /\ UInv => UntouchedBooks
  <2> SUFFICES ASSUME TInv, UInv, Settled, NEW o \in Orders \ (touched \cup alerted),
                      ReceivedOnce(o) => Len(approved[batchOf[o]]) = 1
               PROVE  /\ Receivable(o) = 1 <=> order[o].status # "IN_TRANSIT" /\ ~ReceivedOnce(o)
                      /\ Receivable(o) \in {0, 1}
    BY DEF UntouchedBooks
  <2>1. Untouched(o)
    BY DEF UInv
  <2>2. \A s \in Sessions : ~Sells(req[s], o) /\ \A b : ~Pays(req[s], b)
    BY DEF Settled, Sells, Pays, Working
  <2>3. Sale(o).debit[o] = IF order[o].status = "IN_TRANSIT" THEN 0 ELSE 1
    BY <2>1, <2>2 DEF Untouched, SaleBooked
  <2>4. batchOf[o] # NoBatch => Payment(batchOf[o]).debit[o] = IF ReceivedOnce(o) THEN -1 ELSE 0
    BY <2>1, <2>2 DEF Untouched, PaymentBooked, ReceivedOnce
  <2>5. ReceivedOnce(o) => batchOf[o] # NoBatch /\ order[o].status # "IN_TRANSIT"
    BY <2>1 DEF ReceivedOnce, Untouched, Forward
  <2>6. Receivable(o) = Sale(o).debit[o]
                          + IF batchOf[o] = NoBatch THEN 0 ELSE Payment(batchOf[o]).debit[o]
    BY <2>1, ReceivableSplit DEF Untouched
  <2> QED
    BY <2>3, <2>4, <2>5, <2>6 DEF ReceivedOnce
<1> QED
  BY <1>1, Invariants, PTL

------------------------------------------------------------------------------
(***************************************************************************)
(* Requests one at a time.                                                 *)
(***************************************************************************)

\* The request that is alone becomes n.
Alone(s, n) ==
    Becomes(s, n) /\ (req[s].pc # "idle" \/ \A z \in Sessions : req[z].pc = "idle")

LEMMA SerialNext ==
    ASSUME Serial, NEW s \in Sessions, NEW n, Alone(s, n), (\A b \in Batches : Outcome(b))',
           \/ ~Working(n) /\ n.pc \notin {"receive", "dispute"}
           \/ Working(n) /\ (n.jobs \in DetachPlans => batchOf'[n.o] = n.b)
           \/ Decides(n)'
    PROVE  Serial'
<1>1. req'[s] = n /\ \A t \in Sessions \ {s} : req'[t] = req[t] /\ req[t].pc = "idle"
  BY DEF Alone, Becomes, Serial, OneBusy
<1>2. OneBusy'
  BY <1>1 DEF OneBusy
<1>3. ASSUME NEW t \in Sessions PROVE Decides(req[t])'
  <2>1. PICK m : m = req'[t]
    OBVIOUS
  <2>2. CASE t = s
    <3>1. m = n
      BY <1>1, <2>1, <2>2
    <3>2. Decides(n)'
      BY DEF Working, Decides
    <3> QED
      BY <2>1, <3>1, <3>2 DEF Decides
  <2>3. CASE t # s
    <3>1. m.pc = "idle"
      BY <1>1, <2>1, <2>3
    <3> QED
      BY <2>1, <3>1 DEF Decides, Working
  <2> QED
    BY <2>2, <2>3
<1> QED
  BY <1>2, <1>3 DEF Serial

LEMMA SameOutcome ==
    ASSUME Serial, UNCHANGED batches
    PROVE  (\A b \in Batches : Outcome(b))'
  BY DEF Serial, Outcome, Linked, batches

LEMMA SameSerial ==
    ASSUME Serial, UNCHANGED <<batches, req>>
    PROVE  Serial'
  BY DEF Serial, OneBusy, Outcome, Decides, Linked, batches

LEMMA BeginsAlone ==
    ASSUME TInv, NEW s \in Sessions, NEW n, Begins(s, n)
    PROVE  /\ left'.overlaps <= left.overlaps
           /\ left'.overlaps = left.overlaps => Alone(s, n)
<1>1. left.overlaps \in Nat /\ left'.overlaps \in Nat
  BY DEF TInv, TypeOK, Begins, LeftType
<1>2. left'.overlaps < left.overlaps
        \/ (left'.overlaps = left.overlaps /\ \A z \in Sessions : req[z].pc = "idle")
  BY DEF Begins
<1>3. Becomes(s, n)
  BY DEF Begins
<1> QED
  BY <1>1, <1>2, <1>3 DEF Alone

\* Going on with the jobs.
LEMMA GoesOnDecides ==
    ASSUME NEW r \in RequestType, NEW n, GoesOn(r, n), UNCHANGED batchOf,
           r.jobs \in DetachPlans => batchOf[r.o] = r.b
    PROVE  \/ ~Working(n) /\ n.pc \notin {"receive", "dispute"}
           \/ Working(n) /\ (n.jobs \in DetachPlans => batchOf'[n.o] = n.b)
<1>1. CASE n = Idle
  BY <1>1, IdleFacts
<1>2. CASE n # Idle
  <2>1. n = [r EXCEPT !.pc = "look", !.jobs = Tail(r.jobs)] /\ Undoes(r)
    BY <1>2 DEF GoesOn
  <2>2. n.pc = "look" /\ n.jobs = Tail(r.jobs) /\ n.o = r.o /\ n.b = r.b
    BY <2>1 DEF RequestType
  <2>3. Tail(r.jobs) \in DetachPlans => r.jobs \in DetachPlans
    BY <2>1, UndoTails DEF Undoes, UndoTail
  <2> QED
    BY <2>2, <2>3 DEF Working
<1> QED
  BY <1>1, <1>2

LEMMA OpeningsSerial ==
    ASSUME TInv, NEW s \in Sessions,
           \/ \E o \in Orders : \/ Deliver(s, o) \/ DeleteRead(s, o)
                                \/ \E to \in Statuses, hold \in BOOLEAN : Retrack(s, o, to, hold)
           \/ \E S \in SUBSET Orders, now \in BOOLEAN : CreateRead(s, S, now)
           \/ \E b \in Batches, d \in {"receive", "dispute"} : DecideRead(s, b, d)
    PROVE  /\ left'.overlaps <= left.overlaps
           /\ Serial /\ left'.overlaps = left.overlaps => Serial'
<1>1. UNCHANGED batches
  BY DEF Deliver, DeleteRead, Retrack, CreateRead, DecideRead
<1>2. ASSUME NEW n, Begins(s, n),
             \/ ~Working(n) /\ n.pc \notin {"receive", "dispute"}
             \/ Working(n) /\ (n.jobs \in DetachPlans => batchOf'[n.o] = n.b)
             \/ Decides(n)'
      PROVE  /\ left'.overlaps <= left.overlaps
             /\ Serial /\ left'.overlaps = left.overlaps => Serial'
  <2>1. left'.overlaps <= left.overlaps
    BY <1>2, BeginsAlone
  <2>2. ASSUME Serial, left'.overlaps = left.overlaps PROVE Serial'
    <3>1. Alone(s, n)
      BY <1>2, <2>2, BeginsAlone
    <3>2. (\A b \in Batches : Outcome(b))'
      BY <1>1, <2>2, SameOutcome
    <3> QED
      BY <1>2, <2>2, <3>1, <3>2, SerialNext
  <2> QED
    BY <2>1, <2>2
<1>3. ASSUME NEW o \in Orders, Deliver(s, o)
      PROVE  \E n : Begins(s, n) /\ Working(n) /\ n.jobs \notin DetachPlans
  <2>1. PICK n : Begins(s, n) /\ n = Fresh(o, "look", SellPlan)
    BY <1>3, DeliverMoves
  <2>2. Working(n) /\ n.jobs = SellPlan
    BY <2>1 DEF Fresh, Working
  <2> QED
    BY <2>1, <2>2, SimplePlans DEF UndoPlans, LeavingPlans
<1>4. ASSUME NEW o \in Orders, DeleteRead(s, o)
      PROVE  \E n : Begins(s, n) /\ ~Working(n) /\ n.pc \notin {"receive", "dispute"}
  <2>1. PICK n : Begins(s, n) /\ n = Fresh(o, "delete", <<>>)
    BY <1>4, DeleteReadMoves
  <2> QED
    BY <2>1 DEF Fresh, Working
<1>5. ASSUME NEW o \in Orders, NEW to \in Statuses, NEW hold \in BOOLEAN, Retrack(s, o, to, hold)
      PROVE  \E n : Begins(s, n) /\ Working(n) /\ n.jobs \notin DetachPlans
  <2>1. PICK n, q : /\ Begins(s, n) /\ q \in {<<"unremit">>, <<"reverseSale">>}
                    /\ n = Fresh(o, "look", q)
                    /\ q \in UndoPlans \ LeavingPlans
    BY <1>5, RetrackMoves
  <2>2. Working(n) /\ n.jobs = q
    BY <2>1 DEF Fresh, Working
  <2> QED
    BY <2>1, <2>2 DEF LeavingPlans
<1>6. ASSUME NEW S \in SUBSET Orders, NEW now \in BOOLEAN, CreateRead(s, S, now)
      PROVE  \E n : Begins(s, n) /\ ~Working(n) /\ n.pc \notin {"receive", "dispute"}
  <2>1. PICK n : /\ Begins(s, n)
                 /\ n.pc = "create" /\ n.o = NoOrder /\ n.b = NoBatch /\ n.orders = S
    BY <1>6, CreateReadMoves
  <2> QED
    BY <2>1 DEF Working
<1>7. ASSUME NEW b \in Batches, NEW d \in {"receive", "dispute"}, DecideRead(s, b, d)
      PROVE  \E n : Begins(s, n) /\ Decides(n)'
  <2>1. PICK n : /\ Begins(s, n)
                 /\ n.pc = d /\ n.o = NoOrder /\ n.b = b /\ n.orders = {}
                 /\ n.n = Cardinality(Linked(b))
    BY <1>7, DecideReadMoves
  <2>2. batch'[b] = "SENT" /\ Linked(b)' = Linked(b)
    BY <1>1, <1>7 DEF DecideRead, batches, Linked
  <2>3. Decides(n)'
    BY <2>1, <2>2 DEF Decides, Working
  <2> QED
    BY <2>1, <2>3
<1> QED
  BY <1>2, <1>3, <1>4, <1>5, <1>6, <1>7

LEMMA CommitsSerial ==
    ASSUME TInv, UInv, Serial, NEW s \in Sessions,
           \/ DeleteCommit(s) \/ CreateFails(s) \/ ReceiveCommit(s) \/ DisputeCommit(s)
           \/ \E b \in Batches : CreateCommit(s, b)
    PROVE  Serial'
<1>0. PICK r, b : r = req[s] /\ b = r.b
  OBVIOUS
<1>1. r \in RequestType /\ Shaped(r) /\ Decides(r) /\ \A c \in Batches : Outcome(c)
  BY <1>0 DEF TInv, TypeOK, Serial
<1>2. CASE DeleteCommit(s)
  <2>1. PICK n, q : /\ Becomes(s, n) /\ req[s].pc = "delete" /\ req[s].o \in Orders
                    /\ q \in UndoPlans \ LeavingPlans
                    /\ n = [req[s] EXCEPT !.pc = "look", !.jobs = q]
    BY <1>2, DeleteCommitMoves
  <2>2. Working(n) /\ n.jobs \notin DetachPlans
    BY <1>0, <1>1, <2>1 DEF RequestType, Working, LeavingPlans
  <2>3. (\A c \in Batches : Outcome(c))'
    BY <1>2, SameOutcome DEF DeleteCommit
  <2> QED
    BY <2>1, <2>2, <2>3, SerialNext DEF Alone
<1>3. CASE CreateFails(s)
  <2>1. Becomes(s, Idle) /\ req[s].pc # "idle"
    BY <1>3, EndMoves DEF CreateFails
  <2>2. (\A c \in Batches : Outcome(c))'
    BY <1>3, SameOutcome DEF CreateFails
  <2> QED
    BY <2>1, <2>2, IdleFacts, SerialNext DEF Alone
<1>4. CASE DisputeCommit(s)
  <2>1. Becomes(s, Idle) /\ r.pc = "dispute" /\ b \in Batches
    BY <1>0, <1>1, <1>4, EndMoves DEF DisputeCommit, Shaped
  <2>2. UNCHANGED <<batchOf, approved>> /\ batch' = [batch EXCEPT ![b] = "DISPUTED"] /\ batch[b] = "SENT"
    BY <1>0, <1>1, <1>4, <2>1 DEF DisputeCommit, Decides
  <2>3. ASSUME NEW c \in Batches PROVE Outcome(c)'
    <3>1. batch'[c] = IF c = b THEN "DISPUTED" ELSE batch[c]
      BY <2>2 DEF TInv, TypeOK
    <3> QED
      BY <1>1, <2>2, <3>1 DEF Outcome, Linked
  <2> QED
    BY <1>0, <2>1, <2>3, IdleFacts, SerialNext DEF Alone
<1>5. CASE ReceiveCommit(s)
  <2>1. PICK n : /\ Becomes(s, n) /\ r.pc = "receive" /\ b \in Batches
                 /\ n = [r EXCEPT !.pc = "look", !.jobs = PayPlan]
    BY <1>0, <1>5, ReceiveMoves
  <2>2. Working(n) /\ n.jobs \notin DetachPlans
    BY <1>1, <2>1, SimplePlans DEF RequestType, Working, UndoPlans, LeavingPlans
  <2>3. /\ batchOf' = batchOf /\ batch' = [batch EXCEPT ![b] = "RECEIVED"]
        /\ approved' = [approved EXCEPT ![b] = Append(@, r.n)]
    BY <1>0, <1>5 DEF ReceiveCommit
  <2>4. batch[b] = "SENT" /\ r.n = Cardinality(Linked(b)) /\ approved[b] = <<>>
    BY <1>0, <1>1, <2>1 DEF Decides, Outcome
  <2>5. ASSUME NEW c \in Batches PROVE Outcome(c)'
    <3>1. Linked(c)' = Linked(c)
      BY <2>3 DEF Linked
    <3>2. CASE c = b
      <4>1. batch'[c] = "RECEIVED" /\ approved'[c] = Append(<<>>, r.n)
        BY <2>3, <2>4, <3>2 DEF TInv, TypeOK
      <4>2. approved'[c] = <<r.n>>
        BY <4>1
      <4> QED
        BY <2>4, <3>1, <3>2, <4>1, <4>2 DEF Outcome
    <3>3. CASE c # b
      <4>1. batch'[c] = batch[c] /\ approved'[c] = approved[c]
        BY <2>3, <3>3 DEF TInv, TypeOK
      <4> QED
        BY <1>1, <3>1, <4>1 DEF Outcome
    <3> QED
      BY <3>2, <3>3
  <2> QED
    BY <1>0, <2>1, <2>2, <2>5, SerialNext DEF Alone
<1>6. ASSUME NEW d \in Batches, CreateCommit(s, d) PROVE Serial'
  <2>1. PICK S : S = r.orders
    OBVIOUS
  <2>2. PICK n : /\ Becomes(s, n) /\ r.pc = "create" /\ S \in SUBSET Orders
                 /\ \/ r.now /\ n = [r EXCEPT !.b = d, !.pc = "look", !.jobs = PayPlan]
                    \/ ~r.now /\ n = Idle
    BY <1>0, <1>6, <2>1, CreateCommitMoves
  <2>3. \/ ~Working(n) /\ n.pc \notin {"receive", "dispute"}
        \/ Working(n) /\ n.jobs \notin DetachPlans
    <3>1. r.now => n.pc = "look" /\ n.jobs = PayPlan
      BY <1>1, <2>2 DEF RequestType
    <3> QED
      BY <2>2, <3>1, IdleFacts, SimplePlans DEF Working, UndoPlans, LeavingPlans
  <2>4. /\ d \in Unused
        /\ batchOf' = [o \in Orders |-> IF o \in S THEN d ELSE batchOf[o]]
        /\ \A o \in S : batchOf[o] = NoBatch
        /\ batch' = [batch EXCEPT ![d] = IF r.now THEN "RECEIVED" ELSE "SENT"]
        /\ approved' = IF r.now THEN [approved EXCEPT ![d] = Append(approved[d], Cardinality(S))] ELSE approved
    BY <1>0, <1>6, <2>1, Zenon DEF CreateCommit
  <2>5. Linked(d) = {} /\ approved[d] = <<>>
    BY <2>4 DEF UInv, UnusedTrackless, Trackless
  <2>6. ASSUME NEW c \in Batches PROVE Outcome(c)'
    <3>1. CASE c = d
      <4>1. Linked(c)' = S
        BY <2>2, <2>4, <2>5, <3>1 DEF Linked
      <4>2. batch'[c] = IF r.now THEN "RECEIVED" ELSE "SENT"
        BY <2>4, <3>1 DEF TInv, TypeOK
      <4>3. approved'[c] = IF r.now THEN <<Cardinality(S)>> ELSE <<>>
        <5>1. CASE r.now
          <6>1. approved'[c] = Append(<<>>, Cardinality(S))
            BY <2>4, <2>5, <3>1, <5>1 DEF TInv, TypeOK
          <6> QED
            BY <5>1, <6>1
        <5>2. CASE ~r.now
          BY <2>4, <2>5, <3>1, <5>2
        <5> QED
          BY <5>1, <5>2
      <4> QED
        BY <4>1, <4>2, <4>3 DEF Outcome
    <3>2. CASE c # d
      <4>1. Linked(c)' = Linked(c)
        BY <2>4, <3>2, SettlementAssumption DEF Linked
      <4>2. batch'[c] = batch[c] /\ approved'[c] = approved[c]
        BY <2>4, <3>2 DEF TInv, TypeOK
      <4> QED
        BY <1>1, <4>1, <4>2 DEF Outcome
    <3> QED
      BY <3>1, <3>2
  <2> QED
    BY <1>0, <2>2, <2>3, <2>6, SerialNext DEF Alone
<1> QED
  BY <1>2, <1>3, <1>4, <1>5, <1>6

\* One order fewer, counted and linked.
LEMMA OneFewer ==
    ASSUME NEW c \in Nat, c > 0
    PROVE  LessOne(<<c>>) = <<c - 1>> /\ LessOne(<<>>) = <<>>
<1>1. DOMAIN <<c>> = {1} /\ <<c>>[1] = c
  OBVIOUS
<1>2. PICK q : q = LessOne(<<c>>)
  OBVIOUS
<1>3. q = [i \in {1} |-> c - 1]
  BY <1>1, <1>2 DEF LessOne
<1>4. <<c - 1>> = [i \in {1} |-> c - 1]
  OBVIOUS
<1>5. LessOne(<<>>) = <<>>
  BY DEF LessOne
<1> QED
  BY <1>2, <1>3, <1>4, <1>5

LEMMA DetachSerial ==
    ASSUME TInv, Serial, NEW s \in Sessions, Detach(s)
    PROVE  Serial'
<1>0. PICK r, o, b : r = req[s] /\ o = r.o /\ b = r.b
  OBVIOUS
<1>1. r \in RequestType /\ Decides(r) /\ \A c \in Batches : Outcome(c)
  BY <1>0 DEF TInv, TypeOK, Serial
<1>2. PICK n : /\ Becomes(s, n) /\ r.pc = "look" /\ GoesOn(r, n) /\ Undoes(r)
               /\ r.jobs \in DetachPlans
               /\ o \in Orders /\ b \in Batches
  BY <1>0, DetachMoves
<1>3. /\ batch' = batch /\ batchOf[o] = b
      /\ batchOf' = [batchOf EXCEPT ![o] = IF @ = b THEN NoBatch ELSE @]
      /\ approved' = [approved EXCEPT ![b] = LessOne(approved[b])]
  BY <1>0, <1>1, <1>2 DEF Detach, Decides, Undoes
<1>4. n = Idle
  <2>1. Head(r.jobs) = "detach"
    BY <1>0 DEF Detach, Running
  <2>2. Tail(r.jobs) = <<>>
    BY <1>2, <2>1, UndoTails DEF Undoes, UndoTail
  <2>3. <<>> \notin UndoPlans
    BY UndoTails DEF UndoTail
  <2> QED
    BY <1>2, <2>2, <2>3 DEF GoesOn
<1>5. ASSUME NEW c \in Batches PROVE Outcome(c)'
  <2>1. b # NoBatch /\ c # NoBatch
    BY <1>2, SettlementAssumption
  <2>2. CASE c # b
    <3>1. Linked(c)' = Linked(c)
      BY <1>3, <2>1, <2>2 DEF Linked, TInv, TypeOK
    <3>2. approved'[c] = approved[c]
      BY <1>3, <2>2 DEF TInv, TypeOK
    <3> QED
      BY <1>1, <1>3, <3>1, <3>2 DEF Outcome
  <2>3. CASE c = b
    <3>1. PICK L, M : L = Linked(b) /\ M = L \ {o}
      OBVIOUS
    <3>2. o \in L /\ IsFiniteSet(L) /\ Cardinality(L) \in Nat
      BY <1>2, <1>3, <3>1, LinkedCount DEF Linked
    <3>3. Cardinality(M) = Cardinality(L) - 1 /\ Cardinality(M) \in Nat
      BY <3>1, <3>2, FS_RemoveElement, FS_CardinalityType
    <3>4. Linked(b)' = M
      BY <1>2, <1>3, <2>1, <3>1 DEF Linked, TInv, TypeOK
    <3>5. PICK k \in Nat : k = Cardinality(L) /\ k > 0 /\ k - 1 = Cardinality(M)
      BY <3>2, <3>3
    <3>6. approved'[b] = LessOne(approved[b])
      BY <1>2, <1>3 DEF TInv, TypeOK
    <3>7. approved[b] = IF batch[b] = "RECEIVED" THEN <<k>> ELSE <<>>
      BY <1>1, <1>2, <3>1, <3>5 DEF Outcome
    <3>8. approved'[b] = IF batch[b] = "RECEIVED" THEN <<k - 1>> ELSE <<>>
      BY <3>5, <3>6, <3>7, OneFewer
    <3> QED
      BY <1>3, <2>3, <3>4, <3>5, <3>8 DEF Outcome
  <2> QED
    BY <2>2, <2>3
<1> QED
  BY <1>0, <1>2, <1>4, <1>5, IdleFacts, SerialNext DEF Alone

LEMMA LedgerSerial ==
    ASSUME TInv, Serial, NEW s \in Sessions, LedgerStep(s)
    PROVE  Serial'
<1>0. PICK r : r = req[s]
  OBVIOUS
<1>1. r \in RequestType /\ Decides(r)
  BY <1>0 DEF TInv, TypeOK, Serial
<1>2. CASE Detach(s)
  BY <1>2, DetachSerial
<1>3. ASSUME UNCHANGED batches, NEW n, Becomes(s, n), r.pc # "idle",
             \/ ~Working(n) /\ n.pc \notin {"receive", "dispute"}
             \/ Working(n) /\ (n.jobs \in DetachPlans => batchOf'[n.o] = n.b)
      PROVE  Serial'
  BY <1>0, <1>3, SameOutcome, SerialNext DEF Alone
<1>4. ASSUME NEW j \in Jobs, Look(s, j) PROVE Serial'
  <2>1. PICK n : /\ Becomes(s, n)
                 /\ \/ Lines(s, j) = Zero /\ GoesOn(req[s], n)
                    \/ Lines(s, j) # Zero /\ n = [req[s] EXCEPT !.pc = "post", !.lines = Lines(s, j)]
    BY <1>4, LookMoves
  <2>2. UNCHANGED batches /\ r.pc = "look"
    BY <1>0, <1>4 DEF Look, Running
  <2>3. (r.jobs \in DetachPlans => batchOf[r.o] = r.b) /\ batchOf' = batchOf
    BY <1>1, <2>2 DEF Decides, Working, batches
  <2>4. CASE GoesOn(r, n)
    BY <1>1, <1>3, <2>1, <2>2, <2>3, <2>4, GoesOnDecides
  <2>5. CASE n = [r EXCEPT !.pc = "post", !.lines = Lines(s, j)]
    <3>1. n.pc = "post" /\ n.jobs = r.jobs /\ n.o = r.o /\ n.b = r.b
      BY <1>1, <2>5 DEF RequestType
    <3> QED
      BY <1>3, <2>1, <2>2, <2>3, <3>1 DEF Working
  <2> QED
    BY <1>0, <2>1, <2>4, <2>5
<1>5. ASSUME NEW j \in Jobs, Unsettle(s, j) PROVE Serial'
  <2>1. PICK n, b : /\ Becomes(s, n) /\ req[s].pc = "look" /\ Undoes(req[s])
                    /\ req[s].o \in Orders /\ b = batchOf[req[s].o]
                    /\ \/ b = NoBatch /\ GoesOn(req[s], n)
                       \/ /\ b # NoBatch
                          /\ \E plan \in LeavingPlans :
                               /\ plan \in WholePlans => AloneOn(b)
                               /\ n = [req[s] EXCEPT !.b = b, !.jobs = plan]
    BY <1>5, UnsettleMoves
  <2>2. UNCHANGED batches /\ r.pc = "look"
    BY <1>0, <1>5 DEF Unsettle, Running
  <2>3. (r.jobs \in DetachPlans => batchOf[r.o] = r.b) /\ batchOf' = batchOf
    BY <1>1, <2>2 DEF Decides, Working, batches
  <2>4. CASE GoesOn(r, n)
    BY <1>1, <1>3, <2>1, <2>2, <2>3, <2>4, GoesOnDecides
  <2>5. ASSUME NEW plan \in LeavingPlans, n = [r EXCEPT !.b = b, !.jobs = plan] PROVE Serial'
    <3>1. n.pc = "look" /\ n.o = r.o /\ n.b = b
      BY <1>1, <2>2, <2>5 DEF RequestType
    <3> QED
      BY <1>0, <1>3, <2>1, <2>2, <2>3, <3>1 DEF Working
  <2> QED
    BY <1>0, <2>1, <2>4, <2>5
<1>6. CASE Post(s)
  <2>1. PICK n, m : /\ Becomes(s, n) /\ req[s].pc = "post"
                    /\ m = [req[s] EXCEPT !.lines = Zero] /\ GoesOn(m, n)
                    /\ Voucher(s, Head(req[s].jobs)) \in Vouchers
    BY <1>6, PostMoves
  <2>2. m \in RequestType /\ m.o = r.o /\ m.b = r.b /\ m.jobs = r.jobs
    BY <1>0, <1>1, <2>1, EmptyJobs DEF RequestType
  <2>3. UNCHANGED batches /\ r.pc = "post"
    BY <1>0, <1>6 DEF Post, batches
  <2>4. (m.jobs \in DetachPlans => batchOf[m.o] = m.b) /\ batchOf' = batchOf
    BY <1>1, <2>2, <2>3 DEF Decides, Working, batches
  <2> QED
    BY <1>3, <2>1, <2>2, <2>3, <2>4, GoesOnDecides
<1>7. CASE PostFails(s)
  <2>1. Becomes(s, Idle) /\ UNCHANGED batches /\ r.pc = "post"
    BY <1>0, <1>7, EndMoves DEF PostFails
  <2> QED
    BY <1>3, <2>1, IdleFacts
<1> QED
  BY <1>2, <1>4, <1>5, <1>6, <1>7 DEF LedgerStep

LEMMA SerialStep ==
    ASSUME TInv, UInv, Next
    PROVE  left'.overlaps <= left.overlaps /\ (Serial /\ left'.overlaps = left.overlaps => Serial')
<1>1. left \in LeftType
  BY DEF TInv, TypeOK, LeftType
<1>2. ASSUME \/ \E o \in Orders : RemitByHand(o) \/ ResolveRetrack(o) \/ Restore(o)
             \/ Heal \/ CloseYear \/ ReopenYear
      PROVE  left'.overlaps = left.overlaps /\ (Serial => Serial')
  <2>1. UNCHANGED <<batches, req>>
    BY <1>2 DEF RemitByHand, ResolveRetrack, Restore, Heal, CloseYear, ReopenYear
  <2>2. left'.overlaps = left.overlaps
    BY <1>1, <1>2 DEF RemitByHand, ResolveRetrack, Restore, Heal, CloseYear, ReopenYear, LeftType
  <2> QED
    BY <2>1, <2>2, SameSerial
<1>3. ASSUME NEW s \in Sessions,
             \/ DeleteCommit(s) \/ CreateFails(s) \/ ReceiveCommit(s) \/ DisputeCommit(s)
             \/ \E b \in Batches : CreateCommit(s, b)
      PROVE  left'.overlaps = left.overlaps /\ (Serial => Serial')
  <2>1. left' = left
    BY <1>3 DEF DeleteCommit, CreateFails, ReceiveCommit, DisputeCommit, CreateCommit
  <2> QED
    BY <1>3, <2>1, CommitsSerial
<1>4. ASSUME NEW s \in Sessions, LedgerStep(s)
      PROVE  left'.overlaps = left.overlaps /\ (Serial => Serial')
  <2>1. left' = left
    BY <1>4 DEF LedgerStep, Look, Unsettle, Post, PostFails, Detach
  <2> QED
    BY <1>4, <2>1, LedgerSerial
<1>5. left.overlaps <= left.overlaps
  BY <1>1 DEF LeftType
<1> QED
  BY <1>2, <1>3, <1>4, <1>5, OpeningsSerial DEF Next

LEMMA InitOInv == Init => OInv
<1> SUFFICES ASSUME Init PROVE OInv
  OBVIOUS
<1>1. left.overlaps = Overlaps /\ Overlaps <= Overlaps
  BY BoundsAssumption DEF Init
<1>2. \A s \in Sessions : req[s] = Idle
  BY DEF Init
<1>3. Serial
  BY <1>2, IdleFacts DEF Init, Serial, OneBusy, Outcome, Decides
<1> QED
  BY <1>1, <1>3 DEF OInv

LEMMA OInvStep == TInv /\ UInv /\ OInv /\ [Next]_vars => OInv'
<1> SUFFICES ASSUME TInv, UInv, OInv, [Next]_vars PROVE OInv'
  OBVIOUS
<1>1. left'.overlaps <= left.overlaps /\ (Serial /\ left'.overlaps = left.overlaps => Serial')
  <2>1. CASE UNCHANGED vars
    <3>1. UNCHANGED <<batches, req, left>> /\ left.overlaps \in Nat
      BY <2>1 DEF vars, TInv, TypeOK
    <3> QED
      BY <3>1, SameSerial
  <2>2. CASE Next
    BY <2>2, SerialStep
  <2> QED
    BY <2>1, <2>2
<1>2. left.overlaps \in Nat /\ left'.overlaps \in Nat /\ Overlaps \in Nat
  <2>1. TInv'
    BY TInvStep
  <2> QED
    BY <2>1, BoundsAssumption DEF TInv, TypeOK
<1>3. left.overlaps <= Overlaps /\ (left.overlaps = Overlaps => Serial)
  BY DEF OInv, Overlapped
<1>4. left'.overlaps <= Overlaps
  BY <1>1, <1>2, <1>3
<1>5. ASSUME left'.overlaps = Overlaps PROVE Serial'
  <2>1. left'.overlaps = left.overlaps /\ left.overlaps = Overlaps
    BY <1>1, <1>2, <1>3, <1>5
  <2> QED
    BY <1>1, <1>3, <2>1
<1> QED
  BY <1>4, <1>5 DEF OInv, Overlapped

\* As long as requests come one at a time, the APPROVED outcome of a received batch counts
\* exactly the orders on it: the count read before the receipt, the orders of a batch
\* received at once, and the reduction by detachOrderFromRemittance.
THEOREM OutcomesCountLinks == Spec => []OutcomeMatchesLinks
<1>1. OInv => OutcomeMatchesLinks
  BY DEF OInv, Serial, Outcome, OutcomeMatchesLinks
<1>2. Spec => []OInv
  BY Invariants, InitOInv, OInvStep, PTL DEF Spec
<1> QED
  BY <1>1, <1>2, PTL
==============================================================================
