------------------------------ MODULE Settlement ------------------------------
(***************************************************************************)
(* The money of delivered orders: remittance batches of logistics.service  *)
(* and the vouchers of general-ledger.service that follow them.            *)
(*                                                                         *)
(* A delivery posts a sale, the receipt of a batch posts one payment for   *)
(* all its orders, a retrack or a deletion posts reversals.  The status of *)
(* an order commits first; each posting is a transaction of its own, which *)
(* looks for earlier entries without a lock, then writes under the lock of *)
(* the fiscal year.  A posting that fails is reported and never retried.   *)
(***************************************************************************)
EXTENDS Integers, Sequences, FiniteSets, Functions

CONSTANTS
    Orders, Batches, Sessions,
    NoOrder, NoBatch,
    Undoings,    \* bound: retracks and deletions
    Overlaps,    \* bound: requests that begin while another one is in flight
    YearEnds     \* bound: times the fiscal year is closed

ASSUME SettlementAssumption == NoOrder \notin Orders /\ NoBatch \notin Batches
ASSUME FinitenessAssumption == IsFiniteSet(Orders) /\ IsFiniteSet(Batches)
ASSUME BoundsAssumption == Undoings \in Nat /\ Overlaps \in Nat /\ YearEnds \in Nat

VARIABLES
    order,       \* orders: status, and whether a retrack hold is open
    batchOf,     \* delivery_remittance_orders: one row per order at most
    batch,       \* delivery_remittances.status
    approved,    \* order_count of the APPROVED rows of delivery_remittance_outcomes
    disputed,    \* number of its DISPUTED rows
    gl,          \* per voucher: is there a gl_entries row, and the debits on Debtors
    yearOpen,    \* the fiscal year is OPEN
    alerted,     \* orders named in an alert or an error about a failed posting
    req,         \* the requests in flight
    touched,     \* history: orders retracked from DELIVERED or REMITTED, or deleted
    left         \* what is left of the bounds

books == <<gl, alerted>>
batches == <<batchOf, batch, approved, disputed>>
vars == <<order, batches, books, yearOpen, req, touched, left>>

\* IN_TRANSIT stands for every status before the delivery.
Statuses == {"IN_TRANSIT", "DELIVERED", "REMITTED", "DELETED"}

Vouchers == ({"SALES_INVOICE", "JOURNAL_ENTRY"} \X Orders) \cup ({"PAYMENT"} \X Batches)

\* Debits on Debtors by order; every order costs one unit.
Zero == [p \in Orders |-> 0]
One(o) == [Zero EXCEPT ![o] = 1]

Idle == [pc |-> "idle", o |-> NoOrder, b |-> NoBatch, orders |-> {}, now |-> FALSE,
         n |-> 0, jobs |-> <<>>, lines |-> Zero]

Init ==
    /\ order = [o \in Orders |-> [status |-> "IN_TRANSIT", hold |-> FALSE]]
    /\ batchOf = [o \in Orders |-> NoBatch]
    /\ batch = [b \in Batches |-> "NONE"]
    /\ approved = [b \in Batches |-> <<>>]
    /\ disputed = [b \in Batches |-> 0]
    /\ gl = [v \in Vouchers |-> [posted |-> FALSE, debit |-> Zero]]
    /\ yearOpen = TRUE
    /\ alerted = {}
    /\ req = [s \in Sessions |-> Idle]
    /\ touched = {}
    /\ left = [undoings |-> Undoings, overlaps |-> Overlaps, yearEnds |-> YearEnds]

Linked(b) == {o \in Orders : batchOf[o] = b}

\* A request of an idle session begins; u is 1 if it undoes something, else 0.
Starts(s, r, u) ==
    LET v == IF \A z \in Sessions : req[z].pc = "idle" THEN 0 ELSE 1
    IN /\ req[s].pc = "idle"
       /\ req' = [req EXCEPT ![s] = r]
       /\ u <= left.undoings /\ v <= left.overlaps
       /\ left' = [left EXCEPT !.undoings = @ - u, !.overlaps = @ - v]

\* Two requests have been in flight at the same time.
Overlapped == left.overlaps # Overlaps

\* What is left of a request: the ledger jobs, or nothing.
WithJobs(r, jobs) == IF jobs = <<>> THEN Idle ELSE [r EXCEPT !.pc = "look", !.jobs = jobs]

------------------------------------------------------------------------------
(***************************************************************************)
(* Orders.  The compare-and-set of transition makes reading the status and *)
(* writing it one step; OrderFulfilment has the stock and the gates.       *)
(***************************************************************************)

Deliver(s, o) ==
    /\ order[o].status = "IN_TRANSIT" /\ ~order[o].hold
    /\ order' = [order EXCEPT ![o].status = "DELIVERED"]
    /\ Starts(s, WithJobs([Idle EXCEPT !.o = o], <<"postSale">>), 0)
    /\ UNCHANGED <<batches, books, yearOpen, touched>>

\* DELIVERED -> REMITTED by hand, by finance only: no batch, no side effect.
RemitByHand(o) ==
    /\ order[o].status = "DELIVERED"
    /\ order' = [order EXCEPT ![o].status = "REMITTED"]
    /\ UNCHANGED <<batches, books, yearOpen, req, touched, left>>

\* A retrack undoes the settlement when it leaves REMITTED, the sale when it
\* leaves DELIVERED.
Retrack(s, o, to, hold) ==
    LET from == order[o].status
    IN /\ <<from, to>> \in {<<"REMITTED", "DELIVERED">>, <<"DELIVERED", "IN_TRANSIT">>}
       /\ order' = [order EXCEPT ![o] = [status |-> to, hold |-> @.hold \/ hold]]
       /\ touched' = touched \cup {o}
       /\ Starts(s, WithJobs([Idle EXCEPT !.o = o],
                             IF from = "REMITTED" THEN <<"unremit">> ELSE <<"reverseSale">>), 1)
       /\ UNCHANGED <<batches, books, yearOpen>>

ResolveRetrack(o) ==
    /\ order[o].hold /\ order[o].status # "DELETED"
    /\ order' = [order EXCEPT ![o].hold = FALSE]
    /\ UNCHANGED <<batches, books, yearOpen, req, touched, left>>

\* softDeleteDeliveredOrder: reads the status, then writes DELETED by id.
DeleteRead(s, o) ==
    /\ order[o].status \in {"DELIVERED", "REMITTED"}
    /\ Starts(s, [Idle EXCEPT !.pc = "delete", !.o = o], 1)
    /\ UNCHANGED <<order, batches, books, yearOpen, touched>>

DeleteCommit(s) ==
    /\ req[s].pc = "delete"
    /\ order' = [order EXCEPT ![req[s].o].status = "DELETED"]
    /\ touched' = touched \cup {req[s].o}
    /\ req' = [req EXCEPT ![s] = WithJobs(@, <<"undeliver", "reverseSale">>)]
    /\ UNCHANGED <<batches, books, yearOpen, left>>

\* DELETED -> UNPROCESSED, and on.
Restore(o) ==
    /\ order[o].status = "DELETED"
    /\ order' = [order EXCEPT ![o].status = "IN_TRANSIT"]
    /\ UNCHANGED <<batches, books, yearOpen, req, touched, left>>

------------------------------------------------------------------------------
(***************************************************************************)
(* Remittance batches.                                                     *)
(***************************************************************************)

\* The cascade of a receipt: one UPDATE that skips what is remitted, deleted or
\* under a retrack hold, and nothing else.
CascadeHeld(S) ==   \* mutant
    [o \in Orders |-> IF o \in S /\ order[o].status \notin {"REMITTED", "DELETED"}
                                 /\ order[o].hold
                        THEN [order[o] EXCEPT !.status = "REMITTED"] ELSE order[o]]
Cascade(S) ==
    [o \in Orders |-> IF o \in S /\ order[o].status \notin {"REMITTED", "DELETED"}
                                 /\ ~order[o].hold
                        THEN [order[o] EXCEPT !.status = "REMITTED"] ELSE order[o]]

\* createDeliveryRemittance: every order must be DELIVERED when it is read ...
Unused == {b \in Batches : batch[b] = "NONE"}

CreateRead(s, S, now) ==
    /\ S # {} /\ \A o \in S : order[o].status = "DELIVERED"
    /\ Unused # {}
    /\ Starts(s, [Idle EXCEPT !.pc = "create", !.orders = S, !.now = now], 0)
    /\ UNCHANGED <<order, batches, books, yearOpen, touched>>

\* ... and on no batch when the rows are inserted (UNIQUE order_id).  An order without
\* a total makes the call fail as well.
CreateFails(s) ==
    /\ req[s].pc = "create"
    /\ req' = [req EXCEPT ![s] = Idle]
    /\ UNCHANGED <<order, batches, books, yearOpen, touched, left>>

CreateCommit(s, b) ==
    LET S == req[s].orders
        now == req[s].now
    IN /\ req[s].pc = "create" /\ b \in Unused
       /\ \A o \in S : batchOf[o] = NoBatch
       /\ batchOf' = [o \in Orders |-> IF o \in S THEN b ELSE batchOf[o]]
       /\ batch' = [batch EXCEPT ![b] = IF now THEN "RECEIVED" ELSE "SENT"]
       /\ approved' = IF now THEN [approved EXCEPT ![b] = Append(@, Cardinality(S))]
                             ELSE approved
       /\ order' = IF now THEN Cascade(S) ELSE order
       /\ req' = [req EXCEPT ![s] = WithJobs([@ EXCEPT !.b = b],
                                                IF now THEN <<"postPayment">> ELSE <<>>)]
       /\ UNCHANGED <<disputed, books, yearOpen, touched, left>>

\* markDeliveryRemittanceReceived and disputeDeliveryRemittance: each reads SENT and
\* the number of orders without a lock ...
DecideRead(s, b, decision) ==
    /\ batch[b] = "SENT"
    /\ Starts(s, [Idle EXCEPT !.pc = decision, !.b = b, !.n = Cardinality(Linked(b))], 0)
    /\ UNCHANGED <<order, batches, books, yearOpen, touched>>

\* ... and writes its decision by id.
ReceiveCommit(s) ==
    LET b == req[s].b
    IN /\ req[s].pc = "receive"
       /\ batch' = [batch EXCEPT ![b] = "RECEIVED"]
       /\ approved' = [approved EXCEPT ![b] = Append(@, req[s].n)]
       /\ order' = Cascade(Linked(b))
       /\ req' = [req EXCEPT ![s] = WithJobs(@, <<"postPayment">>)]
       /\ UNCHANGED <<batchOf, disputed, books, yearOpen, touched, left>>

DisputeCommit(s) ==
    LET b == req[s].b
    IN /\ req[s].pc = "dispute"
       /\ batch' = [batch EXCEPT ![b] = "DISPUTED"]
       /\ disputed' = [disputed EXCEPT ![b] = @ + 1]
       /\ req' = [req EXCEPT ![s] = Idle]
       /\ UNCHANGED <<order, batchOf, approved, books, yearOpen, touched, left>>

\* healReceivedBatchRemittedDrift, some time after the API has started.
Heal ==
    /\ order' = Cascade({o \in Orders : batchOf[o] # NoBatch /\ batch[batchOf[o]] = "RECEIVED"})
    /\ order' # order
    /\ UNCHANGED <<batches, books, yearOpen, req, touched, left>>

------------------------------------------------------------------------------
(***************************************************************************)
(* Ledger jobs of a request, one after the other.                          *)
(***************************************************************************)

Running(s, j) == req[s].pc = "look" /\ Head(req[s].jobs) = j

Voucher(s, j) ==
    CASE j \in {"postSale", "reverseSale"} -> <<"SALES_INVOICE", req[s].o>>
      [] j = "reverseSlice" -> <<"JOURNAL_ENTRY", req[s].o>>
      [] OTHER -> <<"PAYMENT", req[s].b>>

Reversals == {"reverseSale", "reversePayment"}
Postings == {"postSale", "postPayment", "reverseSlice"}

\* What a job writes: the lines of a voucher without entries, or whatever brings a
\* voucher with entries back to zero.
Lines(s, j) ==
    IF j \in Reversals THEN [p \in Orders |-> -gl[Voucher(s, j)].debit[p]]
    ELSE IF gl[Voucher(s, j)].posted THEN Zero
    ELSE IF j = "postPayment" THEN [p \in Orders |-> IF batchOf[p] = req[s].b THEN -1 ELSE 0]
    ELSE One(req[s].o)

Next1(r) == WithJobs(r, Tail(r.jobs))

\* The reads of a posting transaction: nothing to do, or lines to write.
Look(s, j) ==
    /\ Running(s, j) /\ j \in Reversals \cup Postings
    /\ req' = [req EXCEPT ![s] = IF Lines(s, j) = Zero THEN Next1(@)
                                 ELSE [@ EXCEPT !.pc = "post", !.lines = Lines(s, j)]]
    /\ UNCHANGED <<order, batches, books, yearOpen, touched, left>>

\* postVoucher: under the lock of the fiscal year.
Post(s) ==
    LET v == Voucher(s, Head(req[s].jobs))
    IN /\ req[s].pc = "post" /\ yearOpen
       /\ gl' = [gl EXCEPT ![v] = [posted |-> TRUE,
                     debit |-> [p \in Orders |-> @.debit[p] + req[s].lines[p]]]]
       /\ req' = [req EXCEPT ![s] = Next1([@ EXCEPT !.lines = Zero])]
       /\ UNCHANGED <<order, batches, yearOpen, alerted, touched, left>>

\* The year is closed: the caller reports the failure and gives up the other jobs.
PostFails(s) ==
    /\ req[s].pc = "post" /\ ~yearOpen
    /\ alerted' = alerted \cup {p \in Orders : p = req[s].o \/ req[s].lines[p] # 0}
    /\ req' = [req EXCEPT ![s] = Idle]
    /\ UNCHANGED <<order, batches, gl, yearOpen, touched, left>>

\* An order leaves a settled batch: the payment is reversed as a whole when the
\* order is alone on the batch, else its slice of it.
AlwaysWhole(b) == TRUE   \* mutant
AloneOn(b) == Cardinality(Linked(b)) = 1

Unsettle(s, j) ==
    LET b == batchOf[req[s].o]
        undo == (IF AloneOn(b) THEN <<"reversePayment">> ELSE <<"reverseSlice">>)
                  \o (IF j = "unremit" THEN <<"detach">> ELSE <<>>)
    IN /\ Running(s, j) /\ j \in {"unremit", "undeliver"}
       /\ req' = [req EXCEPT ![s] =
                    IF b = NoBatch THEN Next1(@)
                    ELSE [@ EXCEPT !.b = b, !.jobs = undo \o Tail(req[s].jobs)]]
       /\ UNCHANGED <<order, batches, books, yearOpen, touched, left>>

\* Detach and reduce the outcome, in one transaction.
KeepCount(counts) == counts   \* mutant
MinusOne(counts) == [i \in DOMAIN counts |-> counts[i] - 1]   \* mutant: no GREATEST(0, ...)
LessOne(counts) == [i \in DOMAIN counts |-> IF counts[i] > 0 THEN counts[i] - 1 ELSE 0]

Detach(s) ==
    LET o == req[s].o
        b == req[s].b
    IN /\ Running(s, "detach")
       /\ batchOf' = [batchOf EXCEPT ![o] = IF @ = b THEN NoBatch ELSE @]
       /\ approved' = [approved EXCEPT ![b] = LessOne(@)]
       /\ req' = [req EXCEPT ![s] = Next1(@)]
       /\ UNCHANGED <<order, batch, disputed, books, yearOpen, touched, left>>

\* closeFiscalYear and reopenFiscalYear, between two postings.
CloseYear ==
    /\ yearOpen /\ left.yearEnds > 0
    /\ yearOpen' = FALSE
    /\ left' = [left EXCEPT !.yearEnds = @ - 1]
    /\ UNCHANGED <<order, batches, books, req, touched>>

ReopenYear ==
    /\ ~yearOpen
    /\ yearOpen' = TRUE
    /\ UNCHANGED <<order, batches, books, req, touched, left>>

------------------------------------------------------------------------------
Jobs == Reversals \cup Postings \cup {"unremit", "undeliver", "detach"}

LedgerStep(s) ==
    \/ \E j \in Jobs : Look(s, j) \/ Unsettle(s, j)
    \/ Post(s) \/ PostFails(s) \/ Detach(s)

Next ==
    \/ \E s \in Sessions, o \in Orders :
         \/ Deliver(s, o) \/ DeleteRead(s, o)
         \/ \E to \in Statuses, hold \in BOOLEAN : Retrack(s, o, to, hold)
    \/ \E o \in Orders : RemitByHand(o) \/ ResolveRetrack(o) \/ Restore(o)
    \/ \E s \in Sessions :
         \/ DeleteCommit(s) \/ CreateFails(s)
         \/ ReceiveCommit(s) \/ DisputeCommit(s) \/ LedgerStep(s)
         \/ \E S \in SUBSET Orders, now \in BOOLEAN : CreateRead(s, S, now)
         \/ \E b \in Batches :
              \/ CreateCommit(s, b)
              \/ \E d \in {"receive", "dispute"} : DecideRead(s, b, d)
    \/ Heal
    \/ CloseYear \/ ReopenYear

Spec == Init /\ [][Next]_vars

------------------------------------------------------------------------------
RequestType ==
    [pc : {"idle", "delete", "create", "receive", "dispute", "look", "post"},
     o : Orders \cup {NoOrder}, b : Batches \cup {NoBatch}, orders : SUBSET Orders,
     now : BOOLEAN, n : Nat, jobs : Seq(Jobs), lines : [Orders -> Int]]

\* Types.
TypeOK ==
    /\ order \in [Orders -> [status : Statuses, hold : BOOLEAN]]
    /\ batchOf \in [Orders -> Batches \cup {NoBatch}]
    /\ batch \in [Batches -> {"NONE", "SENT", "RECEIVED", "DISPUTED"}]
    /\ approved \in [Batches -> Seq(Nat)]
    /\ disputed \in [Batches -> Nat]
    /\ gl \in [Vouchers -> [posted : BOOLEAN, debit : [Orders -> Int]]]
    /\ yearOpen \in BOOLEAN
    /\ alerted \subseteq Orders
    /\ req \in [Sessions -> RequestType]
    /\ touched \subseteq Orders
    /\ left \in [undoings : Nat, overlaps : Nat, yearEnds : Nat]

Settled == \A s \in Sessions : req[s].pc = "idle"
Receivable(o) == SumFunctionOnSet([v \in Vouchers |-> gl[v].debit[o]], Vouchers)
ReceivedOnce(o) == batchOf[o] # NoBatch /\ approved[batchOf[o]] # <<>>

\* Between requests the customer of an order that was never retracked or deleted owes
\* its price from the delivery to the receipt of its batch, and nothing before or
\* after: whatever happens to the other orders of the batch, through whichever
\* interleaving, the reversals leave its part of the payment alone.  Excepted are
\* orders whose posting failed, with an alert, and batches received twice.
UntouchedBooks ==
    Settled => \A o \in Orders \ (touched \cup alerted) :
        (ReceivedOnce(o) => Len(approved[batchOf[o]]) = 1) =>
            (Receivable(o) = 1 <=> order[o].status # "IN_TRANSIT" /\ ~ReceivedOnce(o))
              /\ Receivable(o) \in {0, 1}

\* The cascade of a receipt reaches every order of the batch that nobody has touched,
\* and nothing takes it back.
ReceiptRemitsAll ==
    \A o \in Orders \ touched : ReceivedOnce(o) => order[o].status = "REMITTED"

\* As long as requests come one at a time, the outcome of a received batch counts
\* exactly the orders that are still on it.
OutcomeMatchesLinks ==
    Settled /\ ~Overlapped =>
        \A b \in Batches : approved[b] # <<>> => approved[b] = <<Cardinality(Linked(b))>>

\* Between requests, with the books always open and one request at a time, every
\* delivered order has its sale on the books.
SaleOnBooks ==
    Settled /\ ~Overlapped =>
        \A o \in Orders \ alerted :
            order[o].status = "DELIVERED" => gl[<<"SALES_INVOICE", o>>].debit[o] = 1
==============================================================================
