--------------------------- MODULE MarketingFunding ---------------------------
(***************************************************************************)
(* The marketing money of marketing.service: fundings, funding requests,   *)
(* transfers between media buyers, and ad spend, in one ledger from which  *)
(* the balance of a user is computed.                                      *)
(*                                                                         *)
(* A write that lowers a balance takes the advisory lock of that user,     *)
(* computes the balance, and writes; the lock is held until the commit.    *)
(* What the write is about (a request, a transfer, a spend) was read       *)
(* before, without a lock, and is written by id.  The rows of a spend      *)
(* carry no campaign and every branch has one.                             *)
(***************************************************************************)
EXTENDS Integers, Sequences, FiniteSets, Functions

CONSTANTS
    Holders,     \* users with a balance
    Company,     \* Admin and Finance: exempt from the balance check
    Direct,      \* source of a funding that answers no request and no transfer
    Sends,       \* pairs of a sender and a receiver that roles allow without a request
    Requests, Peers, Sessions,
    Opening,     \* the ledger in the beginning
    Asks,        \* bound: users who ask for funding
    Offers,      \* bound: pairs of a sender and a receiver of a transfer
    MaxAmount,   \* bound: units of money of a request, a send, an offer or a spend
    MaxRows,     \* bound: rows of the ledger
    MaxSpends    \* bound: rows of ad spend

ASSUME SendsAssumption == Sends \subseteq (Holders \cup {Company}) \X Holders
ASSUME BuyersAssumption ==
    Asks \subseteq Holders /\ Offers \subseteq {o \in Holders \X Holders : o[1] # o[2]}
ASSUME IdsAssumption ==
    /\ Company \notin Holders /\ Direct \notin Requests \cup Peers
    /\ Requests \cap Peers = {}
ASSUME BoundsAssumption == MaxAmount \in Nat /\ MaxRows \in Nat /\ MaxSpends \in Nat

Users == Holders \cup {Company}
Amounts == 1..MaxAmount

RowType == [from : Users, to : Holders, amount : Nat \ {0}, source : Requests \cup Peers \cup {Direct},
            status : {"SENT", "COMPLETED", "DISPUTED", "REVERSED"}]

ASSUME OpeningAssumption ==
    Opening \in Seq(RowType) /\ \A i \in DOMAIN Opening : Opening[i].source = Direct

VARIABLES
    ledger,       \* marketing_funding
    spend,        \* ad_spend_logs
    request,      \* marketing_funding_requests
    peer,         \* mb_fund_transfers
    txn,          \* the transactions in flight
    overwritten,  \* history: owners of a spend that changed between its reading and its writing
    overruled     \* history: requests and transfers decided on a status they no longer had

vars == <<ledger, spend, request, peer, txn, overwritten, overruled>>

Idle == [pc |-> "idle", op |-> "none", of |-> Direct, payer |-> Company, to |-> Company,
         n |-> 0, seen |-> Direct]
None == [status |-> "NONE", from |-> Company, to |-> Company, amount |-> 0]
NoOffer == [status |-> "NONE", from |-> Company, to |-> Company, amount |-> 0, entry |-> 0]

Init ==
    /\ ledger = Opening
    /\ spend = <<>>
    /\ request = [q \in Requests |-> None]
    /\ peer = [p \in Peers |-> NoOffer]
    /\ txn = [s \in Sessions |-> Idle]
    /\ overwritten = {}
    /\ overruled = {}

------------------------------------------------------------------------------
Total(rows, counted) == SumFunctionOnSet([i \in DOMAIN rows |-> rows[i].amount], counted)

Received(rows, u) == {i \in DOMAIN rows : rows[i].to = u /\ rows[i].status = "COMPLETED"}
Given(rows, u) ==
    {i \in DOMAIN rows : rows[i].from = u /\ rows[i].status \in {"SENT", "COMPLETED", "DISPUTED"}}
Spent(rows, u) == {i \in DOMAIN rows : rows[i].by = u /\ rows[i].status \in {"PENDING", "APPROVED"}}

\* Received and confirmed, minus sent and not reversed, minus spent and not rejected.
Funds(rows, u) == Total(rows, Received(rows, u)) - Total(rows, Given(rows, u))
Balance(u) == Funds(ledger, u) - Total(spend, Spent(spend, u))

\* Nobody begins in debt.
ASSUME OpeningCovered == \A u \in Holders : Funds(Opening, u) >= 0

Unguarded(u) == TRUE   \* mutant: no advisory lock
LockFree(u) == \A s \in Sessions : ~(txn[s].pc = "checked" /\ txn[s].payer = u)

\* A reversal holds its row from its first step.
RowFree(i) == \A s \in Sessions : ~(txn[s].op = "reverse" /\ txn[s].of = i)

Rows(source) == {i \in DOMAIN ledger : ledger[i].source = source}

AlwaysUnpaid(q) == TRUE   \* mutant: no unique index
Unpaid(q) == Rows(q) = {}

\* Transactions that will add a row, counted for the bounds.
Pending(ops) == Cardinality({s \in Sessions : txn[s].op \in ops})
RoomInLedger == Len(ledger) + Pending({"send", "approve", "settlePeer"}) < MaxRows
RoomForSpend == Len(spend) + Pending({"spend"}) < MaxSpends

Free(s) == txn[s].pc = "idle"
Records == <<ledger, spend, request, peer, overwritten, overruled>>

Reads(s, op, of, payer, to, n, seen) ==
    /\ Free(s)
    /\ txn' = [txn EXCEPT ![s] = [pc |-> "read", op |-> op, of |-> of, payer |-> payer,
                                  to |-> to, n |-> n, seen |-> seen]]
    /\ UNCHANGED Records

\* A transaction that reads nothing before it takes the lock.
Checks(s, op, payer, to, n) ==
    /\ Free(s) /\ LockFree(payer) /\ Balance(payer) >= n
    /\ txn' = [txn EXCEPT ![s] = [pc |-> "checked", op |-> op, of |-> Direct, payer |-> payer,
                                  to |-> to, n |-> n, seen |-> Direct]]
    /\ UNCHANGED Records

\* What an edit adds to the spend it read.
Delta(t) == t.n - (IF t.seen.status = "REJECTED" THEN 0 ELSE t.seen.amount)

\* What a transaction takes from its payer.
Cost(t) == IF t.op = "editSpend" THEN Delta(t) ELSE t.n
NeedsCheck(t) == t.payer # Company /\ Cost(t) > 0

Ready(s, op) ==
    /\ txn[s].op = op
    /\ txn[s].pc = "checked" \/ (txn[s].pc = "read" /\ ~NeedsCheck(txn[s]))

\* Balance under the lock, for a transaction that has read what it is about.
Check(s) ==
    LET t == txn[s]
    IN /\ t.pc = "read" /\ NeedsCheck(t) /\ LockFree(t.payer)
       /\ txn' = [txn EXCEPT ![s] = IF Balance(t.payer) >= Cost(t) THEN [@ EXCEPT !.pc = "checked"]
                                                                   ELSE Idle]
       /\ UNCHANGED Records

Ends(s) == txn' = [txn EXCEPT ![s] = Idle]

Row(t, status, source) ==
    [from |-> t.payer, to |-> t.to, amount |-> t.n, status |-> status, source |-> source]

------------------------------------------------------------------------------
(***************************************************************************)
(* Fundings: sent, confirmed or disputed by the receiver, reversed.        *)
(***************************************************************************)

CompanySends(v, n) ==
    /\ <<Company, v>> \in Sends /\ RoomInLedger
    /\ ledger' = Append(ledger, Row([Idle EXCEPT !.to = v, !.n = n], "SENT", Direct))
    /\ UNCHANGED <<spend, request, peer, txn, overwritten, overruled>>

Send(s, u, v, n) ==
    /\ u # Company /\ <<u, v>> \in Sends /\ RoomInLedger
    /\ Checks(s, "send", u, v, n)

SendCommit(s) ==
    /\ Ready(s, "send") /\ Ends(s)
    /\ ledger' = Append(ledger, Row(txn[s], "SENT", Direct))
    /\ UNCHANGED <<spend, request, peer, overwritten, overruled>>

VerifyFunding(i, status) ==
    /\ ledger[i].status = "SENT" /\ RowFree(i)
    /\ ledger' = [ledger EXCEPT ![i].status = status]
    /\ UNCHANGED <<spend, request, peer, txn, overwritten, overruled>>

\* Not received yet: the receiver's balance does not count it.
ReverseUnreceived(i) ==
    /\ ledger[i].status \in {"SENT", "DISPUTED"} /\ RowFree(i)
    /\ ledger' = [ledger EXCEPT ![i].status = "REVERSED"]
    /\ UNCHANGED <<spend, request, peer, txn, overwritten, overruled>>

\* A transfer knows the last row that was written for it.
Linked(i) == \E p \in Peers : peer[p].entry = i

ReverseRead(s, i) ==
    LET r == ledger[i]
    IN /\ r.status = "COMPLETED" /\ RowFree(i) /\ ~Linked(i)
       /\ Reads(s, "reverse", i, r.to, r.from, r.amount, Direct)

ReverseCommit(s) ==
    /\ Ready(s, "reverse") /\ Ends(s)
    /\ ledger' = [ledger EXCEPT ![txn[s].of].status = "REVERSED"]
    /\ UNCHANGED <<spend, request, peer, overwritten, overruled>>

------------------------------------------------------------------------------
(***************************************************************************)
(* Requests for funding.                                                   *)
(***************************************************************************)

RequestFunding(q, u, n) ==
    /\ u \in Asks /\ request[q] = None
    /\ request' = [request EXCEPT ![q] = [status |-> "PENDING", from |-> Company, to |-> u, amount |-> n]]
    /\ UNCHANGED <<ledger, spend, peer, txn, overwritten, overruled>>

ApproveRead(s, q, u, n) ==
    LET r == request[q]
    IN /\ r.status = "PENDING" /\ n <= r.amount /\ Unpaid(q)
       /\ u = Company \/ <<u, r.to>> \in Sends
       /\ RoomInLedger
       /\ Reads(s, "approve", q, u, r.to, n, Direct)

\* The unique index on source_funding_request_id makes a second approval fail.
ApproveCommit(s) ==
    LET t == txn[s]
    IN /\ Ready(s, "approve") /\ Ends(s)
       /\ IF Unpaid(t.of)
            THEN /\ request' = [request EXCEPT ![t.of] = [status |-> "APPROVED", from |-> t.payer,
                                                          to |-> t.to, amount |-> t.n]]
                 /\ ledger' = Append(ledger, Row(t, "SENT", t.of))
            ELSE UNCHANGED <<request, ledger>>
       /\ UNCHANGED <<spend, peer, overwritten, overruled>>

RejectRead(s, q) ==
    /\ request[q].status = "PENDING"
    /\ Reads(s, "reject", q, Company, Company, 0, Direct)

RejectCommit(s) ==
    LET q == txn[s].of
    IN /\ Ready(s, "reject") /\ Ends(s)
       /\ request' = [request EXCEPT ![q].status = "REJECTED"]
       /\ overruled' = IF request[q].status = "APPROVED" THEN overruled \cup {q} ELSE overruled
       /\ UNCHANGED <<ledger, spend, peer, overwritten>>

------------------------------------------------------------------------------
(***************************************************************************)
(* Transfers between media buyers: offered, approved, accepted; a receiver *)
(* who approves accepts at once.  No money is put aside before.            *)
(***************************************************************************)

OfferPeer(p, u, v, n) ==
    /\ peer[p] = NoOffer /\ <<u, v>> \in Offers
    /\ LockFree(u) /\ Balance(u) >= n
    /\ peer' = [peer EXCEPT ![p] = [status |-> "PENDING", from |-> u, to |-> v, amount |-> n,
                                    entry |-> 0]]
    /\ UNCHANGED <<ledger, spend, request, txn, overwritten, overruled>>

\* Another one approves, or a party rejects.
PeerDecisionRead(s, p, op) ==
    /\ peer[p].status = "PENDING"
    /\ Reads(s, op, p, Company, Company, 0, Direct)

PeerDecision(s, op, status) ==
    LET p == txn[s].of
    IN /\ Ready(s, op) /\ Ends(s)
       /\ peer' = [peer EXCEPT ![p].status = status]
       /\ overruled' = IF peer[p].status # "PENDING" THEN overruled \cup {p} ELSE overruled
       /\ UNCHANGED <<ledger, spend, request, overwritten>>

PeerApprove(s) == PeerDecision(s, "approvePeer", "APPROVED")
PeerReject(s) == PeerDecision(s, "rejectPeer", "REJECTED")

UnlessRejected == {"PENDING", "APPROVED", "ACCEPTED"}   \* mutant
Acceptable == {"PENDING", "APPROVED"}

\* The receiver approves what is pending, or accepts what is approved.
SettleRead(s, p) ==
    LET r == peer[p]
    IN /\ r.status \in Acceptable /\ RoomInLedger
       /\ Reads(s, "settlePeer", p, r.from, r.to, r.amount, r.status)

SettleCommit(s) ==
    LET t == txn[s]
    IN /\ Ready(s, "settlePeer") /\ Ends(s)
       /\ ledger' = Append(ledger, Row(t, "COMPLETED", t.of))
       /\ peer' = [peer EXCEPT ![t.of].status = "ACCEPTED", ![t.of].entry = Len(ledger) + 1]
       /\ overruled' = IF peer[t.of].status # t.seen THEN overruled \cup {t.of} ELSE overruled
       /\ UNCHANGED <<spend, request, overwritten>>

------------------------------------------------------------------------------
(***************************************************************************)
(* Ad spend.  An edit sends a decided row back to PENDING.                 *)
(***************************************************************************)

LogSpend(s, u, n) == RoomForSpend /\ Checks(s, "spend", u, Company, n)

LogCommit(s) ==
    /\ Ready(s, "spend") /\ Ends(s)
    /\ spend' = Append(spend, [by |-> txn[s].payer, amount |-> txn[s].n, status |-> "PENDING"])
    /\ UNCHANGED <<ledger, request, peer, overwritten, overruled>>

SpendDecisionRead(s, i, op) ==
    /\ spend[i].status = "PENDING"
    /\ Reads(s, op, i, Company, Company, 0, Direct)

SpendApprove(s) ==
    LET i == txn[s].of
    IN /\ Ready(s, "approveSpend") /\ Ends(s)
       /\ spend' = [spend EXCEPT ![i].status = "APPROVED"]
       /\ overwritten' = IF spend[i].status = "REJECTED" THEN overwritten \cup {spend[i].by}
                                                         ELSE overwritten
       /\ UNCHANGED <<ledger, request, peer, overruled>>

SpendReject(s) ==
    /\ Ready(s, "rejectSpend") /\ Ends(s)
    /\ spend' = [spend EXCEPT ![txn[s].of].status = "REJECTED"]
    /\ UNCHANGED <<ledger, request, peer, overwritten, overruled>>

EditRead(s, i, n) == Reads(s, "editSpend", i, spend[i].by, Company, n, spend[i])

Edited(t) == t.n

EditCommit(s) ==
    LET t == txn[s]
        row == spend[t.of]
    IN /\ Ready(s, "editSpend") /\ Ends(s)
       /\ spend' = [spend EXCEPT ![t.of] =
                      [by |-> row.by, amount |-> Edited(t),
                       status |-> IF t.seen.status = "PENDING" THEN row.status ELSE "PENDING"]]
       /\ overwritten' = IF row # t.seen THEN overwritten \cup {row.by} ELSE overwritten
       /\ UNCHANGED <<ledger, request, peer, overruled>>

------------------------------------------------------------------------------
Next ==
    \/ \E v \in Holders, n \in Amounts :
         \/ CompanySends(v, n)
         \/ \E q \in Requests : RequestFunding(q, v, n)
         \/ \E p \in Peers, u \in Holders : OfferPeer(p, u, v, n)
    \/ \E i \in DOMAIN ledger :
         \/ \E status \in {"COMPLETED", "DISPUTED"} : VerifyFunding(i, status)
         \/ ReverseUnreceived(i)
    \/ \E s \in Sessions :
         \/ Check(s)
         \/ \E u, v \in Holders, n \in Amounts : Send(s, u, v, n)
         \/ \E i \in DOMAIN ledger : ReverseRead(s, i)
         \/ \E q \in Requests :
              \/ RejectRead(s, q)
              \/ \E u \in Users, n \in Amounts : ApproveRead(s, q, u, n)
         \/ \E p \in Peers :
              \/ SettleRead(s, p)
              \/ \E op \in {"approvePeer", "rejectPeer"} : PeerDecisionRead(s, p, op)
         \/ \E u \in Holders, n \in Amounts : LogSpend(s, u, n)
         \/ \E i \in DOMAIN spend :
              \/ \E n \in Amounts : EditRead(s, i, n)
              \/ \E op \in {"approveSpend", "rejectSpend"} : SpendDecisionRead(s, i, op)
         \/ SendCommit(s) \/ ReverseCommit(s) \/ ApproveCommit(s) \/ RejectCommit(s)
         \/ PeerApprove(s) \/ PeerReject(s) \/ SettleCommit(s)
         \/ LogCommit(s) \/ SpendApprove(s) \/ SpendReject(s) \/ EditCommit(s)

Spec == Init /\ [][Next]_vars

------------------------------------------------------------------------------
SpendType == [by : Holders, amount : Amounts, status : {"PENDING", "APPROVED", "REJECTED"}]
RequestType == [status : {"NONE", "PENDING", "APPROVED", "REJECTED"},
                from : Users, to : Users, amount : 0..MaxAmount]
TransferType == [status : {"NONE", "PENDING", "APPROVED", "REJECTED", "ACCEPTED"},
                 from : Users, to : Users, amount : 0..MaxAmount, entry : Nat]

\* Types.
TypeOK ==
    /\ ledger \in Seq(RowType)
    /\ spend \in Seq(SpendType)
    /\ request \in [Requests -> RequestType]
    /\ peer \in [Peers -> TransferType]
    /\ \A s \in Sessions : txn[s].pc \in {"idle", "read", "checked"} /\ txn[s].n \in Nat
    /\ overwritten \subseteq Holders
    /\ overruled \subseteq Requests \cup Peers

\* Whatever sends, requests, transfers, reversals and spends overlap, nobody's balance
\* falls below zero, except by a decision or an edit that wrote over a spend which had
\* changed since it was read.
NoOverdraft == \A u \in Holders \ overwritten : Balance(u) >= 0

\* A request is paid exactly once when it is approved, by however many approvers at a
\* time, and never else; a rejection that comes late does not take the payment back.
RequestPaidOnce ==
    \A q \in Requests :
        Cardinality(Rows(q)) =
            IF request[q].status = "APPROVED" \/ q \in overruled THEN 1 ELSE 0

\* A transfer between media buyers moves its money once, when it is accepted, unless
\* somebody decided on a status it no longer had.
PeerPaidOnAcceptance ==
    \A p \in Peers \ overruled :
        Cardinality(Rows(p)) = IF peer[p].status = "ACCEPTED" THEN 1 ELSE 0
==============================================================================
