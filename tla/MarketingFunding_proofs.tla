----------------------- MODULE MarketingFunding_proofs -----------------------
(***************************************************************************)
(* A request for funding is paid exactly once, a transfer between media    *)
(* buyers once, and nobody overdraws, for any number of users, rows and    *)
(* transactions in flight.                                                 *)
(*                                                                         *)
(* The first invariant ties the status of a request or a transfer to the   *)
(* rows of the ledger that name it as their source, and says of a          *)
(* transaction in flight what it is about.  The second, over it, says what *)
(* the holder of a payer's lock has checked of the balance.                *)
(***************************************************************************)
EXTENDS MarketingFunding, Sums, TLAPS

Ops == {"none", "send", "approve", "reject", "approvePeer", "rejectPeer", "settlePeer",
        "reverse", "spend", "editSpend", "approveSpend", "rejectSpend"}

TxnType ==
    [pc : {"idle", "read", "checked"}, op : Ops,
     of : Requests \cup Peers \cup {Direct} \cup Nat, payer : Users, to : Users, n : Nat,
     seen : {Direct} \cup Acceptable \cup SpendType]

\* What a transaction is about.
Means(t) ==
    /\ t.op \in {"send", "approve", "settlePeer"} => t.to \in Holders /\ t.n \in Amounts
    /\ t.op \in {"approve", "reject"} => t.of \in Requests /\ request[t.of].status # "NONE"
    /\ t.op \in {"approvePeer", "rejectPeer", "settlePeer"} =>
         t.of \in Peers /\ peer[t.of].status # "NONE"
    /\ t.op = "settlePeer" => t.seen \in Acceptable
    /\ t.op = "reverse" => t.of \in DOMAIN ledger
    /\ t.op \in {"editSpend", "approveSpend", "rejectSpend"} => t.of \in DOMAIN spend
    /\ t.op = "editSpend" => t.n \in Amounts
    /\ t.op = "spend" => t.payer \in Holders /\ t.n \in Amounts

TxnsMean == txn \in [Sessions -> TxnType] /\ \A s \in Sessions : Means(txn[s])

\* A request or a transfer that exists names its users and its amount.
PapersNamed ==
    /\ \A q \in Requests : request[q].status # "NONE" => request[q].to \in Holders
    /\ \A p \in Peers :
         peer[p].status # "NONE" =>
            peer[p].from \in Holders /\ peer[p].to \in Holders /\ peer[p].amount \in Amounts

PaidOnce(x) == \E i \in DOMAIN ledger : Rows(x) = {i}

RequestsPaid ==
    \A q \in Requests :
        /\ request[q].status = "APPROVED" \/ q \in overruled => PaidOnce(q)
        /\ ~(request[q].status = "APPROVED" \/ q \in overruled) => Rows(q) = {}

PeersPaid ==
    \A p \in Peers \ overruled :
        /\ peer[p].status = "ACCEPTED" => PaidOnce(p)
        /\ peer[p].status # "ACCEPTED" => Rows(p) = {}

MInv == TypeOK /\ TxnsMean /\ PapersNamed /\ RequestsPaid /\ PeersPaid

\* Nothing that a transaction may be about goes away.
NothingGone ==
    /\ DOMAIN ledger \subseteq DOMAIN ledger' /\ DOMAIN spend \subseteq DOMAIN spend'
    /\ \A q \in Requests : request[q].status # "NONE" => request'[q].status # "NONE"
    /\ \A p \in Peers : peer[p].status # "NONE" => peer'[p].status # "NONE"

USE DEF Users, Acceptable

------------------------------------------------------------------------------
\* A new row adds itself to the rows of its source, and nothing to the others.
LEMMA RowsAppend ==
    ASSUME ledger \in Seq(RowType), NEW row \in RowType, ledger' = Append(ledger, row)
    PROVE  /\ ledger' \in Seq(RowType)
           /\ DOMAIN ledger \subseteq DOMAIN ledger'
           /\ Rows(row.source)' = Rows(row.source) \cup {Len(ledger) + 1}
           /\ Len(ledger) + 1 \in DOMAIN ledger'
           /\ \A x : x # row.source => Rows(x)' = Rows(x)
  <1>1. /\ ledger' \in Seq(RowType) /\ DOMAIN ledger = 1..Len(ledger)
        /\ DOMAIN ledger' = 1..(Len(ledger) + 1) /\ Len(ledger) \in Nat
    OBVIOUS
  <1>2. \A i \in DOMAIN ledger : ledger'[i] = ledger[i]
    OBVIOUS
  <1>3. ledger'[Len(ledger) + 1] = row
    OBVIOUS
  <1> QED
    BY <1>1, <1>2, <1>3 DEF Rows

\* A change of status leaves the rows of every source alone.
LEMMA RowsStatus ==
    ASSUME ledger \in Seq(RowType), NEW i \in DOMAIN ledger,
           NEW status \in {"SENT", "COMPLETED", "DISPUTED", "REVERSED"},
           ledger' = [ledger EXCEPT ![i].status = status]
    PROVE  /\ ledger' \in Seq(RowType) /\ DOMAIN ledger' = DOMAIN ledger
           /\ \A x : Rows(x)' = Rows(x)
  <1>1. ledger[i] \in RowType
    OBVIOUS
  <1>2. [ledger[i] EXCEPT !.status = status] \in RowType
    BY <1>1 DEF RowType
  <1>3. ledger' = [ledger EXCEPT ![i] = [ledger[i] EXCEPT !.status = status]]
    OBVIOUS
  <1>4. ledger' \in Seq(RowType) /\ DOMAIN ledger' = DOMAIN ledger
    BY <1>2, <1>3
  <1>5. \A j \in DOMAIN ledger : ledger'[j].source = ledger[j].source
    BY <1>1, <1>3 DEF RowType
  <1> QED
    BY <1>4, <1>5 DEF Rows

\* The papers and the rows are what they were.
LEMMA PaidKept ==
    ASSUME MInv, DOMAIN ledger \subseteq DOMAIN ledger', UNCHANGED <<request, peer, overruled>>,
           \A x \in Requests \cup Peers : Rows(x)' = Rows(x)
    PROVE  PapersNamed' /\ RequestsPaid' /\ PeersPaid'
  BY DEF MInv, PapersNamed, RequestsPaid, PeersPaid, PaidOnce

\* A transaction goes on or ends while the ledger and the spends only grow.
LEMMA TxnKept ==
    ASSUME MInv, NEW s \in Sessions, NEW t \in TxnType,
           txn' = [txn EXCEPT ![s] = t], Means(t), NothingGone
    PROVE  TxnsMean'
  <1>1. txn' \in [Sessions -> TxnType]
    BY DEF MInv, TxnsMean
  <1>2. \A z \in Sessions : Means(txn'[z])
    BY DEF MInv, TxnsMean
  <1>3. \A u : Means(u) => Means(u)'
    BY DEF Means, NothingGone
  <1> QED
    BY <1>1, <1>2, <1>3 DEF TxnsMean

\* No transaction moves.
LEMMA TxnSame ==
    ASSUME MInv, txn' = txn, NothingGone
    PROVE  TxnsMean'
  BY DEF MInv, TxnsMean, Means, NothingGone

\* An idle transaction means nothing.
LEMMA IdleMeans == Idle \in TxnType /\ Means(Idle)
  BY DEF Idle, TxnType, Ops, Means

\* A step that only moves a transaction keeps the invariant.
LEMMA TxnStep ==
    ASSUME MInv, NEW s \in Sessions, NEW t \in TxnType,
           txn' = [txn EXCEPT ![s] = t], Means(t), UNCHANGED Records
    PROVE  MInv'
  <1>1. UNCHANGED <<ledger, spend, request, peer, overwritten, overruled>>
    BY DEF Records
  <1>2. TxnsMean'
    BY <1>1, TxnKept DEF NothingGone
  <1>3. PapersNamed' /\ RequestsPaid' /\ PeersPaid'
    BY <1>1 DEF MInv, PapersNamed, RequestsPaid, PeersPaid, PaidOnce, Rows
  <1>4. TypeOK'
    <2>1. \A z \in Sessions : txn'[z].pc \in {"idle", "read", "checked"} /\ txn'[z].n \in Nat
      BY <1>2 DEF TxnsMean, TxnType
    <2> QED
      BY <1>1, <2>1 DEF MInv, TypeOK
  <1> QED
    BY <1>2, <1>3, <1>4 DEF MInv

------------------------------------------------------------------------------
\* The transactions that read, check or give up.
LEMMA ReadingStep ==
    ASSUME MInv, NEW s \in Sessions, NEW op \in Ops,
           NEW of \in Requests \cup Peers \cup {Direct} \cup Nat,
           NEW payer \in Users, NEW to \in Users, NEW n \in Nat,
           NEW seen \in {Direct} \cup Acceptable \cup SpendType,
           Reads(s, op, of, payer, to, n, seen),
           Means([pc |-> "read", op |-> op, of |-> of, payer |-> payer, to |-> to, n |-> n,
                  seen |-> seen])
    PROVE  MInv'
  <1> DEFINE t == [pc |-> "read", op |-> op, of |-> of, payer |-> payer, to |-> to, n |-> n,
                   seen |-> seen]
  <1>1. t \in TxnType
    BY DEF TxnType
  <1>2. txn' = [txn EXCEPT ![s] = t] /\ UNCHANGED Records
    BY DEF Reads
  <1> HIDE DEF t
  <1>3. Means(t)
    BY DEF t
  <1> QED
    BY <1>1, <1>2, <1>3, TxnStep

LEMMA CheckingStep ==
    ASSUME MInv, NEW s \in Sessions, NEW op \in {"send", "spend"},
           NEW payer \in Holders, NEW to \in Users, NEW n \in Amounts,
           op = "send" => to \in Holders, Checks(s, op, payer, to, n)
    PROVE  MInv'
  <1> DEFINE t == [pc |-> "checked", op |-> op, of |-> Direct, payer |-> payer, to |-> to,
                   n |-> n, seen |-> Direct]
  <1>1. t \in TxnType
    BY BoundsAssumption DEF TxnType, Ops, Amounts
  <1>2. Means(t)
    BY DEF Means
  <1>3. txn' = [txn EXCEPT ![s] = t] /\ UNCHANGED Records
    BY DEF Checks
  <1> QED
    BY <1>1, <1>2, <1>3, TxnStep

LEMMA CheckStep == ASSUME MInv, NEW s \in Sessions, Check(s) PROVE MInv'
  <1>1. txn[s] \in TxnType /\ Means(txn[s])
    BY DEF MInv, TxnsMean
  <1> DEFINE t == [txn[s] EXCEPT !.pc = "checked"]
  <1>2. t \in TxnType
    BY <1>1 DEF TxnType
  <1>3. Means(t)
    BY <1>1 DEF Means, TxnType
  <1>4. (txn' = [txn EXCEPT ![s] = t] \/ txn' = [txn EXCEPT ![s] = Idle]) /\ UNCHANGED Records
    BY DEF Check
  <1> QED
    BY <1>2, <1>3, <1>4, IdleMeans, TxnStep

LEMMA ReadStep ==
    ASSUME MInv, NEW s \in Sessions,
           \/ \E i \in DOMAIN ledger : ReverseRead(s, i)
           \/ \E q \in Requests :
                \/ RejectRead(s, q)
                \/ \E u \in Users, n \in Amounts : ApproveRead(s, q, u, n)
           \/ \E p \in Peers :
                \/ SettleRead(s, p)
                \/ \E op \in {"approvePeer", "rejectPeer"} : PeerDecisionRead(s, p, op)
           \/ \E i \in DOMAIN spend :
                \/ \E n \in Amounts : EditRead(s, i, n)
                \/ \E op \in {"approveSpend", "rejectSpend"} : SpendDecisionRead(s, i, op)
    PROVE  MInv'
  <1> USE BoundsAssumption DEF Amounts
  <1>0. ledger \in Seq(RowType) /\ spend \in Seq(SpendType)
    BY DEF MInv, TypeOK
  <1>1. ASSUME NEW i \in DOMAIN ledger, ReverseRead(s, i) PROVE MInv'
    <2>1. ledger[i] \in RowType /\ i \in Nat
      BY <1>0
    <2> QED
      BY <1>1, <2>1, ReadingStep DEF ReverseRead, RowType, Ops, Means
  <1>2. ASSUME NEW q \in Requests, RejectRead(s, q) PROVE MInv'
    BY <1>2, ReadingStep DEF RejectRead, Ops, Means
  <1>3. ASSUME NEW q \in Requests, NEW u \in Users, NEW n \in Amounts, ApproveRead(s, q, u, n)
        PROVE  MInv'
    <2>1. request[q].to \in Holders /\ request[q].status # "NONE"
      BY <1>3 DEF ApproveRead, MInv, PapersNamed
    <2>2. Reads(s, "approve", q, u, request[q].to, n, Direct)
      BY <1>3 DEF ApproveRead
    <2>3. Means([pc |-> "read", op |-> "approve", of |-> q, payer |-> u,
                 to |-> request[q].to, n |-> n, seen |-> Direct])
      BY <2>1 DEF Means
    <2>4. "approve" \in Ops /\ request[q].to \in Users /\ n \in Nat
      BY <2>1 DEF Ops
    <2> QED
      BY <2>2, <2>3, <2>4, ReadingStep
  <1>4. ASSUME NEW p \in Peers, SettleRead(s, p) PROVE MInv'
    <2>1. /\ peer[p].from \in Holders /\ peer[p].to \in Holders /\ peer[p].amount \in Amounts
          /\ peer[p].status \in Acceptable
      BY <1>4 DEF SettleRead, MInv, PapersNamed
    <2>2. Reads(s, "settlePeer", p, peer[p].from, peer[p].to, peer[p].amount, peer[p].status)
      BY <1>4 DEF SettleRead
    <2>3. Means([pc |-> "read", op |-> "settlePeer", of |-> p, payer |-> peer[p].from,
                 to |-> peer[p].to, n |-> peer[p].amount, seen |-> peer[p].status])
      BY <2>1 DEF Means
    <2>4. /\ "settlePeer" \in Ops /\ peer[p].from \in Users /\ peer[p].to \in Users
          /\ peer[p].amount \in Nat
      BY <2>1 DEF Ops
    <2> QED
      BY <2>1, <2>2, <2>3, <2>4, ReadingStep
  <1>5. ASSUME NEW p \in Peers, NEW op \in {"approvePeer", "rejectPeer"}, PeerDecisionRead(s, p, op)
        PROVE  MInv'
    BY <1>5, ReadingStep DEF PeerDecisionRead, Ops, Means
  <1>6. ASSUME NEW i \in DOMAIN spend, NEW n \in Amounts, EditRead(s, i, n) PROVE MInv'
    <2>1. spend[i] \in SpendType /\ i \in Nat
      BY <1>0
    <2>2. spend[i].by \in Users
      BY <2>1 DEF SpendType
    <2>3. /\ "editSpend" \in Ops /\ i \in Requests \cup Peers \cup {Direct} \cup Nat
          /\ Company \in Users /\ n \in Nat
          /\ spend[i] \in {Direct} \cup Acceptable \cup SpendType
      BY <2>1 DEF Ops
    <2>4. Reads(s, "editSpend", i, spend[i].by, Company, n, spend[i])
      BY <1>6 DEF EditRead
    <2>5. Means([pc |-> "read", op |-> "editSpend", of |-> i, payer |-> spend[i].by,
                 to |-> Company, n |-> n, seen |-> spend[i]])
      BY DEF Means
    <2> QED
      BY <2>2, <2>3, <2>4, <2>5, ReadingStep
  <1>7. ASSUME NEW i \in DOMAIN spend, NEW op \in {"approveSpend", "rejectSpend"},
               SpendDecisionRead(s, i, op)
        PROVE  MInv'
    <2>1. i \in Nat
      BY <1>0
    <2> QED
      BY <1>7, <2>1, ReadingStep DEF SpendDecisionRead, Ops, Means
  <1> QED
    BY <1>1, <1>2, <1>3, <1>4, <1>5, <1>6, <1>7

------------------------------------------------------------------------------
\* A funding of its own, from the company or from a holder.
LEMMA SendStep ==
    ASSUME MInv, NEW t, t.payer \in Users, t.to \in Holders, t.n \in Amounts,
           ledger' = Append(ledger, Row(t, "SENT", Direct)),
           UNCHANGED <<spend, request, peer, overwritten, overruled>>, TxnsMean'
    PROVE  MInv'
  <1> DEFINE row == Row(t, "SENT", Direct)
  <1>1. row \in RowType /\ row.source = Direct
    BY BoundsAssumption DEF Row, RowType, Amounts
  <1>2. ledger \in Seq(RowType)
    BY DEF MInv, TypeOK
  <1> HIDE DEF row
  <1>3. /\ ledger' \in Seq(RowType) /\ DOMAIN ledger \subseteq DOMAIN ledger'
        /\ \A x \in Requests \cup Peers : Rows(x)' = Rows(x)
    BY <1>1, <1>2, RowsAppend, IdsAssumption DEF row
  <1>4. PapersNamed' /\ RequestsPaid' /\ PeersPaid'
    BY <1>3, PaidKept
  <1>5. TypeOK'
    BY <1>3 DEF MInv, TypeOK, TxnsMean, TxnType
  <1> QED
    BY <1>4, <1>5 DEF MInv

\* The status of a funding changes.
LEMMA StatusStep ==
    ASSUME MInv, NEW i \in DOMAIN ledger, NEW status \in {"COMPLETED", "DISPUTED", "REVERSED"},
           ledger' = [ledger EXCEPT ![i].status = status],
           UNCHANGED <<spend, request, peer, overwritten, overruled>>,
           txn' = txn \/ \E s \in Sessions : Ends(s)
    PROVE  MInv'
  <1>1. ledger \in Seq(RowType)
    BY DEF MInv, TypeOK
  <1>2. /\ ledger' \in Seq(RowType) /\ DOMAIN ledger' = DOMAIN ledger
        /\ \A x : Rows(x)' = Rows(x)
    BY <1>1, RowsStatus
  <1>3. TxnsMean'
    BY <1>2, TxnSame, TxnKept, IdleMeans DEF Ends, NothingGone
  <1>4. PapersNamed' /\ RequestsPaid' /\ PeersPaid'
    BY <1>2, PaidKept
  <1>5. TypeOK'
    BY <1>2, <1>3 DEF MInv, TypeOK, TxnsMean, TxnType
  <1> QED
    BY <1>3, <1>4, <1>5 DEF MInv

\* A row of ad spend is added or changed.
LEMMA SpendStep ==
    ASSUME MInv, NEW s \in Sessions, Ends(s), spend' \in Seq(SpendType),
           DOMAIN spend \subseteq DOMAIN spend', overwritten' \subseteq Holders,
           UNCHANGED <<ledger, request, peer, overruled>>
    PROVE  MInv'
  <1>1. TxnsMean'
    BY TxnKept, IdleMeans DEF Ends, NothingGone
  <1>2. PapersNamed' /\ RequestsPaid' /\ PeersPaid'
    BY PaidKept DEF Rows
  <1>3. TypeOK'
    BY <1>1 DEF MInv, TypeOK, TxnsMean, TxnType
  <1> QED
    BY <1>1, <1>2, <1>3 DEF MInv

------------------------------------------------------------------------------
\* A row pays what it names as its source, and nothing else.
LEMMA Pays ==
    ASSUME ledger \in Seq(RowType), NEW x, NEW row \in RowType, row.source = x,
           ledger' = Append(ledger, row)
    PROVE  /\ ledger' \in Seq(RowType) /\ DOMAIN ledger \subseteq DOMAIN ledger'
           /\ Rows(x) = {} => PaidOnce(x)'
           /\ \A z : z # x => Rows(z)' = Rows(z) /\ (PaidOnce(z) => PaidOnce(z)')
  <1>1. /\ ledger' \in Seq(RowType) /\ DOMAIN ledger \subseteq DOMAIN ledger'
        /\ Rows(row.source)' = Rows(row.source) \cup {Len(ledger) + 1}
        /\ Len(ledger) + 1 \in DOMAIN ledger'
        /\ \A z : z # row.source => Rows(z)' = Rows(z)
    BY RowsAppend
  <1>2. Rows(x)' = Rows(row.source)' /\ Rows(x) = Rows(row.source)
    OBVIOUS
  <1> QED
    BY <1>1, <1>2 DEF PaidOnce

\* An approval pays a request that has no row yet, or fails on the unique index.
LEMMA ApproveStep == ASSUME MInv, NEW s \in Sessions, ApproveCommit(s) PROVE MInv'
  <1>0. PICK t : t = txn[s]
    OBVIOUS
  <1> DEFINE q == t.of
             row == Row(t, "SENT", q)
             paper == [status |-> "APPROVED", from |-> t.payer, to |-> t.to, amount |-> t.n]
  <1>1. /\ t \in TxnType /\ t.op = "approve" /\ q \in Requests
        /\ t.payer \in Users /\ t.to \in Holders /\ t.n \in Amounts
    BY <1>0 DEF MInv, TxnsMean, ApproveCommit, Ready, Means, TxnType
  <1>2. CASE Unpaid(q)
    <2>1. /\ request' = [request EXCEPT ![q] = paper] /\ ledger' = Append(ledger, row)
          /\ UNCHANGED <<spend, peer, overwritten, overruled>>
          /\ txn' = [txn EXCEPT ![s] = Idle]
      BY <1>0, <1>2 DEF ApproveCommit, Ends
    <2>2. row \in RowType /\ row.source = q
      BY <1>1, BoundsAssumption DEF Row, RowType, Amounts
    <2>3. paper \in RequestType
      BY <1>1, BoundsAssumption DEF RequestType, Amounts
    <2>4. ledger \in Seq(RowType) /\ request \in [Requests -> RequestType]
      BY DEF MInv, TypeOK
    <2> HIDE DEF row
    <2>5. /\ ledger' \in Seq(RowType) /\ DOMAIN ledger \subseteq DOMAIN ledger'
          /\ Rows(q) = {} => PaidOnce(q)'
          /\ \A z : z # q => Rows(z)' = Rows(z) /\ (PaidOnce(z) => PaidOnce(z)')
      BY <2>1, <2>2, <2>4, Pays
    <2>6. TxnsMean'
      <3>1. NothingGone
        BY <2>1, <2>4, <2>5 DEF NothingGone
      <3> QED
        BY <2>1, <3>1, TxnKept, IdleMeans
    <2>7. TypeOK'
      BY <2>1, <2>3, <2>4, <2>5, <2>6 DEF MInv, TypeOK, TxnsMean, TxnType
    <2>8. Rows(q) = {} /\ request'[q].status = "APPROVED" /\ request'[q].to \in Holders
      BY <1>1, <1>2, <2>1, <2>4 DEF Unpaid
    <2>9. \A z \in Requests \ {q} : request'[z] = request[z]
      BY <2>1, <2>4
    <2>10. PapersNamed'
      BY <2>1, <2>8, <2>9 DEF MInv, PapersNamed
    <2>11. RequestsPaid'
      <3>1. PaidOnce(q)'
        BY <2>5, <2>8
      <3> HIDE DEF q
      <3> QED
        BY <3>1, <1>1, <2>1, <2>5, <2>8, <2>9 DEF MInv, RequestsPaid
    <2>12. PeersPaid'
      BY <1>1, <2>1, <2>5, IdsAssumption DEF MInv, PeersPaid
    <2> QED
      BY <2>6, <2>7, <2>10, <2>11, <2>12 DEF MInv
  <1>3. CASE ~Unpaid(q)
    <2>1. txn' = [txn EXCEPT ![s] = Idle] /\ UNCHANGED Records
      BY <1>0, <1>3 DEF ApproveCommit, Ends, Records
    <2> QED
      BY <2>1, TxnStep, IdleMeans
  <1> QED
    BY <1>2, <1>3

\* A late rejection leaves the row it overrules.
LEMMA RejectStep == ASSUME MInv, NEW s \in Sessions, RejectCommit(s) PROVE MInv'
  <1>0. PICK q : q = txn[s].of
    OBVIOUS
  <1>1. q \in Requests /\ request \in [Requests -> RequestType]
    BY <1>0 DEF MInv, TypeOK, TxnsMean, RejectCommit, Ready, Means
  <1>2. /\ request' = [request EXCEPT ![q].status = "REJECTED"]
        /\ overruled' = IF request[q].status = "APPROVED" THEN overruled \cup {q} ELSE overruled
        /\ UNCHANGED <<ledger, spend, peer, overwritten>>
        /\ txn' = [txn EXCEPT ![s] = Idle]
    BY <1>0 DEF RejectCommit, Ends
  <1>3. TxnsMean'
    <2>1. NothingGone
      BY <1>1, <1>2 DEF NothingGone, RequestType
    <2> QED
      BY <1>2, <2>1, TxnKept, IdleMeans
  <1>4. request' \in [Requests -> RequestType]
    BY <1>1, <1>2 DEF RequestType
  <1>5. TypeOK'
    BY <1>1, <1>2, <1>3, <1>4 DEF MInv, TypeOK, TxnsMean, TxnType
  <1>6. /\ \A x : Rows(x)' = Rows(x)
        /\ \A z \in Requests \ {q} : request'[z] = request[z]
        /\ request'[q].status = "REJECTED"
    BY <1>1, <1>2 DEF Rows, RequestType
  <1>7. PapersNamed'
    <2>1. request'[q].to \in Holders \/ request[q].status = "NONE"
      BY <1>1, <1>2 DEF MInv, PapersNamed, RequestType
    <2>2. request[q].status # "NONE"
      BY <1>0 DEF MInv, TxnsMean, RejectCommit, Ready, Means
    <2> QED
      BY <1>2, <1>6, <2>1, <2>2 DEF MInv, PapersNamed
  <1>8. RequestsPaid'
    BY <1>1, <1>2, <1>6 DEF MInv, RequestsPaid, PaidOnce
  <1>9. PeersPaid'
    BY <1>1, <1>2, <1>6, IdsAssumption DEF MInv, PeersPaid, PaidOnce
  <1> QED
    BY <1>3, <1>5, <1>7, <1>8, <1>9 DEF MInv

\* A decision on a transfer that has moved on since it was read overrules it.
LEMMA DecideStep ==
    ASSUME MInv, NEW s \in Sessions, PeerApprove(s) \/ PeerReject(s)
    PROVE  MInv'
  <1>0. PICK p : p = txn[s].of
    OBVIOUS
  <1>1. PICK status \in {"APPROVED", "REJECTED"} :
          /\ peer' = [peer EXCEPT ![p].status = status]
          /\ overruled' = IF peer[p].status # "PENDING" THEN overruled \cup {p} ELSE overruled
          /\ UNCHANGED <<ledger, spend, request, overwritten>>
          /\ txn' = [txn EXCEPT ![s] = Idle]
    BY <1>0 DEF PeerApprove, PeerReject, PeerDecision, Ends
  <1>2. p \in Peers /\ peer[p].status # "NONE" /\ peer \in [Peers -> TransferType]
    BY <1>0 DEF MInv, TypeOK, TxnsMean, PeerApprove, PeerReject, PeerDecision, Ready, Means
  <1>3. TxnsMean'
    <2>1. NothingGone
      BY <1>1, <1>2 DEF NothingGone, TransferType
    <2> QED
      BY <1>1, <2>1, TxnKept, IdleMeans
  <1>4. /\ peer' \in [Peers -> TransferType]
        /\ \A z \in Peers \ {p} : peer'[z] = peer[z]
        /\ peer'[p] = [peer[p] EXCEPT !.status = status]
    BY <1>1, <1>2 DEF TransferType
  <1>5. TypeOK'
    BY <1>1, <1>2, <1>3, <1>4 DEF MInv, TypeOK, TxnsMean, TxnType
  <1>6. \A x : Rows(x)' = Rows(x) /\ (PaidOnce(x) => PaidOnce(x)')
    BY <1>1 DEF Rows, PaidOnce
  <1>7. PapersNamed'
    BY <1>1, <1>2, <1>4 DEF MInv, PapersNamed, TransferType
  <1>8. RequestsPaid'
    BY <1>1, <1>2, <1>6, IdsAssumption DEF MInv, RequestsPaid
  <1>9. PeersPaid'
    <2>1. ASSUME p \notin overruled' PROVE peer[p].status = "PENDING" /\ peer'[p].status # "ACCEPTED"
      BY <1>1, <1>2, <1>4, <2>1 DEF TransferType
    <2>2. overruled \subseteq overruled'
      BY <1>1
    <2> QED
      BY <1>2, <1>4, <1>6, <2>1, <2>2 DEF MInv, PeersPaid
  <1> QED
    BY <1>3, <1>5, <1>7, <1>8, <1>9 DEF MInv

\* An acceptance moves the money: once, if the transfer is still what was read.
LEMMA SettleStep == ASSUME MInv, NEW s \in Sessions, SettleCommit(s) PROVE MInv'
  <1>0. PICK t : t = txn[s]
    OBVIOUS
  <1> DEFINE p == t.of
             row == Row(t, "COMPLETED", p)
  <1>1. /\ t \in TxnType /\ t.op = "settlePeer" /\ p \in Peers /\ peer[p].status # "NONE"
        /\ t.payer \in Users /\ t.to \in Holders /\ t.n \in Amounts /\ t.seen \in Acceptable
    BY <1>0 DEF MInv, TxnsMean, SettleCommit, Ready, Means, TxnType
  <1>2. /\ ledger' = Append(ledger, row)
        /\ peer' = [peer EXCEPT ![p].status = "ACCEPTED", ![p].entry = Len(ledger) + 1]
        /\ overruled' = IF peer[p].status # t.seen THEN overruled \cup {p} ELSE overruled
        /\ UNCHANGED <<spend, request, overwritten>>
        /\ txn' = [txn EXCEPT ![s] = Idle]
    BY <1>0 DEF SettleCommit, Ends
  <1>3. row \in RowType /\ row.source = p
    BY <1>1, BoundsAssumption DEF Row, RowType, Amounts
  <1>4. ledger \in Seq(RowType) /\ peer \in [Peers -> TransferType]
    BY DEF MInv, TypeOK
  <1> HIDE DEF row
  <1>5. /\ ledger' \in Seq(RowType) /\ DOMAIN ledger \subseteq DOMAIN ledger'
        /\ Rows(p) = {} => PaidOnce(p)'
        /\ \A z : z # p => Rows(z)' = Rows(z) /\ (PaidOnce(z) => PaidOnce(z)')
    BY <1>2, <1>3, <1>4, Pays
  <1>6. /\ peer' \in [Peers -> TransferType]
        /\ \A z \in Peers \ {p} : peer'[z] = peer[z]
        /\ peer'[p].status = "ACCEPTED" /\ peer'[p].from = peer[p].from
        /\ peer'[p].to = peer[p].to /\ peer'[p].amount = peer[p].amount
    <2>1. Len(ledger) + 1 \in Nat
      BY <1>4
    <2> QED
      BY <1>1, <1>2, <1>4, <2>1 DEF TransferType
  <1>7. TxnsMean'
    <2>1. NothingGone
      BY <1>1, <1>2, <1>4, <1>5, <1>6 DEF NothingGone, TransferType
    <2> QED
      BY <1>2, <2>1, TxnKept, IdleMeans
  <1>8. TypeOK'
    BY <1>1, <1>2, <1>5, <1>6, <1>7 DEF MInv, TypeOK, TxnsMean, TxnType
  <1>9. PapersNamed'
    BY <1>1, <1>2, <1>4, <1>6 DEF MInv, PapersNamed, TransferType
  <1>10. RequestsPaid'
    BY <1>1, <1>2, <1>5, IdsAssumption DEF MInv, RequestsPaid
  <1>11. PeersPaid'
    <2>1. ASSUME p \notin overruled' PROVE PaidOnce(p)' /\ peer'[p].status = "ACCEPTED"
      <3>1. peer[p].status \in Acceptable /\ p \notin overruled
        BY <1>1, <1>2, <2>1
      <3>2. Rows(p) = {}
        BY <1>1, <3>1 DEF MInv, PeersPaid
      <3> QED
        BY <1>1, <1>4, <1>5, <1>6, <3>2 DEF TransferType
    <2>2. overruled \subseteq overruled'
      BY <1>2
    <2>3. ASSUME NEW z \in Peers \ overruled', z # p
          PROVE  /\ peer'[z].status = "ACCEPTED" => PaidOnce(z)'
                 /\ peer'[z].status # "ACCEPTED" => Rows(z)' = {}
      BY <1>5, <1>6, <2>2, <2>3 DEF MInv, PeersPaid
    <2> QED
      BY <2>1, <2>3 DEF PeersPaid
  <1> QED
    BY <1>7, <1>8, <1>9, <1>10, <1>11 DEF MInv

\* A new request, and a new transfer, are unpaid.
LEMMA AskStep ==
    ASSUME MInv, NEW q \in Requests, NEW u \in Holders, NEW n \in Amounts, RequestFunding(q, u, n)
    PROVE  MInv'
  <1> DEFINE paper == [status |-> "PENDING", from |-> Company, to |-> u, amount |-> n]
  <1>1. request[q].status = "NONE" /\ request \in [Requests -> RequestType]
    BY DEF RequestFunding, None, MInv, TypeOK
  <1>2. request' = [request EXCEPT ![q] = paper]
        /\ UNCHANGED <<ledger, spend, peer, txn, overwritten, overruled>>
    BY DEF RequestFunding
  <1>3. paper \in RequestType
    BY BoundsAssumption DEF RequestType, Amounts
  <1>4. /\ request' \in [Requests -> RequestType] /\ request'[q] = paper
        /\ \A z \in Requests \ {q} : request'[z] = request[z]
    BY <1>1, <1>2, <1>3
  <1>5. NothingGone
    BY <1>1, <1>2, <1>4 DEF NothingGone
  <1>6. TxnsMean' /\ TypeOK'
    BY <1>2, <1>4, <1>5, TxnSame DEF MInv, TypeOK, TxnsMean, TxnType
  <1>7. \A x : Rows(x)' = Rows(x) /\ (PaidOnce(x) => PaidOnce(x)')
    BY <1>2 DEF Rows, PaidOnce
  <1>8. PapersNamed' /\ RequestsPaid' /\ PeersPaid'
    BY <1>1, <1>2, <1>4, <1>7 DEF MInv, PapersNamed, RequestsPaid, PeersPaid
  <1> QED
    BY <1>6, <1>8 DEF MInv

LEMMA OfferStep ==
    ASSUME MInv, NEW p \in Peers, NEW u \in Holders, NEW v \in Holders, NEW n \in Amounts,
           OfferPeer(p, u, v, n)
    PROVE  MInv'
  <1> DEFINE paper == [status |-> "PENDING", from |-> u, to |-> v, amount |-> n,
                       entry |-> 0]
  <1>1. peer[p].status = "NONE" /\ peer \in [Peers -> TransferType]
    BY DEF OfferPeer, NoOffer, MInv, TypeOK
  <1>2. peer' = [peer EXCEPT ![p] = paper]
        /\ UNCHANGED <<ledger, spend, request, txn, overwritten, overruled>>
    BY DEF OfferPeer
  <1>3. paper \in TransferType
    BY BoundsAssumption DEF TransferType, Amounts
  <1>4. /\ peer' \in [Peers -> TransferType] /\ peer'[p] = paper
        /\ \A z \in Peers \ {p} : peer'[z] = peer[z]
    BY <1>1, <1>2, <1>3
  <1>5. NothingGone
    BY <1>1, <1>2, <1>4 DEF NothingGone
  <1>6. TxnsMean' /\ TypeOK'
    BY <1>2, <1>4, <1>5, TxnSame DEF MInv, TypeOK, TxnsMean, TxnType
  <1>7. \A x : Rows(x)' = Rows(x) /\ (PaidOnce(x) => PaidOnce(x)')
    BY <1>2 DEF Rows, PaidOnce
  <1>8. PapersNamed' /\ RequestsPaid' /\ PeersPaid'
    BY <1>1, <1>2, <1>4, <1>7 DEF MInv, PapersNamed, RequestsPaid, PeersPaid
  <1> QED
    BY <1>6, <1>8 DEF MInv

\* The steps that send, pay back or change a funding.
LEMMA FundingStep ==
    ASSUME MInv,
           \/ \E v \in Holders, n \in Amounts : CompanySends(v, n)
           \/ \E i \in DOMAIN ledger :
                \/ \E status \in {"COMPLETED", "DISPUTED"} : VerifyFunding(i, status)
                \/ ReverseUnreceived(i)
           \/ \E s \in Sessions : SendCommit(s) \/ ReverseCommit(s)
    PROVE  MInv'
  <1>1. ASSUME NEW v \in Holders, NEW n \in Amounts, CompanySends(v, n) PROVE MInv'
    <2>1. PICK t : t = [Idle EXCEPT !.to = v, !.n = n]
      OBVIOUS
    <2>2. t.payer \in Users /\ t.to \in Holders /\ t.n \in Amounts
      BY <2>1 DEF Idle
    <2>3. /\ ledger' = Append(ledger, Row(t, "SENT", Direct))
          /\ UNCHANGED <<spend, request, peer, txn, overwritten, overruled>>
      BY <1>1, <2>1 DEF CompanySends
    <2>4. DOMAIN ledger \subseteq DOMAIN ledger'
      <3>1. ledger \in Seq(RowType) /\ Row(t, "SENT", Direct) \in RowType
        BY <2>2, BoundsAssumption DEF MInv, TypeOK, Row, RowType, Amounts
      <3> QED
        BY <2>3, <3>1, RowsAppend
    <2>5. TxnsMean'
      BY <2>3, <2>4, TxnSame DEF NothingGone
    <2> QED
      BY <2>2, <2>3, <2>5, SendStep
  <1>2. ASSUME NEW i \in DOMAIN ledger, NEW status \in {"COMPLETED", "DISPUTED"},
               VerifyFunding(i, status)
        PROVE  MInv'
    BY <1>2, StatusStep DEF VerifyFunding
  <1>3. ASSUME NEW i \in DOMAIN ledger, ReverseUnreceived(i) PROVE MInv'
    BY <1>3, StatusStep DEF ReverseUnreceived
  <1>4. ASSUME NEW s \in Sessions, SendCommit(s) PROVE MInv'
    <2>1. PICK t : t = txn[s]
      OBVIOUS
    <2>2. t.payer \in Users /\ t.to \in Holders /\ t.n \in Amounts
      BY <1>4, <2>1 DEF SendCommit, Ready, MInv, TxnsMean, TxnType, Means
    <2>3. /\ ledger' = Append(ledger, Row(t, "SENT", Direct))
          /\ UNCHANGED <<spend, request, peer, overwritten, overruled>>
          /\ txn' = [txn EXCEPT ![s] = Idle]
      BY <1>4, <2>1 DEF SendCommit, Ends
    <2>4. DOMAIN ledger \subseteq DOMAIN ledger'
      <3>1. ledger \in Seq(RowType) /\ Row(t, "SENT", Direct) \in RowType
        BY <2>2, BoundsAssumption DEF MInv, TypeOK, Row, RowType, Amounts
      <3> QED
        BY <2>3, <3>1, RowsAppend
    <2>5. TxnsMean'
      BY <2>3, <2>4, TxnKept, IdleMeans DEF NothingGone
    <2> QED
      BY <2>2, <2>3, <2>5, SendStep
  <1>5. ASSUME NEW s \in Sessions, ReverseCommit(s) PROVE MInv'
    <2>1. PICK i : i = txn[s].of
      OBVIOUS
    <2>2. i \in DOMAIN ledger
      BY <1>5, <2>1 DEF ReverseCommit, Ready, MInv, TxnsMean, Means
    <2> QED
      BY <1>5, <2>1, <2>2, StatusStep DEF ReverseCommit
  <1> QED
    BY <1>1, <1>2, <1>3, <1>4, <1>5

\* The steps that write ad spend.
LEMMA SpendingStep ==
    ASSUME MInv, NEW s \in Sessions,
           LogCommit(s) \/ SpendApprove(s) \/ SpendReject(s) \/ EditCommit(s)
    PROVE  MInv'
  <1>1. /\ spend \in Seq(SpendType) /\ overwritten \subseteq Holders
        /\ txn[s] \in TxnType /\ Means(txn[s])
    BY DEF MInv, TypeOK, TxnsMean
  <1>2. \A i \in DOMAIN spend : spend[i] \in SpendType
    BY <1>1
  <1>3. CASE LogCommit(s)
    <2> DEFINE row == [by |-> txn[s].payer, amount |-> txn[s].n, status |-> "PENDING"]
    <2>1. spend' = Append(spend, row) /\ row \in SpendType
      BY <1>1, <1>3 DEF LogCommit, Ready, Means, SpendType
    <2> HIDE DEF row
    <2>2. spend' \in Seq(SpendType) /\ DOMAIN spend \subseteq DOMAIN spend'
      BY <1>1, <2>1
    <2> QED
      BY <1>1, <1>3, <2>2, SpendStep DEF LogCommit
  <1>4. CASE SpendApprove(s) \/ SpendReject(s)
    <2>1. PICK i : i = txn[s].of
      OBVIOUS
    <2>2. PICK status \in {"APPROVED", "REJECTED"} : spend' = [spend EXCEPT ![i].status = status]
      BY <1>4, <2>1 DEF SpendApprove, SpendReject
    <2>3. i \in DOMAIN spend
      BY <1>1, <1>4, <2>1 DEF SpendApprove, SpendReject, Ready, Means
    <2>4. spend[i] \in SpendType
      BY <1>2, <2>3
    <2>5. [spend[i] EXCEPT !.status = status] \in SpendType
      BY <2>4 DEF SpendType
    <2>6. spend' = [spend EXCEPT ![i] = [spend[i] EXCEPT !.status = status]]
      BY <2>2
    <2>7. spend' \in Seq(SpendType) /\ DOMAIN spend \subseteq DOMAIN spend'
      BY <1>1, <2>3, <2>5, <2>6
    <2>8. overwritten' \subseteq Holders
      BY <1>1, <1>4, <2>1, <2>4 DEF SpendApprove, SpendReject, SpendType
    <2> QED
      BY <1>4, <2>7, <2>8, SpendStep DEF SpendApprove, SpendReject
  <1>5. CASE EditCommit(s)
    <2>1. PICK i : i = txn[s].of
      OBVIOUS
    <2>2. i \in DOMAIN spend /\ txn[s].n \in Amounts
      BY <1>1, <1>5, <2>1 DEF EditCommit, Ready, Means
    <2>3. spend[i] \in SpendType
      BY <1>2, <2>2
    <2>4. PICK row \in SpendType : spend' = [spend EXCEPT ![i] = row]
      BY <1>5, <2>1, <2>2, <2>3 DEF EditCommit, Edited, SpendType
    <2>5. spend' \in Seq(SpendType) /\ DOMAIN spend \subseteq DOMAIN spend'
      BY <1>1, <2>2, <2>4
    <2>6. overwritten' \subseteq Holders
      BY <1>1, <1>5, <2>1, <2>3 DEF EditCommit, SpendType
    <2> QED
      BY <1>5, <2>5, <2>6, SpendStep DEF EditCommit
  <1> QED
    BY <1>3, <1>4, <1>5

------------------------------------------------------------------------------
LEMMA MInvInit == Init => MInv
  <1> SUFFICES ASSUME Init PROVE MInv
    OBVIOUS
  <1>1. \A x \in Requests \cup Peers : Rows(x) = {}
    BY OpeningAssumption, IdsAssumption DEF Init, Rows
  <1>2. TxnsMean
    BY IdleMeans DEF Init, TxnsMean
  <1>3. TypeOK
    <2>1. request \in [Requests -> RequestType] /\ peer \in [Peers -> TransferType]
      BY BoundsAssumption DEF Init, None, RequestType, TransferType, NoOffer
    <2>2. ledger \in Seq(RowType) /\ spend \in Seq(SpendType)
      BY OpeningAssumption DEF Init
    <2>3. \A s \in Sessions : txn[s].pc \in {"idle", "read", "checked"} /\ txn[s].n \in Nat
      BY <1>2 DEF TxnsMean, TxnType
    <2> QED
      BY <2>1, <2>2, <2>3 DEF Init, TypeOK
  <1>4. PapersNamed /\ RequestsPaid /\ PeersPaid
    BY <1>1 DEF Init, None, NoOffer, PapersNamed, RequestsPaid, PeersPaid
  <1> QED
    BY <1>2, <1>3, <1>4 DEF MInv

LEMMA MInvStep == MInv /\ [Next]_vars => MInv'
  <1> SUFFICES ASSUME MInv, [Next]_vars PROVE MInv'
    OBVIOUS
  <1>1. CASE UNCHANGED vars
    BY <1>1 DEF vars, MInv, TypeOK, TxnsMean, Means, PapersNamed, RequestsPaid, PeersPaid,
                PaidOnce, Rows
  <1>2. ASSUME NEW v \in Holders, NEW n \in Amounts,
               \/ \E q \in Requests : RequestFunding(q, v, n)
               \/ \E p \in Peers, u \in Holders : OfferPeer(p, u, v, n)
        PROVE  MInv'
    BY <1>2, AskStep, OfferStep
  <1>3. ASSUME NEW s \in Sessions, Check(s) PROVE MInv'
    BY <1>3, CheckStep
  <1>4. ASSUME NEW s \in Sessions, NEW u \in Holders, NEW v \in Holders, NEW n \in Amounts,
               Send(s, u, v, n)
        PROVE  MInv'
    BY <1>4, CheckingStep DEF Send
  <1>5. ASSUME NEW s \in Sessions, NEW u \in Holders, NEW n \in Amounts, LogSpend(s, u, n)
        PROVE  MInv'
    BY <1>5, CheckingStep DEF LogSpend
  <1> QED
    BY <1>1, <1>2, <1>3, <1>4, <1>5, ReadStep, FundingStep, SpendingStep, ApproveStep, RejectStep,
       DecideStep, SettleStep DEF Next

LEMMA MInvAlways == Spec => []MInv
  BY MInvInit, MInvStep, PTL DEF Spec

LEMMA PaidCounts ==
    \A x : (PaidOnce(x) => Cardinality(Rows(x)) = 1) /\ (Rows(x) = {} => Cardinality(Rows(x)) = 0)
  BY FS_Singleton, FS_EmptySet DEF PaidOnce

\* Types (marketing.service: the fundings, requests, transfers and spends keep their shape
\* whatever overlaps).
THEOREM Typed == Spec => []TypeOK
  <1>1. MInv => TypeOK
    BY DEF MInv
  <1> QED
    BY <1>1, MInvAlways, PTL

\* A request is paid exactly once when it is approved, by however many approvers at a time
\* (approveFundingRequest and the unique index on source_funding_request_id).
THEOREM RequestsPaidOnce == Spec => []RequestPaidOnce
  <1>1. MInv => RequestPaidOnce
    BY PaidCounts DEF MInv, RequestsPaid, RequestPaidOnce
  <1> QED
    BY <1>1, MInvAlways, PTL

\* A transfer between media buyers moves its money once, when it is accepted, unless a
\* decision was taken on a status it no longer had (approveMbFundTransfer and its kin).
THEOREM PeersPaidOnAcceptance == Spec => []PeerPaidOnAcceptance
  <1>1. MInv => PeerPaidOnAcceptance
    BY PaidCounts DEF MInv, PeersPaid, PeerPaidOnAcceptance
  <1> QED
    BY <1>1, MInvAlways, PTL
------------------------------------------------------------------------------
(***************************************************************************)
(* Nobody overdraws.  A transaction that has checked its balance is the    *)
(* only one of its payer that has, and the balance still covers it: the    *)
(* others that may lower the balance of that payer wait for the lock, and  *)
(* those that need no check take nothing.                                  *)
(***************************************************************************)

Takes(t) == t.pc = "checked"

\* A transaction that needs a check and is about to write has made it.
ChecksMean ==
    \A s \in Sessions :
        /\ Takes(txn[s]) => txn[s].payer \in Holders
        /\ txn[s].op \in {"send", "spend"} => Takes(txn[s])

Covered ==
    \A u \in Holders \ overwritten, s \in Sessions :
        Takes(txn[s]) /\ txn[s].payer = u => Balance(u) >= Cost(txn[s])

OneChecked ==
    \A s, z \in Sessions :
        Takes(txn[s]) /\ Takes(txn[z]) /\ txn[s].payer = txn[z].payer => s = z

\* A reversal has its row to itself, and the row is as it was read.
ReversalsHold ==
    \A s \in Sessions :
        txn[s].op = "reverse" =>
            /\ \A z \in Sessions : txn[z].op = "reverse" /\ txn[z].of = txn[s].of => z = s
            /\ LET row == ledger[txn[s].of]
               IN  /\ row.status = "COMPLETED" /\ row.to = txn[s].payer /\ row.amount = txn[s].n

\* An edit is charged to the owner of the spend.
EditsCharge ==
    \A s \in Sessions :
        txn[s].op = "editSpend" =>
            /\ txn[s].seen \in SpendType
            /\ spend[txn[s].of].by = txn[s].payer /\ txn[s].seen.by = txn[s].payer

BInv == ChecksMean /\ Covered /\ OneChecked /\ ReversalsHold /\ EditsCharge /\ NoOverdraft

\* What a row brings to a user, and what it takes.
Brings(r, u) == IF r.to = u /\ r.status = "COMPLETED" THEN r.amount ELSE 0
Gives(r, u) == IF r.from = u /\ r.status \in {"SENT", "COMPLETED", "DISPUTED"} THEN r.amount ELSE 0
Uses(r, u) == IF r.by = u /\ r.status \in {"PENDING", "APPROVED"} THEN r.amount ELSE 0

Share(rows, I, k) == IF k \in I THEN rows[k].amount ELSE 0

\* What is counted of two sequences of rows differs at place k only.
Differs(rows, I, next, J, k) ==
    /\ IsFiniteSet(DOMAIN rows) /\ I \subseteq DOMAIN rows /\ J \subseteq DOMAIN next
    /\ \A i \in DOMAIN rows : rows[i].amount \in Int
    /\ \A i \in DOMAIN next : next[i].amount \in Int
    /\ J \ {k} = I \ {k}
    /\ \A i \in I \ {k} : next[i].amount = rows[i].amount

\* A total changes by what one row changes.
LEMMA TotalChange ==
    ASSUME NEW rows, NEW I, NEW next, NEW J, NEW k, Differs(rows, I, next, J, k)
    PROVE  /\ Total(rows, I) \in Int
           /\ Total(next, J) = Total(rows, I) - Share(rows, I, k) + Share(next, J, k)
  <1> USE DEF Differs
  <1> DEFINE f == [i \in DOMAIN rows |-> rows[i].amount]
             g == [i \in DOMAIN next |-> next[i].amount]
  <1>1. /\ \A x \in I : f[x] = rows[x].amount /\ f[x] \in Int
        /\ \A x \in J : g[x] = next[x].amount /\ g[x] \in Int
    OBVIOUS
  <1>2. IsFiniteSet(I)
    BY FS_Subset
  <1>3. \A x \in I \ {k} : x \in J /\ x \in I
    OBVIOUS
  <1>4. Total(rows, I) = SumFunctionOnSet(f, I) /\ Total(next, J) = SumFunctionOnSet(g, J)
    BY DEF Total
  <1> HIDE DEF f, g
  <1>5. DiffersAt(f, I, g, J, k)
    BY <1>1, <1>2, <1>3 DEF DiffersAt
  <1>6. /\ SumFunctionOnSet(f, I) \in Int
        /\ SumFunctionOnSet(g, J) = SumFunctionOnSet(f, I) - Part(f, I, k) + Part(g, J, k)
    BY <1>5, SumChange
  <1>7. Part(f, I, k) = Share(rows, I, k) /\ Part(g, J, k) = Share(next, J, k)
    BY <1>1 DEF Part, Share
  <1> QED
    BY <1>4, <1>6, <1>7

\* What the funds of a user become when row k of the ledger is written or added.
LEMMA FundsChange ==
    ASSUME NEW rows \in Seq(RowType), NEW next \in Seq(RowType), NEW k,
           DOMAIN next = DOMAIN rows \cup {k}, \A i \in DOMAIN rows \ {k} : next[i] = rows[i],
           NEW u
    PROVE  /\ Funds(rows, u) \in Int
           /\ Funds(next, u) = Funds(rows, u) + Brings(next[k], u) - Gives(next[k], u)
                + (IF k \in DOMAIN rows THEN Gives(rows[k], u) - Brings(rows[k], u) ELSE 0)
  <1>1. IsFiniteSet(DOMAIN rows)
    <2>1. DOMAIN rows = 1..Len(rows) /\ Len(rows) \in Nat
      OBVIOUS
    <2> QED
      BY <2>1, FS_Interval
  <1>2. /\ \A i \in DOMAIN rows : rows[i].amount \in Int
        /\ \A i \in DOMAIN next : next[i].amount \in Int
    <2>1. /\ \A i \in DOMAIN rows : rows[i] \in RowType
          /\ \A i \in DOMAIN next : next[i] \in RowType
      OBVIOUS
    <2> QED
      BY <2>1 DEF RowType
  <1>3. Differs(rows, Received(rows, u), next, Received(next, u), k)
    BY <1>1, <1>2 DEF Received, Differs
  <1>4. Differs(rows, Given(rows, u), next, Given(next, u), k)
    BY <1>1, <1>2 DEF Given, Differs
  <1>5. /\ Total(rows, Received(rows, u)) \in Int
        /\ Total(next, Received(next, u)) = Total(rows, Received(rows, u))
              - Share(rows, Received(rows, u), k)
              + Share(next, Received(next, u), k)
    BY <1>3, TotalChange
  <1>6. /\ Total(rows, Given(rows, u)) \in Int
        /\ Total(next, Given(next, u)) = Total(rows, Given(rows, u))
              - Share(rows, Given(rows, u), k)
              + Share(next, Given(next, u), k)
    BY <1>4, TotalChange
  <1>7. /\ Brings(next[k], u) = Share(next, Received(next, u), k)
        /\ Gives(next[k], u) = Share(next, Given(next, u), k)
        /\ Share(next, Received(next, u), k) \in Int /\ Share(next, Given(next, u), k) \in Int
    BY <1>2 DEF Brings, Gives, Received, Given, Share
  <1>8. CASE k \in DOMAIN rows
    <2>1. /\ Brings(rows[k], u) = Share(rows, Received(rows, u), k)
          /\ Gives(rows[k], u) = Share(rows, Given(rows, u), k)
          /\ Share(rows, Received(rows, u), k) \in Int /\ Share(rows, Given(rows, u), k) \in Int
      BY <1>2, <1>8 DEF Brings, Gives, Received, Given, Share
    <2> QED
      BY <1>5, <1>6, <1>7, <1>8, <2>1 DEF Funds
  <1>9. CASE k \notin DOMAIN rows
    <2>1. Share(rows, Received(rows, u), k) = 0 /\ Share(rows, Given(rows, u), k) = 0
      BY <1>9 DEF Received, Given, Share
    <2> QED
      BY <1>5, <1>6, <1>7, <1>9, <2>1 DEF Funds
  <1> QED
    BY <1>8, <1>9

\* The same of the spends of a user.
LEMMA SpentChange ==
    ASSUME NEW rows \in Seq(SpendType), NEW next \in Seq(SpendType), NEW k,
           DOMAIN next = DOMAIN rows \cup {k}, \A i \in DOMAIN rows \ {k} : next[i] = rows[i],
           NEW u
    PROVE  /\ Total(rows, Spent(rows, u)) \in Int
           /\ Total(next, Spent(next, u)) = Total(rows, Spent(rows, u)) + Uses(next[k], u)
                - (IF k \in DOMAIN rows THEN Uses(rows[k], u) ELSE 0)
  <1>1. IsFiniteSet(DOMAIN rows)
    <2>1. DOMAIN rows = 1..Len(rows) /\ Len(rows) \in Nat
      OBVIOUS
    <2> QED
      BY <2>1, FS_Interval
  <1>2. /\ \A i \in DOMAIN rows : rows[i].amount \in Int
        /\ \A i \in DOMAIN next : next[i].amount \in Int
    <2>1. /\ \A i \in DOMAIN rows : rows[i] \in SpendType
          /\ \A i \in DOMAIN next : next[i] \in SpendType
      OBVIOUS
    <2> QED
      BY <2>1, BoundsAssumption DEF SpendType, Amounts
  <1>3. Differs(rows, Spent(rows, u), next, Spent(next, u), k)
    BY <1>1, <1>2 DEF Spent, Differs
  <1>4. /\ Total(rows, Spent(rows, u)) \in Int
        /\ Total(next, Spent(next, u)) = Total(rows, Spent(rows, u))
              - Share(rows, Spent(rows, u), k)
              + Share(next, Spent(next, u), k)
    BY <1>3, TotalChange
  <1>5. /\ Uses(next[k], u) = Share(next, Spent(next, u), k)
        /\ Share(next, Spent(next, u), k) \in Int
    BY <1>2 DEF Uses, Spent, Share
  <1>6. CASE k \in DOMAIN rows
    <2>1. /\ Uses(rows[k], u) = Share(rows, Spent(rows, u), k)
          /\ Share(rows, Spent(rows, u), k) \in Int
      BY <1>2, <1>6 DEF Uses, Spent, Share
    <2> QED
      BY <1>4, <1>5, <1>6, <2>1
  <1>7. CASE k \notin DOMAIN rows
    <2>1. Share(rows, Spent(rows, u), k) = 0
      BY <1>7 DEF Spent, Share
    <2> QED
      BY <1>4, <1>5, <1>7, <2>1
  <1> QED
    BY <1>6, <1>7
LEMMA BalanceType ==
    ASSUME NEW rows \in Seq(RowType), NEW spends \in Seq(SpendType), NEW u
    PROVE  Funds(rows, u) \in Int /\ Total(spends, Spent(spends, u)) \in Int
  <1>1. IsFiniteSet(DOMAIN rows) /\ IsFiniteSet(DOMAIN spends)
    <2>1. /\ DOMAIN rows = 1..Len(rows) /\ Len(rows) \in Nat
          /\ DOMAIN spends = 1..Len(spends) /\ Len(spends) \in Nat
      OBVIOUS
    <2> QED
      BY <2>1, FS_Interval
  <1>2. /\ \A i \in DOMAIN rows : rows[i].amount \in Int
        /\ \A i \in DOMAIN spends : spends[i].amount \in Int
    <2>1. /\ \A i \in DOMAIN rows : rows[i] \in RowType
          /\ \A i \in DOMAIN spends : spends[i] \in SpendType
      OBVIOUS
    <2> QED
      BY <2>1, BoundsAssumption DEF RowType, SpendType, Amounts
  <1>3. /\ Differs(rows, Received(rows, u), rows, Received(rows, u), 0)
        /\ Differs(rows, Given(rows, u), rows, Given(rows, u), 0)
        /\ Differs(spends, Spent(spends, u), spends, Spent(spends, u), 0)
    BY <1>1, <1>2 DEF Differs, Received, Given, Spent
  <1>4. /\ Total(rows, Received(rows, u)) \in Int /\ Total(rows, Given(rows, u)) \in Int
        /\ Total(spends, Spent(spends, u)) \in Int
    BY <1>3, TotalChange
  <1> QED
    BY <1>4 DEF Funds

\* A write of the ledger or of the spends lowers the balance of nobody but the payer of a
\* checked transaction that ends, and of him by its cost; or the spend had changed.
Writes ==
    /\ overwritten \subseteq overwritten'
    /\ \A z \in Sessions : txn'[z] = txn[z] \/ txn'[z] = Idle
    /\ \A u \in Holders \ overwritten' :
         \/ Balance(u)' >= Balance(u)
         \/ \E s \in Sessions : /\ Takes(txn[s]) /\ txn[s].payer = u /\ txn'[s] = Idle
                               /\ Balance(u)' >= Balance(u) - Cost(txn[s])
    /\ \A z \in Sessions : txn'[z].op = "reverse" => ledger'[txn[z].of] = ledger[txn[z].of]
    /\ \A i \in DOMAIN spend : spend'[i].by = spend[i].by

\* What a transaction costs is a number.
LEMMA CostType ==
    ASSUME MInv, BInv, NEW s \in Sessions
    PROVE  Cost(txn[s]) \in Int
  <1>1. txn[s] \in TxnType /\ (txn[s].op = "editSpend" => txn[s].seen \in SpendType)
    BY DEF MInv, TxnsMean, BInv, EditsCharge
  <1> QED
    BY <1>1, BoundsAssumption DEF Cost, Delta, TxnType, SpendType, Amounts

LEMMA WriteStep == ASSUME MInv, MInv', BInv, Writes PROVE BInv'
  <1>1. \A u : Balance(u) \in Int /\ Balance(u)' \in Int
    BY BalanceType DEF MInv, TypeOK, Balance
  <1>2. /\ Idle.pc = "idle" /\ Idle.op = "none"
        /\ \A z \in Sessions : txn[z] \in TxnType /\ Means(txn[z])
    BY DEF Idle, MInv, TxnsMean
  <1>3. ChecksMean' /\ OneChecked'
    BY <1>2 DEF BInv, ChecksMean, OneChecked, Writes, Takes
  <1>4. Covered'
    <2> SUFFICES ASSUME NEW u \in Holders \ overwritten', NEW z \in Sessions,
                        Takes(txn'[z]), txn'[z].payer = u
                 PROVE  Balance(u)' >= Cost(txn'[z])
      BY DEF Covered, Cost, Delta, Takes
    <2>1. txn'[z] = txn[z]
      BY <1>2 DEF Writes, Takes
    <2>2. Balance(u) >= Cost(txn[z])
      BY <2>1 DEF BInv, Covered, Writes, Takes
    <2>3. ~ \E s \in Sessions : Takes(txn[s]) /\ txn[s].payer = u /\ txn'[s] = Idle
      BY <1>2, <2>1 DEF BInv, OneChecked, Takes
    <2>4. Balance(u)' >= Balance(u)
      BY <2>3 DEF Writes
    <2>5. Cost(txn[z]) \in Int
      BY CostType
    <2> QED
      BY <1>1, <2>1, <2>2, <2>4, <2>5
  <1>5. ReversalsHold'
    BY <1>2 DEF BInv, ReversalsHold, Writes
  <1>6. EditsCharge'
    BY <1>2 DEF BInv, EditsCharge, Writes, Means
  <1>7. NoOverdraft'
    <2> SUFFICES ASSUME NEW u \in Holders \ overwritten' PROVE Balance(u)' >= 0
      BY DEF NoOverdraft
    <2>1. Balance(u) >= 0
      BY DEF BInv, NoOverdraft, Writes
    <2>2. CASE Balance(u)' >= Balance(u)
      BY <1>1, <2>1, <2>2
    <2>3. ASSUME NEW s \in Sessions, Takes(txn[s]), txn[s].payer = u,
                 Balance(u)' >= Balance(u) - Cost(txn[s])
          PROVE  Balance(u)' >= 0
      <3>1. Balance(u) >= Cost(txn[s])
        BY <2>3 DEF BInv, Covered, Writes
      <3> QED
        BY <1>1, <2>3, <3>1, CostType
    <2> QED
      BY <2>2, <2>3 DEF Writes
  <1> QED
    BY <1>3, <1>4, <1>5, <1>6, <1>7 DEF BInv

\* A transaction may go on to t.
MayBecome(s, t) ==
    /\ Takes(t) => /\ t.payer \in Holders
                   /\ \A z \in Sessions \ {s} : ~ (Takes(txn[z]) /\ txn[z].payer = t.payer)
                   /\ Balance(t.payer) >= Cost(t)
    /\ t.op \in {"send", "spend"} => Takes(t)
    /\ t.op = "reverse" =>
         /\ \A z \in Sessions \ {s} : ~ (txn[z].op = "reverse" /\ txn[z].of = t.of)
         /\ ledger[t.of].status = "COMPLETED" /\ ledger[t.of].to = t.payer
         /\ ledger[t.of].amount = t.n
    /\ t.op = "editSpend" =>
         t.seen \in SpendType /\ spend[t.of].by = t.payer /\ t.seen.by = t.payer

LEMMA MoveStep ==
    ASSUME MInv, BInv, NEW s \in Sessions, NEW t, txn' = [txn EXCEPT ![s] = t], MayBecome(s, t),
           UNCHANGED Records
    PROVE  BInv'
  <1>1. /\ txn'[s] = t /\ \A z \in Sessions \ {s} : txn'[z] = txn[z]
        /\ UNCHANGED <<ledger, spend, overwritten>>
    BY DEF MInv, TxnsMean, Records
  <1>2. \A u : Balance(u)' = Balance(u)
    BY <1>1 DEF Balance
  <1>3. ChecksMean' /\ OneChecked'
    BY <1>1 DEF BInv, ChecksMean, OneChecked, MayBecome
  <1>4. Covered'
    <2> SUFFICES ASSUME NEW u \in Holders \ overwritten', NEW z \in Sessions,
                        Takes(txn'[z]), txn'[z].payer = u
                 PROVE  Balance(u)' >= Cost(txn'[z])
      BY DEF Covered, Cost, Delta, Takes
    <2>1. Balance(u) >= Cost(txn'[z])
      BY <1>1 DEF BInv, Covered, MayBecome, Takes
    <2> QED
      BY <1>2, <2>1
  <1>5. ReversalsHold' /\ EditsCharge'
    BY <1>1 DEF BInv, ReversalsHold, EditsCharge, MayBecome
  <1>6. NoOverdraft'
    BY <1>1, <1>2 DEF BInv, NoOverdraft
  <1> QED
    BY <1>3, <1>4, <1>5, <1>6 DEF BInv
------------------------------------------------------------------------------
\* What the balances become when row k of the ledger is written or added, and when row k of
\* the spends is.
LEMMA BalanceOnLedger ==
    ASSUME MInv, MInv', NEW k, UNCHANGED spend, DOMAIN ledger' = DOMAIN ledger \cup {k},
           \A i \in DOMAIN ledger \ {k} : ledger'[i] = ledger[i], NEW u
    PROVE  /\ Balance(u) \in Int
           /\ Balance(u)' = Balance(u) + Brings(ledger'[k], u) - Gives(ledger'[k], u)
                + (IF k \in DOMAIN ledger THEN Gives(ledger[k], u) - Brings(ledger[k], u) ELSE 0)
  <1>1. PICK old, new : old = ledger /\ new = ledger'
    OBVIOUS
  <1>2. /\ old \in Seq(RowType) /\ new \in Seq(RowType) /\ spend \in Seq(SpendType)
        /\ DOMAIN new = DOMAIN old \cup {k} /\ \A i \in DOMAIN old \ {k} : new[i] = old[i]
    BY <1>1 DEF MInv, TypeOK
  <1>3. /\ Funds(old, u) \in Int
        /\ Funds(new, u) = Funds(old, u) + Brings(new[k], u) - Gives(new[k], u)
             + (IF k \in DOMAIN old THEN Gives(old[k], u) - Brings(old[k], u) ELSE 0)
    BY <1>2, FundsChange
  <1>4. /\ Balance(u) = Funds(old, u) - Total(spend, Spent(spend, u))
        /\ Balance(u)' = Funds(new, u) - Total(spend, Spent(spend, u))
    BY <1>1 DEF Balance
  <1>5. Total(spend, Spent(spend, u)) \in Int
    BY <1>2, BalanceType
  <1>6. /\ Brings(new[k], u) \in Int /\ Gives(new[k], u) \in Int
        /\ k \in DOMAIN old => Gives(old[k], u) \in Int /\ Brings(old[k], u) \in Int
    <2>1. new[k] \in RowType /\ (k \in DOMAIN old => old[k] \in RowType)
      BY <1>2
    <2> QED
      BY <2>1 DEF Brings, Gives, RowType
  <1>7. CASE k \in DOMAIN old
    BY <1>1, <1>3, <1>4, <1>5, <1>6, <1>7
  <1>8. CASE k \notin DOMAIN old
    BY <1>1, <1>3, <1>4, <1>5, <1>6, <1>8
  <1> QED
    BY <1>7, <1>8

LEMMA BalanceOnSpend ==
    ASSUME MInv, MInv', NEW k, UNCHANGED ledger, DOMAIN spend' = DOMAIN spend \cup {k},
           \A i \in DOMAIN spend \ {k} : spend'[i] = spend[i], NEW u
    PROVE  /\ Balance(u) \in Int
           /\ Balance(u)' = Balance(u) - Uses(spend'[k], u)
                + (IF k \in DOMAIN spend THEN Uses(spend[k], u) ELSE 0)
  <1>1. PICK old, new : old = spend /\ new = spend'
    OBVIOUS
  <1>2. /\ old \in Seq(SpendType) /\ new \in Seq(SpendType) /\ ledger \in Seq(RowType)
        /\ DOMAIN new = DOMAIN old \cup {k} /\ \A i \in DOMAIN old \ {k} : new[i] = old[i]
    BY <1>1 DEF MInv, TypeOK
  <1>3. /\ Total(old, Spent(old, u)) \in Int
        /\ Total(new, Spent(new, u)) = Total(old, Spent(old, u)) + Uses(new[k], u)
             - (IF k \in DOMAIN old THEN Uses(old[k], u) ELSE 0)
    BY <1>2, SpentChange
  <1>4. /\ Balance(u) = Funds(ledger, u) - Total(old, Spent(old, u))
        /\ Balance(u)' = Funds(ledger, u) - Total(new, Spent(new, u))
    BY <1>1 DEF Balance
  <1>5. Funds(ledger, u) \in Int
    BY <1>2, BalanceType
  <1>6. Uses(new[k], u) \in Int /\ (k \in DOMAIN old => Uses(old[k], u) \in Int)
    <2>1. new[k] \in SpendType /\ (k \in DOMAIN old => old[k] \in SpendType)
      BY <1>2
    <2> QED
      BY <2>1, BoundsAssumption DEF Uses, SpendType, Amounts
  <1>7. CASE k \in DOMAIN old
    BY <1>1, <1>3, <1>4, <1>5, <1>6, <1>7
  <1>8. CASE k \notin DOMAIN old
    BY <1>1, <1>3, <1>4, <1>5, <1>6, <1>8
  <1> QED
    BY <1>7, <1>8

\* The transaction that ends, if there is one, has paid for what user u loses.
PaidBy(u, n) ==
    \/ u = Company
    \/ \E s \in Sessions : /\ Takes(txn[s]) /\ txn[s].payer = u /\ txn'[s] = Idle
                          /\ Cost(txn[s]) = n

\* A new row is paid for by its sender.
LEMMA AddedRow ==
    ASSUME MInv, MInv', NEW row \in RowType, ledger' = Append(ledger, row),
           row.status \in {"SENT", "COMPLETED"}, PaidBy(row.from, row.amount),
           UNCHANGED <<spend, overwritten>>, \A z \in Sessions : txn'[z] = txn[z] \/ txn'[z] = Idle
    PROVE  Writes
  <1>1. PICK k : k = Len(ledger) + 1
    OBVIOUS
  <1>2. /\ DOMAIN ledger' = DOMAIN ledger \cup {k} /\ k \notin DOMAIN ledger /\ ledger'[k] = row
        /\ \A i \in DOMAIN ledger : ledger'[i] = ledger[i]
    <2>1. ledger \in Seq(RowType)
      BY DEF MInv, TypeOK
    <2>2. DOMAIN ledger = 1..Len(ledger) /\ Len(ledger) \in Nat
      BY <2>1
    <2>3. DOMAIN ledger' = 1..(Len(ledger) + 1)
      BY <2>1
    <2> QED
      BY <1>1, <2>1, <2>2, <2>3
  <1>3. ASSUME NEW u \in Holders \ overwritten'
        PROVE  \/ Balance(u)' >= Balance(u)
               \/ \E s \in Sessions : /\ Takes(txn[s]) /\ txn[s].payer = u /\ txn'[s] = Idle
                                     /\ Balance(u)' >= Balance(u) - Cost(txn[s])
    <2>1. Balance(u) \in Int /\ Balance(u)' = Balance(u) + Brings(row, u) - Gives(row, u)
      <3>1. /\ Balance(u) \in Int
            /\ Balance(u)' = Balance(u) + Brings(ledger'[k], u) - Gives(ledger'[k], u)
                 + (IF k \in DOMAIN ledger THEN Gives(ledger[k], u) - Brings(ledger[k], u) ELSE 0)
        BY <1>2, BalanceOnLedger
      <3>2. Brings(row, u) \in Int /\ Gives(row, u) \in Int
        BY DEF Brings, Gives, RowType
      <3> QED
        BY <1>2, <3>1, <3>2
    <2>2. Brings(row, u) \in Nat /\ row.amount \in Nat
      BY DEF Brings, RowType
    <2>3. CASE row.from # u
      BY <2>1, <2>2, <2>3 DEF Gives
    <2>4. CASE row.from = u
      <3>1. Gives(row, u) = row.amount
        BY <2>4 DEF Gives
      <3>2. PICK s \in Sessions : /\ Takes(txn[s]) /\ txn[s].payer = u /\ txn'[s] = Idle
                                 /\ Cost(txn[s]) = row.amount
        BY <2>4, IdsAssumption DEF PaidBy
      <3> QED
        BY <2>1, <2>2, <3>1, <3>2
    <2> QED
      BY <2>3, <2>4
  <1>4. \A z \in Sessions : txn'[z].op = "reverse" => ledger'[txn[z].of] = ledger[txn[z].of]
    BY <1>2 DEF MInv, TxnsMean, Means, Idle
  <1> QED
    BY <1>3, <1>4 DEF Writes

\* A row that is reversed is paid for by its receiver when he had it.
LEMMA ChangedRow ==
    ASSUME MInv, MInv', NEW i \in DOMAIN ledger, NEW status \in {"COMPLETED", "DISPUTED", "REVERSED"},
           ledger' = [ledger EXCEPT ![i].status = status],
           \/ ledger[i].status = "SENT"
           \/ status = "REVERSED" /\ ledger[i].status = "DISPUTED"
           \/ status = "REVERSED" /\ PaidBy(ledger[i].to, ledger[i].amount),
           \A z \in Sessions : ~ (txn'[z].op = "reverse" /\ txn[z].of = i),
           UNCHANGED <<spend, overwritten>>, \A z \in Sessions : txn'[z] = txn[z] \/ txn'[z] = Idle
    PROVE  Writes
  <1>1. PICK old : old = ledger[i]
    OBVIOUS
  <1>2. PICK new : new = [old EXCEPT !.status = status]
    OBVIOUS
  <1>3. /\ old \in RowType /\ new \in RowType /\ ledger'[i] = new /\ DOMAIN ledger' = DOMAIN ledger
        /\ \A j \in DOMAIN ledger \ {i} : ledger'[j] = ledger[j]
        /\ new.from = old.from /\ new.to = old.to /\ new.amount = old.amount /\ new.status = status
    <2>1. ledger \in Seq(RowType)
      BY DEF MInv, TypeOK
    <2>2. old \in RowType
      BY <1>1, <2>1
    <2>3. /\ new \in RowType /\ new.from = old.from /\ new.to = old.to /\ new.amount = old.amount
          /\ new.status = status
      BY <1>2, <2>2 DEF RowType
    <2>4. ledger' = [ledger EXCEPT ![i] = new]
      BY <1>1, <1>2
    <2> QED
      BY <2>2, <2>3, <2>4
  <1>4. ASSUME NEW u \in Holders \ overwritten'
        PROVE  \/ Balance(u)' >= Balance(u)
               \/ \E s \in Sessions : /\ Takes(txn[s]) /\ txn[s].payer = u /\ txn'[s] = Idle
                                     /\ Balance(u)' >= Balance(u) - Cost(txn[s])
    <2>1. /\ Brings(old, u) \in Nat /\ Gives(old, u) \in Nat /\ Brings(new, u) \in Nat
          /\ Gives(new, u) \in Nat /\ old.amount \in Nat
      BY <1>3 DEF Brings, Gives, RowType
    <2>2. /\ Balance(u) \in Int
          /\ Balance(u)' = Balance(u) + Brings(new, u) - Gives(new, u) + Gives(old, u) - Brings(old, u)
      <3>1. DOMAIN ledger' = DOMAIN ledger \cup {i}
        BY <1>3
      <3>2. /\ Balance(u) \in Int
            /\ Balance(u)' = Balance(u) + Brings(ledger'[i], u) - Gives(ledger'[i], u)
                 + (IF i \in DOMAIN ledger THEN Gives(ledger[i], u) - Brings(ledger[i], u) ELSE 0)
        BY <1>3, <3>1, BalanceOnLedger
      <3> QED
        BY <1>1, <1>3, <2>1, <3>2
    <2>3. Gives(new, u) <= Gives(old, u)
      BY <1>1, <1>3, <2>1 DEF Gives, PaidBy, RowType
    <2>4. CASE Brings(old, u) = 0
      BY <2>1, <2>2, <2>3, <2>4
    <2>5. CASE Brings(old, u) # 0
      <3>1. old.to = u /\ old.status = "COMPLETED" /\ Brings(old, u) = old.amount
        BY <2>5 DEF Brings
      <3>2. PICK s \in Sessions : /\ Takes(txn[s]) /\ txn[s].payer = u /\ txn'[s] = Idle
                                 /\ Cost(txn[s]) = old.amount
        BY <1>1, <3>1, IdsAssumption DEF PaidBy
      <3> QED
        BY <2>1, <2>2, <2>3, <3>1, <3>2
    <2> QED
      BY <2>4, <2>5
  <1>5. \A z \in Sessions : txn'[z].op = "reverse" => ledger'[txn[z].of] = ledger[txn[z].of]
    BY <1>3 DEF MInv, TxnsMean, Means, Idle
  <1> QED
    BY <1>4, <1>5 DEF Writes
\* A row of ad spend is written: whoever it costs something has paid, or it had changed.
LEMMA ChangedSpend ==
    ASSUME MInv, MInv', NEW k, UNCHANGED ledger, DOMAIN spend' = DOMAIN spend \cup {k},
           \A i \in DOMAIN spend \ {k} : spend'[i] = spend[i],
           k \in DOMAIN spend => spend'[k].by = spend[k].by,
           NEW owner, owner = spend'[k].by, NEW cost \in Int,
           owner \notin overwritten' => cost =
               Uses(spend'[k], owner) - (IF k \in DOMAIN spend THEN Uses(spend[k], owner) ELSE 0),
           owner \notin overwritten' => cost <= 0 \/ PaidBy(owner, cost),
           overwritten \subseteq overwritten', \A z \in Sessions : txn'[z] = txn[z] \/ txn'[z] = Idle
    PROVE  Writes
  <1>1. spend'[k] \in SpendType /\ (k \in DOMAIN spend => spend[k] \in SpendType)
    BY DEF MInv, TypeOK
  <1>2. ASSUME NEW u \in Holders \ overwritten'
        PROVE  \/ Balance(u)' >= Balance(u)
               \/ \E s \in Sessions : /\ Takes(txn[s]) /\ txn[s].payer = u /\ txn'[s] = Idle
                                     /\ Balance(u)' >= Balance(u) - Cost(txn[s])
    <2>1. /\ Uses(spend'[k], u) \in Nat
          /\ k \in DOMAIN spend => Uses(spend[k], u) \in Nat
      BY <1>1, BoundsAssumption DEF Uses, SpendType, Amounts
    <2>2. /\ Balance(u) \in Int
          /\ Balance(u)' = Balance(u) - Uses(spend'[k], u)
               + (IF k \in DOMAIN spend THEN Uses(spend[k], u) ELSE 0)
      BY BalanceOnSpend
    <2>3. CASE owner # u
      <3>1. Uses(spend'[k], u) = 0 /\ (k \in DOMAIN spend => Uses(spend[k], u) = 0)
        BY <2>3 DEF Uses
      <3> QED
        BY <2>2, <3>1
    <2>4. CASE owner = u
      <3>1. Balance(u)' = Balance(u) - cost
        BY <2>1, <2>2, <2>4
      <3>2. cost <= 0 \/ \E s \in Sessions : /\ Takes(txn[s]) /\ txn[s].payer = u /\ txn'[s] = Idle
                                             /\ Cost(txn[s]) = cost
        BY <2>4, IdsAssumption DEF PaidBy
      <3> QED
        BY <2>2, <3>1, <3>2
    <2> QED
      BY <2>3, <2>4
  <1>3. \A i \in DOMAIN spend : spend'[i].by = spend[i].by
    OBVIOUS
  <1> QED
    BY <1>2, <1>3 DEF Writes, Idle

\* Nothing is written that a balance counts.
LEMMA NothingCounted ==
    ASSUME MInv, UNCHANGED <<ledger, spend, overwritten>>,
           \A z \in Sessions : txn'[z] = txn[z] \/ txn'[z] = Idle
    PROVE  Writes
  <1>1. \A u : Balance(u)' = Balance(u)
    BY DEF Balance
  <1>2. \A u : Balance(u) \in Int
    BY BalanceType DEF MInv, TypeOK, Balance
  <1> QED
    BY <1>1, <1>2 DEF Writes

\* A transaction that ends.
LEMMA Ending ==
    ASSUME MInv, NEW s \in Sessions, Ends(s)
    PROVE  txn'[s] = Idle /\ \A z \in Sessions : txn'[z] = txn[z] \/ txn'[z] = Idle
  BY DEF MInv, TxnsMean, Ends

\* A transaction that writes has checked its balance, unless the company pays or it costs nothing.
LEMMA Paid ==
    ASSUME MInv, BInv, NEW s \in Sessions, NEW op, Ready(s, op), Ends(s)
    PROVE  Cost(txn[s]) <= 0 \/ PaidBy(txn[s].payer, Cost(txn[s]))
  <1>1. Cost(txn[s]) \in Int
    BY CostType
  <1>2. txn'[s] = Idle
    BY Ending
  <1> QED
    BY <1>1, <1>2 DEF Ready, Takes, NeedsCheck, PaidBy

LEMMA LedgerWrites ==
    ASSUME MInv, MInv', BInv,
           \/ \E v \in Holders, n \in Amounts : CompanySends(v, n)
           \/ \E i \in DOMAIN ledger :
                \/ \E status \in {"COMPLETED", "DISPUTED"} : VerifyFunding(i, status)
                \/ ReverseUnreceived(i)
           \/ \E s \in Sessions :
                SendCommit(s) \/ ReverseCommit(s) \/ ApproveCommit(s) \/ SettleCommit(s)
    PROVE  Writes
  <1>1. ASSUME NEW v \in Holders, NEW n \in Amounts, CompanySends(v, n) PROVE Writes
    <2>1. PICK row : row = Row([Idle EXCEPT !.to = v, !.n = n], "SENT", Direct)
      OBVIOUS
    <2>2. row \in RowType /\ row.status = "SENT" /\ row.from = Company
      BY <2>1, BoundsAssumption DEF Row, Idle, RowType, Amounts
    <2>3. ledger' = Append(ledger, row) /\ UNCHANGED <<spend, overwritten, txn>>
      BY <1>1, <2>1 DEF CompanySends
    <2>4. PaidBy(row.from, row.amount)
      BY <2>2 DEF PaidBy
    <2> QED
      BY <2>2, <2>3, <2>4, AddedRow
  <1>2. ASSUME NEW i \in DOMAIN ledger, NEW status \in {"COMPLETED", "DISPUTED"},
               VerifyFunding(i, status)
        PROVE  Writes
    BY <1>2, ChangedRow DEF VerifyFunding, RowFree
  <1>3. ASSUME NEW i \in DOMAIN ledger, ReverseUnreceived(i) PROVE Writes
    BY <1>3, ChangedRow DEF ReverseUnreceived, RowFree
  <1>4. ASSUME NEW s \in Sessions, NEW op \in {"send", "approve", "settlePeer"}, Ready(s, op),
               Ends(s), NEW row, NEW status \in {"SENT", "COMPLETED"},
               NEW source \in Requests \cup Peers \cup {Direct}, row = Row(txn[s], status, source),
               ledger' = Append(ledger, row), UNCHANGED <<spend, overwritten>>
        PROVE  Writes
    <2>1. /\ txn[s] \in TxnType /\ txn[s].to \in Holders /\ txn[s].n \in Amounts
          /\ txn[s].op = op
      BY <1>4 DEF MInv, TxnsMean, Means, Ready
    <2>2. row \in RowType /\ row.status = status
      BY <1>4, <2>1, BoundsAssumption DEF Row, RowType, TxnType, Amounts
    <2>3. Cost(txn[s]) = row.amount /\ row.from = txn[s].payer /\ row.amount \in Nat \ {0}
      BY <1>4, <2>1, BoundsAssumption DEF Row, Cost, Amounts
    <2>4. PaidBy(row.from, row.amount)
      BY <1>4, <2>3, Paid
    <2> QED
      BY <1>4, <2>2, <2>4, Ending, AddedRow
  <1>5. ASSUME NEW s \in Sessions, SendCommit(s) PROVE Writes
    BY <1>4, <1>5 DEF SendCommit
  <1>6. ASSUME NEW s \in Sessions, ApproveCommit(s) PROVE Writes
    <2>1. txn[s].of \in Requests
      BY <1>6 DEF ApproveCommit, Ready, MInv, TxnsMean, Means
    <2>2. CASE Unpaid(txn[s].of)
      BY <1>4, <1>6, <2>1, <2>2 DEF ApproveCommit
    <2>3. CASE ~ Unpaid(txn[s].of)
      BY <1>6, <2>3, Ending, NothingCounted DEF ApproveCommit
    <2> QED
      BY <2>2, <2>3
  <1>7. ASSUME NEW s \in Sessions, SettleCommit(s) PROVE Writes
    <2>1. txn[s].of \in Peers
      BY <1>7 DEF SettleCommit, Ready, MInv, TxnsMean, Means
    <2> QED
      BY <1>4, <1>7, <2>1 DEF SettleCommit
  <1>8. ASSUME NEW s \in Sessions, ReverseCommit(s) PROVE Writes
    <2>1. PICK i : i = txn[s].of
      OBVIOUS
    <2>2. /\ txn[s].op = "reverse" /\ i \in DOMAIN ledger /\ ledger[i].to = txn[s].payer
          /\ ledger[i].amount = txn[s].n
          /\ \A z \in Sessions : txn[z].op = "reverse" /\ txn[z].of = i => z = s
      BY <1>8, <2>1 DEF ReverseCommit, Ready, MInv, TxnsMean, Means, BInv, ReversalsHold
    <2>3. Cost(txn[s]) = ledger[i].amount /\ ledger[i].amount \in Nat \ {0}
      <3>1. ledger[i] \in RowType
        BY <2>2 DEF MInv, TypeOK
      <3> QED
        BY <2>2, <3>1 DEF Cost, RowType
    <2>4. PaidBy(ledger[i].to, ledger[i].amount)
      <3>1. Cost(txn[s]) <= 0 \/ PaidBy(txn[s].payer, Cost(txn[s]))
        BY <1>8, Paid DEF ReverseCommit
      <3> QED
        BY <2>2, <2>3, <3>1
    <2>5. \A z \in Sessions : ~ (txn'[z].op = "reverse" /\ txn[z].of = i)
      <3>1. txn'[s] = Idle /\ \A z \in Sessions : txn'[z] = txn[z] \/ txn'[z] = Idle
        BY <1>8, Ending DEF ReverseCommit
      <3> QED
        BY <2>2, <3>1 DEF Idle
    <2>6. ledger' = [ledger EXCEPT ![i].status = "REVERSED"] /\ UNCHANGED <<spend, overwritten>>
      BY <1>8, <2>1 DEF ReverseCommit
    <2>7. \A z \in Sessions : txn'[z] = txn[z] \/ txn'[z] = Idle
      BY <1>8, Ending DEF ReverseCommit
    <2> QED
      BY <2>2, <2>4, <2>5, <2>6, <2>7, ChangedRow
  <1> QED
    BY <1>1, <1>2, <1>3, <1>5, <1>6, <1>7, <1>8
LEMMA SpendWrites ==
    ASSUME MInv, MInv', BInv, NEW s \in Sessions,
           LogCommit(s) \/ SpendApprove(s) \/ SpendReject(s) \/ EditCommit(s)
    PROVE  Writes
  <1>1. /\ spend \in Seq(SpendType) /\ txn[s] \in TxnType /\ Means(txn[s])
        /\ \A i \in DOMAIN spend : spend[i] \in SpendType
        /\ Ends(s) /\ UNCHANGED ledger /\ overwritten \subseteq overwritten'
    BY DEF MInv, TypeOK, TxnsMean, LogCommit, SpendApprove, SpendReject, EditCommit
  <1>2. txn'[s] = Idle /\ \A z \in Sessions : txn'[z] = txn[z] \/ txn'[z] = Idle
    BY <1>1, Ending
  <1>3. CASE LogCommit(s)
    <2>1. PICK k : k = Len(spend) + 1
      OBVIOUS
    <2>2. PICK row : row = [by |-> txn[s].payer, amount |-> txn[s].n, status |-> "PENDING"]
      OBVIOUS
    <2>3. spend' = Append(spend, row) /\ txn[s].op = "spend"
      BY <1>3, <2>2 DEF LogCommit, Ready
    <2>4. /\ DOMAIN spend' = DOMAIN spend \cup {k} /\ k \notin DOMAIN spend /\ spend'[k] = row
          /\ \A i \in DOMAIN spend : spend'[i] = spend[i]
      <3>1. DOMAIN spend = 1..Len(spend) /\ Len(spend) \in Nat
        BY <1>1
      <3>2. DOMAIN spend' = 1..(Len(spend) + 1)
        BY <1>1, <2>3
      <3> QED
        BY <1>1, <2>1, <2>3, <3>1, <3>2
    <2>5. Uses(row, row.by) = txn[s].n /\ Cost(txn[s]) = txn[s].n /\ txn[s].n \in Int
      BY <1>1, <2>2, <2>3 DEF Uses, Cost, TxnType
    <2>6. txn[s].n <= 0 \/ PaidBy(row.by, txn[s].n)
      BY <1>1, <1>3, <2>2, <2>5, Paid DEF LogCommit
    <2> QED
      BY <1>1, <1>2, <2>4, <2>5, <2>6, ChangedSpend
  <1>4. ASSUME SpendApprove(s) \/ SpendReject(s) \/ EditCommit(s)
        PROVE  /\ txn[s].of \in DOMAIN spend /\ DOMAIN spend' = DOMAIN spend
               /\ \A i \in DOMAIN spend \ {txn[s].of} : spend'[i] = spend[i]
               /\ spend'[txn[s].of].by = spend[txn[s].of].by
    <2>1. PICK k : k = txn[s].of
      OBVIOUS
    <2>2. k \in DOMAIN spend
      BY <1>1, <1>4, <2>1 DEF SpendApprove, SpendReject, EditCommit, Ready, Means
    <2>3. spend[k] \in SpendType
      BY <1>1, <2>2
    <2>4. PICK new : new.by = spend[k].by /\ spend' = [spend EXCEPT ![k] = new]
      <3>1. CASE SpendApprove(s) \/ SpendReject(s)
        <4>1. PICK status : spend' = [spend EXCEPT ![k].status = status]
          BY <2>1, <3>1 DEF SpendApprove, SpendReject
        <4>2. spend' = [spend EXCEPT ![k] = [spend[k] EXCEPT !.status = status]]
          BY <4>1
        <4>3. [spend[k] EXCEPT !.status = status].by = spend[k].by
          BY <2>3 DEF SpendType
        <4> QED
          BY <4>2, <4>3
      <3>2. CASE EditCommit(s)
        BY <2>1, <3>2 DEF EditCommit
      <3> QED
        BY <1>4, <3>1, <3>2
    <2> QED
      BY <1>1, <2>1, <2>2, <2>4
  <1>5. CASE SpendApprove(s) \/ SpendReject(s)
    <2>1. PICK k : k = txn[s].of
      OBVIOUS
    <2>2. /\ k \in DOMAIN spend /\ DOMAIN spend' = DOMAIN spend \cup {k}
          /\ \A i \in DOMAIN spend \ {k} : spend'[i] = spend[i]
          /\ spend'[k].by = spend[k].by /\ spend[k] \in SpendType
      BY <1>1, <1>4, <1>5, <2>1
    <2>3. PICK old, new, owner : old = spend[k] /\ new = spend'[k] /\ owner = spend[k].by
      OBVIOUS
    <2>4. new = [old EXCEPT !.status = IF SpendApprove(s) THEN "APPROVED" ELSE "REJECTED"]
      BY <1>1, <1>5, <2>1, <2>2, <2>3 DEF SpendApprove, SpendReject
    <2>5. /\ new.amount = old.amount /\ old.amount \in Nat /\ new.by = old.by
          /\ new.status = IF SpendApprove(s) THEN "APPROVED" ELSE "REJECTED"
          /\ old.status \in {"PENDING", "APPROVED", "REJECTED"}
      BY <2>2, <2>3, <2>4, BoundsAssumption DEF SpendType, Amounts
    <2>6. SpendApprove(s) /\ old.status = "REJECTED" => owner \in overwritten'
      BY <2>1, <2>3 DEF SpendApprove
    <2>7. PICK cost : cost = Uses(new, owner) - Uses(old, owner)
      OBVIOUS
    <2>8. cost \in Int /\ (owner \notin overwritten' => cost <= 0)
      BY <2>5, <2>6, <2>7 DEF Uses
    <2> QED
      BY <1>1, <1>2, <2>2, <2>3, <2>7, <2>8, ChangedSpend
  <1>6. CASE EditCommit(s)
    <2>1. PICK t : t = txn[s]
      OBVIOUS
    <2>2. PICK k : k = t.of
      OBVIOUS
    <2>3. /\ k \in DOMAIN spend /\ DOMAIN spend' = DOMAIN spend \cup {k}
          /\ \A i \in DOMAIN spend \ {k} : spend'[i] = spend[i]
          /\ spend'[k].by = spend[k].by /\ spend[k] \in SpendType
      BY <1>1, <1>4, <1>6, <2>1, <2>2
    <2>4. PICK old, new, owner : old = spend[k] /\ new = spend'[k] /\ owner = spend[k].by
      OBVIOUS
    <2>5. /\ t.op = "editSpend" /\ t.seen \in SpendType /\ t.payer = owner /\ t.n \in Amounts
      BY <1>1, <1>6, <2>1, <2>2, <2>4 DEF EditCommit, Ready, Means, BInv, EditsCharge
    <2>6. /\ new = [by |-> old.by, amount |-> t.n,
                    status |-> IF t.seen.status = "PENDING" THEN old.status ELSE "PENDING"]
          /\ old # t.seen => owner \in overwritten'
      BY <1>1, <1>6, <2>1, <2>2, <2>3, <2>4 DEF EditCommit, Edited
    <2>7. PICK cost : cost = Uses(new, owner) - Uses(old, owner)
      OBVIOUS
    <2>8. old \in SpendType /\ Cost(t) = Delta(t)
      BY <2>3, <2>4, <2>5 DEF Cost
    <2>9. cost \in Int
      BY <2>5, <2>6, <2>7, <2>8, BoundsAssumption DEF Uses, SpendType, Amounts
    <2>10. owner \notin overwritten' => cost = Cost(t)
      <3> SUFFICES ASSUME old = t.seen PROVE cost = Delta(t)
        BY <2>6, <2>8
      <3>1. new.by = owner /\ new.amount = t.n /\ new.status = "PENDING"
        BY <2>4, <2>6
      <3>2. Uses(new, owner) = t.n
        BY <3>1 DEF Uses
      <3>3. Uses(old, owner) = IF t.seen.status = "REJECTED" THEN 0 ELSE t.seen.amount
        BY <2>4, <2>8 DEF Uses, SpendType
      <3> QED
        BY <2>7, <3>2, <3>3 DEF Delta
    <2>11. owner \notin overwritten' => cost <= 0 \/ PaidBy(owner, cost)
      BY <1>1, <1>6, <2>1, <2>5, <2>10, Paid DEF EditCommit
    <2> QED
      BY <1>1, <1>2, <2>3, <2>4, <2>7, <2>9, <2>11, ChangedSpend
  <1> QED
    BY <1>3, <1>5, <1>6

\* The steps that move a transaction on.
LEMMA Moves ==
    ASSUME MInv, BInv, NEW s \in Sessions,
           \/ Check(s)
           \/ \E u, v \in Holders, n \in Amounts : Send(s, u, v, n)
           \/ \E u \in Holders, n \in Amounts : LogSpend(s, u, n)
           \/ \E i \in DOMAIN ledger : ReverseRead(s, i)
           \/ \E q \in Requests :
                \/ RejectRead(s, q)
                \/ \E u \in Users, n \in Amounts : ApproveRead(s, q, u, n)
           \/ \E p \in Peers :
                \/ SettleRead(s, p)
                \/ \E op \in {"approvePeer", "rejectPeer"} : PeerDecisionRead(s, p, op)
           \/ \E i \in DOMAIN spend :
                \/ \E n \in Amounts : EditRead(s, i, n)
                \/ \E op \in {"approveSpend", "rejectSpend"} : SpendDecisionRead(s, i, op)
    PROVE  BInv'
  <1>1. CASE Check(s)
    <2>1. PICK old : old = txn[s]
      OBVIOUS
    <2>2. PICK t : t = [old EXCEPT !.pc = "checked"]
      OBVIOUS
    <2>3. /\ old \in TxnType /\ old.pc = "read" /\ NeedsCheck(old) /\ LockFree(old.payer)
          /\ UNCHANGED Records
          /\ txn' = [txn EXCEPT ![s] = IF Balance(old.payer) >= Cost(old) THEN t ELSE Idle]
      BY <1>1, <2>1, <2>2 DEF Check, MInv, TxnsMean
    <2>4. /\ t.op = old.op /\ t.of = old.of /\ t.payer = old.payer /\ t.n = old.n /\ t.seen = old.seen
          /\ t.pc = "checked" /\ Cost(t) = Cost(old)
      BY <2>2, <2>3 DEF TxnType, Cost, Delta
    <2>5. Balance(old.payer) >= Cost(old) => MayBecome(s, t)
      <3>1. old.payer \in Holders
        BY <2>3 DEF NeedsCheck, TxnType
      <3>2. /\ \A z \in Sessions \ {s} : ~ (Takes(txn[z]) /\ txn[z].payer = t.payer)
            /\ Takes(t)
        BY <2>3, <2>4 DEF LockFree, Takes
      <3>3. t.op = "reverse" =>
              /\ \A z \in Sessions \ {s} : ~ (txn[z].op = "reverse" /\ txn[z].of = t.of)
              /\ ledger[t.of].status = "COMPLETED" /\ ledger[t.of].to = t.payer
              /\ ledger[t.of].amount = t.n
        BY <2>1, <2>4 DEF BInv, ReversalsHold
      <3>4. t.op = "editSpend" =>
              t.seen \in SpendType /\ spend[t.of].by = t.payer /\ t.seen.by = t.payer
        BY <2>1, <2>4 DEF BInv, EditsCharge
      <3> QED
        BY <2>4, <3>1, <3>2, <3>3, <3>4 DEF MayBecome
    <2>6. MayBecome(s, Idle)
      BY DEF MayBecome, Idle, Takes
    <2> QED
      BY <2>3, <2>5, <2>6, MoveStep
  <1>2. ASSUME NEW op \in {"send", "spend"}, NEW payer \in Holders, NEW to, NEW n \in Amounts,
               Checks(s, op, payer, to, n)
        PROVE  BInv'
    <2>1. PICK t : t = [pc |-> "checked", op |-> op, of |-> Direct, payer |-> payer, to |-> to,
                        n |-> n, seen |-> Direct]
      OBVIOUS
    <2>2. txn' = [txn EXCEPT ![s] = t] /\ UNCHANGED Records
      BY <1>2, <2>1 DEF Checks
    <2>3. MayBecome(s, t)
      BY <1>2, <2>1 DEF MayBecome, Checks, LockFree, Takes, Cost
    <2> QED
      BY <2>2, <2>3, MoveStep
  <1>3. ASSUME NEW op, op \notin {"send", "spend"}, NEW of, NEW payer, NEW to, NEW n, NEW seen,
               Reads(s, op, of, payer, to, n, seen),
               op = "reverse" => /\ RowFree(of) /\ ledger[of].status = "COMPLETED"
                                 /\ ledger[of].to = payer /\ ledger[of].amount = n,
               op = "editSpend" => seen \in SpendType /\ seen = spend[of] /\ seen.by = payer
        PROVE  BInv'
    <2>1. PICK t : t = [pc |-> "read", op |-> op, of |-> of, payer |-> payer, to |-> to,
                        n |-> n, seen |-> seen]
      OBVIOUS
    <2>2. txn' = [txn EXCEPT ![s] = t] /\ UNCHANGED Records
      BY <1>3, <2>1 DEF Reads
    <2>3. MayBecome(s, t)
      BY <1>3, <2>1 DEF MayBecome, RowFree, Takes
    <2> QED
      BY <2>2, <2>3, MoveStep
  <1>4. ASSUME NEW u \in Holders, NEW v \in Holders, NEW n \in Amounts, Send(s, u, v, n) PROVE BInv'
    BY <1>2, <1>4 DEF Send
  <1>5. ASSUME NEW u \in Holders, NEW n \in Amounts, LogSpend(s, u, n) PROVE BInv'
    BY <1>2, <1>5 DEF LogSpend
  <1>6. ASSUME NEW i \in DOMAIN ledger, ReverseRead(s, i) PROVE BInv'
    BY <1>3, <1>6 DEF ReverseRead
  <1>7. ASSUME NEW q \in Requests,
               RejectRead(s, q) \/ \E u \in Users, n \in Amounts : ApproveRead(s, q, u, n)
        PROVE  BInv'
    BY <1>3, <1>7 DEF RejectRead, ApproveRead
  <1>8. ASSUME NEW p \in Peers,
               SettleRead(s, p) \/ \E op \in {"approvePeer", "rejectPeer"} : PeerDecisionRead(s, p, op)
        PROVE  BInv'
    BY <1>3, <1>8 DEF SettleRead, PeerDecisionRead
  <1>9. ASSUME NEW i \in DOMAIN spend, NEW n \in Amounts, EditRead(s, i, n) PROVE BInv'
    <2>1. spend[i] \in SpendType
      BY DEF MInv, TypeOK
    <2> QED
      BY <1>3, <1>9, <2>1 DEF EditRead
  <1>10. ASSUME NEW i \in DOMAIN spend, NEW op \in {"approveSpend", "rejectSpend"},
                SpendDecisionRead(s, i, op)
         PROVE  BInv'
    BY <1>3, <1>10 DEF SpendDecisionRead
  <1> QED
    BY <1>1, <1>4, <1>5, <1>6, <1>7, <1>8, <1>9, <1>10

LEMMA BInvInit == Init => BInv
  <1> SUFFICES ASSUME Init PROVE BInv
    OBVIOUS
  <1>1. ASSUME NEW u \in Holders PROVE Balance(u) >= 0
    <2>1. Spent(spend, u) = {}
      BY DEF Init, Spent
    <2>2. Total(spend, Spent(spend, u)) = 0
      BY <2>1, SumEmpty DEF Total
    <2>3. Funds(ledger, u) \in Int /\ Funds(ledger, u) >= 0
      <3>1. ledger = Opening /\ ledger \in Seq(RowType) /\ spend \in Seq(SpendType)
        BY OpeningAssumption DEF Init
      <3> QED
        BY <3>1, BalanceType, OpeningCovered
    <2> QED
      BY <2>2, <2>3 DEF Balance
  <1>2. \A s \in Sessions : ~ Takes(txn[s]) /\ txn[s].op = "none"
    BY DEF Init, Idle, Takes
  <1> QED
    BY <1>1, <1>2 DEF BInv, ChecksMean, Covered, OneChecked, ReversalsHold, EditsCharge, NoOverdraft

LEMMA BInvStep == MInv /\ MInv' /\ BInv /\ [Next]_vars => BInv'
  <1> SUFFICES ASSUME MInv, MInv', BInv, [Next]_vars PROVE BInv'
    OBVIOUS
  <1>1. CASE UNCHANGED vars
    <2>1. Writes
      BY <1>1, NothingCounted DEF vars
    <2> QED
      BY <2>1, WriteStep
  <1>2. ASSUME NEW v \in Holders, NEW n \in Amounts,
               \/ \E q \in Requests : RequestFunding(q, v, n)
               \/ \E p \in Peers, u \in Holders : OfferPeer(p, u, v, n)
        PROVE  BInv'
    <2>1. Writes
      BY <1>2, NothingCounted DEF RequestFunding, OfferPeer
    <2> QED
      BY <2>1, WriteStep
  <1>3. ASSUME NEW s \in Sessions, RejectCommit(s) \/ PeerApprove(s) \/ PeerReject(s) PROVE BInv'
    <2>1. Ends(s) /\ UNCHANGED <<ledger, spend, overwritten>>
      BY <1>3 DEF RejectCommit, PeerApprove, PeerReject, PeerDecision
    <2>2. Writes
      BY <2>1, Ending, NothingCounted
    <2> QED
      BY <2>2, WriteStep
  <1> QED
    BY <1>1, <1>2, <1>3, LedgerWrites, SpendWrites, WriteStep, Moves DEF Next

\* Nobody's balance falls below zero, whatever sends, requests, transfers, reversals and spends
\* overlap, except by a decision or an edit that wrote over a spend which had changed
\* (lockFundingBalanceInTx and assertSufficientMbBalance).
THEOREM NobodyOverdraws == Spec => []NoOverdraft
  <1>1. BInv => NoOverdraft
    BY DEF BInv
  <1> QED
    BY <1>1, MInvInit, MInvStep, BInvInit, BInvStep, PTL DEF Spec
==============================================================================
