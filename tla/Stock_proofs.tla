----------------------------- MODULE Stock_proofs -----------------------------
(***************************************************************************)
(* Proofs about the two ways in which staff correct and move stock:        *)
(* reconciliations (StockCounts) and transfers (StockTransfers), each with *)
(* its own variables and its own specification.                            *)
(***************************************************************************)
EXTENDS StockCounts, StockTransfers, Sums, TLAPS

(***************************************************************************)
(* Reconciliations, for any number of products, counts and staff, whether  *)
(* or not counts of a product overlap.                                     *)
(***************************************************************************)

Submitting == {"recorded", "lock", "locked"}
Resolving == {"resolving", "keep", "unlock", "unlocked"}

\* Two open transactions work on different reconciliations; one that resolves
\* holds a pending row, one that submits an id not yet used.
RowsExclusive ==
    \A s \in Staff : Open(s) =>
        /\ tx[s].c \in Counts /\ tx[s].p \in Products
        /\ \A t \in Staff \ {s} : Open(t) => tx[t].c # tx[s].c
        /\ tx[s].pc \in Resolving => rec[tx[s].c].status = "PENDING"
        /\ tx[s].pc \in Submitting => rec[tx[s].c].status = "NONE"

\* A submitted reconciliation names its product.
ProductNamed == \A c \in Counts : rec[c].status # "NONE" => rec[c].p \in Products

CountsInv == CountsTypeOK /\ ProductNamed /\ RowsExclusive

\* The initial state satisfies the invariant.
LEMMA CountsHoldAtFirst == CountsInit => CountsInv
<1> SUFFICES ASSUME CountsInit PROVE CountsInv
  OBVIOUS
<1>1. NoTx \in TxType /\ NoTx.pc = "idle"
  BY DEF NoTx, TxType
<1>2. CountsTypeOK
  <2>1. NoRec \in [status : {"NONE", "PENDING", "APPROVED", "REJECTED"},
                   p : Products \cup {NoProduct}, d : Int]
    BY DEF NoRec
  <2> QED BY <1>1, <2>1, CountsAssumption DEF CountsInit, CountsTypeOK
<1>3. RowsExclusive
  BY <1>1 DEF CountsInit, RowsExclusive, Open
<1>4. ProductNamed
  BY DEF CountsInit, ProductNamed, NoRec
<1> QED BY <1>2, <1>3, <1>4 DEF CountsInv

\* The steps of a submission preserve the types and the exclusion of rows.
LEMMA SubmitStep ==
  ASSUME CountsInv, NEW s \in Staff,
         \/ \E c \in Counts, p \in Products : Create(s, c, p)
         \/ LockDispatch(s) \/ CommitCreate(s)
  PROVE  CountsInv'
<1>1. ASSUME NEW c \in Counts, NEW p \in Products, Create(s, c, p) PROVE CountsInv'
  <2> DEFINE d == present[p] - stock[p]
             t == [pc |-> IF d = 0 THEN "recorded" ELSE "lock",
                   c |-> c, p |-> p, d |-> d, approved |-> FALSE]
  <2>1. t \in TxType
    BY <1>1 DEF CountsInv, CountsTypeOK, TxType
  <2>2. t.pc \in Submitting /\ t.c = c /\ t.p = p
    BY DEF Submitting
  <2>3. tx' = [tx EXCEPT ![s] = t] /\ UNCHANGED <<present, lost, stock, rec, dispatchLocked>>
    BY <1>1 DEF Create, units
  <2>4. rec[c].status = "NONE" /\ \A u \in Staff : Open(u) => tx[u].c # c
    BY <1>1 DEF Create, RecHeld
  <2> HIDE DEF t
  <2>5. CountsTypeOK'
    BY <2>1, <2>3 DEF CountsInv, CountsTypeOK
  <2>6. RowsExclusive'
    BY <2>2, <2>3, <2>4 DEF CountsInv, CountsTypeOK, RowsExclusive, Open, Submitting, Resolving
  <2>7. ProductNamed'
    BY <2>3 DEF CountsInv, ProductNamed
  <2> QED BY <2>5, <2>6, <2>7 DEF CountsInv
<1>2. CASE LockDispatch(s)
  BY <1>2 DEF LockDispatch, CountsInv, CountsTypeOK, ProductNamed, TxType,
              RowsExclusive, Open, units,
              Submitting, Resolving
<1>3. CASE CommitCreate(s)
  BY <1>3 DEF CommitCreate, CountsInv, CountsTypeOK, ProductNamed, TxType,
              RowsExclusive, Open, units, NoTx,
              Submitting, Resolving
<1> QED BY <1>1, <1>2, <1>3

\* So do the steps of a resolution.
LEMMA ResolveStep ==
  ASSUME CountsInv, NEW s \in Staff,
         \/ \E c \in Counts, approved \in BOOLEAN : Resolve(s, c, approved)
         \/ CheckPending(s) \/ UnlockDispatch(s) \/ CommitResolve(s)
  PROVE  CountsInv'
<1>1. ASSUME NEW c \in Counts, NEW approved \in BOOLEAN, Resolve(s, c, approved)
      PROVE  CountsInv'
  <2>1. rec[c].status = "PENDING" /\ \A u \in Staff : Open(u) => tx[u].c # c
    BY <1>1 DEF Resolve, Resolvable, Pending, RecHeld
  <2> DEFINE t == [pc |-> "resolving", c |-> c, p |-> rec[c].p, d |-> rec[c].d,
                   approved |-> approved]
  <2>2. t \in TxType
    BY DEF CountsInv, CountsTypeOK, TxType
  <2>3. t.pc \in Resolving \ Submitting /\ t.c = c /\ t.p = rec[c].p
    BY DEF Submitting, Resolving
  <2>4. tx' = [tx EXCEPT ![s] = t] /\ UNCHANGED <<present, lost, stock, rec, dispatchLocked>>
    BY <1>1 DEF Resolve, units
  <2> HIDE DEF t
  <2>5. CountsTypeOK'
    BY <2>2, <2>4 DEF CountsInv, CountsTypeOK
  <2>6. RowsExclusive'
    BY <2>1, <2>3, <2>4 DEF CountsInv, CountsTypeOK, ProductNamed, RowsExclusive, Open,
                            Submitting, Resolving
  <2>7. ProductNamed'
    BY <2>4 DEF CountsInv, ProductNamed
  <2> QED BY <2>5, <2>6, <2>7 DEF CountsInv
<1>2. CASE CheckPending(s)
  BY <1>2 DEF CheckPending, CountsInv, CountsTypeOK, ProductNamed, TxType,
              RowsExclusive, Open, units,
              Submitting, Resolving
<1>3. CASE UnlockDispatch(s)
  BY <1>3 DEF UnlockDispatch, CountsInv, CountsTypeOK, ProductNamed, TxType,
              RowsExclusive, Open, units,
              Submitting, Resolving
<1>4. CASE CommitResolve(s)
  <2> DEFINE c == tx[s].c
             p == tx[s].p
  <2>1. Open(s) /\ c \in Counts /\ p \in Products
    BY <1>4 DEF CommitResolve, CountsInv, RowsExclusive, Open
  <2>2. Applied(p, tx[s].d) \in Nat
    BY <2>1 DEF Applied, CountsInv, CountsTypeOK, TxType
  <2>3. CountsTypeOK'
    BY <1>4, <2>1, <2>2 DEF CommitResolve, LockAfter, CountsInv, CountsTypeOK, TxType, units, NoTx
  <2>4. RowsExclusive'
    BY <1>4, <2>1 DEF CommitResolve, CountsInv, CountsTypeOK, TxType, RowsExclusive, Open, NoTx,
                      Submitting, Resolving
  <2>5. ProductNamed'
    BY <1>4, <2>1 DEF CommitResolve, CountsInv, CountsTypeOK, ProductNamed, RowsExclusive,
                      Open, Resolving
  <2> QED BY <2>3, <2>4, <2>5 DEF CountsInv
<1> QED BY <1>1, <1>2, <1>3, <1>4

\* A rollback, and units that move without a count, preserve it too.
LEMMA OtherStep ==
  ASSUME CountsInv,
         \/ \E s \in Staff : RollbackCount(s)
         \/ \E p \in Products : Sell(p) \/ Lose(p)
         \/ UNCHANGED countVars
  PROVE  CountsInv'
<1>1. ASSUME NEW s \in Staff, RollbackCount(s) PROVE CountsInv'
  BY <1>1 DEF RollbackCount, CountsInv, CountsTypeOK, ProductNamed, TxType,
              RowsExclusive, Open, units, NoTx,
              Submitting, Resolving
<1>2. ASSUME NEW p \in Products, Sell(p) \/ Lose(p) PROVE CountsInv'
  BY <1>2 DEF Sell, Lose, CountsInv, CountsTypeOK, ProductNamed, RowsExclusive, Open
<1>3. CASE UNCHANGED countVars
  BY <1>3 DEF countVars, CountsInv, CountsTypeOK, ProductNamed, RowsExclusive, Open
<1> QED BY <1>1, <1>2, <1>3

\* The invariant is inductive.
LEMMA CountsInductive == CountsInv /\ [CountsNext]_countVars => CountsInv'
<1> SUFFICES ASSUME CountsInv, [CountsNext]_countVars PROVE CountsInv'
  OBVIOUS
<1>1. ASSUME NEW s \in Staff,
             \/ \E c \in Counts, p \in Products : Create(s, c, p)
             \/ LockDispatch(s) \/ CommitCreate(s)
      PROVE CountsInv'
  BY <1>1, SubmitStep
<1>2. ASSUME NEW s \in Staff,
             \/ \E c \in Counts, approved \in BOOLEAN : Resolve(s, c, approved)
             \/ CheckPending(s) \/ UnlockDispatch(s) \/ CommitResolve(s)
      PROVE CountsInv'
  BY <1>2, ResolveStep
<1> QED BY <1>1, <1>2, OtherStep DEF CountsNext

\* Types: the counts on the books never go below zero, whatever interleaves.
THEOREM CountsTyped == CountsSpec => []CountsTypeOK
<1>1. CountsInv => CountsTypeOK
  BY DEF CountsInv
<1> QED BY CountsHoldAtFirst, CountsInductive, <1>1, PTL DEF CountsSpec

\* Two reviewers never apply a count twice, nor overturn each other: what has
\* been approved or rejected stays as it is (resolveReconciliation).
THEOREM CountResolvedOnce == CountsSpec => ResolvedOnce
<1> DEFINE Fixed == \A c \in Counts :
                      rec[c].status \in {"APPROVED", "REJECTED"} => rec'[c] = rec[c]
<1>1. CountsInv /\ [CountsNext]_countVars => [Fixed]_countVars
  <2> SUFFICES ASSUME CountsInv, CountsNext,
                      NEW c \in Counts, rec[c].status \in {"APPROVED", "REJECTED"}
               PROVE  rec'[c] = rec[c]
    OBVIOUS
  <2>1. ASSUME NEW s \in Staff, CommitCreate(s) PROVE rec'[c] = rec[c]
    <3>1. rec[tx[s].c].status = "NONE"
      BY <2>1 DEF CommitCreate, CountsInv, RowsExclusive, Open, Submitting
    <3> QED BY <2>1, <3>1 DEF CommitCreate, CountsInv, CountsTypeOK
  <2>2. ASSUME NEW s \in Staff, CommitResolve(s) PROVE rec'[c] = rec[c]
    <3>1. rec[tx[s].c].status = "PENDING"
      BY <2>2 DEF CommitResolve, CountsInv, RowsExclusive, Open, Resolving
    <3> QED BY <2>2, <3>1 DEF CommitResolve, CountsInv, CountsTypeOK
  <2> QED
    BY <2>1, <2>2 DEF CountsNext, Create, LockDispatch, Resolve, CheckPending, UnlockDispatch,
                      RollbackCount, Sell, Lose
<1> QED BY CountsHoldAtFirst, CountsInductive, <1>1, PTL DEF CountsSpec, ResolvedOnce

------------------------------------------------------------------------------
(***************************************************************************)
(* What approvals do to the books, when a product is not counted again     *)
(* while a count of it is pending.                                         *)
(***************************************************************************)

Submits(s) == tx[s].pc \in Submitting
Resolves(s) == tx[s].pc \in Resolving

\* A discrepancy measured earlier can still be applied: sales since then have
\* taken units off the shelf and the books alike, losses off the shelf only.
Fits(p, d) == d <= 0 /\ present[p] <= stock[p] + d

CountsFit ==
    /\ \A c \in Counts : Pending(c) => Fits(rec[c].p, rec[c].d)
    /\ \A s \in Staff : Submits(s) => Fits(tx[s].p, tx[s].d)

\* A resolution applies what the reconciliation says.
ResolvesRec ==
    \A s \in Staff : Resolves(s) => /\ tx[s].p = rec[tx[s].c].p
                                       /\ tx[s].d = rec[tx[s].c].d

\* No product is counted twice at a time.
OneCount ==
    /\ \A c, k \in Counts : Pending(c) /\ Pending(k) /\ c # k => rec[c].p # rec[k].p
    /\ \A s \in Staff, c \in Counts : Submits(s) /\ Pending(c) => rec[c].p # tx[s].p
    /\ \A s, t \in Staff : Submits(s) /\ Submits(t) /\ s # t => tx[s].p # tx[t].p

BooksInv == CountsInv /\ CountsFit /\ ResolvesRec /\ OneCount /\ OnlyLossesCorrected

USE DEF Submits, Resolves

LEMMA BooksInit == CountsInit => BooksInv
<1> SUFFICES ASSUME CountsInit PROVE BooksInv
  OBVIOUS
<1>1. CountsInv
  BY CountsHoldAtFirst
<1>2. CountsFit /\ ResolvesRec /\ OneCount
  BY DEF CountsInit, NoTx, NoRec, CountsFit, ResolvesRec, OneCount, Pending, Submitting, Resolving
<1>3. OnlyLossesCorrected
  BY CountsAssumption DEF CountsInit, OnlyLossesCorrected
<1> QED BY <1>1, <1>2, <1>3 DEF BooksInv

\* A count measures what is missing, of a product no other count is about.
LEMMA BooksCreate ==
  ASSUME BooksInv, ~Overlap, CountsInv',
         NEW s \in Staff, NEW c \in Counts, NEW p \in Products, Create(s, c, p)
  PROVE  BooksInv'
<1> DEFINE d == present[p] - stock[p]
           t == [pc |-> IF d = 0 THEN "recorded" ELSE "lock",
                 c |-> c, p |-> p, d |-> d, approved |-> FALSE]
<1>1. t.pc \in Submitting \ Resolving /\ t.c = c /\ t.p = p /\ t.d = d
  BY DEF Submitting, Resolving
<1>2. tx' = [tx EXCEPT ![s] = t] /\ UNCHANGED <<present, lost, stock, rec, dispatchLocked>>
  BY DEF Create, units
<1>3. /\ \A k \in Counts : Pending(k) => rec[k].p # p
      /\ \A u \in Staff : tx[u].p # p
  BY DEF Create
<1>4. Fits(p, d)
  BY DEF BooksInv, CountsInv, CountsTypeOK, OnlyLossesCorrected, Fits
<1>5. tx \in [Staff -> TxType]
  BY DEF BooksInv, CountsInv, CountsTypeOK
<1> HIDE DEF t, d
<1>6. tx'[s] = t /\ \A u \in Staff \ {s} : tx'[u] = tx[u]
  BY <1>2, <1>5
<1>7. CountsFit'
  BY <1>1, <1>2, <1>4, <1>6 DEF BooksInv, CountsFit, Fits, Pending
<1>8. ResolvesRec'
  BY <1>1, <1>2, <1>6 DEF BooksInv, ResolvesRec
<1>9. OneCount'
  BY <1>1, <1>2, <1>3, <1>6 DEF BooksInv, OneCount, Pending
<1>10. OnlyLossesCorrected'
  BY <1>2 DEF BooksInv, OnlyLossesCorrected
<1> QED BY <1>7, <1>8, <1>9, <1>10 DEF BooksInv

\* Its commit hands the measure over to the reconciliation.
LEMMA BooksCommitCreate ==
  ASSUME BooksInv, CountsInv', NEW s \in Staff, CommitCreate(s)
  PROVE  BooksInv'
<1> DEFINE c == tx[s].c
           r == [status |-> "PENDING", p |-> tx[s].p, d |-> tx[s].d]
<1>1. Submits(s) /\ c \in Counts
  BY DEF CommitCreate, BooksInv, CountsInv, RowsExclusive, Open, Submitting
<1>2. r.status = "PENDING" /\ r.p = tx[s].p /\ r.d = tx[s].d
  OBVIOUS
<1>3. rec' = [rec EXCEPT ![c] = r] /\ tx' = [tx EXCEPT ![s] = NoTx]
      /\ UNCHANGED <<present, lost, stock>>
  BY DEF CommitCreate, units
<1> HIDE DEF c, r
<1>4. rec'[c] = r /\ \A k \in Counts \ {c} : rec'[k] = rec[k]
  BY <1>1, <1>3 DEF BooksInv, CountsInv, CountsTypeOK
<1>5. ~Submits(s)' /\ ~Resolves(s)' /\ \A u \in Staff \ {s} : tx'[u] = tx[u]
  BY <1>3 DEF BooksInv, CountsInv, CountsTypeOK, NoTx, Submitting, Resolving
<1>6. \A u \in Staff \ {s} : Resolves(u) => tx[u].c # c /\ tx[u].c \in Counts
  BY <1>1 DEF c, BooksInv, CountsInv, RowsExclusive, Open, Submitting, Resolving
<1>7. CountsFit'
  BY <1>1, <1>2, <1>3, <1>4, <1>5 DEF BooksInv, CountsFit, Fits, Pending
<1>8. ResolvesRec'
  BY <1>4, <1>5, <1>6 DEF BooksInv, ResolvesRec
<1>9. OneCount'
  BY <1>1, <1>2, <1>4, <1>5 DEF BooksInv, OneCount, Pending
<1>10. OnlyLossesCorrected'
  BY <1>3 DEF BooksInv, OnlyLossesCorrected
<1> QED BY <1>7, <1>8, <1>9, <1>10 DEF BooksInv

\* A resolution takes over what the reconciliation says.
LEMMA BooksResolve ==
  ASSUME BooksInv, CountsInv', NEW s \in Staff, NEW c \in Counts,
         NEW approved \in BOOLEAN, Resolve(s, c, approved)
  PROVE  BooksInv'
<1> DEFINE t == [pc |-> "resolving", c |-> c, p |-> rec[c].p, d |-> rec[c].d,
                 approved |-> approved]
<1>1. t.pc \in Resolving \ Submitting /\ t.c = c /\ t.p = rec[c].p /\ t.d = rec[c].d
  BY DEF Submitting, Resolving
<1>2. tx' = [tx EXCEPT ![s] = t] /\ UNCHANGED <<present, lost, stock, rec>>
  BY DEF Resolve, units
<1> HIDE DEF t
<1>3. tx'[s] = t /\ \A u \in Staff \ {s} : tx'[u] = tx[u]
  BY <1>2 DEF BooksInv, CountsInv, CountsTypeOK
<1>4. CountsFit' /\ ResolvesRec' /\ OneCount'
  BY <1>1, <1>2, <1>3 DEF BooksInv, CountsFit, Fits, ResolvesRec, OneCount, Pending
<1>5. OnlyLossesCorrected'
  BY <1>2 DEF BooksInv, OnlyLossesCorrected
<1> QED BY <1>4, <1>5 DEF BooksInv

\* Steps that only move a transaction along change nothing the books depend on.
LEMMA BooksAlong ==
  ASSUME BooksInv, CountsInv', NEW s \in Staff,
         \/ LockDispatch(s) \/ CheckPending(s) \/ UnlockDispatch(s) \/ RollbackCount(s)
  PROVE  BooksInv'
<1>1. UNCHANGED <<present, lost, stock, rec>>
  BY DEF LockDispatch, CheckPending, UnlockDispatch, RollbackCount, units
<1>2. \A u \in Staff \ {s} : tx'[u] = tx[u]
  BY DEF LockDispatch, CheckPending, UnlockDispatch, RollbackCount, BooksInv, CountsInv, CountsTypeOK
<1>3. /\ tx'[s].c = tx[s].c /\ tx'[s].p = tx[s].p /\ tx'[s].d = tx[s].d
      /\ Submits(s)' => Submits(s)
      /\ Resolves(s)' => Resolves(s)
      \/ tx'[s].pc = "idle"
  <2>1. CASE RollbackCount(s)
    BY <2>1 DEF RollbackCount, NoTx, BooksInv, CountsInv, CountsTypeOK
  <2>2. CASE LockDispatch(s)
    BY <2>2 DEF LockDispatch, BooksInv, CountsInv, CountsTypeOK, TxType, Submitting, Resolving
  <2>3. CASE CheckPending(s)
    BY <2>3 DEF CheckPending, BooksInv, CountsInv, CountsTypeOK, TxType, Submitting, Resolving
  <2>4. CASE UnlockDispatch(s)
    BY <2>4 DEF UnlockDispatch, BooksInv, CountsInv, CountsTypeOK, TxType, Submitting, Resolving
  <2> QED BY <2>1, <2>2, <2>3, <2>4
<1>4. CountsFit'
  BY <1>1, <1>2, <1>3 DEF BooksInv, CountsFit, Fits, Pending, Submitting
<1>5. ResolvesRec'
  BY <1>1, <1>2, <1>3 DEF BooksInv, ResolvesRec, Resolving
<1>6. OneCount'
  BY <1>1, <1>2, <1>3 DEF BooksInv, OneCount, Pending, Submitting
<1>7. OnlyLossesCorrected'
  BY <1>1 DEF BooksInv, OnlyLossesCorrected
<1> QED BY <1>4, <1>5, <1>6, <1>7 DEF BooksInv

\* An approval brings the books down to what can still be on the shelf.
LEMMA BooksCommitResolve ==
  ASSUME BooksInv, CountsInv', NEW s \in Staff, CommitResolve(s)
  PROVE  BooksInv'
<1> DEFINE c == tx[s].c
           p == tx[s].p
           d == tx[s].d
<1>1. Resolves(s) /\ c \in Counts /\ p \in Products /\ d \in Int /\ Pending(c)
  BY DEF CommitResolve, BooksInv, CountsInv, CountsTypeOK, TxType, RowsExclusive, Open, Resolving,
         Pending
<1>2. rec[c].p = p /\ rec[c].d = d
  BY <1>1 DEF BooksInv, ResolvesRec
<1>3. Fits(p, d)
  BY <1>1, <1>2 DEF BooksInv, CountsFit
<1>4. stock \in [Products -> Nat] /\ present \in [Products -> Nat] /\ lost \in [Products -> Nat]
  BY DEF BooksInv, CountsInv, CountsTypeOK
<1>5. /\ UNCHANGED <<present, lost>>
      /\ \A q \in Products \ {p} : stock'[q] = stock[q]
      /\ stock'[p] = stock[p] \/ stock'[p] = stock[p] + d
  BY <1>1, <1>3, <1>4 DEF CommitResolve, Applied, Fits, units
<1>6. rec'[c].status # "PENDING" /\ \A k \in Counts \ {c} : rec'[k] = rec[k]
  <2> DEFINE st == IF tx[s].approved THEN "APPROVED" ELSE "REJECTED"
  <2>1. rec' = [rec EXCEPT ![c] = [rec[c] EXCEPT !.status = st]]
    BY DEF CommitResolve
  <2>2. /\ rec \in [Counts -> [status : {"NONE", "PENDING", "APPROVED", "REJECTED"},
                              p : Products \cup {NoProduct}, d : Int]]
        /\ st # "PENDING"
    BY DEF BooksInv, CountsInv, CountsTypeOK
  <2> HIDE DEF st, c
  <2>3. rec'[c] = [rec[c] EXCEPT !.status = st] /\ \A k \in Counts \ {c} : rec'[k] = rec[k]
    BY <1>1, <2>1, <2>2
  <2>4. rec'[c].status = st
    BY <1>1, <2>2, <2>3
  <2> QED BY <2>2, <2>3, <2>4
<1>7. ~Submits(s)' /\ ~Resolves(s)' /\ \A u \in Staff \ {s} : tx'[u] = tx[u]
  BY DEF CommitResolve, BooksInv, CountsInv, CountsTypeOK, NoTx, Submitting, Resolving
<1>8. \A u \in Staff \ {s} : Resolves(u) => tx[u].c # c /\ tx[u].c \in Counts
  BY <1>1 DEF BooksInv, CountsInv, RowsExclusive, Open, Resolving
<1>9. /\ \A k \in Counts \ {c} : Pending(k) => rec[k].p # p /\ rec[k].p \in Products
      /\ \A u \in Staff : Submits(u) => tx[u].p # p /\ tx[u].p \in Products
  BY <1>1, <1>2 DEF BooksInv, OneCount, CountsInv, ProductNamed, RowsExclusive, Open, Pending,
                    Submitting
<1>10. OnlyLossesCorrected'
  BY <1>1, <1>3, <1>4, <1>5 DEF BooksInv, OnlyLossesCorrected, Fits
<1> HIDE DEF c, p, d
<1>11. CountsFit'
  <2>1. ASSUME NEW k \in Counts, Pending(k)' PROVE Fits(rec[k].p, rec[k].d)' /\ k # c
    BY <2>1, <1>5, <1>6, <1>9 DEF BooksInv, CountsFit, Fits, Pending
  <2>2. ASSUME NEW u \in Staff, Submits(u)' PROVE Fits(tx[u].p, tx[u].d)'
    BY <2>2, <1>5, <1>7, <1>9 DEF BooksInv, CountsFit, Fits
  <2> QED BY <2>1, <2>2 DEF CountsFit
<1>12. ResolvesRec'
  BY <1>6, <1>7, <1>8 DEF BooksInv, ResolvesRec
<1>13. OneCount'
  BY <1>6, <1>7 DEF BooksInv, OneCount, Pending
<1> QED BY <1>10, <1>11, <1>12, <1>13 DEF BooksInv

\* A sale takes a unit off both, a loss off the shelf only.
LEMMA BooksUnits ==
  ASSUME BooksInv, CountsInv', NEW p \in Products, Sell(p) \/ Lose(p)
  PROVE  BooksInv'
<1>1. UNCHANGED <<rec, tx>>
  BY DEF Sell, Lose
<1>2. stock \in [Products -> Nat] /\ present \in [Products -> Nat] /\ lost \in [Products -> Nat]
  BY DEF BooksInv, CountsInv, CountsTypeOK
<1>3. \A q \in Products : /\ stock'[q] - present'[q] >= stock[q] - present[q]
                          /\ stock'[q] - present'[q] - lost'[q] = stock[q] - present[q] - lost[q]
                          /\ stock'[q] \in Nat /\ present'[q] \in Nat /\ lost'[q] \in Nat
  BY <1>2 DEF Sell, Lose
<1>4. OnlyLossesCorrected'
  BY <1>2, <1>3 DEF BooksInv, OnlyLossesCorrected
<1>5. \A q \in Products, d \in Int : Fits(q, d) => Fits(q, d)'
  BY <1>2, <1>3 DEF Fits
<1>6. /\ \A c \in Counts : Pending(c) => rec[c].p \in Products /\ rec[c].d \in Int
      /\ \A s \in Staff : Submits(s) => tx[s].p \in Products /\ tx[s].d \in Int
  BY DEF BooksInv, CountsInv, CountsTypeOK, TxType, ProductNamed, RowsExclusive, Open, Pending,
         Submitting
<1>7. CountsFit'
  <2>1. ASSUME NEW c \in Counts, Pending(c) PROVE Fits(rec[c].p, rec[c].d)'
    <3>1. Fits(rec[c].p, rec[c].d) /\ rec[c].p \in Products /\ rec[c].d \in Int
      BY <1>6, <2>1 DEF BooksInv, CountsFit
    <3> QED BY <1>1, <1>2, <1>3, <3>1 DEF Fits
  <2>2. ASSUME NEW s \in Staff, Submits(s) PROVE Fits(tx[s].p, tx[s].d)'
    <3>1. Fits(tx[s].p, tx[s].d) /\ tx[s].p \in Products /\ tx[s].d \in Int
      BY <1>6, <2>2 DEF BooksInv, CountsFit
    <3> QED BY <1>1, <1>2, <1>3, <3>1 DEF Fits
  <2> QED BY <1>1, <2>1, <2>2 DEF CountsFit, Pending
<1>8. ResolvesRec' /\ OneCount'
  BY <1>1 DEF BooksInv, ResolvesRec, OneCount, Pending
<1> QED BY <1>4, <1>7, <1>8 DEF BooksInv

LEMMA BooksInductive == ~Overlap /\ BooksInv /\ [CountsNext]_countVars => BooksInv'
<1> SUFFICES ASSUME ~Overlap, BooksInv, [CountsNext]_countVars PROVE BooksInv'
  OBVIOUS
<1>1. CountsInv'
  BY CountsInductive DEF BooksInv
<1>2. CASE UNCHANGED countVars
  BY <1>1, <1>2 DEF countVars, BooksInv, CountsFit, Fits, ResolvesRec, OneCount, Pending,
                    OnlyLossesCorrected
<1>3. CASE CountsNext
  BY <1>1, <1>3, BooksCreate, BooksCommitCreate, BooksResolve, BooksAlong,
     BooksCommitResolve, BooksUnits DEF CountsNext
<1> QED BY <1>2, <1>3

\* Where staff do not count a product again while a count of it is pending,
\* approvals only ever correct losses, however many units are sold between a
\* count and its approval (resolveReconciliation applies the discrepancy, not
\* the count).
THEOREM LossesOnly == ASSUME ~Overlap PROVE CountsSpec => []OnlyLossesCorrected
<1>1. BooksInv /\ [CountsNext]_countVars => BooksInv'
  BY BooksInductive
<1>2. BooksInv => OnlyLossesCorrected
  BY DEF BooksInv
<1> QED BY BooksInit, <1>1, <1>2, PTL DEF CountsSpec

------------------------------------------------------------------------------
(***************************************************************************)
(* Transfers, for any number of transfers, locations, countries and        *)
(* transactions in flight.  A transfer never takes a unit that an order    *)
(* has reserved: it checks what is available under the lock of the level   *)
(* it debits, and holds that lock until it writes.                         *)
(*                                                                         *)
(* The invariant says that a level has at most one transaction in front of *)
(* its credit, that this one's units are available, and, for the shapes of *)
(* rows and requests, that no transaction credits the level it debits.     *)
(* The history variables and the cost layers are not needed.               *)
(***************************************************************************)

RowTyped ==
    transfer \in [Transfers -> [status : Statuses, from : Places, to : Places,
                                sent : Nat, received : Nat \cup {NotCounted}]]

ReqTyped ==
    req \in [Sessions -> [pc : {"idle", "debit", "credit"},
                          op : {"none", "initiate", "approve", "verify", "cancel"},
                          t : Transfers \cup {NoTransfer}, out : Places, in : Places, n : Nat]]

LevelsTyped == shelf \in [Locations -> Nat] /\ reserved \in [Locations -> Nat]

\* A row that exists leads from a location to another one.
RowsLead ==
    \A t \in Transfers :
        transfer[t].status # "NONE" =>
            /\ transfer[t].from \in Locations /\ transfer[t].to \in Locations
            /\ transfer[t].from # transfer[t].to

\* A transaction is about a row that exists, unless it makes one, and does not credit
\* the level it debits.
RequestsLead ==
    \A s \in Sessions :
        req[s].pc # "idle" =>
            /\ req[s].t \in Transfers /\ req[s].in \in Locations /\ req[s].out # req[s].in
            /\ req[s].pc = "debit" => req[s].out \in Locations
            /\ req[s].op = "initiate" => req[s].out \in Locations
            /\ req[s].op # "initiate" => transfer[req[s].t].status # "NONE"

Holds(s, l) == req[s].pc = "credit" /\ req[s].out = l

\* One transaction at a time holds a level.
OneHolder ==
    \A l \in Locations : \A s1, s2 \in Sessions : Holds(s1, l) /\ Holds(s2, l) => s1 = s2

\* What it will take is still available.
HolderCovered ==
    \A l \in Locations : \A s \in Sessions : Holds(s, l) => req[s].n <= shelf[l] - reserved[l]

LInv ==
    /\ RowTyped /\ ReqTyped /\ LevelsTyped
    /\ RowsLead /\ RequestsLead
    /\ OneHolder /\ HolderCovered /\ ReservedKept

USE DEF Places, Statuses, Holds

\* Nobody holds a level that is free.
LEMMA LevelFreeMeans ==
    ASSUME NEW l \in Locations, LevelFree(l)
    PROVE  \A s \in Sessions : ~Holds(s, l)
  BY DEF LevelFree, Holder

\* The first step of a request keeps the invariant.
LEMMA BeginKeeps ==
    ASSUME LInv,
           NEW s \in Sessions, NEW op \in {"initiate", "approve", "verify", "cancel"},
           NEW t \in Transfers, NEW out \in Places, NEW in \in Locations, NEW n \in Nat,
           out # in, op = "initiate" => out \in Locations,
           op # "initiate" => transfer[t].status # "NONE",
           Begin(s, op, t, out, in, n)
    PROVE  LInv'
  <1> USE DEF LInv
  <1> DEFINE r == [pc |-> IF out = Nowhere THEN "credit" ELSE "debit",
                   op |-> op, t |-> t, out |-> out, in |-> in, n |-> n]
  <1>1. /\ req' = [req EXCEPT ![s] = r]
        /\ UNCHANGED <<transfer, shelf, reserved>>
    BY DEF Begin, levels
  <1>2. ReqTyped'
    BY <1>1 DEF ReqTyped
  <1>3. \A l \in Locations : \A z \in Sessions : Holds(z, l)' => Holds(z, l) /\ req'[z] = req[z]
    BY <1>1, NowhereAssumption DEF ReqTyped
  <1>4. RequestsLead'
    BY <1>1, NowhereAssumption DEF RequestsLead, ReqTyped
  <1>5. OneHolder'
    BY <1>3 DEF OneHolder
  <1>6. HolderCovered'
    BY <1>1, <1>3 DEF HolderCovered
  <1>7. RowTyped' /\ LevelsTyped' /\ RowsLead' /\ ReservedKept'
    BY <1>1 DEF RowTyped, LevelsTyped, RowsLead, ReservedKept
  <1> QED
    BY <1>2, <1>4, <1>5, <1>6, <1>7

\* A transaction that ends without writing keeps the invariant.
LEMMA EndKeeps ==
    ASSUME LInv, NEW s \in Sessions, req' = [req EXCEPT ![s] = Idle],
           UNCHANGED <<transfer, shelf, reserved>>
    PROVE  LInv'
  <1> USE DEF LInv
  <1>1. ReqTyped'
    BY DEF ReqTyped, Idle
  <1>2. \A z \in Sessions : req'[z].pc # "idle" => z # s /\ req'[z] = req[z]
    BY DEF ReqTyped, Idle
  <1>3. RequestsLead'
    BY <1>2 DEF RequestsLead
  <1>4. OneHolder'
    BY <1>2 DEF OneHolder
  <1>5. HolderCovered'
    BY <1>2 DEF HolderCovered
  <1>6. RowTyped' /\ LevelsTyped' /\ RowsLead' /\ ReservedKept'
    BY DEF RowTyped, LevelsTyped, RowsLead, ReservedKept
  <1> QED
    BY <1>1, <1>3, <1>4, <1>5, <1>6

\* A change of one row that keeps its ends, or gives it ends, keeps the invariant.
LEMMA RowKeeps ==
    ASSUME LInv, NEW t \in Transfers,
           NEW row \in [status : Statuses \ {"NONE"}, from : Locations, to : Locations,
                        sent : Nat, received : Nat \cup {NotCounted}],
           row.from # row.to, transfer' = [transfer EXCEPT ![t] = row],
           UNCHANGED <<shelf, reserved, req>>
    PROVE  LInv'
  <1> USE DEF LInv
  <1>1. RowTyped'
    BY DEF RowTyped
  <1>2. RowsLead'
    BY DEF RowsLead, RowTyped
  <1>3. RequestsLead'
    BY DEF RequestsLead, RowTyped
  <1>4. ReqTyped' /\ LevelsTyped' /\ OneHolder' /\ HolderCovered' /\ ReservedKept'
    BY DEF ReqTyped, LevelsTyped, OneHolder, HolderCovered, ReservedKept
  <1> QED
    BY <1>1, <1>2, <1>3, <1>4

------------------------------------------------------------------------------
\* Orders and suppliers move a level only while nobody holds it.
LEMMA OthersKeep ==
    ASSUME LInv, NEW l \in Locations, LevelFree(l),
           NEW n \in Nat, NEW m \in Nat, m <= n,
           shelf' = [shelf EXCEPT ![l] = n], reserved' = [reserved EXCEPT ![l] = m],
           UNCHANGED <<transfer, req>>
    PROVE  LInv'
  <1> USE DEF LInv
  <1>1. LevelsTyped' /\ ReservedKept'
    BY DEF LevelsTyped, ReservedKept
  <1>2. HolderCovered'
    BY LevelFreeMeans DEF HolderCovered, LevelsTyped
  <1>3. RowTyped' /\ ReqTyped' /\ RowsLead' /\ RequestsLead' /\ OneHolder'
    BY DEF RowTyped, ReqTyped, RowsLead, RequestsLead, OneHolder
  <1> QED
    BY <1>1, <1>2, <1>3

\* A debit takes a level that nobody holds, and only what is available there.
LEMMA DebitKeeps ==
    ASSUME LInv, NEW s \in Sessions, Debit(s)
    PROVE  LInv'
  <1> USE DEF LInv
  <1> DEFINE l == req[s].out
  <1>1. l \in Locations /\ req[s].pc = "debit"
    BY DEF Debit, RequestsLead
  <1>2. CASE Available(l) >= req[s].n
    <2>1. /\ req' = [req EXCEPT ![s] = [@ EXCEPT !.pc = "credit"]]
          /\ UNCHANGED <<transfer, shelf, reserved>>
      BY <1>2 DEF Debit, levels
    <2>2. ReqTyped' /\ RequestsLead'
      BY <1>1, <2>1 DEF ReqTyped, RequestsLead
    <2>3. \A k \in Locations : \A z \in Sessions : Holds(z, k)' => (z = s /\ k = l) \/ Holds(z, k)
      BY <1>1, <2>1 DEF ReqTyped
    <2>4. \A z \in Sessions : ~Holds(z, l)
      BY <1>1, LevelFreeMeans DEF Debit
    <2>5. OneHolder'
      BY <2>3, <2>4 DEF OneHolder
    <2>6. \A z \in Sessions : req'[z].n = req[z].n
      BY <2>1 DEF ReqTyped
    <2>7. req[s].n <= shelf[l] - reserved[l]
      BY <1>1, <1>2 DEF Available, LevelsTyped, ReqTyped
    <2>8. HolderCovered'
      BY <2>1, <2>3, <2>6, <2>7 DEF HolderCovered
    <2>9. RowTyped' /\ LevelsTyped' /\ RowsLead' /\ ReservedKept'
      BY <2>1 DEF RowTyped, LevelsTyped, RowsLead, ReservedKept
    <2> QED
      BY <2>2, <2>5, <2>8, <2>9
  <1>3. CASE ~(Available(l) >= req[s].n)
    <2>1. req' = [req EXCEPT ![s] = Idle] /\ UNCHANGED <<transfer, shelf, reserved>>
      BY <1>3 DEF Debit, levels, Rollback
    <2> QED
      BY <2>1, EndKeeps
  <1> QED
    BY <1>2, <1>3

\* The row a transaction writes leads somewhere.
LEMMA OutcomeLeads ==
    ASSUME LInv, NEW s \in Sessions, req[s].pc # "idle"
    PROVE  /\ Outcome(req[s]) \in [status : Statuses \ {"NONE"}, from : Locations, to : Locations,
                                   sent : Nat, received : Nat \cup {NotCounted}]
           /\ Outcome(req[s]).from # Outcome(req[s]).to
  <1> USE DEF LInv
  <1> DEFINE r == req[s]
             old == transfer[r.t]
  <1>1. /\ r.t \in Transfers /\ r.in \in Locations /\ r.out # r.in
        /\ r.op = "initiate" => r.out \in Locations
        /\ r.op # "initiate" => old.status # "NONE"
        /\ r.n \in Nat
    BY DEF RequestsLead, ReqTyped
  <1>2. CASE r.op = "initiate"
    BY <1>1, <1>2 DEF Outcome, Row
  <1>3. CASE r.op # "initiate"
    <2>1. /\ old \in [status : Statuses, from : Places, to : Places,
                      sent : Nat, received : Nat \cup {NotCounted}]
          /\ old.from \in Locations /\ old.to \in Locations /\ old.from # old.to
      BY <1>1, <1>3 DEF RowTyped, RowsLead
    <2>2. CASE r.op = "approve"
      BY <1>1, <2>1, <2>2 DEF Outcome
    <2>3. CASE r.op = "verify"
      BY <1>1, <2>1, <2>3 DEF Outcome
    <2>4. CASE r.op \notin {"initiate", "approve", "verify"}
      BY <1>1, <2>1, <2>4 DEF Outcome
    <2> QED
      BY <1>3, <2>2, <2>3, <2>4
  <1> QED
    BY <1>2, <1>3

\* The credit takes the units it holds, and puts them on a level nobody holds.
LEMMA CreditKeeps ==
    ASSUME LInv, NEW s \in Sessions, Credit(s)
    PROVE  LInv'
  <1> USE DEF LInv
  <1> DEFINE r == req[s]
  <1>1. /\ r.pc = "credit" /\ r.t \in Transfers /\ r.in \in Locations
        /\ r.out \in Places /\ r.out # r.in /\ r.n \in Nat
    BY DEF Credit, RequestsLead, ReqTyped
  <1>2. /\ shelf' = [k \in Locations |-> shelf[k] - (IF k = r.out THEN r.n ELSE 0)
                                                  + (IF k = r.in THEN r.n ELSE 0)]
        /\ transfer' = [transfer EXCEPT ![r.t] = Outcome(r)]
        /\ req' = [req EXCEPT ![s] = Idle] /\ reserved' = reserved
    BY DEF Credit
  <1>3. /\ Outcome(r) \in [status : Statuses \ {"NONE"}, from : Locations, to : Locations,
                           sent : Nat, received : Nat \cup {NotCounted}]
        /\ Outcome(r).from # Outcome(r).to
    BY <1>1, OutcomeLeads
  <1>4. \A z \in Sessions : ~Holds(z, r.in)
    BY <1>1, LevelFreeMeans DEF Credit
  <1>5. \A z \in Sessions : req'[z].pc # "idle" => z # s /\ req'[z] = req[z]
    BY <1>2 DEF ReqTyped, Idle
  <1>6. RowTyped' /\ RowsLead'
    BY <1>1, <1>2, <1>3 DEF RowTyped, RowsLead
  <1>7. ReqTyped'
    BY <1>2 DEF ReqTyped, Idle
  <1>8. RequestsLead'
    <2>1. \A t \in Transfers : transfer[t].status # "NONE" => transfer'[t].status # "NONE"
      BY <1>2, <1>3 DEF RowTyped
    <2> QED
      BY <1>5, <2>1 DEF RequestsLead
  <1>9. OneHolder'
    BY <1>5 DEF OneHolder
  <1>10. \A k \in Locations : k = r.out => r.n <= shelf[k] - reserved[k]
    BY <1>1 DEF HolderCovered
  <1>11. LevelsTyped' /\ ReservedKept'
    <2> SUFFICES ASSUME NEW k \in Locations
                 PROVE  shelf'[k] \in Nat /\ reserved'[k] <= shelf'[k]
      BY <1>2 DEF LevelsTyped, ReservedKept
    <2>1. shelf[k] \in Nat /\ reserved[k] \in Nat /\ reserved[k] <= shelf[k]
      BY DEF LevelsTyped, ReservedKept
    <2>2. CASE k = r.out
      BY <1>1, <1>2, <1>10, <2>1, <2>2
    <2>3. CASE k = r.in
      BY <1>1, <1>2, <2>1, <2>3
    <2>4. CASE k # r.in /\ k # r.out
      BY <1>2, <2>1, <2>4
    <2> QED
      BY <2>2, <2>3, <2>4
  <1>12. HolderCovered'
    <2> SUFFICES ASSUME NEW k \in Locations, NEW z \in Sessions, Holds(z, k)'
                 PROVE  req'[z].n <= shelf'[k] - reserved'[k]
      BY DEF HolderCovered
    <2>1. z # s /\ req'[z] = req[z] /\ Holds(z, k)
      BY <1>5
    <2>2. k # r.in
      BY <1>4, <2>1
    <2>3. k # r.out
      BY <1>1, <2>1 DEF OneHolder
    <2>4. shelf'[k] = shelf[k]
      BY <1>2, <2>2, <2>3 DEF LevelsTyped
    <2> QED
      BY <1>2, <2>1, <2>4 DEF HolderCovered
  <1> QED
    BY <1>6, <1>7, <1>8, <1>9, <1>11, <1>12

------------------------------------------------------------------------------
\* The invariant holds in the beginning.
LEMMA LInvInit == Init => LInv
  <1> SUFFICES ASSUME Init PROVE LInv
    OBVIOUS
  <1>1. RowTyped /\ RowsLead
    <2>1. \A t \in Transfers : transfer[t] \in LegacyRows \cup {None}
      BY DEF Init
    <2>2. \A row \in LegacyRows :
            /\ row \in [status : {"IN_TRANSIT"}, from : Locations, to : Locations,
                        sent : Nat, received : {NotCounted}]
            /\ row.from # row.to
      BY RoutesAssumption, BoundsAssumption DEF LegacyRows, Row, Quantities
    <2>3. None \in [status : {"NONE"}, from : {Nowhere}, to : {Nowhere},
                    sent : {0}, received : {NotCounted}]
      BY DEF None
    <2> QED
      BY <2>1, <2>2, <2>3 DEF Init, RowTyped, RowsLead
  <1>2. ReqTyped /\ RequestsLead /\ OneHolder /\ HolderCovered
    BY DEF Init, Idle, ReqTyped, RequestsLead, OneHolder, HolderCovered
  <1>3. LevelsTyped /\ ReservedKept
    BY BoundsAssumption DEF Init, LevelsTyped, ReservedKept
  <1> QED
    BY <1>1, <1>2, <1>3 DEF LInv

\* Every step of the system keeps it.
LEMMA LInvStep == LInv /\ [Next]_vars => LInv'
  <1> SUFFICES ASSUME LInv, [Next]_vars PROVE LInv'
    OBVIOUS
  <1> USE DEF LInv
  <1>1. ASSUME NEW t \in Transfers, NEW ro \in Routes, NEW n \in Quantities, Plan(t, ro[1], ro[2], n)
        PROVE  LInv'
    <2>1. ro[1] \in Locations /\ ro[2] \in Locations /\ ro[1] # ro[2] /\ n \in Nat
      BY RoutesAssumption, BoundsAssumption DEF Quantities
    <2>2. /\ transfer' = [transfer EXCEPT ![t] = Row("PENDING", ro[1], ro[2], n, NotCounted)]
          /\ UNCHANGED <<shelf, reserved, req>>
      BY <1>1 DEF Plan, levels
    <2> DEFINE row == Row("PENDING", ro[1], ro[2], n, NotCounted)
    <2>3. /\ row \in [status : Statuses \ {"NONE"}, from : Locations, to : Locations,
                      sent : Nat, received : Nat \cup {NotCounted}]
          /\ row.from # row.to
      BY <2>1 DEF Row
    <2> QED
      BY <2>2, <2>3, RowKeeps
  <1>2. ASSUME NEW t \in Transfers, NEW ro \in Routes, NEW n \in Quantities, NEW s \in Sessions,
               Initiate(s, t, ro[1], ro[2], n)
        PROVE  LInv'
    <2>1. ro[1] \in Locations /\ ro[2] \in Locations /\ ro[1] # ro[2] /\ n \in Nat
      BY RoutesAssumption, BoundsAssumption DEF Quantities
    <2>2. Begin(s, "initiate", t, ro[1], ro[2], n)
      BY <1>2 DEF Initiate
    <2> QED
      BY <2>1, <2>2, BeginKeeps
  <1>3. ASSUME NEW t \in Transfers, NEW status \in {"REJECTED", "CANCELLED"},
               transfer[t].status = "PENDING", Flip(t, status)
        PROVE  LInv'
    <2>1. /\ transfer' = [transfer EXCEPT ![t].status = status]
          /\ UNCHANGED <<shelf, reserved, req>>
      BY <1>3 DEF Flip, levels
    <2> DEFINE row == [transfer[t] EXCEPT !.status = status]
    <2>2. /\ row \in [status : Statuses \ {"NONE"}, from : Locations, to : Locations,
                      sent : Nat, received : Nat \cup {NotCounted}]
          /\ row.from # row.to
      BY <1>3 DEF RowTyped, RowsLead
    <2>3. transfer' = [transfer EXCEPT ![t] = row]
      BY <2>1 DEF RowTyped
    <2> QED
      BY <2>1, <2>2, <2>3, RowKeeps
  <1>4. ASSUME NEW s \in Sessions, NEW t \in Transfers, transfer[t].status # "NONE"
        PROVE  /\ transfer[t].from \in Locations /\ transfer[t].to \in Locations
               /\ transfer[t].from # transfer[t].to /\ transfer[t].sent \in Nat
               /\ transfer[t].received \in Nat \cup {NotCounted}
    BY <1>4 DEF RowTyped, RowsLead
  <1>5. ASSUME NEW s \in Sessions, NEW t \in Transfers, Approve(s, t)
        PROVE  LInv'
    BY <1>4, <1>5, BeginKeeps DEF Approve
  <1>6. ASSUME NEW s \in Sessions, NEW t \in Transfers, NEW n \in 0..MaxQty, Verify(s, t, n)
        PROVE  LInv'
    <2>1. n \in Nat /\ Nowhere \in Places
      BY BoundsAssumption
    <2> QED
      BY <1>4, <1>6, <2>1, NowhereAssumption, BeginKeeps DEF Verify
  <1>7. ASSUME NEW s \in Sessions, NEW t \in Transfers, Cancel(s, t)
        PROVE  LInv'
    <2> DEFINE r == transfer[t]
               out == IF r.received # NotCounted /\ r.received # 0 THEN r.to ELSE Nowhere
    <2>1. r.status # "NONE" /\ Begin(s, "cancel", t, out, r.from, GivenBack(r))
      BY <1>7 DEF Cancel
    <2>2. out \in Places /\ out # r.from /\ r.from \in Locations /\ GivenBack(r) \in Nat
      BY <1>4, <2>1, NowhereAssumption DEF GivenBack
    <2> QED
      BY <2>1, <2>2, BeginKeeps
  <1>8. ASSUME NEW s \in Sessions, Proceeds(s) PROVE LInv'
    <2>1. CASE Debit(s)
      BY <2>1, DebitKeeps
    <2>2. CASE Credit(s)
      BY <2>2, CreditKeeps
    <2>3. CASE LayersMissing(s)
      BY <2>3, EndKeeps DEF LayersMissing, Rollback, levels
    <2>4. CASE DeadlockVictim(s)
      BY <2>4, EndKeeps DEF DeadlockVictim, Rollback, levels
    <2> QED
      BY <1>8, <2>1, <2>2, <2>3, <2>4 DEF Proceeds
  <1>9. ASSUME NEW l \in Locations, Reserve(l) \/ Release(l) \/ Ship(l) \/ Intake(l)
        PROVE  LInv'
    <2>1. /\ shelf[l] \in Nat /\ reserved[l] \in Nat /\ reserved[l] <= shelf[l]
          /\ shelf = [shelf EXCEPT ![l] = shelf[l]]
          /\ reserved = [reserved EXCEPT ![l] = reserved[l]]
      BY DEF LevelsTyped, ReservedKept
    <2>2. CASE Reserve(l)
      <3>1. reserved[l] + 1 <= shelf[l]
        BY <2>1, <2>2 DEF Reserve, Available
      <3>2. /\ LevelFree(l) /\ UNCHANGED <<transfer, req>>
            /\ shelf' = [shelf EXCEPT ![l] = shelf[l]]
            /\ reserved' = [reserved EXCEPT ![l] = reserved[l] + 1]
        BY <2>1, <2>2 DEF Reserve
      <3>3. reserved[l] + 1 \in Nat
        BY <2>1
      <3> QED
        BY <2>1, <3>1, <3>2, <3>3, OthersKeep
    <2>3. CASE Release(l)
      <3>1. reserved[l] - 1 \in Nat /\ reserved[l] - 1 <= shelf[l]
        BY <2>1, <2>3 DEF Release
      <3> QED
        BY <2>1, <2>3, <3>1, OthersKeep DEF Release
    <2>4. CASE Ship(l)
      <3>1. reserved[l] - 1 \in Nat /\ shelf[l] - 1 \in Nat /\ reserved[l] - 1 <= shelf[l] - 1
        BY <2>1, <2>4 DEF Ship
      <3> QED
        BY <2>1, <2>4, <3>1, OthersKeep DEF Ship
    <2>5. CASE Intake(l)
      <3>1. shelf[l] + 1 \in Nat /\ reserved[l] <= shelf[l] + 1
        BY <2>1
      <3> QED
        BY <2>1, <2>5, <3>1, OthersKeep DEF Intake
    <2> QED
      BY <1>9, <2>2, <2>3, <2>4, <2>5
  <1>10. CASE UNCHANGED vars
    BY <1>10 DEF vars, levels, RowTyped, ReqTyped, LevelsTyped, RowsLead, RequestsLead,
                 OneHolder, HolderCovered, ReservedKept
  <1>11. CASE Next
    <2>1. CASE \E t \in Transfers, ro \in Routes, n \in Quantities :
                 \/ Plan(t, ro[1], ro[2], n)
                 \/ \E s \in Sessions : Initiate(s, t, ro[1], ro[2], n)
      BY <1>1, <1>2, <2>1
    <2>2. CASE \E t \in Transfers : Reject(t) \/ CancelPending(t)
      BY <1>3, <2>2 DEF Reject, CancelPending
    <2>3. CASE \E s \in Sessions, t \in Transfers :
                 \/ Approve(s, t) \/ Cancel(s, t)
                 \/ \E n \in 0..MaxQty : Verify(s, t, n)
      BY <1>5, <1>6, <1>7, <2>3
    <2>4. CASE \E s \in Sessions : Proceeds(s)
      BY <1>8, <2>4
    <2>5. CASE \E l \in Locations : Reserve(l) \/ Release(l) \/ Ship(l) \/ Intake(l)
      BY <1>9, <2>5
    <2> QED
      BY <1>11, <2>1, <2>2, <2>3, <2>4, <2>5 DEF Next
  <1> QED
    BY <1>10, <1>11

\* Units that an order has reserved stay on their shelf, whatever the transfers do:
\* approvals, cancellations and verifications of any number, at any step of each other.
THEOREM ReservedStaysReserved == Spec => []ReservedKept
  <1>1. LInv => ReservedKept
    BY DEF LInv
  <1> QED
    BY LInvInit, LInvStep, <1>1, PTL DEF Spec

\* The shapes of rows, requests and levels, for every instance.
THEOREM ShapesKept == Spec => [](RowTyped /\ ReqTyped /\ LevelsTyped)
  <1>1. LInv => RowTyped /\ ReqTyped /\ LevelsTyped
    BY DEF LInv
  <1> QED
    BY LInvInit, LInvStep, <1>1, PTL DEF Spec
------------------------------------------------------------------------------
(***************************************************************************)
(* The shelves and the cost layers are explained by the rows.  A request   *)
(* has its row to itself, so the row it writes over is the one it read.    *)
(***************************************************************************)

\* What the count of a row can be in each of its states.
RowsCount ==
    \A t \in Transfers :
        /\ transfer[t].status = "NONE" => transfer[t].from = Nowhere /\ transfer[t].to = Nowhere
        /\ transfer[t].status \in {"NONE", "PENDING", "IN_TRANSIT", "REJECTED"} =>
              transfer[t].received = NotCounted
        /\ transfer[t].status \in {"RECEIVED", "DISPUTED"} => transfer[t].received # NotCounted

\* The row a request is about is still the one it read.
Reads(r) ==
    /\ r.op = "initiate" => transfer[r.t].status = "NONE"
    /\ r.op = "approve" =>
          /\ transfer[r.t].status = "PENDING" /\ r.n = transfer[r.t].sent
          /\ r.out = transfer[r.t].from /\ r.in = transfer[r.t].to
    /\ r.op = "verify" =>
          transfer[r.t].status = "IN_TRANSIT" /\ r.out = Nowhere /\ r.in = transfer[r.t].to
    /\ r.op = "cancel" =>
          /\ transfer[r.t].status \in {"IN_TRANSIT", "RECEIVED", "DISPUTED"}
          /\ r.in = transfer[r.t].from
          /\ transfer[r.t].status = "IN_TRANSIT" => r.out = Nowhere /\ r.n = transfer[r.t].sent
          /\ transfer[r.t].status # "IN_TRANSIT" =>
                /\ r.n = transfer[r.t].received
                /\ r.out = IF r.n # 0 THEN transfer[r.t].to ELSE Nowhere

RequestsRead == \A s \in Sessions : req[s].pc # "idle" => req[s].op # "none" /\ Reads(req[s])

OneRequestPerRow ==
    \A s, z \in Sessions :
        req[s].pc # "idle" /\ req[z].pc # "idle" /\ req[s].t = req[z].t => s = z

BooksTyped ==
    /\ layers \in [Countries -> Nat] /\ others \in [Locations -> Int]
    /\ strayed \subseteq Countries /\ left \in Nat

EInv ==
    /\ RowsCount /\ RequestsRead /\ OneRequestPerRow /\ BooksTyped
    /\ ShelvesExplained /\ LayersMatchShelves
\* What a transfer adds to a shelf, and what the cost layers of country c owe to it.
Net(t, l) == Arrived(t, l) - Left(t, l)
Owed(t, c) == IF transfer[t].from \in Here(c) THEN OnTheRoad(t) + Missing(t) ELSE 0

Numbers ==
    \A t \in Transfers : /\ \A l : Net(t, l) \in Int
                         /\ OnTheRoad(t) \in Int /\ Missing(t) \in Int

LEMMA RowNumbers == RowTyped /\ RowsCount => Numbers
  <1> SUFFICES ASSUME RowTyped, RowsCount, NEW t \in Transfers
               PROVE  /\ \A l : Net(t, l) \in Int
                      /\ OnTheRoad(t) \in Int /\ Missing(t) \in Int
    BY DEF Numbers
  <1>1. /\ transfer[t].status \in Statuses /\ transfer[t].sent \in Nat
        /\ transfer[t].received \in Nat \cup {NotCounted}
        /\ transfer[t].status \in {"RECEIVED", "DISPUTED"} => transfer[t].received \in Nat
    BY DEF RowTyped, RowsCount
  <1>2. OnTheRoad(t) \in Int /\ Missing(t) \in Int
    BY <1>1 DEF OnTheRoad, Missing
  <1>3. ASSUME NEW l PROVE Arrived(t, l) \in Int /\ Left(t, l) \in Int
    BY <1>1, <1>2 DEF Arrived, Left
  <1> QED
    BY <1>2, <1>3 DEF Net

\* A shelf stays explained when one row and the shelf change by the same.
LEMMA ShelfStep ==
    ASSUME RowTyped, RowTyped', RowsCount, RowsCount', NEW t \in Transfers,
           \A z \in Transfers \ {t} : transfer'[z] = transfer[z],
           NEW l, shelf[l] \in Int, others[l] \in Int, NEW d \in Int, NEW e \in Int,
           Net(t, l)' = Net(t, l) + d, shelf'[l] = shelf[l] + d + e, others'[l] = others[l] + e,
           shelf[l] = others[l] + SumFunctionOnSet([z \in Transfers |-> Net(z, l)], Transfers)
    PROVE  shelf'[l] = others'[l] + SumFunctionOnSet([z \in Transfers |-> Net(z, l)'], Transfers)
  <1>1. PICK f, g : /\ f = [z \in Transfers |-> Net(z, l)]
                    /\ g = [z \in Transfers |-> Net(z, l)']
    OBVIOUS
  <1>2. \A z \in Transfers : Net(z, l) \in Int /\ Net(z, l)' \in Int
    <2>1. (RowTyped /\ RowsCount => Numbers)'
      BY RowNumbers, PTL
    <2> QED
      BY <2>1, RowNumbers DEF Numbers
  <1>3. \A z \in Transfers \ {t} : Net(z, l)' = Net(z, l)
    BY DEF Net, Arrived, Left, Missing
  <1>4. DiffersAt(f, Transfers, g, Transfers, t) /\ f[t] \in Int /\ g[t] = f[t] + d
    BY <1>1, <1>2, <1>3, FinitenessAssumption DEF DiffersAt
  <1>5. /\ SumFunctionOnSet(f, Transfers) \in Int
        /\ SumFunctionOnSet(g, Transfers) = SumFunctionOnSet(f, Transfers) - f[t] + g[t]
    BY <1>4, SumAtOne
  <1>6. SumFunctionOnSet(g, Transfers) = SumFunctionOnSet(f, Transfers) + d
    BY <1>4, <1>5
  <1> QED
    BY <1>1, <1>5, <1>6

\* What the transfers of a country are worth changes by what one of them is owed.
LEMMA OwedStep ==
    ASSUME RowTyped, RowTyped', RowsCount, RowsCount', NEW t \in Transfers,
           \A z \in Transfers \ {t} : transfer'[z] = transfer[z], NEW c,
           NEW f, f = [z \in Transfers |-> OnTheRoad(z) + Missing(z)],
           NEW g, g = [z \in Transfers |-> (OnTheRoad(z) + Missing(z))']
    PROVE  /\ SumFunctionOnSet(f, From(Here(c))) \in Int /\ Owed(t, c) \in Int /\ Owed(t, c)' \in Int
           /\ SumFunctionOnSet(g, From(Here(c))') =
                SumFunctionOnSet(f, From(Here(c))) - Owed(t, c) + Owed(t, c)'
  <1>1. PICK I, J : I = From(Here(c)) /\ J = From(Here(c))'
    OBVIOUS
  <1>2. \A z \in Transfers : /\ OnTheRoad(z) + Missing(z) \in Int
                             /\ (OnTheRoad(z) + Missing(z))' \in Int
    <2>1. (RowTyped /\ RowsCount => Numbers)'
      BY RowNumbers, PTL
    <2> QED
      BY <2>1, RowNumbers DEF Numbers
  <1>3. \A z \in Transfers \ {t} : (OnTheRoad(z) + Missing(z))' = OnTheRoad(z) + Missing(z)
    BY DEF OnTheRoad, Missing
  <1>4. I \in SUBSET Transfers /\ J \in SUBSET Transfers /\ J \ {t} = I \ {t}
    BY <1>1 DEF From
  <1>5. DiffersAt(f, I, g, J, t)
    <2>1. IsFiniteSet(I)
      BY <1>4, FinitenessAssumption, FS_Subset
    <2> QED
      BY <1>2, <1>3, <1>4, <2>1 DEF DiffersAt
  <1>6. /\ SumFunctionOnSet(f, I) \in Int
        /\ SumFunctionOnSet(g, J) = SumFunctionOnSet(f, I) - Part(f, I, t) + Part(g, J, t)
    BY <1>5, SumChange
  <1>7. Part(f, I, t) = Owed(t, c)
    BY <1>1 DEF Part, Owed, From
  <1>8. Part(g, J, t) = Owed(t, c)'
    BY <1>1 DEF Part, Owed, From, Here
  <1>9. Owed(t, c) \in Int /\ Owed(t, c)' \in Int
    BY <1>2 DEF Owed
  <1> QED
    BY <1>1, <1>6, <1>7, <1>8, <1>9

\* The layers of a country stay worth what they should when they change with the shelves
\* of the country and with what is owed to one row.
LEMMA LayerStep ==
    ASSUME RowTyped, RowTyped', RowsCount, RowsCount', NEW t \in Transfers,
           \A z \in Transfers \ {t} : transfer'[z] = transfer[z],
           NEW c, layers[c] \in Int, NEW d \in Int, SumFunctionOnSet(shelf, Here(c)) \in Int,
           SumFunctionOnSet(shelf', Here(c)) = SumFunctionOnSet(shelf, Here(c)) + d,
           layers'[c] = layers[c] + d + Owed(t, c)' - Owed(t, c),
           layers[c] = SumFunctionOnSet(shelf, Here(c))
             + SumFunctionOnSet([z \in Transfers |-> OnTheRoad(z) + Missing(z)], From(Here(c)))
    PROVE  layers'[c] = SumFunctionOnSet(shelf', Here(c))
             + SumFunctionOnSet([z \in Transfers |-> (OnTheRoad(z) + Missing(z))'], From(Here(c))')
  <1>1. PICK f, g : /\ f = [z \in Transfers |-> OnTheRoad(z) + Missing(z)]
                    /\ g = [z \in Transfers |-> (OnTheRoad(z) + Missing(z))']
    OBVIOUS
  <1>2. /\ SumFunctionOnSet(f, From(Here(c))) \in Int /\ Owed(t, c) \in Int /\ Owed(t, c)' \in Int
        /\ SumFunctionOnSet(g, From(Here(c))') =
             SumFunctionOnSet(f, From(Here(c))) - Owed(t, c) + Owed(t, c)'
    BY <1>1, OwedStep
  <1> QED
    BY <1>1, <1>2

\* What a change by d at location l is to country c.
Within(l, c, d) == IF l \in Here(c) THEN d ELSE 0

\* One shelf changes.
ShelfChanges(f, g, l, d) ==
    /\ f \in [Locations -> Int] /\ g \in [Locations -> Int] /\ l \in Locations /\ d \in Int
    /\ g = [f EXCEPT ![l] = f[l] + d]

LEMMA ShelfTotal ==
    ASSUME NEW f, NEW g, NEW l, NEW d, ShelfChanges(f, g, l, d), NEW c
    PROVE  /\ SumFunctionOnSet(f, Here(c)) \in Int
           /\ SumFunctionOnSet(g, Here(c)) =
                SumFunctionOnSet(f, Here(c)) + Within(l, c, d)
  <1> USE DEF ShelfChanges
  <1>1. PICK I : I = Here(c)
    OBVIOUS
  <1>2. IsFiniteSet(I) /\ I \subseteq Locations
    BY <1>1, FinitenessAssumption, FS_Subset DEF Here
  <1>3. \A x \in I : f[x] \in Int /\ g[x] \in Int
    BY <1>2
  <1>4. CASE l \in I
    <2>1. DiffersAt(f, I, g, I, l)
      BY <1>2, <1>3 DEF DiffersAt
    <2>2. /\ SumFunctionOnSet(f, I) \in Int
          /\ SumFunctionOnSet(g, I) = SumFunctionOnSet(f, I) - Part(f, I, l) + Part(g, I, l)
      BY <2>1, SumChange
    <2>3. /\ g[l] = f[l] + d /\ f[l] \in Int /\ Within(l, c, d) = d
          /\ Part(f, I, l) = f[l] /\ Part(g, I, l) = g[l]
      BY <1>1, <1>4 DEF Part, Within
    <2> QED
      BY <1>1, <2>2, <2>3
  <1>5. CASE l \notin I
    <2>1. \A x \in I : f[x] \in Int /\ g[x] = f[x]
      BY <1>2, <1>5
    <2>2. SumFunctionOnSet(f, I) \in Int /\ SumFunctionOnSet(g, I) = SumFunctionOnSet(f, I)
      BY <1>2, <2>1, SumType, SumSame
    <2>3. Within(l, c, d) = 0
      BY <1>1, <1>5 DEF Within
    <2> QED
      BY <1>1, <2>2, <2>3
  <1> QED
    BY <1>4, <1>5
------------------------------------------------------------------------------
\* The other requests go on with rows that have not changed.
LEMMA OthersUndisturbed ==
    ASSUME LInv, RequestsRead, OneRequestPerRow, NEW t,
           \A z \in Transfers \ {t} : transfer'[z] = transfer[z],
           \A s \in Sessions : req'[s].pc # "idle" => req'[s] = req[s] /\ req[s].t # t
    PROVE  RequestsRead' /\ OneRequestPerRow'
  <1>1. \A s \in Sessions : req[s].pc # "idle" => req[s].t \in Transfers
    BY DEF LInv, RequestsLead
  <1>2. RequestsRead'
    BY <1>1 DEF RequestsRead, Reads
  <1>3. OneRequestPerRow'
    BY DEF OneRequestPerRow
  <1> QED
    BY <1>2, <1>3

\* Nothing but the requests changes.
LEMMA BooksUndisturbed ==
    ASSUME EInv, UNCHANGED <<transfer, levels, others, strayed, left>>
    PROVE  RowsCount' /\ BooksTyped' /\ ShelvesExplained' /\ LayersMatchShelves'
  BY DEF EInv, levels, RowsCount, BooksTyped, ShelvesExplained, LayersMatchShelves, Arrived, Left,
         OnTheRoad, Missing, From, Here

\* A request begins on a row that nobody has, and remembers what it reads.
LEMMA BeginReads ==
    ASSUME LInv, EInv, NEW s \in Sessions, NEW op \in {"initiate", "approve", "verify", "cancel"},
           NEW t \in Transfers, NEW out, NEW in, NEW n, Begin(s, op, t, out, in, n),
           NEW r, r = [pc |-> IF out = Nowhere THEN "credit" ELSE "debit",
                       op |-> op, t |-> t, out |-> out, in |-> in, n |-> n],
           Reads(r)
    PROVE  EInv'
  <1>1. /\ req' = [req EXCEPT ![s] = r] /\ RowFree(t)
        /\ UNCHANGED <<transfer, levels, others, strayed, left>>
    BY DEF Begin
  <1>2. req'[s] = r /\ \A z \in Sessions \ {s} : req'[z] = req[z]
    BY <1>1 DEF LInv, ReqTyped
  <1>3. RequestsRead'
    <2> SUFFICES ASSUME NEW z \in Sessions, NEW q, q = req'[z], q.pc # "idle"
                 PROVE  q.op # "none" /\ Reads(q)'
      BY DEF RequestsRead, Reads
    <2>1. q.op # "none" /\ Reads(q)
      BY <1>2 DEF EInv, RequestsRead
    <2> QED
      BY <1>1, <2>1 DEF Reads
  <1>4. OneRequestPerRow'
    BY <1>1, <1>2 DEF EInv, OneRequestPerRow, RowFree
  <1> QED
    BY <1>1, <1>3, <1>4, BooksUndisturbed DEF EInv

\* A request debits, or gives up.
LEMMA GoesOn ==
    ASSUME LInv, EInv, NEW s \in Sessions, UNCHANGED <<transfer, levels, others, strayed, left>>,
           \/ req[s].pc # "idle" /\ req' = [req EXCEPT ![s] = [@ EXCEPT !.pc = "credit"]]
           \/ req' = [req EXCEPT ![s] = Idle]
    PROVE  EInv'
  <1>1. \A z \in Sessions :
          req'[z].pc # "idle" =>
            /\ req[z].pc # "idle" /\ req'[z].t = req[z].t /\ req'[z].op = req[z].op
            /\ req'[z].out = req[z].out /\ req'[z].in = req[z].in /\ req'[z].n = req[z].n
    BY DEF LInv, ReqTyped, Idle
  <1>2. RequestsRead'
    BY <1>1 DEF EInv, RequestsRead, Reads
  <1>3. OneRequestPerRow'
    BY <1>1 DEF EInv, OneRequestPerRow
  <1> QED
    BY <1>2, <1>3, BooksUndisturbed DEF EInv

\* A row that nobody has changes, and owes and moves nothing.
LEMMA RowAlone ==
    ASSUME LInv, LInv', EInv, NEW t \in Transfers, RowFree(t), RowsCount',
           \A z \in Transfers \ {t} : transfer'[z] = transfer[z],
           \A l \in Locations : Net(t, l)' = Net(t, l), \A c : Owed(t, c)' = Owed(t, c),
           UNCHANGED <<levels, req, others, strayed, left>>
    PROVE  EInv'
  <1>1. RequestsRead' /\ OneRequestPerRow'
    BY OthersUndisturbed DEF EInv, RowFree
  <1>2. BooksTyped' /\ UNCHANGED <<shelf, layers, others, strayed>>
    BY DEF EInv, BooksTyped, levels
  <1>3. RowTyped /\ RowTyped' /\ RowsCount /\ BooksTyped /\ LevelsTyped
    BY DEF LInv, EInv
  <1>4. ShelvesExplained'
    <2> SUFFICES ASSUME NEW l \in Locations
                 PROVE  shelf'[l] = others'[l]
                          + SumFunctionOnSet([z \in Transfers |-> Net(z, l)'], Transfers)
      BY DEF ShelvesExplained, Net
    <2>1. /\ shelf[l] \in Int /\ others[l] \in Int
          /\ shelf[l] = others[l] + SumFunctionOnSet([z \in Transfers |-> Net(z, l)], Transfers)
      BY <1>3 DEF LevelsTyped, BooksTyped, EInv, ShelvesExplained, Net
    <2>2. Net(t, l) \in Int
      BY <1>3, RowNumbers DEF Numbers
    <2>3. /\ Net(t, l)' = Net(t, l) + 0 /\ shelf'[l] = shelf[l] + 0 + 0 /\ others'[l] = others[l] + 0
          /\ 0 \in Int
      BY <1>2, <2>1, <2>2
    <2> QED
      BY <1>3, <2>1, <2>3, ShelfStep
  <1>5. LayersMatchShelves'
    <2> SUFFICES ASSUME NEW c \in Countries \ strayed'
                 PROVE  layers'[c] = SumFunctionOnSet(shelf', Here(c))
                          + SumFunctionOnSet([z \in Transfers |-> (OnTheRoad(z) + Missing(z))'],
                                             From(Here(c))')
      BY DEF LayersMatchShelves, Here
    <2>1. /\ layers[c] \in Int
          /\ layers[c] = SumFunctionOnSet(shelf, Here(c))
               + SumFunctionOnSet([z \in Transfers |-> OnTheRoad(z) + Missing(z)], From(Here(c)))
      BY <1>2, <1>3 DEF BooksTyped, EInv, LayersMatchShelves
    <2>2. Owed(t, c) \in Int
      BY <1>3, RowNumbers DEF Numbers, Owed
    <2>3. SumFunctionOnSet(shelf, Here(c)) \in Int
      <3>1. IsFiniteSet(Here(c)) /\ \A l \in Here(c) : shelf[l] \in Int
        BY <1>3, FinitenessAssumption, FS_Subset DEF Here, LevelsTyped
      <3> QED
        BY <3>1, SumType
    <2>4. /\ SumFunctionOnSet(shelf', Here(c)) = SumFunctionOnSet(shelf, Here(c)) + 0
          /\ layers'[c] = layers[c] + 0 + Owed(t, c)' - Owed(t, c) /\ 0 \in Int
      BY <1>2, <2>1, <2>2, <2>3
    <2> QED
      BY <1>3, <2>1, <2>3, <2>4, LayerStep
  <1> QED
    BY <1>1, <1>2, <1>4, <1>5 DEF EInv
\* A plan, its rejection and its cancellation move nothing.
LEMMA PlansMove ==
    ASSUME LInv, LInv', EInv, NEW t \in Transfers,
           \/ \E l, m \in Locations, n \in Nat : Plan(t, l, m, n)
           \/ \E status \in {"REJECTED", "CANCELLED"} :
                transfer[t].status = "PENDING" /\ Flip(t, status)
    PROVE  EInv'
  <1>0. transfer \in [Transfers -> [status : Statuses, from : Places, to : Places,
                                   sent : Nat, received : Nat \cup {NotCounted}]]
    BY DEF LInv, RowTyped
  <1>1. PICK old, new : old = transfer[t] /\ new = transfer'[t]
    OBVIOUS
  <1>2. /\ RowFree(t) /\ UNCHANGED <<levels, req, others, strayed, left>>
        /\ \A z \in Transfers \ {t} : transfer'[z] = transfer[z]
    BY <1>0 DEF Plan, Flip
  <1>3. /\ new.status \in {"PENDING", "REJECTED", "CANCELLED"} /\ new.received = NotCounted
        /\ old.received = NotCounted
        /\ \/ old.status = "NONE" /\ old.from = Nowhere /\ old.to = Nowhere
           \/ old.status = "PENDING" /\ old.from = new.from /\ old.to = new.to
    <2>1. CASE \E l, m \in Locations, n \in Nat : Plan(t, l, m, n)
      <3>1. PICK l, m, n : Plan(t, l, m, n)
        BY <2>1
      <3>2. old = None /\ new = Row("PENDING", l, m, n, NotCounted)
        BY <1>0, <1>1, <3>1 DEF Plan
      <3> QED
        BY <3>2 DEF None, Row
    <2>2. ASSUME NEW status \in {"REJECTED", "CANCELLED"}, transfer[t].status = "PENDING",
                 Flip(t, status)
          PROVE  /\ new.status \in {"PENDING", "REJECTED", "CANCELLED"}
                 /\ new.received = NotCounted /\ old.received = NotCounted
                 /\ old.status = "PENDING" /\ old.from = new.from /\ old.to = new.to
      <3>1. old.received = NotCounted /\ old.status = "PENDING"
        BY <1>1, <2>2 DEF EInv, RowsCount
      <3>2. new = [old EXCEPT !.status = status]
        BY <1>0, <1>1, <2>2 DEF Flip
      <3> QED
        BY <1>0, <1>1, <3>1, <3>2
    <2> QED
      BY <2>1, <2>2
  <1>4. \A l \in Locations : Net(t, l)' = Net(t, l)
    BY <1>1, <1>3, NowhereAssumption DEF Net, Arrived, Left, Missing
  <1>5. \A c : Owed(t, c)' = Owed(t, c)
    BY <1>1, <1>3, NowhereAssumption DEF Owed, OnTheRoad, Missing, Here
  <1>6. RowsCount'
    BY <1>1, <1>2, <1>3 DEF EInv, RowsCount
  <1> QED
    BY <1>2, <1>4, <1>5, <1>6, RowAlone

\* Orders and suppliers change a shelf, the layers of its country and the history alike.
LEMMA OthersMove ==
    ASSUME LInv, LInv', EInv, NEW l \in Locations, NEW d \in Int,
           shelf' = [shelf EXCEPT ![l] = shelf[l] + d],
           others' = [others EXCEPT ![l] = others[l] + d],
           layers' = [layers EXCEPT ![CountryOf[l]] = layers[CountryOf[l]] + d],
           layers[CountryOf[l]] + d \in Nat, left' \in Nat,
           UNCHANGED <<transfer, req, strayed>>
    PROVE  EInv'
  <1>1. /\ shelf \in [Locations -> Int] /\ shelf' \in [Locations -> Int]
        /\ others \in [Locations -> Int] /\ layers \in [Countries -> Nat]
        /\ CountryOf[l] \in Countries
    <2>1. shelf \in [Locations -> Nat]
      BY DEF LInv, LevelsTyped
    <2>2. shelf' \in [Locations -> Nat]
      BY DEF LInv, LevelsTyped
    <2>3. others \in [Locations -> Int] /\ layers \in [Countries -> Nat]
      BY DEF EInv, BooksTyped
    <2> QED
      BY <2>1, <2>2, <2>3, CountryAssumption
  <1>2. BooksTyped'
    BY <1>1 DEF EInv, BooksTyped
  <1>3. RowsCount' /\ RequestsRead' /\ OneRequestPerRow'
    BY DEF EInv, RowsCount, RequestsRead, OneRequestPerRow, Reads
  <1>4. RowTyped /\ RowsCount
    BY DEF LInv, EInv
  <1>5. ShelvesExplained'
    <2> SUFFICES ASSUME NEW k \in Locations
                 PROVE  shelf'[k] = others'[k]
                          + SumFunctionOnSet([z \in Transfers |-> Net(z, k)], Transfers)
      BY DEF ShelvesExplained, Net, Arrived, Left, Missing
    <2>1. shelf[k] = others[k] + SumFunctionOnSet([z \in Transfers |-> Net(z, k)], Transfers)
      BY DEF EInv, ShelvesExplained, Net
    <2>2. SumFunctionOnSet([z \in Transfers |-> Net(z, k)], Transfers) \in Int
      <3>1. PICK f : f = [z \in Transfers |-> Net(z, k)]
        OBVIOUS
      <3>2. \A z \in Transfers : f[z] \in Int
        BY <1>4, <3>1, RowNumbers DEF Numbers
      <3>3. SumFunctionOnSet(f, Transfers) \in Int
        BY <3>2, FinitenessAssumption, SumType
      <3> QED
        BY <3>1, <3>3
    <2> QED
      BY <1>1, <2>1, <2>2
  <1>6. LayersMatchShelves'
    <2> SUFFICES ASSUME NEW c \in Countries \ strayed
                 PROVE  layers'[c] = SumFunctionOnSet(shelf', Here(c))
                          + SumFunctionOnSet([z \in Transfers |-> OnTheRoad(z) + Missing(z)],
                                             From(Here(c)))
      BY DEF LayersMatchShelves, Here, OnTheRoad, Missing, From
    <2>1. layers[c] = SumFunctionOnSet(shelf, Here(c))
               + SumFunctionOnSet([z \in Transfers |-> OnTheRoad(z) + Missing(z)], From(Here(c)))
      BY DEF EInv, LayersMatchShelves
    <2>2. /\ SumFunctionOnSet(shelf, Here(c)) \in Int
          /\ SumFunctionOnSet(shelf', Here(c)) =
               SumFunctionOnSet(shelf, Here(c)) + Within(l, c, d)
      <3>1. ShelfChanges(shelf, shelf', l, d)
        BY <1>1 DEF ShelfChanges
      <3> QED
        BY <3>1, ShelfTotal
    <2>3. SumFunctionOnSet([z \in Transfers |-> OnTheRoad(z) + Missing(z)], From(Here(c))) \in Int
      <3>1. PICK f : f = [z \in Transfers |-> OnTheRoad(z) + Missing(z)]
        OBVIOUS
      <3>2. From(Here(c)) \subseteq Transfers /\ \A z \in Transfers : f[z] \in Int
        BY <1>4, <3>1, RowNumbers DEF Numbers, From
      <3>3. IsFiniteSet(From(Here(c))) /\ \A z \in From(Here(c)) : f[z] \in Int
        BY <3>2, FinitenessAssumption, FS_Subset
      <3>4. SumFunctionOnSet(f, From(Here(c))) \in Int
        BY <3>3, SumType
      <3> QED
        BY <3>1, <3>4
    <2>4. layers'[c] = layers[c] + Within(l, c, d) /\ Within(l, c, d) \in Int
      BY <1>1 DEF Within, Here
    <2> QED
      BY <2>1, <2>2, <2>3, <2>4
  <1> QED
    BY <1>2, <1>3, <1>5, <1>6 DEF EInv
------------------------------------------------------------------------------
\* What a credit finds and leaves, for each operation.
CreditRows(r, old, new) ==
    /\ \/ /\ r.op = "initiate" /\ old.status = "NONE" /\ old.from = Nowhere /\ old.to = Nowhere
          /\ new.from = r.out /\ new.to = r.in
       \/ /\ r.op = "approve" /\ old.status = "PENDING" /\ old.from = r.out /\ old.to = r.in
          /\ new.from = r.out /\ new.to = r.in
    /\ r.out \in Locations /\ old.received = NotCounted
    /\ new.status = "RECEIVED" /\ new.sent = r.n /\ new.received = r.n

VerifyRows(r, old, new) ==
    /\ r.op = "verify" /\ old.status = "IN_TRANSIT" /\ old.received = NotCounted
    /\ r.out = Nowhere /\ r.in = old.to
    /\ new.from = old.from /\ new.to = old.to /\ new.sent = old.sent /\ new.received = r.n
    /\ new.status \in {"RECEIVED", "DISPUTED"}

CancelRows(r, old, new) ==
    /\ r.op = "cancel" /\ r.in = old.from
    /\ \/ old.status = "IN_TRANSIT" /\ old.received = NotCounted /\ r.out = Nowhere /\ r.n = old.sent
       \/ /\ old.status \in {"RECEIVED", "DISPUTED"} /\ old.received = r.n
          /\ r.out = IF r.n # 0 THEN old.to ELSE Nowhere
    /\ new.from = old.from /\ new.to = old.to /\ new.sent = old.sent
    /\ new.received = old.received /\ new.status = "CANCELLED"

LEMMA CreditFinds ==
    ASSUME LInv, EInv, NEW s \in Sessions, req[s].pc # "idle",
           NEW r, r = req[s], NEW old, old = transfer[r.t], NEW new, new = Outcome(r)
    PROVE  CreditRows(r, old, new) \/ VerifyRows(r, old, new) \/ CancelRows(r, old, new)
  <1>1. /\ r \in [pc : {"idle", "debit", "credit"},
                  op : {"none", "initiate", "approve", "verify", "cancel"},
                  t : Transfers \cup {NoTransfer}, out : Places, in : Places, n : Nat]
        /\ r.t \in Transfers /\ r.op # "none" /\ Reads(r)
        /\ r.op = "initiate" => r.out \in Locations
        /\ r.op # "initiate" => old.status # "NONE"
    BY DEF LInv, ReqTyped, RequestsLead, EInv, RequestsRead
  <1>2. /\ old \in [status : Statuses, from : Places, to : Places,
                    sent : Nat, received : Nat \cup {NotCounted}]
        /\ old.status # "NONE" => old.from \in Locations
        /\ old.status = "NONE" => old.from = Nowhere /\ old.to = Nowhere
        /\ old.status \in {"NONE", "PENDING", "IN_TRANSIT", "REJECTED"} => old.received = NotCounted
    BY <1>1 DEF LInv, RowTyped, RowsLead, EInv, RowsCount
  <1>3. CASE r.op = "initiate"
    <2>1. new = Row("RECEIVED", r.out, r.in, r.n, r.n)
      BY <1>3 DEF Outcome
    <2> QED
      BY <1>1, <1>2, <1>3, <2>1 DEF CreditRows, Row, Reads
  <1>4. CASE r.op = "approve"
    <2>1. new = [old EXCEPT !.status = "RECEIVED", !.received = r.n]
      BY <1>4 DEF Outcome
    <2> QED
      BY <1>1, <1>2, <1>4, <2>1 DEF CreditRows, Reads
  <1>5. CASE r.op = "verify"
    <2>1. new = [old EXCEPT !.received = r.n,
                   !.status = IF r.n < old.sent THEN "DISPUTED" ELSE "RECEIVED"]
      BY <1>5 DEF Outcome
    <2> QED
      BY <1>1, <1>2, <1>5, <2>1 DEF VerifyRows, Reads
  <1>6. CASE r.op = "cancel"
    <2>1. new = [old EXCEPT !.status = "CANCELLED"]
      BY <1>6 DEF Outcome
    <2> QED
      BY <1>1, <1>2, <1>6, <2>1 DEF CancelRows, Reads
  <1> QED
    BY <1>1, <1>3, <1>4, <1>5, <1>6

\* The move of n units from out to in.
Moved(l, out, in, n) == (IF l = in THEN n ELSE 0) - (IF l = out THEN n ELSE 0)

LEMMA CreditKeepsEInv == ASSUME LInv, LInv', EInv, NEW s \in Sessions, Credit(s) PROVE EInv'
  <1>1. PICK r : r = req[s]
    OBVIOUS
  <1>2. PICK t, old, new : t = r.t /\ old = transfer[t] /\ new = Outcome(r)
    OBVIOUS
  <1>3. /\ t \in Transfers /\ r.in \in Locations /\ r.out \in Places /\ r.out # r.in /\ r.n \in Nat
        /\ r.pc = "credit" /\ r.op # "none"
    BY <1>1, <1>2 DEF LInv, RequestsLead, ReqTyped, Credit, EInv, RequestsRead
  <1>4. /\ old \in [status : Statuses, from : Places, to : Places,
                    sent : Nat, received : Nat \cup {NotCounted}]
        /\ old.status # "NONE" => old.from \in Locations /\ old.to \in Locations
        /\ transfer' = [transfer EXCEPT ![t] = new]
        /\ transfer'[t] = new /\ \A z \in Transfers \ {t} : transfer'[z] = transfer[z]
    BY <1>1, <1>2, <1>3 DEF LInv, RowTyped, RowsLead, Credit
  <1>5. CreditRows(r, old, new) \/ VerifyRows(r, old, new) \/ CancelRows(r, old, new)
    BY <1>1, <1>2, <1>3, CreditFinds
  <1>6. /\ shelf' = [l \in Locations |-> shelf[l] - (IF l = r.out THEN r.n ELSE 0)
                                                   + (IF l = r.in THEN r.n ELSE 0)]
        /\ layers' = IF Crosses(r) THEN HandedOver(r) ELSE layers
        /\ LayersSuffice(r) /\ strayed' = strayed \cup Strays(r)
        /\ req' = [req EXCEPT ![s] = Idle] /\ UNCHANGED <<reserved, others, left>>
    BY <1>1 DEF Credit
  <1>7. RowsCount'
    <2>1. new.status \in {"RECEIVED", "DISPUTED", "CANCELLED"} /\ (new.status # "CANCELLED" => new.received # NotCounted)
      BY <1>3, <1>5, NotCountedAssumption DEF CreditRows, VerifyRows, CancelRows
    <2> QED
      BY <1>4, <2>1 DEF EInv, RowsCount
  <1>8. RequestsRead' /\ OneRequestPerRow'
    <2>1. \A z \in Sessions : req'[z].pc # "idle" => req'[z] = req[z] /\ req[z].t # t
      BY <1>1, <1>2, <1>3, <1>6 DEF Idle, LInv, ReqTyped, EInv, OneRequestPerRow
    <2> QED
      BY <1>4, <2>1, OthersUndisturbed DEF EInv
  <1>9. BooksTyped'
    <2>1. layers' \in [Countries -> Nat]
      <3>1. CASE Crosses(r)
        <4>1. layers[CountryOf[r.out]] >= r.n
          BY <1>6, <3>1 DEF LayersSuffice
        <4>2. \A c \in Countries :
                layers[c] - (IF c = CountryOf[r.out] THEN r.n ELSE 0)
                          + (IF c = CountryOf[r.in] THEN r.n ELSE 0) \in Nat
          BY <1>3, <4>1 DEF EInv, BooksTyped
        <4> QED
          BY <1>6, <3>1, <4>2 DEF HandedOver
      <3>2. CASE ~ Crosses(r)
        BY <1>6, <3>2 DEF EInv, BooksTyped
      <3> QED
        BY <3>1, <3>2
    <2>2. Strays(r) \subseteq Countries
      <3>1. transfer[r.t] = old /\ (r.op \in {"verify", "cancel"} => old.status # "NONE")
        BY <1>2, <1>5 DEF CreditRows, VerifyRows, CancelRows
      <3> QED
        BY <1>4, <3>1, CountryAssumption DEF Strays
    <2> QED
      BY <1>6, <2>1, <2>2 DEF EInv, BooksTyped
  <1>10. /\ RowTyped /\ RowTyped' /\ RowsCount /\ BooksTyped /\ LevelsTyped /\ Numbers
    BY RowNumbers DEF LInv, EInv
  <1>11. ShelvesExplained'
    <2> SUFFICES ASSUME NEW l \in Locations
                 PROVE  shelf'[l] = others'[l]
                          + SumFunctionOnSet([z \in Transfers |-> Net(z, l)'], Transfers)
      BY DEF ShelvesExplained, Net
    <2>1. /\ shelf[l] \in Int /\ others[l] \in Int
          /\ shelf[l] = others[l] + SumFunctionOnSet([z \in Transfers |-> Net(z, l)], Transfers)
      BY <1>10 DEF LevelsTyped, BooksTyped, EInv, ShelvesExplained, Net
    <2>2. PICK d : d = Moved(l, r.out, r.in, r.n)
      OBVIOUS
    <2>3. d \in Int
      BY <1>3, <2>2 DEF Moved
    <2>4. shelf'[l] = shelf[l] + d + 0 /\ others'[l] = others[l] + 0 /\ 0 \in Int
      BY <1>3, <1>6, <2>1, <2>2 DEF Moved
    <2>5. Net(t, l)' = Net(t, l) + d
      <3>1. CASE CreditRows(r, old, new)
        <4>1. Arrived(t, l) = 0 /\ Left(t, l) = 0
          BY <1>2, <3>1 DEF CreditRows, Arrived, Left
        <4>2. Arrived(t, l)' = IF l = r.in THEN r.n ELSE 0
          BY <1>4, <3>1 DEF CreditRows, Arrived
        <4>3. Left(t, l)' = IF l = r.out THEN r.n ELSE 0
          BY <1>4, <3>1 DEF CreditRows, Left
        <4> QED
          BY <1>3, <2>2, <4>1, <4>2, <4>3 DEF Net, Moved
      <3>2. CASE VerifyRows(r, old, new)
        <4>1. Arrived(t, l) = 0
          BY <1>2, <3>2 DEF VerifyRows, Arrived
        <4>2. Left(t, l) = IF old.from = l THEN old.sent ELSE 0
          BY <1>2, <3>2 DEF VerifyRows, Left
        <4>3. Arrived(t, l)' = IF l = r.in THEN r.n ELSE 0
          BY <1>4, <3>2 DEF VerifyRows, Arrived
        <4>4. Left(t, l)' = IF old.from = l THEN old.sent ELSE 0
          BY <1>4, <3>2 DEF VerifyRows, Left
        <4>5. d = IF l = r.in THEN r.n ELSE 0
          BY <1>3, <2>2, <3>2, NowhereAssumption DEF VerifyRows, Moved
        <4> QED
          BY <1>3, <1>4, <4>1, <4>2, <4>3, <4>4, <4>5 DEF Net
      <3>3. CASE CancelRows(r, old, new)
        <4>1. Arrived(t, l)' = 0
          BY <1>4, <3>3 DEF CancelRows, Arrived
        <4>2. Left(t, l)' = IF old.from = l THEN Missing(t)' ELSE 0
          BY <1>4, <3>3 DEF CancelRows, Left
        <4>3. Left(t, l) = IF old.from = l THEN old.sent ELSE 0
          BY <1>2, <3>3 DEF CancelRows, Left
        <4>4. CASE old.status = "IN_TRANSIT"
          <5>1. Arrived(t, l) = 0 /\ r.out = Nowhere /\ r.n = old.sent /\ Missing(t)' = 0
            BY <1>2, <1>4, <3>3, <4>4 DEF CancelRows, Arrived, Missing
          <5>2. d = IF l = old.from THEN old.sent ELSE 0
            BY <1>3, <2>2, <3>3, <5>1, NowhereAssumption DEF CancelRows, Moved
          <5> QED
            BY <1>4, <4>1, <4>2, <4>3, <5>1, <5>2 DEF Net
        <4>5. CASE old.status # "IN_TRANSIT"
          <5>1. /\ old.status \in {"RECEIVED", "DISPUTED"} /\ old.received = r.n /\ r.in = old.from
                /\ r.out = IF r.n # 0 THEN old.to ELSE Nowhere
                /\ new.received = r.n /\ new.sent = old.sent
            BY <3>3, <4>5 DEF CancelRows
          <5>2. Missing(t)' = old.sent - r.n
            BY <1>3, <1>4, <5>1, NotCountedAssumption DEF Missing
          <5>3. Arrived(t, l) = IF old.to = l THEN r.n ELSE 0
            BY <1>2, <5>1 DEF Arrived
          <5>4. d = (IF l = old.from THEN r.n ELSE 0) - (IF l = old.to THEN r.n ELSE 0)
            BY <1>3, <2>2, <5>1, NowhereAssumption DEF Moved
          <5> QED
            BY <1>3, <1>4, <4>1, <4>2, <4>3, <5>2, <5>3, <5>4 DEF Net
        <4> QED
          BY <4>4, <4>5
      <3> QED
        BY <1>5, <3>1, <3>2, <3>3
    <2>6. /\ RowTyped /\ RowTyped' /\ RowsCount /\ RowsCount' /\ t \in Transfers
          /\ \A z \in Transfers \ {t} : transfer'[z] = transfer[z]
      BY <1>3, <1>4, <1>7, <1>10
    <2> QED
      BY <2>1, <2>3, <2>4, <2>5, <2>6, ShelfStep
  <1>12. LayersMatchShelves'
    <2> SUFFICES ASSUME NEW c \in Countries \ strayed'
                 PROVE  layers'[c] = SumFunctionOnSet(shelf', Here(c))
                          + SumFunctionOnSet([z \in Transfers |-> (OnTheRoad(z) + Missing(z))'],
                                             From(Here(c))')
      BY DEF LayersMatchShelves, Here
    <2>1. /\ layers[c] \in Int /\ c \notin strayed
          /\ layers[c] = SumFunctionOnSet(shelf, Here(c))
               + SumFunctionOnSet([z \in Transfers |-> OnTheRoad(z) + Missing(z)], From(Here(c)))
      BY <1>6, <1>10 DEF BooksTyped, EInv, LayersMatchShelves
    <2>2. PICK d : d = Within(r.in, c, r.n) + Within(r.out, c, -r.n)
      OBVIOUS
    <2>3. d \in Int /\ Within(r.in, c, r.n) \in Int /\ Within(r.out, c, -r.n) \in Int
      BY <1>3, <2>2 DEF Within
    <2>4. /\ SumFunctionOnSet(shelf, Here(c)) \in Int
          /\ SumFunctionOnSet(shelf', Here(c)) = SumFunctionOnSet(shelf, Here(c)) + d
      <3>1. PICK mid : mid = [shelf EXCEPT ![r.in] = shelf[r.in] + r.n]
        OBVIOUS
      <3>2. ShelfChanges(shelf, mid, r.in, r.n)
        BY <1>3, <1>10, <3>1 DEF ShelfChanges, LevelsTyped
      <3>3. /\ SumFunctionOnSet(shelf, Here(c)) \in Int
            /\ SumFunctionOnSet(mid, Here(c)) = SumFunctionOnSet(shelf, Here(c)) + Within(r.in, c, r.n)
        BY <3>2, ShelfTotal
      <3>4. CASE r.out \in Locations
        <4>1. shelf' = [mid EXCEPT ![r.out] = mid[r.out] + (-r.n)]
          <5>1. mid \in [Locations -> Int] /\ shelf \in [Locations -> Int]
            BY <3>2 DEF ShelfChanges
          <5>2. \A l \in Locations : shelf'[l] = [mid EXCEPT ![r.out] = mid[r.out] + (-r.n)][l]
            BY <1>3, <1>6, <3>1, <3>4, <5>1
          <5> QED
            BY <1>6, <5>1, <5>2
        <4>2. shelf' \in [Locations -> Int]
          BY <1>3, <1>6, <1>10 DEF LevelsTyped
        <4>3. ShelfChanges(mid, shelf', r.out, -r.n)
          BY <1>3, <3>2, <3>4, <4>1, <4>2 DEF ShelfChanges
        <4>4. SumFunctionOnSet(shelf', Here(c)) = SumFunctionOnSet(mid, Here(c)) + Within(r.out, c, -r.n)
          BY <4>3, ShelfTotal
        <4> QED
          BY <2>2, <2>3, <3>3, <4>4
      <3>5. CASE r.out \notin Locations
        <4>1. shelf' = mid
          <5>1. mid \in [Locations -> Int] /\ shelf \in [Locations -> Int]
            BY <3>2 DEF ShelfChanges
          <5>2. \A l \in Locations : shelf'[l] = mid[l]
            BY <1>3, <1>6, <3>1, <3>5, <5>1
          <5> QED
            BY <1>6, <5>1, <5>2
        <4>2. Within(r.out, c, -r.n) = 0
          BY <3>5 DEF Within, Here
        <4> QED
          BY <2>2, <2>3, <3>3, <4>1, <4>2
      <3> QED
        BY <3>4, <3>5
    <2>5. layers'[c] = layers[c] + d + Owed(t, c)' - Owed(t, c)
      <3>1. CASE CreditRows(r, old, new)
        <4>1. Owed(t, c) = 0 /\ Owed(t, c)' = 0
          BY <1>2, <1>3, <1>4, <3>1 DEF CreditRows, Owed, OnTheRoad, Missing
        <4>2. layers'[c] = layers[c] + d
          <5>1. /\ r.op \in {"initiate", "approve"}
                /\ r.out \in Here(c) <=> CountryOf[r.out] = c
                /\ r.in \in Here(c) <=> CountryOf[r.in] = c
            BY <1>3, <3>1 DEF CreditRows, Here
          <5>2. CASE Crosses(r)
            BY <1>3, <1>6, <2>1, <2>2, <5>1, <5>2 DEF HandedOver, Within
          <5>3. CASE ~ Crosses(r)
            BY <1>3, <1>6, <2>1, <2>2, <5>1, <5>3 DEF Crosses, Within
          <5> QED
            BY <5>2, <5>3
        <4> QED
          BY <2>1, <2>3, <4>1, <4>2
      <3>2. ASSUME VerifyRows(r, old, new) \/ CancelRows(r, old, new)
            PROVE  /\ layers'[c] = layers[c] /\ old.from \in Locations /\ old.to \in Locations
                   /\ old.from \in Here(c) <=> old.to \in Here(c)
        <4>1. /\ r.op \in {"verify", "cancel"} /\ old.status # "NONE" /\ transfer[r.t] = old
              /\ old.from \in Locations /\ old.to \in Locations
          BY <1>2, <1>4, <3>2 DEF VerifyRows, CancelRows
        <4>2. ~ Crosses(r)
          BY <4>1 DEF Crosses
        <4>3. PICK a, b : a = CountryOf[old.from] /\ b = CountryOf[old.to]
          OBVIOUS
        <4>4. a # b => Cardinality({a, b}) = 2
          <5> SUFFICES ASSUME a # b PROVE Cardinality({a, b}) = 2
            OBVIOUS
          <5>1. Cardinality({a}) = 1 /\ IsFiniteSet({a})
            BY FS_Singleton
          <5>2. Cardinality({a} \cup {b}) = IF b \in {a} THEN Cardinality({a}) ELSE Cardinality({a}) + 1
            BY <5>1, FS_AddElement
          <5>3. {a} \cup {b} = {a, b} /\ b \notin {a}
            OBVIOUS
          <5> QED
            BY <5>1, <5>2, <5>3
        <4>5. a # b => a \in strayed' /\ b \in strayed'
          BY <1>6, <4>1, <4>3, <4>4 DEF Strays
        <4> QED
          BY <1>6, <4>1, <4>2, <4>3, <4>5 DEF Here
      <3>3. CASE VerifyRows(r, old, new)
        <4>1. Within(r.out, c, -r.n) = 0
          BY <3>3, NowhereAssumption DEF VerifyRows, Within, Here
        <4>2. Owed(t, c) = (IF old.from \in Here(c) THEN old.sent ELSE 0)
          BY <1>2, <1>4, <3>3 DEF VerifyRows, Owed, OnTheRoad, Missing
        <4>3. Owed(t, c)' = (IF old.from \in Here(c) THEN old.sent - r.n ELSE 0)
          BY <1>2, <1>3, <1>4, <3>3, NotCountedAssumption DEF VerifyRows, Owed, OnTheRoad, Missing, Here
        <4>4. Within(r.in, c, r.n) = (IF old.from \in Here(c) THEN r.n ELSE 0)
          BY <3>2, <3>3 DEF VerifyRows, Within
        <4> QED
          BY <1>3, <1>4, <2>1, <2>2, <3>2, <3>3, <4>1, <4>2, <4>3, <4>4
      <3>4. CASE CancelRows(r, old, new)
        <4>1. CASE old.status = "IN_TRANSIT"
          <5>1. old.received = NotCounted /\ r.out = Nowhere /\ r.n = old.sent
            BY <3>4, <4>1 DEF CancelRows
          <5>2. Within(r.out, c, -r.n) = 0
            BY <5>1, NowhereAssumption DEF Within, Here
          <5>3. Owed(t, c) = Within(r.in, c, r.n) /\ Owed(t, c)' = 0
            BY <1>2, <1>3, <1>4, <3>4, <4>1, <5>1 DEF CancelRows, Owed, OnTheRoad, Missing, Within, Here
          <5> QED
            BY <2>1, <2>2, <2>3, <3>2, <3>4, <5>2, <5>3
        <4>2. CASE old.status # "IN_TRANSIT"
          <5>1. /\ old.status \in {"RECEIVED", "DISPUTED"}
                /\ r.out = IF r.n # 0 THEN old.to ELSE Nowhere
            BY <3>4, <4>2 DEF CancelRows
          <5>2. Within(r.in, c, r.n) = (IF old.from \in Here(c) THEN r.n ELSE 0)
            BY <3>4 DEF CancelRows, Within
          <5>3. Within(r.out, c, -r.n) = (IF old.from \in Here(c) THEN -r.n ELSE 0)
            BY <1>3, <3>2, <3>4, <5>1, NowhereAssumption DEF Within, Here
          <5>4. d = 0
            BY <1>3, <2>2, <5>2, <5>3
          <5>5. Owed(t, c)' = Owed(t, c)
            BY <1>2, <1>4, <3>4, <4>2 DEF CancelRows, Owed, OnTheRoad, Missing, Here
          <5>6. Owed(t, c) \in Int
            BY <1>3, <1>10 DEF Owed, Numbers
          <5> QED
            BY <2>1, <3>2, <3>4, <5>4, <5>5, <5>6
        <4> QED
          BY <4>1, <4>2
      <3> QED
        BY <1>5, <3>1, <3>3, <3>4
    <2> QED
      BY <1>3, <1>4, <1>7, <1>10, <2>1, <2>3, <2>4, <2>5, LayerStep
  <1> QED
    BY <1>7, <1>8, <1>9, <1>11, <1>12 DEF EInv
------------------------------------------------------------------------------
LEMMA EInvInit == Init => EInv
  <1> SUFFICES ASSUME Init PROVE EInv
    OBVIOUS
  <1>1. \A t \in Transfers :
          /\ transfer[t].sent \in Nat /\ transfer[t].received = NotCounted
          /\ \/ transfer[t].status = "NONE" /\ transfer[t].from = Nowhere /\ transfer[t].to = Nowhere
             \/ transfer[t].status = "IN_TRANSIT" /\ transfer[t].from \in Locations
    <2>1. \A t \in Transfers : transfer[t] \in LegacyRows \cup {None}
      BY DEF Init
    <2>2. \A row \in LegacyRows :
            /\ row.sent \in Nat /\ row.received = NotCounted
            /\ row.status = "IN_TRANSIT" /\ row.from \in Locations
      BY RoutesAssumption, BoundsAssumption DEF LegacyRows, Row, Quantities
    <2>3. /\ None.sent \in Nat /\ None.received = NotCounted
          /\ None.status = "NONE" /\ None.from = Nowhere /\ None.to = Nowhere
      BY DEF None
    <2> QED
      BY <2>1, <2>2, <2>3
  <1>2. RowsCount /\ RequestsRead /\ OneRequestPerRow
    BY <1>1 DEF RowsCount, RequestsRead, OneRequestPerRow, Init, Idle
  <1>3. PICK road : road = [t \in Transfers |-> OnTheRoad(t)]
    OBVIOUS
  <1>4. \A t \in Transfers : road[t] \in Nat /\ OnTheRoad(t) = road[t] /\ Missing(t) = 0
    BY <1>1, <1>3 DEF OnTheRoad, Missing
  <1>5. \A L : From(L) \in SUBSET Transfers /\ IsFiniteSet(From(L))
               /\ SumFunctionOnSet(road, From(L)) \in Nat /\ RoadTotal(From(L)) = SumFunctionOnSet(road, From(L))
    <2> SUFFICES ASSUME NEW L
                 PROVE  From(L) \in SUBSET Transfers /\ IsFiniteSet(From(L))
                        /\ SumFunctionOnSet(road, From(L)) \in Nat
                        /\ RoadTotal(From(L)) = SumFunctionOnSet(road, From(L))
      OBVIOUS
    <2>1. From(L) \in SUBSET Transfers
      BY DEF From
    <2>2. IsFiniteSet(From(L)) /\ \A t \in From(L) : road[t] \in Nat
      BY <1>4, <2>1, FinitenessAssumption, FS_Subset
    <2>3. SumFunctionOnSet(road, From(L)) \in Nat
      BY <2>2, SumSigns
    <2> QED
      BY <1>3, <2>1, <2>2, <2>3 DEF RoadTotal
  <1>6. \A l \in Locations : shelf[l] \in Nat
    BY BoundsAssumption DEF Init
  <1>7. \A c : SumFunctionOnSet(shelf, Here(c)) \in Nat
    <2> SUFFICES ASSUME NEW c PROVE SumFunctionOnSet(shelf, Here(c)) \in Nat
      OBVIOUS
    <2>1. Here(c) \subseteq Locations
      BY DEF Here
    <2>2. IsFiniteSet(Here(c)) /\ \A l \in Here(c) : shelf[l] \in Nat
      BY <1>6, <2>1, FinitenessAssumption, FS_Subset
    <2> QED
      BY <2>2, SumSigns
  <1>8. BooksTyped
    <2>1. layers \in [Countries -> Nat]
      <3>1. \A c : SumFunctionOnSet(shelf, Here(c)) + RoadTotal(From(Here(c))) \in Nat
        BY <1>5, <1>7
      <3> QED
        BY <3>1 DEF Init
    <2>2. others \in [Locations -> Int]
      <3>1. \A l \in Locations : shelf[l] + RoadTotal(From({l})) \in Int
        BY <1>5, <1>6
      <3> QED
        BY <3>1 DEF Init
    <2> QED
      BY <2>1, <2>2, BoundsAssumption DEF BooksTyped, Init
  <1>9. ShelvesExplained
    <2> SUFFICES ASSUME NEW l \in Locations
                 PROVE  shelf[l] = others[l]
                          + SumFunctionOnSet([z \in Transfers |-> Net(z, l)], Transfers)
      BY DEF ShelvesExplained, Net
    <2>1. PICK I, g, f, h : /\ I = From({l}) /\ f = [z \in Transfers |-> Net(z, l)]
                            /\ g = [z \in Transfers |-> IF z \in I THEN road[z] ELSE 0]
                            /\ h = [z \in Transfers |-> 0]
      OBVIOUS
    <2>2. \A z \in Transfers : f[z] = 0 - g[z] /\ g[z] \in Nat
      <3> SUFFICES ASSUME NEW z \in Transfers PROVE f[z] = 0 - g[z] /\ g[z] \in Nat
        OBVIOUS
      <3>1. Arrived(z, l) = 0 /\ Left(z, l) = IF transfer[z].from = l THEN OnTheRoad(z) ELSE 0
        BY <1>1, NowhereAssumption DEF Arrived, Left, OnTheRoad
      <3>2. z \in I <=> transfer[z].from = l
        BY <2>1 DEF From
      <3> QED
        BY <1>4, <2>1, <3>1, <3>2 DEF Net
    <2>3. SumFunctionOnSet(g, Transfers) = SumFunctionOnSet(road, I)
      <3>1. I \in SUBSET Transfers /\ \A z \in I : road[z] \in Int /\ g[z] = road[z]
        BY <1>4, <1>5, <2>1
      <3>2. \A z \in Transfers \ I : g[z] = 0
        BY <2>1
      <3> QED
        BY <3>1, <3>2, FinitenessAssumption, SumMasked
    <2>4. SumFunctionOnSet(h, Transfers) = SumFunctionOnSet(f, Transfers) + SumFunctionOnSet(g, Transfers)
      <3>1. \A z \in Transfers : h[z] = 0
        BY <2>1
      <3>2. \A z \in Transfers : f[z] \in Int /\ g[z] \in Int /\ h[z] = f[z] + g[z]
        BY <2>2, <3>1
      <3> QED
        BY <3>2, FinitenessAssumption, SumPlus
    <2>5. SumFunctionOnSet(h, Transfers) = 0
      <3>1. \A z \in Transfers : h[z] = 0
        BY <2>1
      <3> QED
        BY <3>1, FinitenessAssumption, SumSigns
    <2>6. SumFunctionOnSet(f, Transfers) \in Int
      <3>1. \A z \in Transfers : f[z] \in Int
        BY <2>2
      <3> QED
        BY <3>1, FinitenessAssumption, SumType
    <2>7. others[l] = shelf[l] + SumFunctionOnSet(road, I) /\ SumFunctionOnSet(road, I) \in Nat
      BY <1>5, <2>1 DEF Init
    <2>8. shelf[l] \in Nat
      BY <1>6
    <2>9. shelf[l] = others[l] + SumFunctionOnSet(f, Transfers)
      BY <2>3, <2>4, <2>5, <2>6, <2>7, <2>8
    <2> QED
      BY <2>1, <2>9
  <1>10. LayersMatchShelves
    <2>1. [z \in Transfers |-> OnTheRoad(z) + Missing(z)] = road
      BY <1>3, <1>4
    <2> QED
      BY <1>5, <2>1 DEF LayersMatchShelves, Init
  <1> QED
    BY <1>2, <1>8, <1>9, <1>10 DEF EInv

\* Every step of the system keeps it.
LEMMA EInvStep == LInv /\ EInv /\ [Next]_vars => EInv'
  <1> SUFFICES ASSUME LInv, EInv, [Next]_vars PROVE EInv'
    OBVIOUS
  <1>0. LInv'
    BY LInvStep
  <1>1. ASSUME NEW t \in Transfers, NEW ro \in Routes, NEW n \in Quantities, Plan(t, ro[1], ro[2], n)
        PROVE  EInv'
    <2>1. ro[1] \in Locations /\ ro[2] \in Locations /\ n \in Nat
      BY RoutesAssumption, BoundsAssumption DEF Quantities
    <2> QED
      BY <1>0, <1>1, <2>1, PlansMove
  <1>2. ASSUME NEW t \in Transfers, Reject(t) \/ CancelPending(t)
        PROVE  EInv'
    BY <1>0, <1>2, PlansMove DEF Reject, CancelPending
  <1>3. ASSUME NEW t \in Transfers, NEW ro \in Routes, NEW n \in Quantities, NEW s \in Sessions,
               Initiate(s, t, ro[1], ro[2], n)
        PROVE  EInv'
    <2>1. PICK r : r = [pc |-> IF ro[1] = Nowhere THEN "credit" ELSE "debit",
                        op |-> "initiate", t |-> t, out |-> ro[1], in |-> ro[2], n |-> n]
      OBVIOUS
    <2>2. Reads(r)
      BY <1>3, <2>1 DEF Reads, Initiate, None
    <2>3. Begin(s, "initiate", t, ro[1], ro[2], n)
      BY <1>3 DEF Initiate
    <2> QED
      BY <2>1, <2>2, <2>3, BeginReads
  <1>4. ASSUME NEW s \in Sessions, NEW t \in Transfers, Approve(s, t)
        PROVE  EInv'
    <2>1. PICK row : row = transfer[t]
      OBVIOUS
    <2>2. PICK r : r = [pc |-> IF row.from = Nowhere THEN "credit" ELSE "debit",
                        op |-> "approve", t |-> t, out |-> row.from, in |-> row.to, n |-> row.sent]
      OBVIOUS
    <2>3. Reads(r) /\ Begin(s, "approve", t, row.from, row.to, row.sent)
      BY <1>4, <2>1, <2>2 DEF Reads, Approve
    <2> QED
      BY <2>2, <2>3, BeginReads
  <1>5. ASSUME NEW s \in Sessions, NEW t \in Transfers, NEW n \in 0..MaxQty, Verify(s, t, n)
        PROVE  EInv'
    <2>1. PICK row : row = transfer[t]
      OBVIOUS
    <2>2. PICK r : r = [pc |-> IF Nowhere = Nowhere THEN "credit" ELSE "debit",
                        op |-> "verify", t |-> t, out |-> Nowhere, in |-> row.to, n |-> n]
      OBVIOUS
    <2>3. Reads(r) /\ Begin(s, "verify", t, Nowhere, row.to, n)
      BY <1>5, <2>1, <2>2 DEF Reads, Verify
    <2> QED
      BY <2>2, <2>3, BeginReads
  <1>6. ASSUME NEW s \in Sessions, NEW t \in Transfers, Cancel(s, t)
        PROVE  EInv'
    <2>1. PICK row, out, n : /\ row = transfer[t] /\ n = GivenBack(row)
                             /\ out = IF row.received # NotCounted /\ row.received # 0
                                        THEN row.to ELSE Nowhere
      OBVIOUS
    <2>2. PICK r : r = [pc |-> IF out = Nowhere THEN "credit" ELSE "debit",
                        op |-> "cancel", t |-> t, out |-> out, in |-> row.from, n |-> n]
      OBVIOUS
    <2>3. /\ row.status \in {"IN_TRANSIT", "RECEIVED", "DISPUTED"}
          /\ Begin(s, "cancel", t, out, row.from, n)
      BY <1>6, <2>1 DEF Cancel
    <2>4. /\ row.status = "IN_TRANSIT" => row.received = NotCounted
          /\ row.status \in {"RECEIVED", "DISPUTED"} => row.received # NotCounted
      BY <2>1 DEF EInv, RowsCount
    <2>5. Reads(r)
      BY <2>1, <2>2, <2>3, <2>4 DEF Reads, GivenBack
    <2> QED
      BY <2>2, <2>3, <2>5, BeginReads
  <1>7. ASSUME NEW s \in Sessions, Proceeds(s)
        PROVE  EInv'
    <2>1. CASE Debit(s)
      <3>1. req[s].pc # "idle" /\ UNCHANGED <<transfer, levels, others, strayed, left>>
        BY <2>1 DEF Debit
      <3> QED
        BY <2>1, <3>1, GoesOn DEF Debit, Rollback
    <2>2. CASE Credit(s)
      BY <1>0, <2>2, CreditKeepsEInv
    <2>3. CASE LayersMissing(s)
      BY <2>3, GoesOn DEF LayersMissing, Rollback
    <2>4. CASE DeadlockVictim(s)
      BY <2>4, GoesOn DEF DeadlockVictim, Rollback
    <2> QED
      BY <1>7, <2>1, <2>2, <2>3, <2>4 DEF Proceeds
  <1>8. ASSUME NEW l \in Locations, Reserve(l) \/ Release(l)
        PROVE  EInv'
    <2>1. UNCHANGED <<transfer, shelf, layers, req, others, strayed, left>>
      BY <1>8 DEF Reserve, Release
    <2> QED
      BY <2>1 DEF EInv, RowsCount, RequestsRead, Reads, OneRequestPerRow, BooksTyped,
                  ShelvesExplained, LayersMatchShelves, Arrived, Left, OnTheRoad, Missing, From
  <1>9. ASSUME NEW l \in Locations, Ship(l) \/ Intake(l)
        PROVE  EInv'
    <2>1. /\ layers \in [Countries -> Nat] /\ others \in [Locations -> Int] /\ left \in Nat
          /\ shelf \in [Locations -> Nat] /\ CountryOf[l] \in Countries
      BY CountryAssumption DEF EInv, BooksTyped, LInv, LevelsTyped
    <2>2. CASE Ship(l)
      <3>1. /\ shelf' = [shelf EXCEPT ![l] = shelf[l] + (-1)]
            /\ others' = [others EXCEPT ![l] = others[l] + (-1)]
            /\ layers' = [layers EXCEPT ![CountryOf[l]] = layers[CountryOf[l]] + (-1)]
            /\ layers[CountryOf[l]] + (-1) \in Nat /\ left' \in Nat
            /\ UNCHANGED <<transfer, req, strayed>> /\ -1 \in Int
        <4>1. /\ shelf' = [shelf EXCEPT ![l] = shelf[l] - 1]
              /\ others' = [others EXCEPT ![l] = others[l] - 1]
              /\ layers' = [layers EXCEPT ![CountryOf[l]] = layers[CountryOf[l]] - 1]
              /\ layers[CountryOf[l]] > 0 /\ UNCHANGED <<transfer, req, strayed, left>>
          BY <2>2 DEF Ship
        <4>2. /\ shelf[l] - 1 = shelf[l] + (-1) /\ others[l] - 1 = others[l] + (-1) /\ -1 \in Int
              /\ layers[CountryOf[l]] - 1 = layers[CountryOf[l]] + (-1)
          BY <2>1
        <4>3. layers[CountryOf[l]] + (-1) \in Nat /\ left' \in Nat
          BY <2>1, <4>1
        <4> QED
          BY <4>1, <4>2, <4>3
      <3> QED
        BY <1>0, <3>1, OthersMove
    <2>3. CASE Intake(l)
      <3>1. /\ shelf' = [shelf EXCEPT ![l] = shelf[l] + 1]
            /\ others' = [others EXCEPT ![l] = others[l] + 1]
            /\ layers' = [layers EXCEPT ![CountryOf[l]] = layers[CountryOf[l]] + 1]
            /\ layers[CountryOf[l]] + 1 \in Nat /\ left' \in Nat
            /\ UNCHANGED <<transfer, req, strayed>> /\ 1 \in Int
        BY <2>1, <2>3 DEF Intake
      <3> QED
        BY <1>0, <3>1, OthersMove
    <2> QED
      BY <1>9, <2>2, <2>3
  <1>10. CASE UNCHANGED vars
    <2>1. UNCHANGED <<transfer, shelf, layers, req, others, strayed, left>>
      BY <1>10 DEF vars, levels
    <2> QED
      BY <2>1 DEF EInv, RowsCount, RequestsRead, Reads, OneRequestPerRow, BooksTyped,
                  ShelvesExplained, LayersMatchShelves, Arrived, Left, OnTheRoad, Missing, From
  <1>11. CASE Next
    <2>1. CASE \E t \in Transfers, ro \in Routes, n \in Quantities :
                 \/ Plan(t, ro[1], ro[2], n)
                 \/ \E s \in Sessions : Initiate(s, t, ro[1], ro[2], n)
      BY <1>1, <1>3, <2>1
    <2>2. CASE \E t \in Transfers : Reject(t) \/ CancelPending(t)
      BY <1>2, <2>2
    <2>3. CASE \E s \in Sessions, t \in Transfers :
                 \/ Approve(s, t) \/ Cancel(s, t)
                 \/ \E n \in 0..MaxQty : Verify(s, t, n)
      BY <1>4, <1>5, <1>6, <2>3
    <2>4. CASE \E s \in Sessions : Proceeds(s)
      BY <1>7, <2>4
    <2>5. CASE \E l \in Locations : Reserve(l) \/ Release(l) \/ Ship(l) \/ Intake(l)
      BY <1>8, <1>9, <2>5
    <2> QED
      BY <1>11, <2>1, <2>2, <2>3, <2>4, <2>5 DEF Next
  <1> QED
    BY <1>10, <1>11

\* The types of all the variables, for every instance.
THEOREM TransfersTyped == Spec => []TypeOK
  <1>1. LInv /\ EInv => TypeOK
    BY DEF LInv, EInv, RowTyped, ReqTyped, LevelsTyped, BooksTyped, TypeOK
  <1> QED
    BY LInvInit, LInvStep, EInvInit, EInvStep, <1>1, PTL DEF Spec

\* The rows of the transfers account for every unit on every shelf: no interleaving of
\* approvals, verifications and cancellations makes or loses one unexplained.
THEOREM ShelvesAlwaysExplained == Spec => []ShelvesExplained
  <1>1. EInv => ShelvesExplained
    BY DEF EInv
  <1> QED
    BY LInvInit, LInvStep, EInvInit, EInvStep, <1>1, PTL DEF Spec

\* The cost layers of a country that nothing has strayed into or out of are worth its units.
THEOREM LayersAlwaysMatch == Spec => []LayersMatchShelves
  <1>1. EInv => LayersMatchShelves
    BY DEF EInv
  <1> QED
    BY LInvInit, LInvStep, EInvInit, EInvStep, <1>1, PTL DEF Spec
==============================================================================
