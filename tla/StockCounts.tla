----------------------------- MODULE StockCounts -----------------------------
(***************************************************************************)
(* Stock reconciliations of one location and the dispatch lock they hold   *)
(* (createReconciliation, resolveReconciliation, isDispatchLocked).        *)
(*                                                                         *)
(* Each call is one READ COMMITTED transaction: what it writes is seen by  *)
(* others when it commits, rows it has updated stay locked until then, and *)
(* each of its SELECTs sees what others have committed so far.             *)
(***************************************************************************)
EXTENDS Integers, FiniteSets

CONSTANTS
    Products,
    Counts,        \* reconciliation ids
    Staff,         \* staff members with a transaction of their own
    NoCount, NoProduct,
    InitialStock,  \* units of each product, on the shelf and on the books
    Overlap        \* may a product be counted while a count of it is pending?

ASSUME CountsAssumption == /\ NoCount \notin Counts /\ NoProduct \notin Products
                           /\ InitialStock \in Nat
                           /\ Overlap \in BOOLEAN

VARIABLES
    present,         \* units that are really there
    lost,            \* how many went missing so far
    stock,           \* inventory_levels.stock_count
    rec,             \* stock_reconciliations
    dispatchLocked,  \* logistics_locations.dispatch_locked
    tx               \* the open transactions

countVars == <<present, lost, stock, rec, dispatchLocked, tx>>
units == <<present, lost>>

NoTx == [pc |-> "idle", c |-> NoCount, p |-> NoProduct, d |-> 0, approved |-> FALSE]
NoRec == [status |-> "NONE", p |-> NoProduct, d |-> 0]

CountsInit ==
    /\ present = [p \in Products |-> InitialStock]
    /\ lost = [p \in Products |-> 0]
    /\ stock = present
    /\ rec = [c \in Counts |-> NoRec]
    /\ dispatchLocked = FALSE
    /\ tx = [s \in Staff |-> NoTx]

Pending(c) == rec[c].status = "PENDING"
Open(s) == tx[s].pc # "idle"

\* Row locks held by open transactions.
LocationHeld == \E s \in Staff : tx[s].pc \in {"locked", "unlocked"}
LevelHeld(p) == \E s \in Staff :
    tx[s].pc \in {"resolving", "keep", "unlock", "unlocked"} /\ tx[s].approved /\ tx[s].p = p
RecHeld(c) == \E s \in Staff : Open(s) /\ tx[s].c = c

------------------------------------------------------------------------------
\* createReconciliation: compare the physical count with the books.
Create(s, c, p) ==
    /\ ~Open(s)
    /\ rec[c].status = "NONE" /\ ~RecHeld(c)
    /\ \/ Overlap
       \/ /\ \A k \in Counts : Pending(k) => rec[k].p # p
          /\ \A t \in Staff : tx[t].p # p
    /\ LET d == present[p] - stock[p] IN
       tx' = [tx EXCEPT ![s] = [pc |-> IF d = 0 THEN "recorded" ELSE "lock",
                                c |-> c, p |-> p, d |-> d, approved |-> FALSE]]
    /\ UNCHANGED <<units, stock, rec, dispatchLocked>>

\* A discrepancy locks dispatch: the location's row is updated, then committed.
LockDispatch(s) ==
    /\ tx[s].pc = "lock"
    /\ ~LocationHeld
    /\ tx' = [tx EXCEPT ![s].pc = "locked"]
    /\ UNCHANGED <<units, stock, rec, dispatchLocked>>

CommitCreate(s) ==
    /\ tx[s].pc \in {"recorded", "locked"}
    /\ rec' = [rec EXCEPT ![tx[s].c] =
                 [status |-> "PENDING", p |-> tx[s].p, d |-> tx[s].d]]
    /\ dispatchLocked' = (dispatchLocked \/ tx[s].pc = "locked")
    /\ tx' = [tx EXCEPT ![s] = NoTx]
    /\ UNCHANGED <<units, stock>>

\* resolveReconciliation: SELECT ... FOR UPDATE of the reconciliation; an approval
\* also updates, and so locks, the inventory level.
PendingUnlocked(c) == Pending(c)   \* mutant: no FOR UPDATE
Resolvable(c) == Pending(c) /\ ~RecHeld(c)

Resolve(s, c, approved) ==
    /\ ~Open(s)
    /\ Resolvable(c)
    /\ approved => ~LevelHeld(rec[c].p)
    /\ tx' = [tx EXCEPT ![s] = [pc |-> "resolving", c |-> c, p |-> rec[c].p,
                                d |-> rec[c].d, approved |-> approved]]
    /\ UNCHANGED <<units, stock, rec, dispatchLocked>>

\* Count the reconciliations still pending, this one apart: dispatch is unlocked
\* when there is none.
OthersPending(c) == \E k \in Counts \ {c} : Pending(k)

CheckPending(s) ==
    /\ tx[s].pc = "resolving"
    /\ tx' = [tx EXCEPT ![s].pc = IF OthersPending(tx[s].c) THEN "keep" ELSE "unlock"]
    /\ UNCHANGED <<units, stock, rec, dispatchLocked>>

UnlockDispatch(s) ==
    /\ tx[s].pc = "unlock"
    /\ ~LocationHeld
    /\ tx' = [tx EXCEPT ![s].pc = "unlocked"]
    /\ UNCHANGED <<units, stock, rec, dispatchLocked>>

\* The discrepancy is applied to what the books say now, floored at zero.
Counted(p, d) == InitialStock + d    \* mutant: the absolute count
Applied(p, d) == IF stock[p] + d < 0 THEN 0 ELSE stock[p] + d

LockAfter(s) == dispatchLocked /\ tx[s].pc # "unlocked"

CommitResolve(s) ==
    /\ tx[s].pc \in {"keep", "unlocked"}
    /\ stock' = IF tx[s].approved
                  THEN [stock EXCEPT ![tx[s].p] = Applied(tx[s].p, tx[s].d)]
                  ELSE stock
    /\ rec' = [rec EXCEPT ![tx[s].c].status =
                 IF tx[s].approved THEN "APPROVED" ELSE "REJECTED"]
    /\ dispatchLocked' = LockAfter(s)
    /\ tx' = [tx EXCEPT ![s] = NoTx]
    /\ UNCHANGED units

\* The connection is lost: the transaction rolls back.
RollbackCount(s) ==
    /\ Open(s)
    /\ tx' = [tx EXCEPT ![s] = NoTx]
    /\ UNCHANGED <<units, stock, rec, dispatchLocked>>

\* A delivery of one unit, on the shelf and on the books.
Sell(p) ==
    /\ present[p] > 0 /\ stock[p] > 0
    /\ ~LevelHeld(p)
    /\ present' = [present EXCEPT ![p] = @ - 1]
    /\ stock' = [stock EXCEPT ![p] = @ - 1]
    /\ UNCHANGED <<lost, rec, dispatchLocked, tx>>

\* A unit goes missing.
Lose(p) ==
    /\ present[p] > 0
    /\ present' = [present EXCEPT ![p] = @ - 1]
    /\ lost' = [lost EXCEPT ![p] = @ + 1]
    /\ UNCHANGED <<stock, rec, dispatchLocked, tx>>

CountsNext ==
    \/ \E s \in Staff :
         \/ \E c \in Counts, p \in Products : Create(s, c, p)
         \/ \E c \in Counts, approved \in BOOLEAN : Resolve(s, c, approved)
         \/ LockDispatch(s) \/ CommitCreate(s)
         \/ CheckPending(s) \/ UnlockDispatch(s) \/ CommitResolve(s)
         \/ RollbackCount(s)
    \/ \E p \in Products : Sell(p) \/ Lose(p)

CountsSpec == CountsInit /\ [][CountsNext]_countVars

------------------------------------------------------------------------------
TxType ==
    [pc : {"idle", "recorded", "lock", "locked", "resolving", "keep", "unlock", "unlocked"},
     c : Counts \cup {NoCount}, p : Products \cup {NoProduct}, d : Int,
     approved : BOOLEAN]

CountsTypeOK ==
    /\ present \in [Products -> Nat]
    /\ lost \in [Products -> Nat]
    /\ stock \in [Products -> Nat]
    /\ rec \in [Counts -> [status : {"NONE", "PENDING", "APPROVED", "REJECTED"},
                           p : Products \cup {NoProduct}, d : Int]]
    /\ dispatchLocked \in BOOLEAN
    /\ tx \in [Staff -> TxType]

\* Resolving the last pending count unlocks dispatch: the lock never outlives
\* the counts it was taken for.
UnlockedWhenResolved ==
    dispatchLocked => (\E c \in Counts : Pending(c)) \/ (\E s \in Staff : Open(s))

\* Approving counts corrects losses and nothing else: the books run ahead of the
\* shelf by no more than has ever gone missing, and never fall behind it, however
\* many units are sold between a count and its approval.
OnlyLossesCorrected ==
    \A p \in Products : present[p] <= stock[p] /\ stock[p] <= present[p] + lost[p]

\* A count is resolved once: two reviewers never apply it twice.
ResolvedOnce ==
    [][\A c \in Counts :
         rec[c].status \in {"APPROVED", "REJECTED"} => rec'[c] = rec[c]]_countVars
==============================================================================
