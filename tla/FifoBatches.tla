----------------------------- MODULE FifoBatches -----------------------------
(***************************************************************************)
(* The cost batches of one product and the transactions that walk them:    *)
(* consumption (oldest first, one currency), cost simulation (the same,    *)
(* without writing) and restoration (newest first, every currency).        *)
(*                                                                         *)
(* A walk reads pages with SELECT ... ORDER BY ... LIMIT ... FOR UPDATE    *)
(* under READ COMMITTED: its snapshot names the candidate rows, each is    *)
(* then locked in order, waiting for its holder, and dropped when its      *)
(* latest version no longer matches.                                       *)
(***************************************************************************)
EXTENDS Integers, Sequences, FiniteSetsExt, Functions

CONSTANTS
    Sessions,
    Currencies, NoCurrency,
    FirstBatches,   \* the batches at the start, oldest first, nothing consumed
    Costs,          \* unit costs of later batches
    PageSize,       \* FIFO_BATCH_PAGE_SIZE
    Cut,            \* the last batch not past a cursor made of batch i: i itself when
                    \* its received_at is a whole millisecond
    MaxQty,         \* bound: units of one walk or intake
    MaxBatches      \* bound: batches ever taken in

ASSUME FifoAssumption == /\ NoCurrency \notin Currencies
                         /\ PageSize \in Nat \ {0} /\ MaxQty \in Nat \ {0}
                         /\ MaxBatches \in Nat /\ Costs \subseteq Nat
                         /\ Cut \in [1 .. MaxBatches -> Nat]
                         /\ \A i \in 1 .. MaxBatches : Cut[i] <= i
ASSUME FinitenessAssumption == IsFiniteSet(Sessions) /\ IsFiniteSet(Currencies)
ASSUME FirstAssumption ==
    /\ FirstBatches \in Seq([cur : Currencies, cost : Nat, received : Nat, remaining : Nat])
    /\ Len(FirstBatches) <= MaxBatches
    /\ \A i \in DOMAIN FirstBatches : FirstBatches[i].remaining = FirstBatches[i].received

VARIABLES
    batches,   \* stock_batches of the product, by (received_at, id)
    walk,      \* the transaction of each session
    out,       \* per currency: units shipped, less those given back
    short,     \* units given back that no batch absorbed
    mixed      \* history: two walks have run at the same time

vars == <<batches, walk, out, short, mixed>>

Rows == 1 .. MaxBatches
Unwritten == -1
Lesser(a, b) == IF a < b THEN a ELSE b

Idle == [pc |-> "idle", op |-> "consume", cur |-> NoCurrency, n |-> 0, left |-> 0,
         cost |-> 0, todo |-> {}, page |-> {}, held |-> {}, cursor |-> 0, slipped |-> FALSE,
         written |-> [i \in Rows |-> Unwritten]]

Init ==
    /\ batches = FirstBatches
    /\ walk = [s \in Sessions |-> Idle]
    /\ out = [c \in Currencies |-> 0]
    /\ short = 0
    /\ mixed = FALSE

------------------------------------------------------------------------------
\* remaining_quantity as the transaction of s sees it.
Seen(s, i) == IF walk[s].written[i] # Unwritten THEN walk[s].written[i]
                                                ELSE batches[i].remaining

Headroom(s, i) == batches[i].received - Seen(s, i)

\* The keyset cursor of the simulation, which writes nothing it could see: the last
\* batch of the page before, received_at as a Date, in milliseconds.  A batch whose
\* received_at has microseconds, as now() gives it, is itself past such a cursor.
FromHead(s, i) == TRUE   \* mutant
PastCursor(s, i) ==
    walk[s].op = "simulate" /\ walk[s].cursor # 0 => i > Cut[walk[s].cursor]

\* The WHERE clause of a page.
Matches(s, i) ==
    IF walk[s].op = "restore" THEN Headroom(s, i) > 0
    ELSE batches[i].cur = walk[s].cur /\ Seen(s, i) > 0 /\ PastCursor(s, i)

\* The row a walk comes to first: ORDER BY ascending, or descending to restore.
OldestFirst(s, S) == Min(S)   \* mutant
First(s, S) == IF walk[s].op = "restore" THEN Max(S) ELSE Min(S)

\* completeDeliveryInventory, reverseDeliveryForOrderInTx (of units that are out)
\* or the CONFIRMED effect starts its transaction.
Begin(s, op, c, n) ==
    /\ walk[s].pc = "idle"
    /\ op = "restore" => out[c] >= n
    /\ out' = IF op = "restore" THEN [out EXCEPT ![c] = @ - n] ELSE out
    /\ walk' = [walk EXCEPT ![s] = [Idle EXCEPT !.pc = "read", !.op = op, !.cur = c,
                                                !.n = n, !.left = n]]
    /\ mixed' = (mixed \/ \E t \in Sessions \ {s} : walk[t].pc # "idle")
    /\ UNCHANGED <<batches, short>>

\* History: this page, or an earlier one, begins at a cursor that was cut.
Slips(s) ==
    \/ walk[s].slipped
    \/ walk[s].op = "simulate" /\ walk[s].cursor # 0 /\ Cut[walk[s].cursor] # walk[s].cursor

\* A page: the statement's snapshot.
Read(s) ==
    /\ walk[s].pc = "read"
    /\ walk' = [walk EXCEPT ![s] = [@ EXCEPT !.pc = "lock", !.page = {},
                            !.slipped = Slips(s),
                            !.todo = {i \in DOMAIN batches : Matches(s, i)}]]
    /\ UNCHANGED <<batches, out, short, mixed>>

\* A page: lock the next candidate and re-check it.
NeverHeld(s, i) == FALSE   \* mutant: no FOR UPDATE
HeldByOther(s, i) == \E t \in Sessions \ {s} : i \in walk[t].held

PageFull(s) == Cardinality(walk[s].page) = PageSize

LockRow(s) ==
    LET w == walk[s]
        i == First(s, w.todo)
        page == IF Matches(s, i) THEN w.page \cup {i} ELSE w.page
    IN /\ w.pc = "lock"
       /\ w.todo # {} /\ ~PageFull(s)
       /\ ~HeldByOther(s, i)
       /\ walk' = [walk EXCEPT ![s] = [w EXCEPT !.todo = w.todo \ {i}, !.held = w.held \cup {i},
                                               !.page = page]]
       /\ UNCHANGED <<batches, out, short, mixed>>

\* The page is complete; an empty one ends the walk.
PageRead(s) ==
    /\ walk[s].pc = "lock"
    /\ walk[s].todo = {} \/ PageFull(s)
    /\ walk' = [walk EXCEPT ![s] = [@ EXCEPT !.pc = IF walk[s].page = {} THEN "end" ELSE "page"]]
    /\ UNCHANGED <<batches, out, short, mixed>>

\* The next batch of the page: take from it or fill it up.
Uncapped(s, i) ==   \* mutant
    IF walk[s].op = "restore" THEN walk[s].left ELSE Lesser(walk[s].left, Seen(s, i))
Moved(s, i) == Lesser(walk[s].left,
                      IF walk[s].op = "restore" THEN Headroom(s, i) ELSE Seen(s, i))

\* After a page: the next one, unless nothing is left to do.
OnePage(s, left, page) == IF left = 0 \/ page = {} THEN "end" ELSE "page"   \* mutant
AfterVisit(s, left, page) ==
    IF left = 0 THEN "end" ELSE IF page = {} THEN "read" ELSE "page"

Rewritten(s, i, m) ==
    LET written == walk[s].written
    IN CASE walk[s].op = "consume" -> [written EXCEPT ![i] = Seen(s, i) - m]
         [] walk[s].op = "restore" -> [written EXCEPT ![i] = Seen(s, i) + m]
         [] OTHER -> written

CostOf(s, i, m) == IF walk[s].op = "restore" THEN 0 ELSE m * batches[i].cost

Visit(s) ==
    LET w == walk[s]
        i == First(s, w.page)
        m == Moved(s, i)
        page == w.page \ {i}
    IN /\ w.pc = "page"
       /\ walk' = [walk EXCEPT ![s] = [w EXCEPT
              !.pc = AfterVisit(s, w.left - m, page), !.page = page, !.left = w.left - m,
              !.cost = w.cost + CostOf(s, i, m), !.cursor = i, !.written = Rewritten(s, i, m)]]
       /\ UNCHANGED <<batches, out, short, mixed>>

\* The transaction commits; a consumption that fell short throws, a restoration
\* only logs it.
Insufficient(s) == walk[s].op = "consume" /\ walk[s].left > 0

Commit(s) ==
    /\ walk[s].pc = "end" /\ ~Insufficient(s)
    /\ batches' = [i \in DOMAIN batches |-> [batches[i] EXCEPT !.remaining = Seen(s, i)]]
    /\ out' = IF walk[s].op = "consume" THEN [out EXCEPT ![walk[s].cur] = @ + walk[s].n]
                                        ELSE out
    /\ short' = IF walk[s].op = "restore" THEN short + walk[s].left ELSE short
    /\ walk' = [walk EXCEPT ![s] = Idle]
    /\ UNCHANGED mixed

\* Shortage, a lost connection, or a deadlock that PostgreSQL breaks.
Rollback(s) ==
    /\ walk[s].pc # "idle"
    /\ out' = IF walk[s].op = "restore" THEN [out EXCEPT ![walk[s].cur] = @ + walk[s].n]
                                        ELSE out
    /\ walk' = [walk EXCEPT ![s] = Idle]
    /\ UNCHANGED <<batches, short, mixed>>

\* intake: a new batch, the newest.
Intake(c, cost, n) ==
    /\ Len(batches) < MaxBatches
    /\ batches' = Append(batches, [cur |-> c, cost |-> cost, received |-> n, remaining |-> n])
    /\ UNCHANGED <<walk, out, short, mixed>>

Next ==
    \/ \E s \in Sessions :
         \/ \E op \in {"consume", "simulate", "restore"}, c \in Currencies,
               n \in 1 .. MaxQty : Begin(s, op, c, n)
         \/ Read(s) \/ LockRow(s) \/ PageRead(s) \/ Visit(s) \/ Commit(s) \/ Rollback(s)
    \/ \E c \in Currencies, cost \in Costs, n \in 1 .. MaxQty : Intake(c, cost, n)

Spec == Init /\ [][Next]_vars

------------------------------------------------------------------------------
WalkType ==
    [pc : {"idle", "read", "lock", "page", "end"}, op : {"consume", "simulate", "restore"},
     cur : Currencies \cup {NoCurrency}, n : Nat, left : Nat, cost : Nat,
     todo : SUBSET Rows, page : SUBSET Rows, held : SUBSET Rows, cursor : Nat,
     slipped : BOOLEAN, written : [Rows -> Int]]

\* Types.  No batch is consumed below zero or filled beyond what was received,
\* whatever walks interleave.
TypeOK ==
    /\ Len(batches) <= MaxBatches
    /\ \A i \in DOMAIN batches : /\ batches[i].cur \in Currencies
                                 /\ batches[i].remaining \in 0 .. batches[i].received
    /\ walk \in [Sessions -> WalkType]
    /\ out \in [Currencies -> Nat]
    /\ short \in Nat
    /\ mixed \in BOOLEAN

Restoring(c) == {s \in Sessions : walk[s].pc # "idle" /\ walk[s].op = "restore"
                                    /\ walk[s].cur = c}
Away(c) == out[c] + SumFunctionOnSet([s \in Sessions |-> walk[s].n], Restoring(c))

\* One walk at a time, units that were shipped find room in the batches when they
\* are given back.
RestoredInFull == ~mixed => short = 0

\* What the n oldest units of a currency cost.
Older(i) == {j \in 1 .. (i - 1) : batches[j].cur = batches[i].cur}
Ahead(i) == SumFunctionOnSet([j \in DOMAIN batches |-> batches[j].remaining], Older(i))
UnitsOf(n, i) ==
    IF n < Ahead(i) THEN 0 ELSE Lesser(n - Ahead(i), batches[i].remaining)
OldestCost(c, n) ==
    SumFunctionOnSet([i \in DOMAIN batches |-> UnitsOf(n, i) * batches[i].cost],
                     {i \in DOMAIN batches : batches[i].cur = c})

\* One walk at a time, a delivery costs what the n oldest units cost, however many
\* pages the walk takes.  So does the simulation at confirmation, as long as no page
\* after its first begins at a cursor that lost the microseconds of received_at.
CostIsFifo ==
    ~mixed => \A s \in Sessions :
        walk[s].pc = "end" /\ walk[s].op # "restore" /\ walk[s].left = 0
            /\ ~walk[s].slipped
            => walk[s].cost = OldestCost(walk[s].cur, walk[s].n)

\* One walk at a time, no batch is touched before the older ones of its currency are
\* used up: what is given back undoes the latest consumption first.
OldestUsedUp ==
    ~mixed => \A i, j \in DOMAIN batches :
        i < j /\ batches[i].cur = batches[j].cur /\ batches[j].remaining < batches[j].received
            => batches[i].remaining = 0

\* Taken together the batches are a pool of units: what is missing from them is
\* what was shipped and not given back, or was reported as finding no room.  No
\* interleaving of walks loses or invents a unit.
Pool == INSTANCE StockPool WITH
    received <- SumFunction([i \in DOMAIN batches |-> batches[i].received]),
    remaining <- SumFunction([i \in DOMAIN batches |-> batches[i].remaining]),
    away <- SumFunction([c \in Currencies |-> Away(c)]) + short
ImplementsPool == Pool!Spec
==============================================================================
