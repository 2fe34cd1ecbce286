---------------------------- MODULE PayrollBatches ----------------------------
(***************************************************************************)
(* The payroll batches of one month: payroll-batch.service and the         *)
(* earnings adjustments of hr.service.                                     *)
(*                                                                         *)
(* A batch fills a slot (a department of a branch, or everyone) with one   *)
(* line per member of staff.  A line pays the base and the adjustments     *)
(* linked to it; the batch keeps the sum of its lines.  Calls read what    *)
(* they are about without a lock, check it, and write in a transaction of  *)
(* their own, which is one step here.  A call is late when a commit of     *)
(* another changed, in between, what it is about.                          *)
(***************************************************************************)
EXTENDS Integers, Sequences, FiniteSets, Functions, SequencesExt

CONSTANTS
    Staff, Items,   \* earnings adjustments
    Slots,
    Departments,    \* slots of a department; the others are company-wide
    Covers,         \* whom a slot pays
    Owner,          \* whom an adjustment is for
    Sessions,
    Base,           \* what the plan computes for a member of staff
    Earned,         \* bound: amounts of a new adjustment
    Corrected,      \* bound: amounts of a corrected adjustment or an overridden base
    MaxBatches,     \* bound: batches ever created
    MaxLines        \* bound: lines ever created

ASSUME SlotsAssumption == Departments \subseteq Slots /\ Covers \in [Slots -> SUBSET Staff]
ASSUME FinitenessAssumption == IsFiniteSet(Staff) /\ IsFiniteSet(Items)
ASSUME ItemsAssumption == Owner \in [Items -> Staff]
ASSUME BoundsAssumption ==
    /\ Base \in Nat /\ Earned \subseteq Nat /\ Corrected \subseteq Nat
    /\ MaxBatches \in Nat /\ MaxLines \in Nat

Statuses == {"DRAFT", "PENDING_HR", "PENDING_FINANCE", "PAID"}
None == 0

VARIABLES
    batch,     \* payroll_batches, numbered as they are created
    line,      \* payout_records, numbered as they are created
    item,      \* earnings_adjustments
    txn,       \* the calls in flight
    doubtful   \* history: batches written by a late call, or whose recomputation failed

vars == <<batch, line, item, txn, doubtful>>

Deleted == [slot |-> None, status |-> "DELETED", total |-> 0]
Gone == [batch |-> None, staff |-> None, base |-> 0, amount |-> 0, paid |-> FALSE]
Idle == [pc |-> "idle", op |-> "none", slot |-> None, b |-> None, l |-> None, item |-> None,
         rest |-> 0, late |-> FALSE]

Init ==
    /\ batch = <<>> /\ line = <<>>
    /\ item = [a \in Items |-> [status |-> "NONE", amount |-> 0, line |-> None]]
    /\ txn = [s \in Sessions |-> Idle]
    /\ doubtful = {}

------------------------------------------------------------------------------
Live(b) == b \in DOMAIN batch /\ batch[b] # Deleted
Open(b) == Live(b) /\ batch[b].status # "PAID"
Kept(l) == l \in DOMAIN line /\ line[l].batch # None
LinesIn(lines, b) == {l \in DOMAIN lines : lines[l].batch = b}
Lines(b) == LinesIn(line, b)
BatchOf(l) == IF Kept(l) THEN {line[l].batch} ELSE {}

Worth(items, A) == SumFunctionOnSet([a \in Items |-> items[a].amount], A)
Amounts(lines, L) == SumFunctionOnSet([l \in DOMAIN lines |-> lines[l].amount], L)

\* recomputeBatchTotals
Tallied(batches, lines, b) ==
    [batches EXCEPT ![b].total = Amounts(lines, LinesIn(lines, b))]

Without(L) == [l \in DOMAIN line |-> IF l \in L THEN Gone ELSE line[l]]

\* The adjustments of a member of staff that a generation sweeps up.
AlsoUnapproved(items, m) ==   \* mutant
    {a \in Items : Owner[a] = m /\ items[a].line = None /\ items[a].status \in {"NEW", "APPROVED"}}
Pending(items, m) ==
    {a \in Items : Owner[a] = m /\ items[a].line = None /\ items[a].status = "APPROVED"}

\* Adjustments outlive their line.
Attached(L) == item   \* mutant
Detached(L) == [a \in Items |-> IF item[a].line \in L THEN [item[a] EXCEPT !.line = None] ELSE item[a]]

LockedInReview == {"PENDING_FINANCE"}   \* mutant
Locked == {"PENDING_FINANCE", "PAID"}

------------------------------------------------------------------------------
\* A commit on batches B and adjustments A makes late the calls about them.
Concerned(t, B, A) ==
    \/ t.b \in B
    \/ t.item \in A
    \/ t.op \in {"generate", "recalculate"} /\ \E a \in A : Owner[a] \in Covers[t.slot]

After(s, B, A, t) ==
    [z \in Sessions |->
        IF z = s THEN t
        ELSE IF txn[z].pc # "idle" /\ Concerned(txn[z], B, A) THEN [txn[z] EXCEPT !.late = TRUE]
        ELSE txn[z]]

\* What a late call leaves in a batch depends on how its statements fell between those of
\* the other call.  The amounts of a batch in doubt are not followed: they read 0.
Followed(batches, lines) ==
    /\ batch' = [b \in DOMAIN batches |->
                    IF b \in doubtful' THEN [batches[b] EXCEPT !.total = 0] ELSE batches[b]]
    /\ line' = [l \in DOMAIN lines |->
                   IF lines[l].batch \in doubtful'
                   THEN [lines[l] EXCEPT !.base = 0, !.amount = 0, !.paid = FALSE] ELSE lines[l]]

\* Session s commits these batches, lines and adjustments, changing batches B and
\* adjustments A, and goes on as t.
Commits(s, B, A, batches, lines, items, t) ==
    /\ txn' = After(s, B, A, t)
    /\ doubtful' = IF txn[s].late THEN doubtful \cup B ELSE doubtful
    /\ Followed(batches, lines)
    /\ item' = items

\* A call that reads under the lock it writes under, or whose write repeats its check.
AtOnce(s, B, A, batches, lines, items) ==
    txn[s].pc = "idle" /\ Commits(s, B, A, batches, lines, items, Idle)

\* recomputePayoutTotals, then recomputeBatchTotals of the line's batch
Recounts(s, l, B, A, items) ==
    LET linked == {a \in Items : items[a].line = l}
        lines == [line EXCEPT ![l].amount = line[l].base + Worth(items, linked)]
    IN Commits(s, B, A, Tallied(batch, lines, line[l].batch), lines, items, Idle)

Changed(items) == {a \in Items : items[a] # item[a]}

Reads(s, t) ==
    /\ txn[s].pc = "idle"
    /\ txn' = [txn EXCEPT ![s] = t]
    /\ UNCHANGED <<batch, line, item, doubtful>>

About(op, b, l) == [Idle EXCEPT !.pc = "read", !.op = op, !.b = b, !.l = l]
Ready(s, op) == txn[s].pc = "read" /\ txn[s].op = op

------------------------------------------------------------------------------
(***************************************************************************)
(* Generation of a slot, and recalculation of a batch: the lines are       *)
(* thrown away and derived again, the adjustments let go and swept up.     *)
(***************************************************************************)

\* pg_advisory_xact_lock on the slot: held from the lookup to the commit.
Unserialized(slot) == TRUE   \* mutant
SlotFree(slot) == \A z \in Sessions : txn[z].op = "generate" => txn[z].slot # slot

GenerateRead(s, slot) ==
    LET existing == {b \in DOMAIN batch : Live(b) /\ batch[b].slot = slot}
    IN /\ SlotFree(slot)
       /\ \A b \in existing : Open(b)
       /\ \E b \in IF existing = {} THEN {None} ELSE existing :
              Reads(s, [About("generate", b, None) EXCEPT !.slot = slot])

RecalculateRead(s, b) ==
    /\ Open(b)
    /\ Reads(s, [About("recalculate", b, None) EXCEPT !.slot = batch[b].slot])

Swept(items, staff) == UNION {Pending(items, m) : m \in staff}

FreshLines(b, items, order) ==
    [i \in DOMAIN order |->
        [batch |-> b, staff |-> order[i], base |-> Base, paid |-> FALSE,
         amount |-> Base + Worth(items, Pending(items, order[i]))]]

\* The swept adjustments hang on the line of their owner, n lines after the present ones.
Hung(items, swept, order, n) ==
    [a \in Items |->
        IF a \in swept
        THEN [items[a] EXCEPT !.line = n + CHOOSE i \in DOMAIN order : order[i] = Owner[a]]
        ELSE items[a]]

\* Batch b of batches gets a line for each of the staff, and is out of doubt.
Rebuild(s, b, batches, staff) ==
    LET items == Detached(Lines(b))
        order == SetToSeq(staff)
        swept == Swept(items, staff)
        lines == Without(Lines(b)) \o FreshLines(b, items, order)
    IN /\ Len(lines) <= MaxLines
       /\ item' = Hung(items, swept, order, Len(line))
       /\ txn' = After(s, {b}, swept \cup Changed(items), Idle)
       /\ doubtful' = IF txn[s].late THEN doubtful \cup {b} ELSE doubtful \ {b}
       /\ Followed(Tallied(batches, lines, b), lines)

\* A batch deleted meanwhile fails the insert of its lines.
GenerateCommit(s) ==
    LET t == txn[s] IN
    /\ Ready(s, "generate")
    /\ \/ t.b = None /\ Len(batch) < MaxBatches
          /\ Rebuild(s, Len(batch) + 1,
                     Append(batch, [slot |-> t.slot, status |-> "DRAFT", total |-> 0]), Covers[t.slot])
       \/ Live(t.b) /\ Rebuild(s, t.b, batch, Covers[t.slot])

\* recalculateBatch passes no staff mode: a batch without a department gets no staff.
RecalculateCommit(s) ==
    LET t == txn[s] IN
    /\ Ready(s, "recalculate") /\ Live(t.b)
    /\ Rebuild(s, t.b, batch, IF t.slot \in Departments THEN Covers[t.slot] ELSE {})

------------------------------------------------------------------------------
(***************************************************************************)
(* Stages.  Only the submission writes without repeating its check.        *)
(***************************************************************************)

SubmitRead(s, b) ==
    /\ Live(b) /\ batch[b].status = "DRAFT" /\ Lines(b) # {}
    /\ Reads(s, About("submit", b, None))

SubmitCommit(s) ==
    LET b == txn[s].b IN
    /\ Ready(s, "submit") /\ Live(b) /\ Lines(b) # {}
    /\ Commits(s, {b}, {}, [Tallied(batch, line, b) EXCEPT ![b].status = "PENDING_HR"], line, item, Idle)

Stage(s, b, from, to, lines) ==
    /\ Live(b) /\ batch[b].status = from
    /\ AtOnce(s, {b}, {}, [batch EXCEPT ![b].status = to], lines, item)

Approve(s, b) == Stage(s, b, "PENDING_HR", "PENDING_FINANCE", line)

Reject(s, b) ==
    \/ Stage(s, b, "PENDING_HR", "DRAFT", line)
    \/ Stage(s, b, "PENDING_FINANCE", "PENDING_HR", line)

Pay(s, b) ==
    Stage(s, b, "PENDING_FINANCE", "PAID",
          [l \in DOMAIN line |-> [line[l] EXCEPT !.paid = @ \/ line[l].batch = b]])

Delete(s, b) ==
    LET items == Detached(Lines(b)) IN
    /\ Open(b)
    /\ AtOnce(s, {b}, Changed(items), [batch EXCEPT ![b] = Deleted], Without(Lines(b)), items)

------------------------------------------------------------------------------
(***************************************************************************)
(* Edits of the lines of a batch that is not yet paid.                     *)
(***************************************************************************)

\* Both edits check the batch first; an override also computes what the line pays besides
\* its base, before its transaction.
EditRead(s, l) ==
    /\ Kept(l) /\ Open(line[l].batch)
    /\ Reads(s, [About("edit", line[l].batch, l) EXCEPT !.rest = line[l].amount - line[l].base])

\* The new adjustment is born approved and linked.
AddCommit(s, a, n) ==
    LET t == txn[s]
        items == [item EXCEPT ![a] = [status |-> "APPROVED", amount |-> n, line |-> t.l]]
    IN /\ Ready(s, "edit") /\ Kept(t.l)
       /\ item[a].status = "NONE" /\ Owner[a] = line[t.l].staff
       /\ Recounts(s, t.l, {t.b}, {a}, items)

OverrideCommit(s, n) ==
    LET t == txn[s]
        lines == IF Kept(t.l) THEN [line EXCEPT ![t.l].base = n, ![t.l].amount = n + t.rest] ELSE line
    IN /\ Ready(s, "edit") /\ Live(t.b)
       /\ Commits(s, {t.b}, {}, Tallied(batch, lines, t.b), lines, item, Idle)

RemoveLine(s, l) ==
    LET items == Detached({l})
        lines == Without({l})
        b == line[l].batch
    IN /\ Kept(l) /\ Open(b)
       /\ AtOnce(s, {b}, Changed(items), Tallied(batch, lines, b), lines, items)

------------------------------------------------------------------------------
(***************************************************************************)
(* Standalone adjustments (hr.service).  Approving one is followed by a    *)
(* transaction that folds it into an open batch; unapproving, editing or   *)
(* deleting one by a transaction that recomputes the line it was in.       *)
(***************************************************************************)

CreateItem(s, a, n) ==
    /\ item[a].status = "NONE"
    /\ AtOnce(s, {}, {a}, batch, line,
              [item EXCEPT ![a] = [status |-> "NEW", amount |-> n, line |-> None]])

ApproveItem(s, a) ==
    /\ txn[s].pc = "idle"
    /\ item[a].status \in {"NEW", "APPROVED"}
    /\ Commits(s, {}, {a}, batch, line, [item EXCEPT ![a].status = "APPROVED"],
               IF item[a].line = None THEN [Idle EXCEPT !.pc = "absorb", !.item = a] ELSE Idle)

\* absorbPendingStaffAdjustment: it stays floating without a line that is still with HR.
AbsorbRead(s) ==
    LET a == txn[s].item
        open == {l \in DOMAIN line : Kept(l) /\ line[l].staff = Owner[a]
                                     /\ batch[line[l].batch].status \in {"DRAFT", "PENDING_HR"}}
        folds == item[a].status = "APPROVED" /\ item[a].line = None
    IN /\ txn[s].pc = "absorb"
       /\ \/ folds /\ \E l \in open :
                txn' = [txn EXCEPT ![s] = [About("absorb", line[l].batch, l) EXCEPT !.item = a]]
          \/ ~(folds /\ open # {}) /\ txn' = [txn EXCEPT ![s] = Idle]
       /\ UNCHANGED <<batch, line, item, doubtful>>

AbsorbCommit(s) ==
    LET t == txn[s]
        a == t.item
        items == IF item[a].status = "GONE" THEN item ELSE [item EXCEPT ![a].line = t.l]
    IN /\ Ready(s, "absorb") /\ Kept(t.l)
       /\ Recounts(s, t.l, {t.b} \cup BatchOf(item[a].line), {a}, items)

\* loadCorrectableAdjustment, with which the three corrections begin
CorrectRead(s, a) ==
    LET l == item[a].line IN
    /\ item[a].status \in {"NEW", "APPROVED"}
    /\ \A b \in BatchOf(l) : batch[b].status \notin Locked
    /\ Reads(s, [About("correct", IF l = None THEN None ELSE line[l].batch, l) EXCEPT !.item = a])

\* The write does not look again at where the adjustment hangs.
Correct(s, corrected) ==
    LET t == txn[s]
        next == IF t.l = None THEN Idle ELSE [About("none", t.b, t.l) EXCEPT !.pc = "recompute"]
    IN Commits(s, BatchOf(t.l) \cup BatchOf(item[t.item].line), {t.item}, batch, line,
               [item EXCEPT ![t.item] = corrected], next)

Correctable(s) == Ready(s, "correct") /\ item[txn[s].item].status # "GONE"

Unapprove(s) ==
    /\ Correctable(s)
    /\ Correct(s, [item[txn[s].item] EXCEPT !.status = "NEW", !.line = None])

Update(s, n) == Correctable(s) /\ Correct(s, [item[txn[s].item] EXCEPT !.amount = n])

DeleteItem(s) == Correctable(s) /\ Correct(s, [status |-> "GONE", amount |-> 0, line |-> None])

\* recomputeForAdjustment asks only whether the line is still there.
Recompute(s) ==
    LET t == txn[s] IN
    /\ t.pc = "recompute"
    /\ \/ Kept(t.l) /\ Recounts(s, t.l, {t.b}, {}, item)
       \/ ~Kept(t.l) /\ Commits(s, {}, {}, batch, line, item, Idle)

\* The call fails.  A recomputation that fails is only logged.
Rollback(s) ==
    /\ txn[s].pc # "idle"
    /\ txn' = [txn EXCEPT ![s] = Idle]
    /\ doubtful' = IF txn[s].pc = "recompute" THEN doubtful \cup BatchOf(txn[s].l) ELSE doubtful
    /\ Followed(batch, line)
    /\ UNCHANGED item

------------------------------------------------------------------------------
\* A call starts, and when it is a step of its own it is over at once.
Starting(s) ==
    \/ \E slot \in Slots : GenerateRead(s, slot)
    \/ \E b \in DOMAIN batch :
          RecalculateRead(s, b) \/ SubmitRead(s, b) \/ Approve(s, b) \/ Reject(s, b) \/ Pay(s, b)
             \/ Delete(s, b)
    \/ \E l \in DOMAIN line : EditRead(s, l) \/ RemoveLine(s, l)
    \/ \E a \in Items :
          \/ \E n \in Earned : CreateItem(s, a, n)
          \/ ApproveItem(s, a)
          \/ CorrectRead(s, a)

\* It writes after what it read.
Writing(s) ==
    \/ GenerateCommit(s) \/ RecalculateCommit(s) \/ SubmitCommit(s)
    \/ \E a \in Items, n \in Earned : AddCommit(s, a, n)
    \/ \E n \in Corrected : OverrideCommit(s, n)
    \/ AbsorbCommit(s)
    \/ Unapprove(s)
    \/ \E n \in Corrected : Update(s, n)
    \/ DeleteItem(s)

GoingOn(s) ==
    \/ txn[s].pc = "read" /\ Writing(s)
    \/ AbsorbRead(s) \/ Recompute(s)
    \/ Rollback(s)

Next == \E s \in Sessions :
    \/ txn[s].pc = "idle" /\ Starting(s)
    \/ txn[s].pc # "idle" /\ GoingOn(s)

Spec == Init /\ [][Next]_vars

------------------------------------------------------------------------------
(***************************************************************************)
(* Properties                                                              *)
(***************************************************************************)

\* Types; a line belongs to a live batch and an adjustment to a line of its owner, whatever
\* was deleted or rebuilt meanwhile (the foreign keys never find an orphan).
TypeOK ==
    /\ \A b \in DOMAIN batch :
           batch[b] # Deleted => batch[b] \in [slot : Slots, status : Statuses, total : Nat]
    /\ \A l \in DOMAIN line : line[l] # Gone => Live(line[l].batch) /\ line[l].staff \in Staff
    /\ \A a \in Items :
           /\ item[a].status \in {"NONE", "NEW", "APPROVED", "GONE"}
           /\ item[a].line # None => Kept(item[a].line) /\ line[item[a].line].staff = Owner[a]
    /\ doubtful \subseteq DOMAIN batch

\* The slot lock: however two generations of a slot interleave with each other and with
\* deletions, the slot never has two batches (its staff would be paid twice).
OneBatchPerSlot ==
    \A b, c \in DOMAIN batch : b # c /\ Live(b) /\ Live(c) => batch[b].slot # batch[c].slot

\* A batch adds up: it totals its lines, one for each member of staff, a line pays its base
\* and every adjustment linked to it, and those are approved.  Excepted are batches
\* that await the recomputation after a correction, or were written by a late call.
BooksAgree ==
    \A b \in DOMAIN batch \ doubtful :
        Live(b) /\ (\A s \in Sessions : txn[s].pc = "recompute" => txn[s].b # b) =>
            /\ batch[b].total = Amounts(line, Lines(b))
            /\ \A l \in Lines(b) :
                   LET linked == {a \in Items : item[a].line = l} IN
                   /\ line[l].amount = line[l].base + Worth(item, linked)
                   /\ \A a \in linked : item[a].status = "APPROVED"
                   /\ line[l].paid = (batch[b].status = "PAID")
                   /\ \A k \in Lines(b) : line[k].staff = line[l].staff => k = l

\* Paid payroll is a record: once a batch is PAID, no call that starts afterwards changes
\* it, one of its lines or an adjustment paid in them.  (A call that was under way can.)
PaidStays ==
    [][\A b \in DOMAIN batch :
          batch[b].status = "PAID" /\ b \notin doubtful' =>
              /\ batch'[b] = batch[b]
              /\ \A l \in Lines(b) : line'[l] = line[l]
              /\ \A a \in Items : BatchOf(item[a].line) = {b} => item'[a] = item[a]]_vars
=============================================================================
