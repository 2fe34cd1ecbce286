------------------------ MODULE PayrollBatches_proofs ------------------------
(***************************************************************************)
(* Payroll batches: types, one batch a slot, books that add up and paid    *)
(* payroll that stays, for any staff, slots, adjustments and sessions.     *)
(*                                                                         *)
(* A call in flight goes by what it has read.  The invariant says for each *)
(* kind of call what of that is still so as long as the call is not late,  *)
(* and what even a late one may rely on: numbers are never given twice, so *)
(* the batch or the line it read is still the same one, or is gone.        *)
(***************************************************************************)
EXTENDS PayrollBatches, Sums, SequenceTheorems

BatchType == [slot : Slots, status : Statuses, total : Nat] \cup {Deleted}
LineType ==
    {r \in [batch : Nat \ {0}, staff : Staff, base : Nat, amount : Nat, paid : BOOLEAN] :
        r.base <= r.amount} \cup {Gone}
ItemType == [status : {"NONE", "NEW", "APPROVED", "GONE"}, amount : Nat, line : Nat]
CallType ==
    [pc : {"idle", "read", "absorb", "recompute"},
     op : {"none", "generate", "recalculate", "submit", "edit", "absorb", "correct"},
     slot : Slots \cup {None}, b : Nat, l : Nat, item : Items \cup {None},
     rest : Nat, late : BOOLEAN]

DataTyped(batches, lines, items) ==
    /\ batches \in Seq(BatchType)
    /\ lines \in Seq(LineType)
    /\ items \in [Items -> ItemType]

Typed ==
    /\ DataTyped(batch, line, item)
    /\ txn \in [Sessions -> CallType]
    /\ doubtful \subseteq DOMAIN batch

\* Lines of live batches, adjustments in lines of their owner.
Refers(batches, lines, items) ==
    /\ \A l \in DOMAIN lines : lines[l].batch # None =>
           lines[l].batch \in DOMAIN batches /\ batches[lines[l].batch] # Deleted
    /\ \A a \in Items : items[a].line # None =>
           /\ items[a].line \in DOMAIN lines
           /\ lines[items[a].line].batch # None
           /\ lines[items[a].line].staff = Owner[a]
    /\ \A a \in Items : items[a].status = "NONE" => items[a].line = None

------------------------------------------------------------------------------
(***************************************************************************)
(* What a call in flight has read.                                         *)
(***************************************************************************)
HasLine(t) == t.l \in DOMAIN line /\ t.b \in DOMAIN batch /\ line[t.l].batch \in {t.b, None}
HasItem(t) == t.item \in Items /\ item[t.item].status # "NONE"

Recomputes(t) ==
    /\ t.op = "none" /\ HasLine(t)
    /\ ~t.late /\ Kept(t.l) /\ t.b \notin doubtful => Open(t.b)

Generates(t) ==
    /\ t.pc = "read" /\ t.slot \in Slots
    /\ t.b = None => \A b \in DOMAIN batch : Live(b) => batch[b].slot # t.slot
    /\ t.b # None =>
           /\ t.b \in DOMAIN batch
           /\ Live(t.b) => batch[t.b].slot = t.slot
           /\ ~t.late => Open(t.b)

Recalculates(t) == t.pc = "read" /\ t.slot \in Slots /\ t.b \in DOMAIN batch /\ (~t.late => Open(t.b))

Submits(t) ==
    t.pc = "read" /\ t.b \in DOMAIN batch /\ (~t.late => Live(t.b) /\ batch[t.b].status = "DRAFT")

Edits(t) ==
    /\ t.pc = "read" /\ HasLine(t)
    /\ ~t.late =>
           /\ Kept(t.l) /\ Open(t.b)
           /\ t.b \notin doubtful => t.rest = line[t.l].amount - line[t.l].base

Absorbs(t) ==
    /\ t.pc = "read" /\ HasLine(t) /\ HasItem(t)
    /\ Kept(t.l) => line[t.l].staff = Owner[t.item]
    /\ ~t.late => Open(t.b) /\ item[t.item].status = "APPROVED" /\ item[t.item].line = None

Corrects(t) ==
    /\ t.pc = "read" /\ HasItem(t)
    /\ t.l # None => HasLine(t)
    /\ ~t.late => item[t.item].line = t.l /\ (t.l # None => Open(t.b))

Call(t) ==
    /\ t.pc = "idle" => t = Idle
    /\ t.pc = "absorb" => t.op = "none" /\ HasItem(t)
    /\ t.pc = "recompute" => Recomputes(t)
    /\ t.pc = "read" => t.op # "none"
    /\ t.op = "generate" => Generates(t)
    /\ t.op = "recalculate" => Recalculates(t)
    /\ t.op = "submit" => Submits(t)
    /\ t.op = "edit" => Edits(t)
    /\ t.op = "absorb" => Absorbs(t)
    /\ t.op = "correct" => Corrects(t)

SlotsLocked ==
    \A s, z \in Sessions :
        txn[s].op = "generate" /\ txn[z].op = "generate" /\ txn[s].slot = txn[z].slot => s = z

------------------------------------------------------------------------------
(***************************************************************************)
(* The books of a batch.                                                   *)
(***************************************************************************)

\* Lines that await the recomputation after a correction.
Awaiting(t) == IF t.pc = "recompute" THEN {t.l} ELSE {}
Awaited == UNION {Awaiting(txn[s]) : s \in Sessions}

LinkedTo(items, l) == {a \in Items : items[a].line = l}
LineAddsUp(lines, items, l) == lines[l].amount = lines[l].base + Worth(items, LinkedTo(items, l))

AddsUp(batches, lines, items, b, awaited) ==
    /\ batches[b].total = Amounts(lines, LinesIn(lines, b))
    /\ \A l \in LinesIn(lines, b) :
           /\ l \in awaited \/ LineAddsUp(lines, items, l)
           /\ \A a \in LinkedTo(items, l) : items[a].status = "APPROVED"
           /\ lines[l].paid = (batches[b].status = "PAID")
           /\ \A k \in LinesIn(lines, b) : lines[k].staff = lines[l].staff => k = l

Books == \A b \in DOMAIN batch \ doubtful : Live(b) => AddsUp(batch, line, item, b, Awaited)

IInv ==
    /\ Typed
    /\ Refers(batch, line, item)
    /\ \A s \in Sessions : Call(txn[s])
    /\ SlotsLocked /\ OneBatchPerSlot
    /\ Books
------------------------------------------------------------------------------
(***************************************************************************)
(* Numbering.  Rows are only appended or replaced.                         *)
(***************************************************************************)
LEMMA Rows ==
    ASSUME NEW T, NEW q \in Seq(T)
    PROVE  /\ Len(q) \in Nat /\ DOMAIN q = 1..Len(q)
           /\ q \in [1..Len(q) -> T]
           /\ \A i \in DOMAIN q : i \in Nat \ {0} /\ q[i] \in T
  OBVIOUS

LEMMA Replaced ==
    ASSUME NEW T, NEW q \in Seq(T), NEW f, f = [i \in DOMAIN q |-> f[i]],
           \A i \in DOMAIN q : f[i] \in T
    PROVE  f \in Seq(T) /\ DOMAIN f = DOMAIN q /\ Len(f) = Len(q)
  <1>1. Len(q) \in Nat /\ DOMAIN q = 1..Len(q)
    BY Rows
  <1>2. f \in [1..Len(q) -> T]
    BY <1>1
  <1> QED
    BY <1>1, <1>2

LEMMA Constants0 ==
    /\ None = 0 /\ Deleted \notin [slot : Slots, status : Statuses, total : Nat]
    /\ Deleted.status = "DELETED" /\ Gone.batch = None /\ Gone.base = 0 /\ Gone.amount = 0
    /\ Idle.pc = "idle" /\ Idle.op = "none" /\ ~Idle.late
  BY DEF None, Deleted, Gone, Idle, Statuses

LEMMA BatchRow ==
    ASSUME NEW r \in BatchType
    PROVE  /\ r.total \in Nat
           /\ r = [slot |-> r.slot, status |-> r.status, total |-> r.total]
           /\ r # Deleted <=> r.slot \in Slots /\ r.status \in Statuses
           /\ r # Deleted => r.slot \in Slots /\ r.status \in Statuses
           /\ r.status \in Statuses => r # Deleted
           /\ r = Deleted <=> r.status \notin Statuses
  BY DEF BatchType, Deleted, Statuses

LEMMA LineRow ==
    ASSUME NEW r \in LineType
    PROVE  /\ r.batch \in Nat /\ r.base \in Nat /\ r.amount \in Nat /\ r.base <= r.amount
           /\ r.paid \in BOOLEAN
           /\ r # Gone <=> r.batch # None
           /\ r.batch # None => r.staff \in Staff
           /\ r = [batch |-> r.batch, staff |-> r.staff, base |-> r.base, amount |-> r.amount,
                   paid |-> r.paid]
  <1>1. CASE r = Gone
    BY <1>1 DEF Gone, None
  <1>2. CASE r \in [batch : Nat \ {0}, staff : Staff, base : Nat, amount : Nat, paid : BOOLEAN]
             /\ r.base <= r.amount
    BY <1>2 DEF Gone, None
  <1> QED
    BY <1>1, <1>2 DEF LineType
------------------------------------------------------------------------------
(***************************************************************************)
(* A step of session s replaces the data, changing batches B and           *)
(* adjustments A; D are the batches in doubt afterwards, and t is what the *)
(* session goes on as.                                                     *)
(***************************************************************************)

\* What is stored, up to the amounts of the batches in doubt.
Shown(batches, lines, D) ==
    /\ batch' \in Seq(BatchType) /\ DOMAIN batch' = DOMAIN batches
    /\ \A b \in DOMAIN batches :
           /\ batch'[b].slot = batches[b].slot /\ batch'[b].status = batches[b].status
           /\ b \notin D => batch'[b] = batches[b]
    /\ line' \in Seq(LineType) /\ DOMAIN line' = DOMAIN lines
    /\ \A l \in DOMAIN lines :
           /\ line'[l].batch = lines[l].batch /\ line'[l].staff = lines[l].staff
           /\ lines[l].batch \notin D => line'[l] = lines[l]

LEMMA FollowedIsShown ==
    ASSUME NEW batches \in Seq(BatchType), NEW lines \in Seq(LineType), NEW D,
           D \subseteq DOMAIN batches, doubtful' = D, Followed(batches, lines)
    PROVE  Shown(batches, lines, D)
  <1> DEFINE f(b) == IF b \in D THEN [batches[b] EXCEPT !.total = 0] ELSE batches[b]
             g(l) == IF lines[l].batch \in D
                     THEN [lines[l] EXCEPT !.base = 0, !.amount = 0, !.paid = FALSE] ELSE lines[l]
  <1>1. /\ batch' = [b \in DOMAIN batches |-> f(b)]
        /\ line' = [l \in DOMAIN lines |-> g(l)]
    BY Zenon DEF Followed
  <1>2. ASSUME NEW b \in DOMAIN batches
        PROVE  /\ f(b) \in BatchType /\ f(b).slot = batches[b].slot
               /\ f(b).status = batches[b].status
               /\ b \notin D => f(b) = batches[b]
    <2>1. batches[b] \in BatchType
      BY Rows
    <2>2. CASE batches[b] = Deleted
      <3>1. [Deleted EXCEPT !.total = 0] = Deleted
        BY DEF Deleted
      <3> QED
        BY <2>1, <2>2, <3>1
    <2>3. CASE batches[b] \in [slot : Slots, status : Statuses, total : Nat]
      BY <2>3 DEF BatchType
    <2> QED
      BY <2>1, <2>2, <2>3 DEF BatchType
  <1>3. ASSUME NEW l \in DOMAIN lines
        PROVE  /\ g(l) \in LineType /\ g(l).batch = lines[l].batch
               /\ g(l).staff = lines[l].staff
               /\ lines[l].batch \notin D => g(l) = lines[l]
    <2>1. lines[l] \in LineType
      BY Rows
    <2>2. CASE lines[l].batch \notin D
      BY <2>1, <2>2
    <2>3. CASE lines[l].batch \in D
      <3>1. 0 \notin D
        BY Rows
      <3> DEFINE R == [batch : Nat \ {0}, staff : Staff, base : Nat, amount : Nat, paid : BOOLEAN]
      <3>2. lines[l] \in R
        BY <2>1, <2>3, <3>1, LineRow DEF LineType, None
      <3>3. PICK r \in R : r = lines[l]
        BY <3>2
      <3>4. PICK q : q = [r EXCEPT !.base = 0, !.amount = 0, !.paid = FALSE]
        OBVIOUS
      <3>5. q \in R /\ q.base = 0 /\ q.amount = 0 /\ q.batch = r.batch /\ q.staff = r.staff
        BY <3>4
      <3>6. q \in LineType
        BY <3>5 DEF LineType
      <3>7. g(l) = q
        BY <2>3, <3>3, <3>4
      <3> QED
        BY <2>3, <3>3, <3>5, <3>6, <3>7
    <2> QED
      BY <2>2, <2>3
  <1> HIDE DEF f, g
  <1>4. /\ batch' = [b \in DOMAIN batches |-> batch'[b]]
        /\ \A b \in DOMAIN batches : batch'[b] = f(b)
        /\ line' = [l \in DOMAIN lines |-> line'[l]]
        /\ \A l \in DOMAIN lines : line'[l] = g(l)
    BY <1>1
  <1>5. /\ batch' \in Seq(BatchType) /\ DOMAIN batch' = DOMAIN batches
        /\ line' \in Seq(LineType) /\ DOMAIN line' = DOMAIN lines
    BY <1>2, <1>3, <1>4, Replaced
  <1> QED
    BY <1>2, <1>3, <1>4, <1>5 DEF Shown

LEMMA UnchangedIsShown ==
    ASSUME DataTyped(batch, line, item), UNCHANGED <<batch, line>>, NEW D
    PROVE  Shown(batch, line, D)
  BY DEF DataTyped, Shown

Written(B, A, batches, lines, items) ==
    /\ DataTyped(batches, lines, items) /\ Refers(batches, lines, items)
    /\ DOMAIN batch \subseteq DOMAIN batches /\ DOMAIN line \subseteq DOMAIN lines
    /\ DOMAIN batches \ DOMAIN batch \subseteq B
    /\ \A b \in DOMAIN batch :
           /\ b \notin B => batches[b] = batch[b]
           /\ batches[b] # Deleted => batch[b] # Deleted /\ batches[b].slot = batch[b].slot
    /\ \A l \in DOMAIN line :
           /\ line[l].batch \notin B => lines[l] = line[l]
           /\ lines[l].batch # None => lines[l].batch = line[l].batch /\ lines[l].staff = line[l].staff
    /\ \A l \in DOMAIN lines \ DOMAIN line : lines[l].batch \in B \cup {None}
    /\ \A a \in Items :
           /\ a \notin A => items[a] = item[a]
           /\ item[a].status # "NONE" => items[a].status # "NONE"
    /\ \A a \in Items : \A l \in DOMAIN line : line[l].batch \notin B \cup {None} =>
           /\ items[a].line = l <=> item[a].line = l
           /\ item[a].line = l /\ item[a].status = "APPROVED" => items[a] = item[a]

\* What holds of the batches that a step changes without leaving them in doubt.
Keeps(s, B, batches, lines, items, D, t) ==
    /\ B \subseteq DOMAIN batches /\ D \subseteq DOMAIN batches
    /\ \A b \in doubtful : b \in B \/ b \in D
    /\ \A b \in B \cap DOMAIN batch : b \in D \/ Open(b)
    /\ \A b \in B : b \in D \/ batches[b] = Deleted
                    \/ \E W : W \subseteq Awaited' /\ AddsUp(batches, lines, items, b, W)
    /\ \A l \in Awaiting(txn[s]) : l \in Awaiting(t)
           \/ (l \in DOMAIN line /\ line[l].batch \in B \cup D \cup {None})

\* A batch that is created fills the slot that the session has locked.
Fills(s, batches) ==
    \A b \in DOMAIN batches \ DOMAIN batch :
        /\ txn[s].op = "generate" /\ txn[s].b = None /\ batches[b].slot = txn[s].slot
        /\ \A c \in DOMAIN batches \ DOMAIN batch : c = b

Marked(s, B, A, t) ==
    /\ txn' \in [Sessions -> CallType] /\ txn'[s] = t
    /\ \A z \in Sessions \ {s} :
           \/ txn'[z] = txn[z] /\ (txn[z].pc = "idle" \/ ~Concerned(txn[z], B, A))
           \/ txn[z].pc # "idle" /\ txn'[z] = [txn[z] EXCEPT !.late = TRUE]

Steps(s, B, A, batches, lines, items, D, t) ==
    /\ Written(B, A, batches, lines, items) /\ Keeps(s, B, batches, lines, items, D, t)
    /\ Shown(batches, lines, D) /\ item' = items /\ doubtful' = D
    /\ Fills(s, batches) /\ Marked(s, B, A, t)
    /\ Call(t)' /\ (t.op = "generate" => SlotFree(t.slot))

LEMMA StepTyped ==
    ASSUME NEW s \in Sessions, NEW B, NEW A, NEW batches, NEW lines, NEW items, NEW D, NEW t,
           IInv, Steps(s, B, A, batches, lines, items, D, t)
    PROVE  Typed' /\ Refers(batch, line, item)'
  <1>1. \A b \in DOMAIN batches : batches[b] # Deleted => batch'[b] # Deleted
    <2> SUFFICES ASSUME NEW b \in DOMAIN batches, batches[b] # Deleted PROVE batch'[b] # Deleted
      OBVIOUS
    <2>1. batches[b] \in BatchType /\ batch'[b] \in BatchType /\ batch'[b].status = batches[b].status
      BY Rows DEF Steps, Shown, Written, DataTyped
    <2> QED
      BY <2>1, BatchRow
  <1>2. Typed'
    BY DEF Typed, DataTyped, Steps, Shown, Written, Keeps, Marked
  <1>3. Refers(batches, lines, items)
    BY DEF Steps, Written
  <1>4. /\ DOMAIN batch' = DOMAIN batches /\ DOMAIN line' = DOMAIN lines /\ item' = items
        /\ \A l \in DOMAIN lines : line'[l].batch = lines[l].batch /\ line'[l].staff = lines[l].staff
    BY DEF Steps, Shown
  <1>5. Refers(batch, line, item)'
    BY <1>1, <1>3, <1>4 DEF Refers
  <1> QED
    BY <1>2, <1>5
\* What stays of a batch, a line and an adjustment.
LEMMA Persists ==
    ASSUME NEW s \in Sessions, NEW B, NEW A, NEW batches, NEW lines, NEW items, NEW D, NEW t,
           IInv, Steps(s, B, A, batches, lines, items, D, t)
    PROVE  /\ DOMAIN batch \subseteq DOMAIN batch' /\ DOMAIN line \subseteq DOMAIN line'
           /\ \A b \in DOMAIN batch :
                  /\ Live(b)' => Live(b) /\ batch'[b].slot = batch[b].slot
                  /\ b \notin B =>
                         /\ batch'[b].status = batch[b].status
                         /\ Live(b) => Live(b)'
                         /\ Open(b) => Open(b)'
                         /\ b \notin doubtful' => b \notin doubtful
           /\ \A l \in DOMAIN line :
                  /\ line'[l].batch \in {line[l].batch, None}
                  /\ Kept(l)' => Kept(l) /\ line'[l].batch = line[l].batch /\ line'[l].staff = line[l].staff
                  /\ line[l].batch \notin B =>
                         /\ Kept(l) => Kept(l)'
                         /\ line[l].batch \notin doubtful' => line'[l] = line[l]
           /\ \A a \in Items :
                  /\ item[a].status # "NONE" => item'[a].status # "NONE"
                  /\ a \notin A => item'[a] = item[a]
  <1> USE DEF Steps, Shown, Written, DataTyped
  <1>1. /\ DOMAIN batch \subseteq DOMAIN batch' /\ DOMAIN line \subseteq DOMAIN line'
        /\ DOMAIN batch \subseteq DOMAIN batches /\ DOMAIN line \subseteq DOMAIN lines
        /\ DOMAIN batches = DOMAIN batch' /\ DOMAIN lines = DOMAIN line'
    OBVIOUS
  <1>2. ASSUME NEW b \in DOMAIN batch
        PROVE  /\ batch[b] \in BatchType /\ batch'[b] \in BatchType /\ batches[b] \in BatchType
               /\ batch'[b].status = batches[b].status /\ batch'[b].slot = batches[b].slot
               /\ b \notin B => batches[b] = batch[b]
               /\ batches[b] # Deleted => batch[b] # Deleted /\ batches[b].slot = batch[b].slot
               /\ b \notin B /\ b \notin doubtful' => b \notin doubtful
    <2>1. b \in DOMAIN batches /\ b \in DOMAIN batch'
      BY <1>1
    <2>2. batch \in Seq(BatchType) /\ batches \in Seq(BatchType) /\ batch' \in Seq(BatchType)
      BY DEF IInv, Typed
    <2>3. batch[b] \in BatchType /\ batch'[b] \in BatchType /\ batches[b] \in BatchType
      BY <2>1, <2>2, Rows
    <2> QED
      BY <2>1, <2>3 DEF Keeps
  <1>3. ASSUME NEW l \in DOMAIN line
        PROVE  /\ line[l] \in LineType /\ line'[l] \in LineType /\ lines[l] \in LineType
               /\ line'[l].batch = lines[l].batch /\ line'[l].staff = lines[l].staff
               /\ lines[l].batch # None => lines[l].batch = line[l].batch /\ lines[l].staff = line[l].staff
               /\ line[l].batch \notin B => lines[l] = line[l]
               /\ lines[l].batch \notin doubtful' => line'[l] = lines[l]
    <2>1. l \in DOMAIN lines /\ l \in DOMAIN line'
      BY <1>1
    <2>2. line \in Seq(LineType) /\ lines \in Seq(LineType) /\ line' \in Seq(LineType)
      BY DEF IInv, Typed
    <2>3. line[l] \in LineType /\ line'[l] \in LineType /\ lines[l] \in LineType
      BY <2>1, <2>2, Rows
    <2> QED
      BY <2>1, <2>3
  <1>4. \A b \in DOMAIN batch :
            /\ Live(b)' => Live(b) /\ batch'[b].slot = batch[b].slot
            /\ b \notin B =>
                   /\ batch'[b].status = batch[b].status
                   /\ Live(b) => Live(b)'
                   /\ Open(b) => Open(b)'
                   /\ b \notin doubtful' => b \notin doubtful
    BY <1>1, <1>2, BatchRow DEF Live, Open
  <1>5. \A l \in DOMAIN line :
            /\ line'[l].batch \in {line[l].batch, None}
            /\ Kept(l)' => Kept(l) /\ line'[l].batch = line[l].batch /\ line'[l].staff = line[l].staff
            /\ line[l].batch \notin B =>
                   /\ Kept(l) => Kept(l)'
                   /\ line[l].batch \notin doubtful' => line'[l] = line[l]
    BY <1>1, <1>3 DEF Kept
  <1>6. \A a \in Items :
            /\ item[a].status # "NONE" => item'[a].status # "NONE"
            /\ a \notin A => item'[a] = item[a]
    OBVIOUS
  <1> HIDE DEF Steps, Shown, Written, DataTyped
  <1> QED
    BY <1>1, <1>4, <1>5, <1>6
\* The same call, perhaps late.
SameCall(u, c) ==
    /\ u.pc = c.pc /\ u.op = c.op /\ u.slot = c.slot /\ u.b = c.b /\ u.l = c.l
    /\ u.item = c.item /\ u.rest = c.rest

LEMMA OtherCall ==
    ASSUME NEW s \in Sessions, NEW B, NEW A, NEW batches, NEW lines, NEW items, NEW D, NEW t,
           IInv, Steps(s, B, A, batches, lines, items, D, t),
           NEW z \in Sessions, z # s, NEW c, c = txn[z], c.pc # "idle",
           NEW u, SameCall(u, c), u.late \/ (~c.late /\ ~Concerned(c, B, A))
    PROVE  Call(u)'
  <1>1. Call(c)
    BY DEF IInv
  <1>2. /\ DOMAIN batch \subseteq DOMAIN batch' /\ DOMAIN line \subseteq DOMAIN line'
        /\ \A b \in DOMAIN batch :
               /\ Live(b)' => Live(b) /\ batch'[b].slot = batch[b].slot
               /\ b \notin B =>
                      /\ batch'[b].status = batch[b].status
                      /\ Live(b) => Live(b)'
                      /\ Open(b) => Open(b)'
                      /\ b \notin doubtful' => b \notin doubtful
        /\ \A l \in DOMAIN line :
               /\ line'[l].batch \in {line[l].batch, None}
               /\ Kept(l)' => Kept(l) /\ line'[l].batch = line[l].batch /\ line'[l].staff = line[l].staff
               /\ line[l].batch \notin B =>
                      /\ Kept(l) => Kept(l)'
                      /\ line[l].batch \notin doubtful' => line'[l] = line[l]
        /\ \A a \in Items :
               /\ item[a].status # "NONE" => item'[a].status # "NONE"
               /\ a \notin A => item'[a] = item[a]
    BY Persists
  <1>3. ~u.late => ~c.late /\ c.b \notin B /\ c.item \notin A
    BY DEF Concerned
  <1>4. u.pc = c.pc /\ u.op = c.op /\ u.slot = c.slot /\ u.b = c.b /\ u.l = c.l
        /\ u.item = c.item /\ u.rest = c.rest
    BY DEF SameCall
  <1>5. HasLine(c) => HasLine(u)' /\ (~u.late /\ Kept(c.l) => Kept(u.l)')
                      /\ (~u.late /\ Kept(c.l) /\ c.b \notin doubtful' => line'[c.l] = line[c.l])
                      /\ (Kept(u.l)' => Kept(c.l) /\ line'[c.l].staff = line[c.l].staff)
    BY <1>2, <1>3, <1>4 DEF HasLine, Kept
  <1>6. HasItem(c) => HasItem(u)' /\ (~u.late => item'[c.item] = item[c.item])
    BY <1>2, <1>3, <1>4 DEF HasItem
  <1>7. ~u.late => (c.b \in DOMAIN batch /\ Open(c.b) => Open(u.b)')
                   /\ (c.b \in DOMAIN batch /\ c.b \notin doubtful' => c.b \notin doubtful)
    BY <1>2, <1>3, <1>4
  <1>8. c.pc = "recompute" => Recomputes(u)'
    BY <1>1, <1>3, <1>4, <1>5, <1>7 DEF Call, Recomputes, HasLine
  <1>9. c.op = "generate" => Generates(u)'
    <2> SUFFICES ASSUME c.op = "generate" PROVE Generates(u)'
      OBVIOUS
    <2>1. Generates(c)
      BY <1>1 DEF Call
    <2>2. u.b = None => \A b \in DOMAIN batch' : Live(b)' => batch'[b].slot # u.slot
      <3> SUFFICES ASSUME u.b = None, NEW b \in DOMAIN batch', Live(b)' PROVE batch'[b].slot # u.slot
        OBVIOUS
      <3>1. CASE b \in DOMAIN batch
        BY <1>2, <1>4, <2>1, <3>1 DEF Generates
      <3>2. CASE b \notin DOMAIN batch
        <4>1. txn[s].op = "generate" /\ batch'[b].slot = txn[s].slot
          BY <3>2 DEF Steps, Shown, Fills
        <4> QED
          BY <1>4, <4>1 DEF IInv, SlotsLocked
      <3> QED
        BY <3>1, <3>2
    <2>3. c.b # None => /\ u.b \in DOMAIN batch'
                        /\ Live(u.b)' => batch'[u.b].slot = u.slot
                        /\ ~u.late => Open(u.b)'
      BY <1>2, <1>3, <1>4, <1>7, <2>1 DEF Generates
    <2> QED
      BY <1>4, <2>1, <2>2, <2>3 DEF Generates
  <1>10. c.op = "recalculate" => Recalculates(u)'
    BY <1>1, <1>2, <1>3, <1>4, <1>7 DEF Call, Recalculates
  <1>11. c.op = "submit" => Submits(u)'
    BY <1>1, <1>2, <1>3, <1>4 DEF Call, Submits
  <1>12. c.op = "edit" => Edits(u)'
    BY <1>1, <1>3, <1>4, <1>5, <1>7 DEF Call, Edits, HasLine
  <1>13. c.op = "absorb" => Absorbs(u)'
    BY <1>1, <1>3, <1>4, <1>5, <1>6, <1>7 DEF Call, Absorbs, HasLine
  <1>14. c.op = "correct" => Corrects(u)'
    BY <1>1, <1>3, <1>4, <1>5, <1>6, <1>7 DEF Call, Corrects, HasLine
  <1> QED
    BY <1>1, <1>4, <1>6, <1>8, <1>9, <1>10, <1>11, <1>12, <1>13, <1>14 DEF Call

LEMMA IdleCall == Call(Idle) /\ Call(Idle)' /\ Idle \in CallType
  BY DEF Call, Idle, CallType, None

LEMMA StepCalls ==
    ASSUME NEW s \in Sessions, NEW B, NEW A, NEW batches, NEW lines, NEW items, NEW D, NEW t,
           IInv, Steps(s, B, A, batches, lines, items, D, t)
    PROVE  (\A z \in Sessions : Call(txn[z]))' /\ SlotsLocked' /\ OneBatchPerSlot'
  <1>1. Marked(s, B, A, t) /\ Call(t)' /\ (t.op = "generate" => SlotFree(t.slot))
    BY DEF Steps
  <1>2. txn \in [Sessions -> CallType] /\ (\A z \in Sessions : Call(txn[z]))
    BY DEF IInv, Typed
  <1>3. ASSUME NEW z \in Sessions \ {s}
        PROVE  /\ \E u : u = txn'[z] /\ Call(u)'
               /\ txn'[z].op = txn[z].op /\ txn'[z].slot = txn[z].slot
    <2>1. PICK c : c = txn[z]
      OBVIOUS
    <2>2. PICK u : u = txn'[z]
      OBVIOUS
    <2>3. c \in CallType /\ Call(c)
      BY <1>2, <2>1
    <2>4. \/ u = c /\ (c.pc = "idle" \/ ~Concerned(c, B, A))
          \/ c.pc # "idle" /\ u = [c EXCEPT !.late = TRUE]
      BY <1>1, <2>1, <2>2 DEF Marked
    <2>5. CASE c.pc = "idle"
      <3>1. c = Idle /\ u = Idle
        BY <2>3, <2>4, <2>5 DEF Call
      <3> QED
        BY <2>1, <2>2, <3>1, IdleCall
    <2>6. CASE c.pc # "idle" /\ u = c /\ ~Concerned(c, B, A)
      <3>1. SameCall(u, c) /\ (u.late \/ (~c.late /\ ~Concerned(c, B, A)))
        BY <2>6 DEF SameCall
      <3>2. Call(u)'
        BY <2>1, <2>6, <3>1, OtherCall
      <3> QED
        BY <2>1, <2>2, <2>6, <3>2
    <2>7. CASE c.pc # "idle" /\ u = [c EXCEPT !.late = TRUE]
      <3>1. SameCall(u, c) /\ u.late
        BY <2>3, <2>7 DEF SameCall, CallType
      <3>2. Call(u)'
        BY <2>1, <2>7, <3>1, OtherCall
      <3> QED
        BY <2>1, <2>2, <3>1, <3>2 DEF SameCall
    <2> QED
      BY <2>4, <2>5, <2>6, <2>7
  <1>4. txn'[s] = t
    BY <1>1 DEF Marked
  <1>5. (\A z \in Sessions : Call(txn[z]))'
    <2>1. ASSUME NEW z \in Sessions PROVE \E u : u = txn'[z] /\ Call(u)'
      BY <1>1, <1>3, <1>4
    <2> QED
      BY <2>1 DEF Call, Recomputes, Generates, Recalculates, Submits, Edits, Absorbs, Corrects,
                  HasLine, HasItem, Live, Open, Kept
  <1>6. SlotsLocked'
    BY <1>1, <1>3, <1>4 DEF SlotsLocked, SlotFree, IInv
  <1>7. OneBatchPerSlot'
    <2> SUFFICES ASSUME NEW b \in DOMAIN batch', NEW c \in DOMAIN batch',
                        Live(b)', Live(c)', batch'[b].slot = batch'[c].slot
                 PROVE  b = c
      BY DEF OneBatchPerSlot
    <2>1. ASSUME NEW d \in DOMAIN batch', Live(d)'
          PROVE  \/ d \in DOMAIN batch /\ Live(d) /\ batch'[d].slot = batch[d].slot
                 \/ /\ d \notin DOMAIN batch /\ txn[s].op = "generate" /\ txn[s].b = None
                    /\ batch'[d].slot = txn[s].slot
                    /\ \A e \in DOMAIN batch' \ DOMAIN batch : e = d
      BY <2>1, Persists DEF Steps, Shown, Fills
    <2>2. txn[s].op = "generate" /\ txn[s].b = None =>
             \A d \in DOMAIN batch : Live(d) => batch[d].slot # txn[s].slot
      BY <1>2 DEF Call, Generates
    <2> QED
      BY <2>1, <2>2 DEF IInv, OneBatchPerSlot
  <1> QED
    BY <1>5, <1>6, <1>7
------------------------------------------------------------------------------
(***************************************************************************)
(* Books.                                                                  *)
(***************************************************************************)
LEMMA AmountsSame ==
    ASSUME NEW lines \in Seq(LineType), NEW others, NEW L, L \subseteq DOMAIN lines,
           L \subseteq DOMAIN others, \A l \in L : others[l].amount = lines[l].amount
    PROVE  Amounts(others, L) = Amounts(lines, L) /\ Amounts(lines, L) \in Nat /\ IsFiniteSet(L)
  <1> DEFINE f == [l \in DOMAIN lines |-> lines[l].amount]
             g == [l \in DOMAIN others |-> others[l].amount]
  <1>1. IsFiniteSet(L)
    <2>1. IsFiniteSet(1..Len(lines))
      BY Rows, FS_Interval
    <2> QED
      BY <2>1, Rows, FS_Subset
  <1>2. \A l \in L : f[l] \in Nat /\ g[l] = f[l]
    <2> SUFFICES ASSUME NEW l \in L PROVE f[l] \in Nat /\ g[l] = f[l]
      OBVIOUS
    <2>1. lines[l] \in LineType
      BY Rows
    <2>2. lines[l].amount \in Nat
      BY <2>1, LineRow
    <2> QED
      BY <2>2
  <1> HIDE DEF f, g
  <1>3. SumFunctionOnSet(g, L) = SumFunctionOnSet(f, L)
    BY <1>1, <1>2, SumSame
  <1>4. SumFunctionOnSet(f, L) \in Nat
    BY <1>1, <1>2, SumSigns
  <1> QED
    BY <1>1, <1>3, <1>4 DEF f, g, Amounts

LEMMA WorthSame ==
    ASSUME NEW items \in [Items -> ItemType], NEW others \in [Items -> ItemType],
           NEW S, S \subseteq Items, \A a \in S : others[a].amount = items[a].amount
    PROVE  Worth(others, S) = Worth(items, S) /\ Worth(items, S) \in Nat
  <1> DEFINE f == [a \in Items |-> items[a].amount]
             g == [a \in Items |-> others[a].amount]
  <1>1. IsFiniteSet(S)
    BY FinitenessAssumption, FS_Subset
  <1>2. \A a \in S : f[a] \in Nat /\ g[a] = f[a]
    BY DEF ItemType
  <1> HIDE DEF f, g
  <1>3. SumFunctionOnSet(g, S) = SumFunctionOnSet(f, S)
    BY <1>1, <1>2, SumSame
  <1>4. SumFunctionOnSet(f, S) \in Nat
    BY <1>1, <1>2, SumSigns
  <1> QED
    BY <1>3, <1>4 DEF f, g, Worth

\* Nothing that the books of b are about has changed.
SameBooks(batches, lines, items, W, batches2, lines2, items2, W2, b) ==
    /\ lines \in Seq(LineType)
    /\ items \in [Items -> ItemType] /\ items2 \in [Items -> ItemType]
    /\ batches2[b] = batches[b]
    /\ LinesIn(lines2, b) = LinesIn(lines, b)
    /\ \A l \in LinesIn(lines, b) :
           /\ lines2[l] = lines[l]
           /\ l \in W => l \in W2
           /\ LinkedTo(items2, l) = LinkedTo(items, l)
           /\ \A a \in LinkedTo(items, l) : items2[a] = items[a]

LEMMA AddsUpSame ==
    ASSUME NEW batches, NEW lines, NEW items, NEW W,
           NEW batches2, NEW lines2, NEW items2, NEW W2, NEW b,
           SameBooks(batches, lines, items, W, batches2, lines2, items2, W2, b),
           AddsUp(batches, lines, items, b, W)
    PROVE  AddsUp(batches2, lines2, items2, b, W2)
  <1> DEFINE L == LinesIn(lines, b)
  <1>1. /\ lines \in Seq(LineType)
        /\ items \in [Items -> ItemType] /\ items2 \in [Items -> ItemType]
        /\ batches2[b] = batches[b]
        /\ LinesIn(lines2, b) = L
        /\ \A l \in L :
               /\ lines2[l] = lines[l]
               /\ l \in W => l \in W2
               /\ LinkedTo(items2, l) = LinkedTo(items, l)
               /\ \A a \in LinkedTo(items, l) : items2[a] = items[a]
    BY DEF SameBooks
  <1>2. L \subseteq DOMAIN lines /\ L \subseteq DOMAIN lines2
    BY <1>1 DEF LinesIn
  <1>3. Amounts(lines2, L) = Amounts(lines, L)
    BY <1>1, <1>2, AmountsSame
  <1>4. ASSUME NEW l \in L, LineAddsUp(lines, items, l) PROVE LineAddsUp(lines2, items2, l)
    <2>1. LinkedTo(items, l) \subseteq Items
      BY DEF LinkedTo
    <2>2. Worth(items2, LinkedTo(items, l)) = Worth(items, LinkedTo(items, l))
      BY <1>1, <2>1, WorthSame
    <2> QED
      BY <1>1, <1>4, <2>2 DEF LineAddsUp
  <1> HIDE DEF L
  <1>5. /\ batches[b].total = Amounts(lines, L)
        /\ \A l \in L :
               /\ l \in W \/ LineAddsUp(lines, items, l)
               /\ \A a \in LinkedTo(items, l) : items[a].status = "APPROVED"
               /\ lines[l].paid = (batches[b].status = "PAID")
               /\ \A k \in L : lines[k].staff = lines[l].staff => k = l
    BY DEF AddsUp, L
  <1>6. \A l \in L :
            /\ l \in W2 \/ LineAddsUp(lines2, items2, l)
            /\ \A a \in LinkedTo(items2, l) : items2[a].status = "APPROVED"
            /\ lines2[l].paid = (batches2[b].status = "PAID")
            /\ \A k \in L : lines2[k].staff = lines2[l].staff => k = l
    BY <1>1, <1>4, <1>5
  <1> QED
    BY <1>1, <1>3, <1>5, <1>6 DEF AddsUp

\* More lines await, the books add up all the same.
LEMMA AddsUpWider ==
    ASSUME NEW batches, NEW lines, NEW items, NEW b, NEW W, NEW W2, W \subseteq W2,
           AddsUp(batches, lines, items, b, W)
    PROVE  AddsUp(batches, lines, items, b, W2)
  BY DEF AddsUp
LEMMA StepBooks ==
    ASSUME NEW s \in Sessions, NEW B, NEW A, NEW batches, NEW lines, NEW items, NEW D, NEW t,
           IInv, Steps(s, B, A, batches, lines, items, D, t)
    PROVE  Books'
  <1>1. /\ Written(B, A, batches, lines, items) /\ Keeps(s, B, batches, lines, items, D, t)
        /\ Shown(batches, lines, D) /\ item' = items /\ doubtful' = D /\ Marked(s, B, A, t)
    BY DEF Steps
  <1>2. PICK W, W2, bs, ls : W = Awaited /\ W2 = Awaited' /\ bs = batch' /\ ls = line'
    OBVIOUS
  <1>3. Typed
    BY DEF IInv
  <1>4. /\ batch \in Seq(BatchType) /\ line \in Seq(LineType) /\ item \in [Items -> ItemType]
        /\ batches \in Seq(BatchType) /\ lines \in Seq(LineType) /\ items \in [Items -> ItemType]
        /\ txn \in [Sessions -> CallType]
    BY <1>1, <1>3 DEF Typed, DataTyped, Written
  <1>5. /\ DOMAIN bs = DOMAIN batches
        /\ \A b \in DOMAIN batches : b \notin D => bs[b] = batches[b]
        /\ DOMAIN ls = DOMAIN lines
        /\ \A l \in DOMAIN lines :
               /\ ls[l].batch = lines[l].batch
               /\ lines[l].batch \notin D => ls[l] = lines[l]
    BY <1>1, <1>2 DEF Shown
  <1> SUFFICES ASSUME NEW b \in DOMAIN batches \ D, bs[b] # Deleted
               PROVE  AddsUp(bs, ls, items, b, W2)
    BY <1>1, <1>2, <1>5 DEF Books, Live
  <1>6. AddsUp(batches, lines, items, b, W2)
    <2>1. CASE b \in B
      <3>1. PICK V : V \subseteq W2 /\ AddsUp(batches, lines, items, b, V)
        BY <1>1, <1>2, <1>5, <2>1 DEF Keeps
      <3> QED
        BY <3>1, AddsUpWider
    <2>2. CASE b \notin B
      <3>1. b \in DOMAIN batch /\ b \notin doubtful /\ b # None /\ batches[b] = batch[b]
        BY <1>1, <1>4, <2>2, Rows DEF Keeps, Written, None
      <3>2. AddsUp(batch, line, item, b, W)
        BY <1>2, <1>5, <3>1 DEF IInv, Books, Live
      <3>3. LinesIn(lines, b) = LinesIn(line, b)
        BY <1>1, <2>2, <3>1 DEF Written, LinesIn
      <3>4. ASSUME NEW l \in LinesIn(line, b)
            PROVE  lines[l] = line[l] /\ (l \in W => l \in W2)
                   /\ LinkedTo(items, l) = LinkedTo(item, l)
                   /\ \A a \in LinkedTo(item, l) : items[a] = item[a]
        <4>1. l \in DOMAIN line /\ line[l].batch = b
          BY DEF LinesIn
        <4>2. lines[l] = line[l]
          BY <1>1, <2>2, <4>1 DEF Written
        <4>3. \A a \in Items : /\ items[a].line = l <=> item[a].line = l
                               /\ item[a].line = l /\ item[a].status = "APPROVED" => items[a] = item[a]
          BY <1>1, <2>2, <3>1, <4>1 DEF Written
        <4>4. \A a \in LinkedTo(item, l) : item[a].status = "APPROVED"
          BY <3>2 DEF AddsUp
        <4>5. l \in W => l \in W2
          <5> SUFFICES ASSUME l \in W PROVE l \in W2
            OBVIOUS
          <5>1. PICK z \in Sessions : l \in Awaiting(txn[z])
            BY <1>2 DEF Awaited
          <5>2. CASE z = s
            <6>1. l \in Awaiting(t)
              BY <1>1, <2>2, <3>1, <4>1, <4>2, <5>1, <5>2 DEF Keeps
            <6> QED
              BY <1>1, <1>2, <6>1 DEF Awaited, Marked
          <5>3. CASE z # s
            <6>1. \/ txn'[z] = txn[z]
                  \/ txn'[z] = [txn[z] EXCEPT !.late = TRUE]
              BY <1>1, <5>3 DEF Marked
            <6>2. txn'[z].pc = txn[z].pc /\ txn'[z].l = txn[z].l
              BY <1>4, <6>1 DEF CallType
            <6>3. l \in Awaiting(txn'[z])
              BY <5>1, <6>2 DEF Awaiting
            <6> QED
              BY <1>2, <6>3 DEF Awaited
          <5> QED
            BY <5>2, <5>3
        <4> QED
          BY <4>2, <4>3, <4>4, <4>5 DEF LinkedTo
      <3>5. SameBooks(batch, line, item, W, batches, lines, items, W2, b)
        BY <1>4, <3>1, <3>3, <3>4 DEF SameBooks
      <3> QED
        BY <3>2, <3>5, AddsUpSame
    <2> QED
      BY <2>1, <2>2
  <1>7. SameBooks(batches, lines, items, W2, bs, ls, items, W2, b)
    <2>1. LinesIn(ls, b) = LinesIn(lines, b)
      BY <1>5 DEF LinesIn
    <2>2. \A l \in LinesIn(lines, b) : ls[l] = lines[l]
      BY <1>5 DEF LinesIn
    <2> QED
      BY <1>4, <1>5, <2>1, <2>2 DEF SameBooks
  <1> QED
    BY <1>6, <1>7, AddsUpSame

LEMMA StepKeeps ==
    ASSUME NEW s \in Sessions, NEW B, NEW A, NEW batches, NEW lines, NEW items, NEW D, NEW t,
           IInv, Steps(s, B, A, batches, lines, items, D, t)
    PROVE  IInv'
  <1>1. Typed' /\ Refers(batch, line, item)'
    BY StepTyped
  <1>2. (\A z \in Sessions : Call(txn[z]))' /\ SlotsLocked' /\ OneBatchPerSlot'
    BY StepCalls
  <1>3. Books'
    BY StepBooks
  <1> QED
    BY <1>1, <1>2, <1>3 DEF IInv

\* The rows that PaidStays is about.
Stays(b) ==
    /\ batch'[b] = batch[b]
    /\ \A l \in Lines(b) : line'[l] = line[l]
    /\ \A a \in Items : BatchOf(item[a].line) = {b} => item'[a] = item[a]

LEMMA StepStays ==
    ASSUME NEW s \in Sessions, NEW B, NEW A, NEW batches, NEW lines, NEW items, NEW D, NEW t,
           IInv, Steps(s, B, A, batches, lines, items, D, t),
           NEW b \in DOMAIN batch, batch[b].status = "PAID", b \notin doubtful'
    PROVE  Stays(b)
  <1>1. /\ Written(B, A, batches, lines, items) /\ Keeps(s, B, batches, lines, items, D, t)
        /\ Shown(batches, lines, D) /\ item' = items /\ doubtful' = D
    BY DEF Steps
  <1>2. b \notin B
    BY <1>1 DEF Keeps, Open
  <1>3. batch \in Seq(BatchType) /\ line \in Seq(LineType)
    BY DEF IInv, Typed, DataTyped
  <1>4. batch[b] \in BatchType /\ b # None
    BY <1>3, Rows DEF None
  <1>5. Live(b) /\ b \notin doubtful
    BY <1>1, <1>2, <1>4, BatchRow DEF Live, Keeps, Statuses
  <1>6. \A l \in Lines(b) : \A a \in LinkedTo(item, l) : item[a].status = "APPROVED"
    BY <1>5 DEF IInv, Books, AddsUp, Lines
  <1>7. batch'[b] = batch[b]
    BY <1>1, <1>2 DEF Shown, Written
  <1>8. \A l \in Lines(b) : line'[l] = line[l]
    <2> SUFFICES ASSUME NEW l \in Lines(b) PROVE line'[l] = line[l]
      OBVIOUS
    <2>1. l \in DOMAIN line /\ line[l].batch = b
      BY DEF Lines, LinesIn
    <2>2. l \in DOMAIN lines /\ lines[l] = line[l]
      BY <1>1, <1>2, <2>1 DEF Written
    <2> QED
      BY <1>1, <2>1, <2>2 DEF Shown
  <1>9. ASSUME NEW a \in Items, BatchOf(item[a].line) = {b} PROVE item'[a] = item[a]
    <2>1. item[a].line \in Lines(b)
      BY <1>9 DEF BatchOf, Kept, Lines, LinesIn
    <2>2. item[a].line \in DOMAIN line /\ line[item[a].line].batch = b
      BY <2>1 DEF Lines, LinesIn
    <2>3. item[a].status = "APPROVED"
      BY <1>6, <2>1 DEF LinkedTo
    <2> QED
      BY <1>1, <1>2, <1>4, <2>2, <2>3 DEF Written
  <1> QED
    BY <1>7, <1>8, <1>9 DEF Stays
------------------------------------------------------------------------------
(***************************************************************************)
(* Each action is such a step.                                             *)
(***************************************************************************)
Moves(s) == \E B, A, batches, lines, items, D, t : Steps(s, B, A, batches, lines, items, D, t)

Elsewhere(s) == UNION {Awaiting(txn[z]) : z \in Sessions \ {s}}

LEMMA AfterMarks ==
    ASSUME NEW s \in Sessions, NEW B, NEW A, NEW t \in CallType, IInv, txn' = After(s, B, A, t)
    PROVE  /\ Marked(s, B, A, t)
           /\ Awaited' = Elsewhere(s) \cup Awaiting(t)
  <1>1. txn \in [Sessions -> CallType]
    BY DEF IInv, Typed
  <1>2. /\ DOMAIN txn' = Sessions /\ txn' = [z \in Sessions |-> txn'[z]] /\ txn'[s] = t
        /\ \A z \in Sessions \ {s} :
              txn'[z] = IF txn[z].pc # "idle" /\ Concerned(txn[z], B, A)
                        THEN [txn[z] EXCEPT !.late = TRUE] ELSE txn[z]
    BY DEF After
  <1>3. ASSUME NEW z \in Sessions \ {s}
        PROVE  /\ txn'[z] \in CallType
               /\ \/ txn'[z] = txn[z] /\ (txn[z].pc = "idle" \/ ~Concerned(txn[z], B, A))
                  \/ txn[z].pc # "idle" /\ txn'[z] = [txn[z] EXCEPT !.late = TRUE]
               /\ txn'[z].pc = txn[z].pc /\ txn'[z].l = txn[z].l
    <2>1. PICK c \in CallType : c = txn[z]
      BY <1>1
    <2>2. PICK u : u = [c EXCEPT !.late = TRUE]
      OBVIOUS
    <2>3. u \in CallType /\ u.pc = c.pc /\ u.l = c.l
      BY <2>2 DEF CallType
    <2> QED
      BY <1>2, <2>1, <2>2, <2>3
  <1>4. Marked(s, B, A, t)
    BY <1>2, <1>3 DEF Marked
  <1>5. Awaited' = Elsewhere(s) \cup Awaiting(t)
    <2>1. \A z \in Sessions \ {s} : Awaiting(txn'[z]) = Awaiting(txn[z])
      BY <1>3 DEF Awaiting
    <2>2. Awaited' = UNION {Awaiting(txn'[z]) : z \in Sessions}
      BY DEF Awaited, Awaiting
    <2> QED
      BY <1>2, <2>1, <2>2 DEF Elsewhere
  <1> QED
    BY <1>4, <1>5

LEMMA CommitMoves ==
    ASSUME NEW s \in Sessions, NEW B, NEW A, NEW batches, NEW lines, NEW items, NEW t,
           IInv, Commits(s, B, A, batches, lines, items, t), Written(B, A, batches, lines, items),
           B \subseteq DOMAIN batch, DOMAIN batches = DOMAIN batch,
           t \in CallType, Call(t)', t.op # "generate",
           \A l \in Awaiting(txn[s]) : l \in DOMAIN line /\ line[l].batch \in B \cup {None},
           ~txn[s].late => \A b \in B \ doubtful :
               /\ Open(b)
               /\ \/ batches[b] = Deleted
                  \/ AddsUp(batches, lines, items, b, Elsewhere(s) \cup Awaiting(t))
    PROVE  Moves(s)
  <1>1. /\ txn' = After(s, B, A, t) /\ item' = items /\ Followed(batches, lines)
        /\ doubtful' = IF txn[s].late THEN doubtful \cup B ELSE doubtful
    BY Zenon DEF Commits
  <1>2. PICK D : D = doubtful'
    OBVIOUS
  <1>3. doubtful \subseteq DOMAIN batch /\ txn \in [Sessions -> CallType]
    BY DEF IInv, Typed
  <1>4. D \subseteq DOMAIN batches /\ (txn[s].late => B \subseteq D) /\ doubtful \subseteq D
        /\ (~txn[s].late => D = doubtful)
    BY <1>1, <1>2, <1>3
  <1>5. Shown(batches, lines, D)
    BY <1>1, <1>2, <1>4, FollowedIsShown DEF Written, DataTyped
  <1>6. Marked(s, B, A, t) /\ Awaited' = Elsewhere(s) \cup Awaiting(t)
    BY <1>1, AfterMarks
  <1>7. PICK W : W = Elsewhere(s) \cup Awaiting(t)
    OBVIOUS
  <1>8. \A b \in B : b \in D \/ (Open(b) /\ (batches[b] = Deleted \/ AddsUp(batches, lines, items, b, W)))
    BY <1>4, <1>7
  <1>9. Keeps(s, B, batches, lines, items, D, t)
    BY <1>4, <1>6, <1>7, <1>8 DEF Keeps
  <1>10. Fills(s, batches)
    BY DEF Fills
  <1>11. Steps(s, B, A, batches, lines, items, D, t)
    BY <1>1, <1>2, <1>5, <1>6, <1>9, <1>10 DEF Steps
  <1> QED
    BY <1>11 DEF Moves

\* Reads: nothing changes but the call.
LEMMA ReadMoves ==
    ASSUME NEW s \in Sessions, NEW t \in CallType, IInv,
           txn' = [txn EXCEPT ![s] = t], UNCHANGED <<batch, line, item, doubtful>>,
           txn[s].pc # "recompute", Call(t), t.op = "generate" => SlotFree(t.slot)
    PROVE  Moves(s)
  <1>1. Typed /\ DataTyped(batch, line, item) /\ Refers(batch, line, item)
    BY DEF IInv, Typed
  <1>2. Written({}, {}, batch, line, item)
    BY <1>1 DEF Written
  <1>3. Shown(batch, line, doubtful)
    BY <1>1, UnchangedIsShown
  <1>4. Keeps(s, {}, batch, line, item, doubtful, t)
    BY <1>1 DEF Keeps, Awaiting, Typed
  <1>5. Marked(s, {}, {}, t)
    BY <1>1 DEF Marked, Concerned, Typed
  <1>6. Call(t)'
    BY DEF Call, Recomputes, Generates, Recalculates, Submits, Edits, Absorbs, Corrects,
           HasLine, HasItem, Live, Open, Kept
  <1>7. Steps(s, {}, {}, batch, line, item, doubtful, t)
    BY <1>2, <1>3, <1>4, <1>5, <1>6 DEF Steps, Fills
  <1> QED
    BY <1>7 DEF Moves

\* Steps that change amounts and statuses, and the lines and adjustments stay where they are.
LEMMA RowsWritten ==
    ASSUME NEW B, B \subseteq DOMAIN batch, NEW batches, NEW lines, IInv,
           DataTyped(batches, lines, item),
           DOMAIN batches = DOMAIN batch, DOMAIN lines = DOMAIN line,
           \A b \in DOMAIN batch :
               /\ batches[b] # Deleted <=> batch[b] # Deleted
               /\ batches[b].slot = batch[b].slot
               /\ b \notin B => batches[b] = batch[b],
           \A l \in DOMAIN line :
               /\ lines[l].batch = line[l].batch /\ lines[l].staff = line[l].staff
               /\ line[l].batch \notin B => lines[l] = line[l]
    PROVE  Written(B, {}, batches, lines, item)
  <1>1. Refers(batch, line, item)
    BY DEF IInv
  <1>2. Refers(batches, lines, item)
    BY <1>1 DEF Refers
  <1> QED
    BY <1>2 DEF Written
LEMMA NoneAmong ==
    ASSUME IInv
    PROVE  /\ None \notin DOMAIN batch /\ None \notin DOMAIN line
           /\ DOMAIN batch \subseteq Nat /\ DOMAIN line \subseteq Nat
           /\ \A b \in DOMAIN batch : batch[b] \in BatchType
           /\ \A l \in DOMAIN line : line[l] \in LineType
           /\ \A a \in Items : item[a] \in ItemType
           /\ \A z \in Sessions : txn[z] \in CallType /\ Call(txn[z])
  BY Rows DEF IInv, Typed, DataTyped, None

LEMMA GenerateReadMoves ==
    ASSUME NEW s \in Sessions, NEW slot \in Slots, IInv, GenerateRead(s, slot)
    PROVE  Moves(s)
  <1> DEFINE existing == {b \in DOMAIN batch : Live(b) /\ batch[b].slot = slot}
  <1>1. PICK b \in IF existing = {} THEN {None} ELSE existing :
            Reads(s, [About("generate", b, None) EXCEPT !.slot = slot])
    BY DEF GenerateRead
  <1>2. SlotFree(slot) /\ \A d \in existing : Open(d)
    BY DEF GenerateRead
  <1>3. PICK t : t = [About("generate", b, None) EXCEPT !.slot = slot]
    OBVIOUS
  <1>4. /\ t.pc = "read" /\ t.op = "generate" /\ t.slot = slot /\ t.b = b /\ t.l = None
        /\ t.item = None /\ t.rest = 0 /\ ~t.late
    BY <1>3 DEF About, Idle
  <1>5. \/ existing = {} /\ b = None
        \/ b \in existing /\ b # None /\ b \in DOMAIN batch
    BY <1>1, NoneAmong
  <1>6. b \in Nat
    BY <1>5, NoneAmong DEF None
  <1>7. t \in CallType
    BY <1>3, <1>6 DEF CallType, About, Idle, None
  <1>8. Call(t)
    BY <1>2, <1>4, <1>5 DEF Call, Generates
  <1>9. /\ txn[s].pc # "recompute" /\ txn' = [txn EXCEPT ![s] = t]
        /\ UNCHANGED <<batch, line, item, doubtful>>
    BY <1>1, <1>3 DEF Reads
  <1> QED
    BY <1>2, <1>4, <1>7, <1>8, <1>9, ReadMoves

LEMMA AboutMoves ==
    ASSUME NEW s \in Sessions, NEW t \in CallType, IInv, Reads(s, t), Call(t), t.op # "generate"
    PROVE  Moves(s)
  BY ReadMoves DEF Reads

LEMMA RecalculateReadMoves ==
    ASSUME NEW s \in Sessions, NEW b \in DOMAIN batch, IInv, RecalculateRead(s, b)
    PROVE  Moves(s)
  <1>1. PICK t : t = [About("recalculate", b, None) EXCEPT !.slot = batch[b].slot]
    OBVIOUS
  <1>2. /\ t.pc = "read" /\ t.op = "recalculate" /\ t.slot = batch[b].slot /\ t.b = b /\ ~t.late
    BY <1>1 DEF About, Idle
  <1>3. Open(b) /\ batch[b].slot \in Slots /\ b \in Nat
    BY NoneAmong, BatchRow DEF RecalculateRead, Open, Live
  <1>4. t \in CallType
    BY <1>1, <1>3 DEF CallType, About, Idle, None
  <1>5. Call(t)
    BY <1>2, <1>3 DEF Call, Recalculates
  <1> QED
    BY <1>1, <1>2, <1>4, <1>5, AboutMoves DEF RecalculateRead

LEMMA SubmitReadMoves ==
    ASSUME NEW s \in Sessions, NEW b \in DOMAIN batch, IInv, SubmitRead(s, b)
    PROVE  Moves(s)
  <1>1. PICK t : t = About("submit", b, None)
    OBVIOUS
  <1>2. t.pc = "read" /\ t.op = "submit" /\ t.b = b /\ ~t.late
    BY <1>1 DEF About, Idle
  <1>3. t \in CallType
    BY <1>1, NoneAmong DEF CallType, About, Idle, None
  <1>4. Call(t)
    BY <1>2 DEF Call, Submits, SubmitRead
  <1> QED
    BY <1>1, <1>2, <1>3, <1>4, AboutMoves DEF SubmitRead

LEMMA EditReadMoves ==
    ASSUME NEW s \in Sessions, NEW l \in DOMAIN line, IInv, EditRead(s, l)
    PROVE  Moves(s)
  <1>1. PICK b : b = line[l].batch
    OBVIOUS
  <1>2. PICK t : t = [About("edit", b, l) EXCEPT !.rest = line[l].amount - line[l].base]
    OBVIOUS
  <1>3. /\ t.pc = "read" /\ t.op = "edit" /\ t.b = b /\ t.l = l /\ ~t.late
        /\ t.rest = line[l].amount - line[l].base
    BY <1>2 DEF About, Idle
  <1>4. Kept(l) /\ Open(b)
    BY <1>1 DEF EditRead
  <1>5. b \in DOMAIN batch /\ b \in Nat /\ l \in Nat
    BY <1>4, NoneAmong DEF Open, Live
  <1>6. line[l].amount \in Nat /\ line[l].base \in Nat /\ line[l].base <= line[l].amount
    BY NoneAmong, LineRow
  <1>7. line[l].amount - line[l].base \in Nat
    BY <1>6
  <1>8. t \in CallType
    BY <1>2, <1>5, <1>7 DEF CallType, About, Idle, None
  <1>9. Call(t)
    BY <1>1, <1>3, <1>4, <1>5 DEF Call, Edits, HasLine
  <1> QED
    BY <1>1, <1>2, <1>3, <1>8, <1>9, AboutMoves DEF EditRead

LEMMA CorrectReadMoves ==
    ASSUME NEW s \in Sessions, NEW a \in Items, IInv, CorrectRead(s, a)
    PROVE  Moves(s)
  <1>1. PICK l, b : l = item[a].line /\ b = IF l = None THEN None ELSE line[l].batch
    OBVIOUS
  <1>2. PICK t : t = [About("correct", b, l) EXCEPT !.item = a]
    OBVIOUS
  <1>3. t.pc = "read" /\ t.op = "correct" /\ t.b = b /\ t.l = l /\ t.item = a /\ ~t.late
    BY <1>2 DEF About, Idle
  <1>4. /\ item[a].status \in {"NEW", "APPROVED"}
        /\ \A d \in BatchOf(l) : batch[d].status \notin Locked
        /\ Reads(s, t)
    BY <1>1, <1>2 DEF CorrectRead
  <1>5. l # None => /\ l \in DOMAIN line /\ b = line[l].batch /\ b # None
                    /\ b \in DOMAIN batch /\ batch[b] # Deleted
    BY <1>1 DEF IInv, Refers
  <1>6. l # None => Open(b)
    BY <1>4, <1>5 DEF BatchOf, Kept, Open, Live, Locked
  <1>7. l \in Nat /\ b \in Nat
    BY <1>1, <1>5, NoneAmong DEF None
  <1>8. t \in CallType
    BY <1>2, <1>7 DEF CallType, About, Idle, None
  <1>9. Call(t)
    BY <1>1, <1>3, <1>4, <1>5, <1>6 DEF Call, Corrects, HasLine, HasItem
  <1> QED
    BY <1>3, <1>4, <1>8, <1>9, AboutMoves

LEMMA AbsorbReadMoves ==
    ASSUME NEW s \in Sessions, IInv, AbsorbRead(s)
    PROVE  Moves(s)
  <1>1. PICK a : a = txn[s].item
    OBVIOUS
  <1>2. txn[s].pc = "absorb" /\ UNCHANGED <<batch, line, item, doubtful>>
    BY DEF AbsorbRead
  <1>3. a \in Items /\ item[a].status # "NONE"
    BY <1>1, <1>2, NoneAmong DEF Call, HasItem
  <1>4. CASE txn' = [txn EXCEPT ![s] = Idle]
    BY <1>2, <1>4, IdleCall, ReadMoves DEF Idle
  <1>5. ASSUME NEW l \in DOMAIN line, Kept(l), line[l].staff = Owner[a],
               batch[line[l].batch].status \in {"DRAFT", "PENDING_HR"},
               item[a].status = "APPROVED", item[a].line = None,
               txn' = [txn EXCEPT ![s] = [About("absorb", line[l].batch, l) EXCEPT !.item = a]]
        PROVE  Moves(s)
    <2>1. PICK b : b = line[l].batch
      OBVIOUS
    <2>2. PICK t : t = [About("absorb", b, l) EXCEPT !.item = a]
      OBVIOUS
    <2>3. t.pc = "read" /\ t.op = "absorb" /\ t.b = b /\ t.l = l /\ t.item = a /\ ~t.late
      BY <2>2 DEF About, Idle
    <2>4. b \in DOMAIN batch /\ Open(b) /\ b \in Nat /\ l \in Nat
      BY <1>5, <2>1, NoneAmong DEF IInv, Refers, Kept, Open, Live
    <2>5. t \in CallType
      BY <1>3, <2>2, <2>4 DEF CallType, About, Idle, None
    <2>6. Call(t)
      BY <1>3, <1>5, <2>1, <2>3, <2>4 DEF Call, Absorbs, HasLine, HasItem
    <2> QED
      BY <1>2, <1>5, <2>1, <2>2, <2>3, <2>5, <2>6, ReadMoves
  <1> QED
    BY <1>1, <1>4, <1>5 DEF AbsorbRead
LEMMA AwaitedSplit ==
    ASSUME NEW s \in Sessions
    PROVE  /\ Awaited = Elsewhere(s) \cup Awaiting(txn[s])
           /\ Awaiting(Idle) = {}
           /\ txn[s].pc # "recompute" => Awaited = Elsewhere(s) \cup Awaiting(Idle)
                                         /\ Awaiting(txn[s]) = {}
  BY DEF Awaited, Elsewhere, Awaiting, Idle

\* The books of a batch go on adding up if what its lines pay besides their base stays.
SameRows(batches, lines, b) ==
    /\ batches[b].total = Amounts(lines, LinesIn(lines, b))
    /\ LinesIn(lines, b) = LinesIn(line, b)
    /\ \A l \in LinesIn(line, b) :
           /\ lines[l].amount - lines[l].base = line[l].amount - line[l].base
           /\ lines[l] \in LineType
           /\ lines[l].staff = line[l].staff
           /\ lines[l].paid = (batches[b].status = "PAID")

LEMMA RowBooks ==
    ASSUME IInv, NEW batches, NEW lines, NEW b \in DOMAIN batch, NEW W, NEW V, W \subseteq V,
           SameRows(batches, lines, b), AddsUp(batch, line, item, b, W)
    PROVE  AddsUp(batches, lines, item, b, V)
  <1> DEFINE L == LinesIn(line, b)
  <1>1. /\ LinesIn(lines, b) = L
        /\ \A l \in L :
               /\ lines[l].amount - lines[l].base = line[l].amount - line[l].base
               /\ lines[l] \in LineType
               /\ lines[l].staff = line[l].staff
               /\ lines[l].paid = (batches[b].status = "PAID")
        /\ batches[b].total = Amounts(lines, L)
    BY DEF SameRows
  <1>2. \A l \in L : /\ l \in W \/ LineAddsUp(line, item, l)
                     /\ \A a \in LinkedTo(item, l) : item[a].status = "APPROVED"
                     /\ \A k \in L : line[k].staff = line[l].staff => k = l
    BY DEF AddsUp
  <1>3. ASSUME NEW l \in L, LineAddsUp(line, item, l) PROVE LineAddsUp(lines, item, l)
    <2>1. l \in DOMAIN line
      BY DEF LinesIn
    <2>2. /\ line[l].amount \in Nat /\ line[l].base \in Nat
          /\ lines[l].amount \in Nat /\ lines[l].base \in Nat
      BY <1>1, <2>1, NoneAmong, LineRow
    <2>3. Worth(item, LinkedTo(item, l)) \in Nat
      BY WorthSame DEF LinkedTo, IInv, Typed, DataTyped
    <2>4. line[l].amount = line[l].base + Worth(item, LinkedTo(item, l))
      BY <1>3 DEF LineAddsUp
    <2>5. lines[l].amount = lines[l].base + Worth(item, LinkedTo(item, l))
      BY <1>1, <2>2, <2>3, <2>4
    <2> QED
      BY <2>5 DEF LineAddsUp
  <1> HIDE DEF L
  <1>4. \A l \in L : /\ l \in V \/ LineAddsUp(lines, item, l)
                     /\ \A a \in LinkedTo(item, l) : item[a].status = "APPROVED"
                     /\ lines[l].paid = (batches[b].status = "PAID")
                     /\ \A k \in L : lines[k].staff = lines[l].staff => k = l
    BY <1>1, <1>2, <1>3
  <1> QED
    BY <1>1, <1>4 DEF AddsUp

PaidOff(b) == [l \in DOMAIN line |-> [line[l] EXCEPT !.paid = @ \/ line[l].batch = b]]

LEMMA StageMoves ==
    ASSUME NEW s \in Sessions, NEW b \in DOMAIN batch, NEW from \in Statuses \ {"PAID"},
           NEW to \in Statuses, NEW lines, IInv, Stage(s, b, from, to, lines),
           \/ lines = line /\ to # "PAID"
           \/ lines = PaidOff(b) /\ to = "PAID"
    PROVE  Moves(s)
  <1>1. PICK batches : batches = [batch EXCEPT ![b].status = to]
    OBVIOUS
  <1>2. /\ Live(b) /\ batch[b].status = from
        /\ txn[s].pc = "idle" /\ Commits(s, {b}, {}, batches, lines, item, Idle)
    BY <1>1 DEF Stage, AtOnce
  <1>3. /\ batch \in Seq(BatchType) /\ line \in Seq(LineType) /\ item \in [Items -> ItemType]
        /\ batch[b] \in BatchType
    BY NoneAmong DEF IInv, Typed, DataTyped
  <1>4. /\ batches \in Seq(BatchType) /\ DOMAIN batches = DOMAIN batch
        /\ batches[b].slot = batch[b].slot /\ batches[b].total = batch[b].total
        /\ batches[b].status = to
        /\ batches[b] # Deleted
        /\ \A d \in DOMAIN batch : d # b => batches[d] = batch[d]
    <2>1. PICK r : r = [batch[b] EXCEPT !.status = to]
      OBVIOUS
    <2>2. batch[b] \in [slot : Slots, status : Statuses, total : Nat]
      BY <1>2, <1>3 DEF Live, BatchType
    <2>3. /\ r \in BatchType /\ r # Deleted
          /\ r.slot = batch[b].slot /\ r.total = batch[b].total /\ r.status = to
      BY <2>1, <2>2 DEF BatchType, Deleted, Statuses
    <2>4. /\ batches = [d \in DOMAIN batch |-> batches[d]]
          /\ batches[b] = r
          /\ \A d \in DOMAIN batch : d # b => batches[d] = batch[d]
      BY <1>1, <2>1
    <2>5. \A d \in DOMAIN batch : batches[d] \in BatchType
      BY <2>3, <2>4, NoneAmong
    <2> QED
      BY <1>3, <2>3, <2>4, <2>5, Replaced
  <1>5. /\ lines \in Seq(LineType) /\ DOMAIN lines = DOMAIN line
        /\ \A l \in DOMAIN line :
               /\ lines[l].batch = line[l].batch /\ lines[l].staff = line[l].staff
               /\ lines[l].base = line[l].base /\ lines[l].amount = line[l].amount
               /\ line[l].batch # b => lines[l] = line[l]
               /\ line[l].batch = b => lines[l].paid = (line[l].paid \/ to = "PAID")
    <2>1. CASE lines = line /\ to # "PAID"
      <3>1. \A l \in DOMAIN line : line[l].paid \in BOOLEAN
        BY NoneAmong, LineRow
      <3> QED
        BY <1>3, <2>1, <3>1
    <2>2. CASE lines = PaidOff(b) /\ to = "PAID"
      <3>1. /\ lines = [l \in DOMAIN line |-> lines[l]]
            /\ \A l \in DOMAIN line : lines[l] = [line[l] EXCEPT !.paid = @ \/ line[l].batch = b]
        BY <2>2 DEF PaidOff
      <3>2. ASSUME NEW l \in DOMAIN line
            PROVE  /\ lines[l] \in LineType
                   /\ lines[l].batch = line[l].batch /\ lines[l].staff = line[l].staff
                   /\ lines[l].base = line[l].base /\ lines[l].amount = line[l].amount
                   /\ line[l].batch # b => lines[l] = line[l]
                   /\ line[l].batch = b => lines[l].paid = (line[l].paid \/ to = "PAID")
        <4>1. PICK r \in LineType : r = line[l]
          BY NoneAmong
        <4>2. /\ r.paid \in BOOLEAN
              /\ r = [batch |-> r.batch, staff |-> r.staff, base |-> r.base,
                      amount |-> r.amount, paid |-> r.paid]
          BY <4>1, LineRow
        <4>3. PICK q : q = [r EXCEPT !.paid = r.paid \/ r.batch = b]
          OBVIOUS
        <4>4. /\ q = [batch |-> r.batch, staff |-> r.staff, base |-> r.base,
                      amount |-> r.amount, paid |-> r.paid \/ r.batch = b]
          BY <4>2, <4>3
        <4>5. r.batch # b => q = r
          BY <4>2, <4>4
        <4>6. r.batch = b => q \in LineType
          <5> SUFFICES ASSUME r.batch = b PROVE q \in LineType
            OBVIOUS
          <5>1. r # Gone
            BY <4>1, NoneAmong DEF Gone
          <5>2. /\ r.batch \in Nat \ {0} /\ r.staff \in Staff /\ r.base \in Nat /\ r.amount \in Nat
                /\ r.base <= r.amount
            BY <5>1 DEF LineType
          <5> QED
            BY <4>2, <4>4, <5>2 DEF LineType
        <4> QED
          BY <2>2, <3>1, <4>1, <4>3, <4>4, <4>5, <4>6
      <3>3. lines \in Seq(LineType) /\ DOMAIN lines = DOMAIN line
        BY <1>3, <3>1, <3>2, Replaced
      <3> QED
        BY <3>2, <3>3
    <2> QED
      BY <2>1, <2>2
  <1>6. Written({b}, {}, batches, lines, item)
    <2>1. DataTyped(batches, lines, item)
      BY <1>3, <1>4, <1>5 DEF DataTyped
    <2> QED
      BY <1>2, <1>4, <1>5, <2>1, RowsWritten DEF Live
  <1>7. ASSUME b \notin doubtful
        PROVE  Open(b) /\ AddsUp(batches, lines, item, b, Elsewhere(s) \cup Awaiting(Idle))
    <2>1. AddsUp(batch, line, item, b, Awaited)
      BY <1>2, <1>7 DEF IInv, Books
    <2>2. LinesIn(lines, b) = LinesIn(line, b)
      BY <1>5 DEF LinesIn
    <2>3. Amounts(lines, LinesIn(line, b)) = Amounts(line, LinesIn(line, b))
      BY <1>3, <1>5, AmountsSame DEF LinesIn
    <2>4. \A l \in LinesIn(line, b) :
              /\ lines[l] \in LineType
              /\ lines[l].paid = (batches[b].status = "PAID")
      <3> SUFFICES ASSUME NEW l \in LinesIn(line, b)
                   PROVE  lines[l] \in LineType /\ lines[l].paid = (batches[b].status = "PAID")
        OBVIOUS
      <3>1. l \in DOMAIN line /\ line[l].batch = b
        BY DEF LinesIn
      <3>2. line[l].paid = (batch[b].status = "PAID") /\ lines[l] \in LineType
        BY <1>5, <2>1, <3>1, Rows DEF AddsUp
      <3> QED
        BY <1>2, <1>4, <1>5, <3>1, <3>2
    <2>5. SameRows(batches, lines, b)
      <3>1. batches[b].total = Amounts(lines, LinesIn(lines, b))
        BY <1>4, <2>1, <2>2, <2>3 DEF AddsUp
      <3> QED
        BY <1>5, <2>2, <2>4, <3>1 DEF SameRows, LinesIn
    <2>6. Awaited = Elsewhere(s) \cup Awaiting(Idle)
      BY <1>2, AwaitedSplit
    <2> QED
      BY <1>2, <2>1, <2>5, <2>6, RowBooks DEF Open
  <1>8. /\ \A l \in Awaiting(txn[s]) : l \in DOMAIN line /\ line[l].batch \in {b} \cup {None}
        /\ {b} \subseteq DOMAIN batch
        /\ Idle \in CallType /\ Call(Idle)' /\ Idle.op # "generate"
    BY <1>2, IdleCall, Constants0 DEF Awaiting
  <1>9. \A d \in {b} \ doubtful :
            /\ Open(d)
            /\ \/ batches[d] = Deleted
               \/ AddsUp(batches, lines, item, d, Elsewhere(s) \cup Awaiting(Idle))
    BY <1>7
  <1> QED
    BY <1>2, <1>4, <1>6, <1>8, <1>9, CommitMoves
LEMMA PayMoves ==
    ASSUME NEW s \in Sessions, NEW b \in DOMAIN batch, IInv,
           Approve(s, b) \/ Reject(s, b) \/ Pay(s, b)
    PROVE  Moves(s)
  <1>1. /\ "PENDING_HR" \in Statuses \ {"PAID"} /\ "PENDING_FINANCE" \in Statuses \ {"PAID"}
        /\ "DRAFT" \in Statuses \ {"PAID"} /\ "PAID" \in Statuses
    BY DEF Statuses
  <1>2. ASSUME NEW from \in Statuses \ {"PAID"}, NEW to \in Statuses \ {"PAID"},
               Stage(s, b, from, to, line)
        PROVE  Moves(s)
    BY <1>2, StageMoves
  <1>3. ASSUME Pay(s, b) PROVE Moves(s)
    <2>1. Stage(s, b, "PENDING_FINANCE", "PAID", PaidOff(b))
      BY <1>3 DEF Pay, PaidOff
    <2> QED
      BY <1>1, <2>1, StageMoves
  <1>4. CASE Approve(s, b)
    BY <1>1, <1>2, <1>4 DEF Approve
  <1>5. CASE Reject(s, b)
    BY <1>1, <1>2, <1>5 DEF Reject
  <1> QED
    BY <1>3, <1>4, <1>5

LEMMA TalliedRow ==
    ASSUME NEW batches \in Seq(BatchType), NEW lines \in Seq(LineType),
           NEW b \in DOMAIN batches, batches[b] # Deleted,
           NEW tallied, tallied = Tallied(batches, lines, b)
    PROVE  /\ tallied \in Seq(BatchType) /\ DOMAIN tallied = DOMAIN batches
           /\ tallied[b].slot = batches[b].slot /\ tallied[b].status = batches[b].status
           /\ tallied[b].total = Amounts(lines, LinesIn(lines, b))
           /\ tallied[b] # Deleted
           /\ \A d \in DOMAIN batches : d # b => tallied[d] = batches[d]
  <1>1. PICK n : n = Amounts(lines, LinesIn(lines, b))
    OBVIOUS
  <1>2. n \in Nat
    BY <1>1, AmountsSame DEF LinesIn
  <1>3. PICK r : r = [batches[b] EXCEPT !.total = n]
    OBVIOUS
  <1>4. batches[b] \in [slot : Slots, status : Statuses, total : Nat]
    BY Rows DEF BatchType
  <1>5. /\ r \in BatchType /\ r # Deleted
        /\ r.slot = batches[b].slot /\ r.status = batches[b].status /\ r.total = n
    BY <1>2, <1>3, <1>4 DEF BatchType, Deleted, Statuses
  <1>6. /\ tallied = [d \in DOMAIN batches |-> tallied[d]]
        /\ tallied[b] = r
        /\ \A d \in DOMAIN batches : d # b => tallied[d] = batches[d]
    BY <1>1, <1>3 DEF Tallied
  <1>7. \A d \in DOMAIN batches : tallied[d] \in BatchType
    BY <1>5, <1>6, Rows
  <1> QED
    BY <1>1, <1>5, <1>6, <1>7, Replaced

LEMMA SubmitMoves ==
    ASSUME NEW s \in Sessions, IInv, SubmitCommit(s)
    PROVE  Moves(s)
  <1>1. PICK b : b = txn[s].b
    OBVIOUS
  <1>2. PICK tallied : tallied = Tallied(batch, line, b)
    OBVIOUS
  <1>3. PICK batches : batches = [tallied EXCEPT ![b].status = "PENDING_HR"]
    OBVIOUS
  <1>4. /\ txn[s].pc = "read" /\ txn[s].op = "submit" /\ Live(b) /\ b \in DOMAIN batch
        /\ Commits(s, {b}, {}, batches, line, item, Idle)
    BY <1>1, <1>2, <1>3 DEF SubmitCommit, Ready, Live
  <1>5. /\ batch \in Seq(BatchType) /\ line \in Seq(LineType) /\ item \in [Items -> ItemType]
    BY DEF IInv, Typed, DataTyped
  <1>6. /\ tallied \in Seq(BatchType) /\ DOMAIN tallied = DOMAIN batch
        /\ tallied[b].slot = batch[b].slot /\ tallied[b].status = batch[b].status
        /\ tallied[b].total = Amounts(line, LinesIn(line, b))
        /\ tallied[b] # Deleted
        /\ \A d \in DOMAIN batch : d # b => tallied[d] = batch[d]
    BY <1>2, <1>4, <1>5, TalliedRow DEF Live
  <1>7. /\ batches \in Seq(BatchType) /\ DOMAIN batches = DOMAIN batch
        /\ batches[b].slot = batch[b].slot
        /\ batches[b].total = Amounts(line, LinesIn(line, b))
        /\ batches[b].status = "PENDING_HR" /\ batches[b] # Deleted
        /\ \A d \in DOMAIN batch : d # b => batches[d] = batch[d]
    <2>1. PICK r : r = [tallied[b] EXCEPT !.status = "PENDING_HR"]
      OBVIOUS
    <2>2. tallied[b] \in [slot : Slots, status : Statuses, total : Nat]
      BY <1>4, <1>6, Rows DEF BatchType
    <2>3. /\ r \in BatchType /\ r # Deleted
          /\ r.slot = tallied[b].slot /\ r.total = tallied[b].total /\ r.status = "PENDING_HR"
      BY <2>1, <2>2 DEF BatchType, Deleted, Statuses
    <2>4. /\ batches = [d \in DOMAIN tallied |-> batches[d]]
          /\ batches[b] = r
          /\ \A d \in DOMAIN tallied : d # b => batches[d] = tallied[d]
      BY <1>3, <1>4, <1>6, <2>1
    <2>5. \A d \in DOMAIN tallied : batches[d] \in BatchType
      BY <1>6, <2>3, <2>4, Rows
    <2>6. batches \in Seq(BatchType) /\ DOMAIN batches = DOMAIN tallied
      BY <1>6, <2>4, <2>5, Replaced
    <2> QED
      BY <1>6, <2>3, <2>4, <2>6
  <1>8. Written({b}, {}, batches, line, item)
    <2>1. DataTyped(batches, line, item)
      BY <1>5, <1>7 DEF DataTyped
    <2> QED
      BY <1>4, <1>7, <2>1, RowsWritten DEF Live
  <1>9. ASSUME ~txn[s].late, b \notin doubtful
        PROVE  Open(b) /\ AddsUp(batches, line, item, b, Elsewhere(s) \cup Awaiting(Idle))
    <2>1. batch[b].status = "DRAFT"
      BY <1>1, <1>4, <1>9, NoneAmong DEF Call, Submits
    <2>2. AddsUp(batch, line, item, b, Awaited)
      BY <1>4, <1>9 DEF IInv, Books
    <2>3. \A l \in LinesIn(line, b) : line[l].paid = (batches[b].status = "PAID") /\ line[l] \in LineType
      BY <1>7, <2>1, <2>2, NoneAmong DEF AddsUp, LinesIn
    <2>4. SameRows(batches, line, b)
      BY <1>7, <2>3 DEF SameRows
    <2>5. Awaited = Elsewhere(s) \cup Awaiting(Idle)
      BY <1>4, AwaitedSplit
    <2> QED
      BY <1>4, <2>1, <2>2, <2>4, <2>5, RowBooks DEF Open
  <1>10. /\ \A l \in Awaiting(txn[s]) : l \in DOMAIN line /\ line[l].batch \in {b} \cup {None}
         /\ {b} \subseteq DOMAIN batch
         /\ Idle \in CallType /\ Call(Idle)' /\ Idle.op # "generate"
    BY <1>4, IdleCall, Constants0 DEF Awaiting
  <1>11. ~txn[s].late => \A d \in {b} \ doubtful :
            /\ Open(d)
            /\ \/ batches[d] = Deleted
               \/ AddsUp(batches, line, item, d, Elsewhere(s) \cup Awaiting(Idle))
    BY <1>9
  <1> QED
    BY <1>4, <1>7, <1>8, <1>10, <1>11, CommitMoves

LEMMA OverrideMoves ==
    ASSUME NEW s \in Sessions, NEW n \in Corrected, IInv, OverrideCommit(s, n)
    PROVE  Moves(s)
  <1>1. PICK t \in CallType : t = txn[s] /\ Call(t)
    BY NoneAmong
  <1>2. PICK b, l, rest : b = t.b /\ l = t.l /\ rest = t.rest
    OBVIOUS
  <1>3. PICK lines : lines = IF Kept(l) THEN [line EXCEPT ![l].base = n, ![l].amount = n + rest] ELSE line
    OBVIOUS
  <1>4. PICK batches : batches = Tallied(batch, lines, b)
    OBVIOUS
  <1>5. /\ t.pc = "read" /\ t.op = "edit" /\ Live(b) /\ b \in DOMAIN batch
        /\ Commits(s, {b}, {}, batches, lines, item, Idle)
    BY <1>1, <1>2, <1>3, <1>4 DEF OverrideCommit, Ready, Live
  <1>6. /\ batch \in Seq(BatchType) /\ line \in Seq(LineType) /\ item \in [Items -> ItemType]
        /\ n \in Nat /\ rest \in Nat
    BY <1>2, BoundsAssumption DEF IInv, Typed, DataTyped, CallType
  <1>7. l \in DOMAIN line /\ line[l].batch \in {b, None}
    BY <1>1, <1>2, <1>5 DEF Call, Edits, HasLine
  <1>8. /\ lines \in Seq(LineType) /\ DOMAIN lines = DOMAIN line
        /\ \A k \in DOMAIN line :
               /\ lines[k].batch = line[k].batch /\ lines[k].staff = line[k].staff
               /\ lines[k].paid = line[k].paid
               /\ k # l \/ ~Kept(l) => lines[k] = line[k]
               /\ k = l /\ Kept(l) => lines[k].base = n /\ lines[k].amount = n + rest
    <2>1. CASE ~Kept(l)
      BY <1>3, <1>6, <2>1
    <2>2. CASE Kept(l)
      <3>1. PICK r : r = [[line[l] EXCEPT !.base = n] EXCEPT !.amount = n + rest]
        OBVIOUS
      <3>2. line[l] \in LineType \ {Gone}
        BY <1>7, <2>2, NoneAmong, LineRow DEF Kept
      <3>3. line[l] \in [batch : Nat \ {0}, staff : Staff, base : Nat, amount : Nat, paid : BOOLEAN]
        BY <3>2 DEF LineType
      <3> DEFINE R == [batch : Nat \ {0}, staff : Staff, base : Nat, amount : Nat, paid : BOOLEAN]
      <3>4. r \in R /\ r.batch = line[l].batch /\ r.staff = line[l].staff /\ r.paid = line[l].paid
            /\ r.base = n /\ r.amount = n + rest
        <4>1. PICK q \in R : q = line[l]
          BY <3>3
        <4>2. PICK m \in Nat : m = n + rest
          BY <1>6
        <4>3. PICK r1 : r1 = [q EXCEPT !.base = n]
          OBVIOUS
        <4>4. r1 \in R /\ r1.batch = q.batch /\ r1.staff = q.staff /\ r1.paid = q.paid /\ r1.base = n
          BY <1>6, <4>1, <4>3
        <4>5. PICK r2 : r2 = [r1 EXCEPT !.amount = m]
          OBVIOUS
        <4>6. r2 \in R /\ r2.batch = q.batch /\ r2.staff = q.staff /\ r2.paid = q.paid
              /\ r2.base = n /\ r2.amount = m
          BY <4>2, <4>4, <4>5
        <4>7. r = r2
          BY <3>1, <4>1, <4>2, <4>3, <4>5
        <4> QED
          BY <4>1, <4>2, <4>6, <4>7
      <3>5. r \in LineType
        BY <1>6, <3>4 DEF LineType
      <3>6. /\ lines = [k \in DOMAIN line |-> lines[k]]
            /\ lines[l] = r
            /\ \A k \in DOMAIN line : k # l => lines[k] = line[k]
        BY <1>3, <1>7, <2>2, <3>1
      <3>7. \A k \in DOMAIN line : lines[k] \in LineType
        BY <3>5, <3>6, NoneAmong
      <3>8. lines \in Seq(LineType) /\ DOMAIN lines = DOMAIN line
        BY <1>6, <3>6, <3>7, Replaced
      <3> QED
        BY <2>2, <3>4, <3>6, <3>8
    <2> QED
      BY <2>1, <2>2
  <1>9. /\ batches \in Seq(BatchType) /\ DOMAIN batches = DOMAIN batch
        /\ batches[b].slot = batch[b].slot /\ batches[b].status = batch[b].status
        /\ batches[b].total = Amounts(lines, LinesIn(lines, b))
        /\ batches[b] # Deleted
        /\ \A d \in DOMAIN batch : d # b => batches[d] = batch[d]
    BY <1>4, <1>5, <1>6, <1>8, TalliedRow DEF Live
  <1>10. Written({b}, {}, batches, lines, item)
    <2>1. DataTyped(batches, lines, item)
      BY <1>6, <1>8, <1>9 DEF DataTyped
    <2>2. \A k \in DOMAIN line : line[k].batch # b => lines[k] = line[k]
      BY <1>7, <1>8 DEF Kept
    <2> QED
      BY <1>5, <1>8, <1>9, <2>1, <2>2, RowsWritten DEF Live
  <1>11. ASSUME ~t.late, b \notin doubtful
         PROVE  Open(b) /\ AddsUp(batches, lines, item, b, Elsewhere(s) \cup Awaiting(Idle))
    <2>1. Kept(l) /\ Open(b) /\ rest = line[l].amount - line[l].base
      BY <1>1, <1>2, <1>5, <1>11 DEF Call, Edits
    <2>2. AddsUp(batch, line, item, b, Awaited)
      BY <1>5, <1>11 DEF IInv, Books
    <2>3. LinesIn(lines, b) = LinesIn(line, b)
      BY <1>8 DEF LinesIn
    <2>4. ASSUME NEW k \in LinesIn(line, b)
          PROVE  /\ lines[k].amount - lines[k].base = line[k].amount - line[k].base
                 /\ lines[k] \in LineType /\ lines[k].staff = line[k].staff
                 /\ lines[k].paid = (batches[b].status = "PAID")
      <3>1. k \in DOMAIN line /\ k \in DOMAIN lines
        BY <1>8 DEF LinesIn
      <3>2. line[k].paid = (batch[b].status = "PAID")
        BY <2>2 DEF AddsUp
      <3>3. lines[k].amount - lines[k].base = line[k].amount - line[k].base
        <4>1. CASE k # l
          BY <1>8, <3>1, <4>1
        <4>2. CASE k = l
          <5>1. lines[k].base = n /\ lines[k].amount = n + rest
            BY <1>8, <2>1, <3>1, <4>2
          <5> QED
            BY <1>6, <2>1, <4>2, <5>1
        <4> QED
          BY <4>1, <4>2
      <3>4. lines[k] \in LineType
        BY <1>8, <3>1, Rows
      <3> QED
        BY <1>8, <1>9, <3>1, <3>2, <3>3, <3>4
    <2>5. SameRows(batches, lines, b)
      BY <1>9, <2>3, <2>4 DEF SameRows
    <2>6. Awaited = Elsewhere(s) \cup Awaiting(Idle)
      BY <1>1, <1>5, AwaitedSplit
    <2> QED
      BY <1>5, <2>1, <2>2, <2>5, <2>6, RowBooks
  <1>12. /\ \A k \in Awaiting(txn[s]) : k \in DOMAIN line /\ line[k].batch \in {b} \cup {None}
         /\ {b} \subseteq DOMAIN batch
         /\ Idle \in CallType /\ Call(Idle)' /\ Idle.op # "generate"
    BY <1>1, <1>5, IdleCall, Constants0 DEF Awaiting
  <1>13. ~txn[s].late => \A d \in {b} \ doubtful :
            /\ Open(d)
            /\ \/ batches[d] = Deleted
               \/ AddsUp(batches, lines, item, d, Elsewhere(s) \cup Awaiting(Idle))
    BY <1>1, <1>11
  <1> QED
    BY <1>5, <1>9, <1>10, <1>12, <1>13, CommitMoves
\* Adjustments A of others or of no line go to line l, and its batch is recomputed.
Gathers(l, B, A, items) ==
    /\ items \in [Items -> ItemType]
    /\ \A a \in Items : items[a] # item[a] =>
           /\ a \in A /\ items[a].line = l /\ line[l].staff = Owner[a]
           /\ items[a].status # "NONE"
           /\ BatchOf(item[a].line) \subseteq B

LEMMA RecountsMoves ==
    ASSUME NEW s \in Sessions, NEW l \in DOMAIN line, Kept(l), NEW B, B \subseteq DOMAIN batch,
           line[l].batch \in B, NEW A, NEW items, IInv,
           Recounts(s, l, B, A, items), Gathers(l, B, A, items),
           \A k \in Awaiting(txn[s]) : k = l,
           ~txn[s].late =>
               /\ B = {line[l].batch}
               /\ line[l].batch \in doubtful \/ Open(line[l].batch)
               /\ \A a \in Items : items[a] # item[a] =>
                      items[a].status = "APPROVED" /\ item[a].line = None
    PROVE  Moves(s)
  <1>1. PICK b : b = line[l].batch
    OBVIOUS
  <1>2. PICK n : n = line[l].base + Worth(items, LinkedTo(items, l))
    OBVIOUS
  <1>3. PICK lines : lines = [line EXCEPT ![l].amount = n]
    OBVIOUS
  <1>4. PICK batches : batches = Tallied(batch, lines, b)
    OBVIOUS
  <1>5. Commits(s, B, A, batches, lines, items, Idle)
    BY <1>1, <1>2, <1>3, <1>4, Zenon DEF Recounts, LinkedTo
  <1>6. /\ batch \in Seq(BatchType) /\ line \in Seq(LineType) /\ item \in [Items -> ItemType]
        /\ items \in [Items -> ItemType]
    BY DEF IInv, Typed, DataTyped, Gathers
  <1>7. b \in DOMAIN batch /\ Live(b) /\ b # None
    BY <1>1, NoneAmong DEF IInv, Refers, Kept, Live
  <1>8. LinkedTo(items, l) \subseteq Items /\ Worth(items, LinkedTo(items, l)) \in Nat
    BY <1>6, WorthSame DEF LinkedTo
  <1>9. /\ lines \in Seq(LineType) /\ DOMAIN lines = DOMAIN line
        /\ \A k \in DOMAIN line :
               /\ lines[k].batch = line[k].batch /\ lines[k].staff = line[k].staff
               /\ lines[k].paid = line[k].paid /\ lines[k].base = line[k].base
               /\ k # l => lines[k] = line[k]
        /\ lines[l].amount = n
    <2>1. PICK r : r = [line[l] EXCEPT !.amount = n]
      OBVIOUS
    <2>2. line[l] \in LineType \ {Gone}
      BY <1>1, <1>7, NoneAmong, LineRow
    <2>3. line[l] \in [batch : Nat \ {0}, staff : Staff, base : Nat, amount : Nat, paid : BOOLEAN]
      BY <2>2 DEF LineType
    <2>4. n \in Nat /\ line[l].base <= n
      BY <1>2, <1>8, <2>3
    <2>5. /\ r \in [batch : Nat \ {0}, staff : Staff, base : Nat, amount : Nat, paid : BOOLEAN]
          /\ r.batch = line[l].batch /\ r.staff = line[l].staff /\ r.paid = line[l].paid
          /\ r.base = line[l].base /\ r.amount = n
      BY <2>1, <2>3, <2>4
    <2>6. r \in LineType
      BY <2>4, <2>5 DEF LineType
    <2>7. /\ lines = [k \in DOMAIN line |-> lines[k]]
          /\ lines[l] = r
          /\ \A k \in DOMAIN line : k # l => lines[k] = line[k]
      BY <1>3, <2>1
    <2>8. \A k \in DOMAIN line : lines[k] \in LineType
      BY <2>6, <2>7, NoneAmong
    <2>9. lines \in Seq(LineType) /\ DOMAIN lines = DOMAIN line
      BY <1>6, <2>7, <2>8, Replaced
    <2> QED
      BY <2>5, <2>7, <2>9
  <1>10. /\ batches \in Seq(BatchType) /\ DOMAIN batches = DOMAIN batch
         /\ batches[b].slot = batch[b].slot /\ batches[b].status = batch[b].status
         /\ batches[b].total = Amounts(lines, LinesIn(lines, b))
         /\ batches[b] # Deleted
         /\ \A d \in DOMAIN batch : d # b => batches[d] = batch[d]
    BY <1>4, <1>6, <1>7, <1>9, TalliedRow DEF Live
  <1>11. /\ \A k \in DOMAIN line : line[k].batch # None =>
                line[k].batch \in DOMAIN batch /\ batch[line[k].batch] # Deleted
         /\ \A a \in Items : item[a].line # None =>
                /\ item[a].line \in DOMAIN line
                /\ line[item[a].line].batch # None
                /\ line[item[a].line].staff = Owner[a]
         /\ \A a \in Items : item[a].status = "NONE" => item[a].line = None
    BY DEF IInv, Refers
  <1>12. \A a \in Items : items[a] # item[a] =>
             /\ a \in A /\ items[a].line = l /\ line[l].staff = Owner[a]
             /\ items[a].status # "NONE"
             /\ BatchOf(item[a].line) \subseteq B
    BY DEF Gathers
  <1>13. Refers(batches, lines, items)
    <2>1. \A k \in DOMAIN lines : lines[k].batch # None =>
              lines[k].batch \in DOMAIN batches /\ batches[lines[k].batch] # Deleted
      BY <1>9, <1>10, <1>11
    <2>2. ASSUME NEW a \in Items
          PROVE  /\ items[a].line # None =>
                       /\ items[a].line \in DOMAIN lines
                       /\ lines[items[a].line].batch # None
                       /\ lines[items[a].line].staff = Owner[a]
                 /\ items[a].status = "NONE" => items[a].line = None
      <3>1. CASE items[a] = item[a]
        BY <1>9, <1>11, <3>1
      <3>2. CASE items[a] # item[a]
        BY <1>1, <1>7, <1>9, <1>12, <3>2
      <3> QED
        BY <3>1, <3>2
    <2> QED
      BY <2>1, <2>2 DEF Refers
  <1>14. Written(B, A, batches, lines, items)
    <2>1. DataTyped(batches, lines, items)
      BY <1>6, <1>9, <1>10 DEF DataTyped
    <2>2. ASSUME NEW a \in Items, NEW k \in DOMAIN line, line[k].batch \notin B \cup {None}
          PROVE  /\ items[a].line = k <=> item[a].line = k
                 /\ item[a].line = k /\ item[a].status = "APPROVED" => items[a] = item[a]
      <3>1. CASE items[a] = item[a]
        BY <3>1
      <3>2. CASE items[a] # item[a]
        <4>1. items[a].line = l /\ BatchOf(item[a].line) \subseteq B
          BY <1>12, <3>2
        <4>2. BatchOf(k) = {line[k].batch}
          BY <2>2 DEF BatchOf, Kept
        <4> QED
          BY <2>2, <4>1, <4>2
      <3> QED
        BY <3>1, <3>2
    <2>3. \A d \in DOMAIN batch : d \notin B => batches[d] = batch[d]
      BY <1>1, <1>10
    <2>4. \A k \in DOMAIN line : line[k].batch \notin B => lines[k] = line[k]
      BY <1>9
    <2>5. \A a \in Items : /\ a \notin A => items[a] = item[a]
                           /\ item[a].status # "NONE" => items[a].status # "NONE"
      BY <1>12
    <2>6. \A d \in DOMAIN batch : batches[d] # Deleted => batch[d] # Deleted /\ batches[d].slot = batch[d].slot
      BY <1>7, <1>10 DEF Live
    <2> QED
      BY <1>9, <1>10, <1>13, <2>1, <2>2, <2>3, <2>4, <2>5, <2>6 DEF Written
  <1>15. ASSUME ~txn[s].late, b \notin doubtful
         PROVE  Open(b) /\ AddsUp(batches, lines, items, b, Elsewhere(s) \cup Awaiting(Idle))
    <2>1. /\ Open(b)
          /\ \A a \in Items : items[a] # item[a] =>
                 items[a].status = "APPROVED" /\ item[a].line = None
      BY <1>1, <1>15
    <2>2. AddsUp(batch, line, item, b, Awaited)
      BY <1>7, <1>15 DEF IInv, Books
    <2>3. LinesIn(lines, b) = LinesIn(line, b)
      BY <1>9 DEF LinesIn
    <2>4. ASSUME NEW k \in LinesIn(line, b)
          PROVE  /\ k \in Elsewhere(s) \cup Awaiting(Idle) \/ LineAddsUp(lines, items, k)
                 /\ \A a \in LinkedTo(items, k) : items[a].status = "APPROVED"
                 /\ lines[k].paid = (batches[b].status = "PAID")
                 /\ \A j \in LinesIn(line, b) : lines[j].staff = lines[k].staff => j = k
      <3>1. k \in DOMAIN line /\ k # None
        BY NoneAmong DEF LinesIn
      <3>2. /\ k \in Awaited \/ LineAddsUp(line, item, k)
            /\ \A a \in LinkedTo(item, k) : item[a].status = "APPROVED"
            /\ line[k].paid = (batch[b].status = "PAID")
            /\ \A j \in LinesIn(line, b) : line[j].staff = line[k].staff => j = k
        BY <2>2 DEF AddsUp
      <3>3. \A a \in LinkedTo(items, k) : items[a].status = "APPROVED"
        BY <2>1, <3>2 DEF LinkedTo
      <3>4. k \in Elsewhere(s) \cup Awaiting(Idle) \/ LineAddsUp(lines, items, k)
        <4>1. CASE k = l
          BY <1>2, <1>9, <4>1 DEF LineAddsUp
        <4>2. CASE k # l
          <5>1. LinkedTo(items, k) = LinkedTo(item, k)
            BY <1>12, <2>1, <3>1, <4>2 DEF LinkedTo
          <5>2. \A a \in LinkedTo(item, k) : items[a] = item[a]
            BY <2>1, <3>1 DEF LinkedTo
          <5>3. Worth(items, LinkedTo(item, k)) = Worth(item, LinkedTo(item, k))
            BY <1>6, <5>2, WorthSame DEF LinkedTo
          <5>4. LineAddsUp(line, item, k) => LineAddsUp(lines, items, k)
            BY <1>9, <3>1, <4>2, <5>1, <5>3 DEF LineAddsUp
          <5>5. k \in Awaited => k \in Elsewhere(s)
            BY <4>2, AwaitedSplit
          <5> QED
            BY <3>2, <5>4, <5>5
        <4> QED
          BY <4>1, <4>2
      <3>5. \A j \in LinesIn(line, b) : lines[j].staff = lines[k].staff => j = k
        BY <1>9, <3>1, <3>2 DEF LinesIn
      <3> QED
        BY <1>9, <1>10, <3>1, <3>2, <3>3, <3>4, <3>5
    <2> QED
      BY <1>10, <2>1, <2>3, <2>4 DEF AddsUp
  <1>16. /\ \A k \in Awaiting(txn[s]) : k \in DOMAIN line /\ line[k].batch \in B \cup {None}
         /\ Idle \in CallType /\ Call(Idle)' /\ Idle.op # "generate"
    BY IdleCall, Constants0
  <1>17. ~txn[s].late => \A d \in B \ doubtful :
            /\ Open(d)
            /\ \/ batches[d] = Deleted
               \/ AddsUp(batches, lines, items, d, Elsewhere(s) \cup Awaiting(Idle))
    BY <1>1, <1>15
  <1> QED
    BY <1>5, <1>10, <1>14, <1>16, <1>17, CommitMoves

LEMMA AddMoves ==
    ASSUME NEW s \in Sessions, NEW a \in Items, NEW n \in Earned, IInv, AddCommit(s, a, n)
    PROVE  Moves(s)
  <1>1. PICK t \in CallType : t = txn[s] /\ Call(t)
    BY NoneAmong
  <1>2. PICK b, l : b = t.b /\ l = t.l
    OBVIOUS
  <1>3. PICK items : items = [item EXCEPT ![a] = [status |-> "APPROVED", amount |-> n, line |-> l]]
    OBVIOUS
  <1>4. /\ t.pc = "read" /\ t.op = "edit" /\ Kept(l)
        /\ item[a].status = "NONE" /\ Owner[a] = line[l].staff
        /\ Recounts(s, l, {b}, {a}, items)
    BY <1>1, <1>2, <1>3 DEF AddCommit, Ready
  <1>5. l \in DOMAIN line /\ b \in DOMAIN batch /\ line[l].batch = b /\ l \in Nat
    BY <1>1, <1>2, <1>4, NoneAmong DEF Call, Edits, HasLine, Kept
  <1>6. item[a].line = None /\ BatchOf(item[a].line) = {}
    BY <1>4, NoneAmong DEF IInv, Refers, BatchOf, Kept
  <1>7. /\ item \in [Items -> ItemType] /\ n \in Nat
        /\ items \in [Items -> ItemType]
        /\ items[a].status = "APPROVED" /\ items[a].line = l
        /\ \A d \in Items : d # a => items[d] = item[d]
    <2>1. PICK r : r = [status |-> "APPROVED", amount |-> n, line |-> l]
      OBVIOUS
    <2>2. item \in [Items -> ItemType] /\ n \in Nat /\ r \in ItemType /\ r.status = "APPROVED" /\ r.line = l
      BY <1>5, <2>1, BoundsAssumption DEF IInv, Typed, DataTyped, ItemType
    <2>3. items = [item EXCEPT ![a] = r]
      BY <1>3, <2>1
    <2> QED
      BY <2>2, <2>3
  <1>8. Gathers(l, {b}, {a}, items)
    BY <1>4, <1>6, <1>7 DEF Gathers
  <1>9. ~t.late => Open(b)
    BY <1>1, <1>2, <1>4 DEF Call, Edits
  <1>10. \A k \in Awaiting(txn[s]) : k = l
    BY <1>1, <1>4 DEF Awaiting
  <1> QED
    BY <1>1, <1>4, <1>5, <1>6, <1>7, <1>8, <1>9, <1>10, RecountsMoves
LEMMA BatchesOfLines ==
    ASSUME IInv, NEW l
    PROVE  /\ BatchOf(l) \subseteq DOMAIN batch
           /\ \A b \in BatchOf(l) : Live(b) /\ l \in DOMAIN line /\ line[l].batch = b
           /\ BatchOf(None) = {}
  BY NoneAmong DEF BatchOf, Kept, IInv, Refers, Live

LEMMA AbsorbMoves ==
    ASSUME NEW s \in Sessions, IInv, AbsorbCommit(s)
    PROVE  Moves(s)
  <1>1. PICK t \in CallType : t = txn[s] /\ Call(t)
    BY NoneAmong
  <1>2. PICK b, l, a : b = t.b /\ l = t.l /\ a = t.item
    OBVIOUS
  <1>3. PICK items : items = IF item[a].status = "GONE" THEN item ELSE [item EXCEPT ![a].line = l]
    OBVIOUS
  <1>4. PICK B : B = {b} \cup BatchOf(item[a].line)
    OBVIOUS
  <1>5. t.pc = "read" /\ t.op = "absorb" /\ Kept(l) /\ Recounts(s, l, B, {a}, items)
    BY <1>1, <1>2, <1>3, <1>4 DEF AbsorbCommit, Ready
  <1>6. /\ l \in DOMAIN line /\ b \in DOMAIN batch /\ line[l].batch = b /\ l \in Nat
        /\ a \in Items /\ item[a].status # "NONE" /\ line[l].staff = Owner[a]
    BY <1>1, <1>2, <1>5, NoneAmong DEF Call, Absorbs, HasLine, HasItem, Kept
  <1>7. /\ item \in [Items -> ItemType] /\ items \in [Items -> ItemType]
        /\ items[a] # item[a] => items[a].line = l
        /\ items[a].status = item[a].status
        /\ \A d \in Items : d # a => items[d] = item[d]
    <2>1. item \in [Items -> ItemType]
      BY DEF IInv, Typed, DataTyped
    <2>2. CASE item[a].status = "GONE"
      BY <1>3, <2>1, <2>2
    <2>3. CASE item[a].status # "GONE"
      <3>1. PICK r : r = [item[a] EXCEPT !.line = l]
        OBVIOUS
      <3>2. r \in ItemType /\ r.line = l /\ r.status = item[a].status
        BY <1>6, <2>1, <3>1 DEF ItemType
      <3>3. items = [item EXCEPT ![a] = r]
        BY <1>3, <2>3, <3>1
      <3> QED
        BY <1>6, <2>1, <3>2, <3>3
    <2> QED
      BY <2>2, <2>3
  <1>8. BatchOf(item[a].line) \subseteq DOMAIN batch
    BY BatchesOfLines
  <1>9. Gathers(l, B, {a}, items)
    BY <1>4, <1>6, <1>7 DEF Gathers
  <1>10. ~t.late => /\ B = {b} /\ Open(b)
                    /\ \A d \in Items : items[d] # item[d] =>
                           items[d].status = "APPROVED" /\ item[d].line = None
    <2> SUFFICES ASSUME ~t.late PROVE /\ B = {b} /\ Open(b)
                    /\ \A d \in Items : items[d] # item[d] =>
                           items[d].status = "APPROVED" /\ item[d].line = None
      OBVIOUS
    <2>1. Open(b) /\ item[a].status = "APPROVED" /\ item[a].line = None
      BY <1>1, <1>2, <1>5 DEF Call, Absorbs
    <2> QED
      BY <1>4, <1>7, <2>1, BatchesOfLines
  <1>11. \A k \in Awaiting(txn[s]) : k = l
    BY <1>1, <1>5 DEF Awaiting
  <1>12. B \subseteq DOMAIN batch /\ line[l].batch \in B
    BY <1>4, <1>6, <1>8
  <1> QED
    BY <1>1, <1>5, <1>6, <1>9, <1>10, <1>11, <1>12, RecountsMoves

LEMMA UnmovedWritten ==
    ASSUME IInv
    PROVE  Written({}, {}, batch, line, item)
  BY DEF IInv, Typed, Written

LEMMA RecomputeMoves ==
    ASSUME NEW s \in Sessions, IInv, Recompute(s)
    PROVE  Moves(s)
  <1>1. PICK t \in CallType : t = txn[s] /\ Call(t)
    BY NoneAmong
  <1>2. PICK b, l : b = t.b /\ l = t.l
    OBVIOUS
  <1>3. /\ t.pc = "recompute"
        /\ \/ Kept(l) /\ Recounts(s, l, {b}, {}, item)
           \/ ~Kept(l) /\ Commits(s, {}, {}, batch, line, item, Idle)
    BY <1>1, <1>2 DEF Recompute
  <1>4. /\ l \in DOMAIN line /\ b \in DOMAIN batch /\ line[l].batch \in {b, None}
        /\ ~t.late /\ Kept(l) => b \in doubtful \/ Open(b)
        /\ \A k \in Awaiting(txn[s]) : k = l
    BY <1>1, <1>2, <1>3 DEF Call, Recomputes, HasLine, Awaiting
  <1>5. CASE Kept(l) /\ Recounts(s, l, {b}, {}, item)
    <2>1. line[l].batch = b /\ {b} \subseteq DOMAIN batch
      BY <1>4, <1>5 DEF Kept
    <2>2. Gathers(l, {b}, {}, item)
      BY DEF Gathers, IInv, Typed, DataTyped
    <2>3. ~txn[s].late =>
              /\ {b} = {line[l].batch}
              /\ line[l].batch \in doubtful \/ Open(line[l].batch)
              /\ \A a \in Items : item[a] # item[a] =>
                      item[a].status = "APPROVED" /\ item[a].line = None
      BY <1>1, <1>4, <1>5, <2>1
    <2> QED
      BY <1>4, <1>5, <2>1, <2>2, <2>3, RecountsMoves
  <1>6. CASE ~Kept(l) /\ Commits(s, {}, {}, batch, line, item, Idle)
    <2>1. PICK E : E = {}
      OBVIOUS
    <2>2. Written(E, E, batch, line, item) /\ Commits(s, E, E, batch, line, item, Idle)
      BY <1>6, <2>1, UnmovedWritten
    <2>3. \A k \in Awaiting(txn[s]) : k \in DOMAIN line /\ line[k].batch \in E \cup {None}
      BY <1>4, <1>6 DEF Kept
    <2>4. Idle.op # "generate" /\ Idle \in CallType /\ Call(Idle)' /\ E \subseteq DOMAIN batch
      BY <2>1, Constants0, IdleCall
    <2>5. \A d \in E \ doubtful :
              /\ Open(d)
              /\ \/ batch[d] = Deleted
                 \/ AddsUp(batch, line, item, d, Elsewhere(s) \cup Awaiting(Idle))
      BY <2>1
    <2> QED
      BY <2>2, <2>3, <2>4, <2>5, CommitMoves
  <1> QED
    BY <1>3, <1>5, <1>6

LEMMA RollbackMoves ==
    ASSUME NEW s \in Sessions, IInv, Rollback(s)
    PROVE  Moves(s)
  <1>1. PICK t \in CallType : t = txn[s] /\ Call(t)
    BY NoneAmong
  <1>2. PICK D : D = doubtful'
    OBVIOUS
  <1>3. /\ txn' = [txn EXCEPT ![s] = Idle]
        /\ D = IF t.pc = "recompute" THEN doubtful \cup BatchOf(t.l) ELSE doubtful
        /\ Followed(batch, line) /\ item' = item
    BY <1>1, <1>2, Zenon DEF Rollback
  <1>4. Typed
    BY DEF IInv
  <1>5. doubtful \subseteq D /\ D \subseteq DOMAIN batch
    BY <1>3, <1>4, BatchesOfLines DEF Typed
  <1>6. Shown(batch, line, D)
    BY <1>2, <1>3, <1>4, <1>5, FollowedIsShown DEF Typed, DataTyped
  <1>7. \A l \in Awaiting(txn[s]) : l \in DOMAIN line /\ line[l].batch \in D \cup {None}
    BY <1>1, <1>3 DEF Awaiting, Call, Recomputes, HasLine, BatchOf, Kept
  <1>8. Keeps(s, {}, batch, line, item, D, Idle)
    BY <1>5, <1>7 DEF Keeps
  <1>9. Marked(s, {}, {}, Idle)
    BY <1>3, <1>4, IdleCall DEF Marked, Concerned, Typed
  <1>10. Steps(s, {}, {}, batch, line, item, D, Idle)
    BY <1>2, <1>3, <1>6, <1>8, <1>9, IdleCall, UnmovedWritten, Constants0 DEF Steps, Fills
  <1> QED
    BY <1>10 DEF Moves
\* Adjustments A change where they hang or let go of their line.
LetsGo(s, B, A, items, t) ==
    /\ items \in [Items -> ItemType]
    /\ \A a \in Items : items[a] # item[a] =>
           /\ a \in A /\ items[a].status # "NONE"
           /\ items[a].line \in {item[a].line, None}
           /\ \/ BatchOf(item[a].line) \subseteq B
              \/ items[a].line = item[a].line /\ item[a].status # "APPROVED"
    /\ ~txn[s].late => \A b \in B \ doubtful :
           /\ Open(b)
           /\ \A a \in Items : items[a] # item[a] =>
                  /\ item[a].line \in Awaiting(t) \cup {None}
                  /\ items[a].line = None \/ items[a].status = item[a].status

LEMMA ItemMoves ==
    ASSUME NEW s \in Sessions, NEW B, B \subseteq DOMAIN batch, NEW A, NEW items, NEW t \in CallType,
           IInv, Commits(s, B, A, batch, line, items, t), LetsGo(s, B, A, items, t),
           txn[s].pc # "recompute", Call(t)', t.op # "generate"
    PROVE  Moves(s)
  <1>1. /\ item \in [Items -> ItemType] /\ items \in [Items -> ItemType]
        /\ batch \in Seq(BatchType) /\ line \in Seq(LineType)
    BY DEF IInv, Typed, DataTyped, LetsGo
  <1>2. /\ \A l \in DOMAIN line : line[l].batch # None =>
               line[l].batch \in DOMAIN batch /\ batch[line[l].batch] # Deleted
        /\ \A a \in Items : item[a].line # None =>
               /\ item[a].line \in DOMAIN line
               /\ line[item[a].line].batch # None
               /\ line[item[a].line].staff = Owner[a]
        /\ \A a \in Items : item[a].status = "NONE" => item[a].line = None
    BY DEF IInv, Refers
  <1>3. \A a \in Items : items[a] # item[a] =>
            /\ a \in A /\ items[a].status # "NONE"
            /\ items[a].line \in {item[a].line, None}
            /\ \/ BatchOf(item[a].line) \subseteq B
               \/ items[a].line = item[a].line /\ item[a].status # "APPROVED"
    BY DEF LetsGo
  <1>4. Refers(batch, line, items)
    <2>1. ASSUME NEW a \in Items
          PROVE  /\ items[a].line # None =>
                        /\ items[a].line \in DOMAIN line
                        /\ line[items[a].line].batch # None
                        /\ line[items[a].line].staff = Owner[a]
                 /\ items[a].status = "NONE" => items[a].line = None
      BY <1>2, <1>3
    <2> QED
      BY <1>2, <2>1 DEF Refers
  <1>5. Written(B, A, batch, line, items)
    <2>1. DataTyped(batch, line, items)
      BY <1>1 DEF DataTyped
    <2>2. ASSUME NEW a \in Items, NEW k \in DOMAIN line, line[k].batch \notin B \cup {None}
          PROVE  /\ items[a].line = k <=> item[a].line = k
                 /\ item[a].line = k /\ item[a].status = "APPROVED" => items[a] = item[a]
      <3>1. BatchOf(k) = {line[k].batch} /\ k # None
        BY <2>2, NoneAmong DEF BatchOf, Kept
      <3> QED
        BY <1>3, <2>2, <3>1
    <2>3. \A a \in Items : /\ a \notin A => items[a] = item[a]
                           /\ item[a].status # "NONE" => items[a].status # "NONE"
      BY <1>3
    <2> QED
      BY <1>4, <2>1, <2>2, <2>3 DEF Written
  <1>6. ASSUME ~txn[s].late, NEW b \in B \ doubtful
        PROVE  Open(b) /\ AddsUp(batch, line, items, b, Elsewhere(s) \cup Awaiting(t))
    <2>1. /\ Open(b)
          /\ \A a \in Items : items[a] # item[a] =>
                 /\ item[a].line \in Awaiting(t) \cup {None}
                 /\ items[a].line = None \/ items[a].status = item[a].status
      BY <1>6 DEF LetsGo
    <2>2. AddsUp(batch, line, item, b, Awaited)
      BY <2>1 DEF IInv, Books, Open
    <2>3. Awaited = Elsewhere(s)
      BY AwaitedSplit
    <2>4. ASSUME NEW k \in LinesIn(line, b)
          PROVE  /\ k \in Elsewhere(s) \cup Awaiting(t) \/ LineAddsUp(line, items, k)
                 /\ \A a \in LinkedTo(items, k) : items[a].status = "APPROVED"
      <3>1. k \in DOMAIN line /\ k # None
        BY NoneAmong DEF LinesIn
      <3>2. /\ k \in Awaited \/ LineAddsUp(line, item, k)
            /\ \A a \in LinkedTo(item, k) : item[a].status = "APPROVED"
        BY <2>2 DEF AddsUp
      <3>3. \A a \in LinkedTo(items, k) : items[a].status = "APPROVED"
        <4> SUFFICES ASSUME NEW a \in LinkedTo(items, k) PROVE items[a].status = "APPROVED"
          OBVIOUS
        <4>1. a \in Items /\ items[a].line = k
          BY DEF LinkedTo
        <4>2. item[a].line = k /\ items[a].status = item[a].status
          BY <1>3, <2>1, <3>1, <4>1
        <4> QED
          BY <3>2, <4>1, <4>2 DEF LinkedTo
      <3>4. ASSUME k \notin Awaiting(t), LineAddsUp(line, item, k) PROVE LineAddsUp(line, items, k)
        <4>1. \A a \in Items : items[a] # item[a] => item[a].line # k /\ items[a].line # k
          BY <1>3, <2>1, <3>1, <3>4
        <4>2. LinkedTo(items, k) = LinkedTo(item, k) /\ LinkedTo(item, k) \subseteq Items
          BY <4>1 DEF LinkedTo
        <4>3. \A a \in LinkedTo(item, k) : items[a] = item[a]
          BY <4>1 DEF LinkedTo
        <4>4. Worth(items, LinkedTo(item, k)) = Worth(item, LinkedTo(item, k))
          BY <1>1, <4>2, <4>3, WorthSame
        <4> QED
          BY <3>4, <4>2, <4>4 DEF LineAddsUp
      <3> QED
        BY <2>3, <3>2, <3>3, <3>4
    <2> QED
      BY <2>1, <2>2, <2>4 DEF AddsUp
  <1>7. \A k \in Awaiting(txn[s]) : k \in DOMAIN line /\ line[k].batch \in B \cup {None}
    BY AwaitedSplit
  <1>8. ~txn[s].late => \A d \in B \ doubtful :
            /\ Open(d)
            /\ \/ batch[d] = Deleted
               \/ AddsUp(batch, line, items, d, Elsewhere(s) \cup Awaiting(t))
    BY <1>6
  <1> QED
    BY <1>5, <1>7, <1>8, CommitMoves

LEMMA CreateMoves ==
    ASSUME NEW s \in Sessions, NEW a \in Items, NEW n \in Earned, IInv, CreateItem(s, a, n)
    PROVE  Moves(s)
  <1>1. PICK E, A : E = {} /\ A = {a}
    OBVIOUS
  <1>2. PICK r : r = [status |-> "NEW", amount |-> n, line |-> None]
    OBVIOUS
  <1>3. PICK items : items = [item EXCEPT ![a] = r]
    OBVIOUS
  <1>4. item[a].status = "NONE" /\ txn[s].pc = "idle" /\ Commits(s, E, A, batch, line, items, Idle)
    BY <1>1, <1>2, <1>3 DEF CreateItem, AtOnce
  <1>5. r \in ItemType /\ r.status = "NEW" /\ r.line = None
    BY <1>2, BoundsAssumption DEF ItemType, None
  <1>6. /\ items \in [Items -> ItemType] /\ items[a] = r
        /\ \A d \in Items : d # a => items[d] = item[d]
    BY <1>3, <1>5 DEF IInv, Typed, DataTyped
  <1>7. item[a].line = None
    BY <1>4 DEF IInv, Refers
  <1>8. LetsGo(s, E, A, items, Idle)
    BY <1>1, <1>4, <1>5, <1>6, <1>7 DEF LetsGo
  <1>9. Idle \in CallType /\ Call(Idle)' /\ Idle.op # "generate" /\ E \subseteq DOMAIN batch
    BY <1>1, IdleCall, Constants0
  <1> QED
    BY <1>4, <1>8, <1>9, ItemMoves

LEMMA ApproveItemMoves ==
    ASSUME NEW s \in Sessions, NEW a \in Items, IInv, ApproveItem(s, a)
    PROVE  Moves(s)
  <1>1. PICK E, A : E = {} /\ A = {a}
    OBVIOUS
  <1>2. PICK t : t = IF item[a].line = None THEN [Idle EXCEPT !.pc = "absorb", !.item = a] ELSE Idle
    OBVIOUS
  <1>3. PICK items : items = [item EXCEPT ![a].status = "APPROVED"]
    OBVIOUS
  <1>4. /\ item[a].status \in {"NEW", "APPROVED"} /\ txn[s].pc = "idle"
        /\ Commits(s, E, A, batch, line, items, t)
    BY <1>1, <1>2, <1>3 DEF ApproveItem
  <1>5. /\ item \in [Items -> ItemType] /\ items \in [Items -> ItemType]
        /\ items[a].line = item[a].line /\ items[a].status = "APPROVED"
        /\ item[a].status = "APPROVED" => items[a] = item[a]
        /\ \A d \in Items : d # a => items[d] = item[d]
    <2>1. PICK q \in ItemType : q = item[a]
      BY NoneAmong
    <2>2. PICK r : r = [q EXCEPT !.status = "APPROVED"]
      OBVIOUS
    <2>3. /\ r \in ItemType /\ r.line = q.line /\ r.status = "APPROVED"
          /\ q.status = "APPROVED" => r = q
      BY <2>2 DEF ItemType
    <2>4. items = [item EXCEPT ![a] = r]
      BY <1>3, <2>1, <2>2
    <2> QED
      BY <2>1, <2>3, <2>4 DEF IInv, Typed, DataTyped
  <1>6. LetsGo(s, E, A, items, t)
    BY <1>1, <1>4, <1>5 DEF LetsGo
  <1>7. item' = items
    BY <1>4, Zenon DEF Commits
  <1>8. t \in CallType /\ Call(t)' /\ t.op # "generate"
    <2>1. CASE item[a].line # None
      BY <1>2, <2>1, IdleCall, Constants0
    <2>2. CASE item[a].line = None
      <3>1. t = [Idle EXCEPT !.pc = "absorb", !.item = a]
        BY <1>2, <2>2
      <3>2. t.pc = "absorb" /\ t.op = "none" /\ t.item = a
        BY <3>1 DEF Idle
      <3>3. t \in CallType
        BY <3>1 DEF Idle, CallType, None
      <3>4. Call(t)'
        BY <1>5, <1>7, <3>2 DEF Call, HasItem
      <3> QED
        BY <3>2, <3>3, <3>4
    <2> QED
      BY <2>1, <2>2
  <1>9. E \subseteq DOMAIN batch
    BY <1>1
  <1> QED
    BY <1>4, <1>6, <1>8, <1>9, ItemMoves

LEMMA CorrectMoves ==
    ASSUME NEW s \in Sessions, IInv, Correctable(s), NEW r \in ItemType, Correct(s, r),
           r.status # "NONE", r.line \in {item[txn[s].item].line, None},
           r.line = None \/ r.status = item[txn[s].item].status
    PROVE  Moves(s)
  <1>1. PICK t \in CallType : t = txn[s] /\ Call(t)
    BY NoneAmong
  <1>2. PICK a, b, l : a = t.item /\ b = t.b /\ l = t.l
    OBVIOUS
  <1>3. PICK u : u = IF l = None THEN Idle ELSE [About("none", b, l) EXCEPT !.pc = "recompute"]
    OBVIOUS
  <1>4. PICK items : items = [item EXCEPT ![a] = r]
    OBVIOUS
  <1>5. PICK B, A : B = BatchOf(l) \cup BatchOf(item[a].line) /\ A = {a}
    OBVIOUS
  <1>6. t.pc = "read" /\ t.op = "correct" /\ Commits(s, B, A, batch, line, items, u)
    BY <1>1, <1>2, <1>3, <1>4, <1>5 DEF Correct, Correctable, Ready
  <1>7. /\ a \in Items /\ item[a].status # "NONE"
        /\ l # None => l \in DOMAIN line /\ b \in DOMAIN batch /\ line[l].batch \in {b, None}
        /\ ~t.late => item[a].line = l /\ (l # None => Open(b))
    BY <1>1, <1>2, <1>6 DEF Call, Corrects, HasItem, HasLine
  <1>8. B \subseteq DOMAIN batch
    BY <1>5, BatchesOfLines
  <1>9. /\ items \in [Items -> ItemType] /\ items[a] = r
        /\ \A d \in Items : d # a => items[d] = item[d]
    BY <1>4, <1>7 DEF IInv, Typed, DataTyped
  <1>10. l # None => u.pc = "recompute" /\ u.op = "none" /\ u.b = b /\ u.l = l /\ ~u.late
    BY <1>3 DEF About, Idle
  <1>11. u \in CallType /\ u.op # "generate"
    <2>1. CASE l = None
      BY <1>3, <2>1, IdleCall, Constants0
    <2>2. CASE l # None
      <3>1. b \in Nat /\ l \in Nat
        BY <1>7, <2>2, NoneAmong
      <3> QED
        BY <1>3, <2>2, <3>1 DEF About, Idle, CallType, None
    <2> QED
      BY <2>1, <2>2
  <1>12. LetsGo(s, B, A, items, u)
    <2>1. ASSUME ~t.late, NEW d \in B \ doubtful
          PROVE  Open(d) /\ item[a].line \in Awaiting(u) \cup {None}
      <3>1. item[a].line = l /\ d \in BatchOf(l) /\ l # None
        BY <1>5, <1>7, <2>1, BatchesOfLines
      <3>2. d = b
        BY <1>7, <3>1 DEF BatchOf, Kept
      <3> QED
        BY <1>7, <1>10, <2>1, <3>1, <3>2 DEF Awaiting
    <2> QED
      BY <1>1, <1>2, <1>5, <1>7, <1>9, <2>1 DEF LetsGo
  <1>13. Call(u)'
    <2>1. CASE l = None
      BY <1>3, <2>1, IdleCall
    <2>2. CASE l # None
      <3>1. /\ Followed(batch, line)
            /\ doubtful' = IF t.late THEN doubtful \cup B ELSE doubtful
        BY <1>1, <1>6, Zenon DEF Commits
      <3>2. PICK D : D = doubtful'
        OBVIOUS
      <3>3. D \subseteq DOMAIN batch /\ doubtful \subseteq D
        BY <1>8, <3>1, <3>2 DEF IInv, Typed
      <3>4. Shown(batch, line, D)
        BY <3>1, <3>2, <3>3, FollowedIsShown DEF IInv, Typed, DataTyped
      <3>5. /\ DOMAIN batch' = DOMAIN batch /\ DOMAIN line' = DOMAIN line
            /\ line'[l].batch = line[l].batch /\ batch'[b].status = batch[b].status
            /\ batch'[b] \in BatchType /\ batch[b] \in BatchType
        BY <1>7, <2>2, <3>4, Rows, NoneAmong DEF Shown
      <3>6. Kept(l)' /\ b \notin doubtful' => ~t.late
        BY <1>5, <1>7, <2>2, <3>1, <3>5 DEF Kept, BatchOf
      <3>7. Open(b) => Open(b)'
        BY <3>5, BatchRow DEF Open, Live
      <3>8. Recomputes(u)'
        BY <1>7, <1>10, <2>2, <3>5, <3>6, <3>7 DEF Recomputes, HasLine
      <3> QED
        BY <1>10, <2>2, <3>8 DEF Call
    <2> QED
      BY <2>1, <2>2
  <1>14. txn[s].pc # "recompute"
    BY <1>1, <1>6
  <1> QED
    BY <1>6, <1>8, <1>11, <1>12, <1>13, <1>14, ItemMoves

LEMMA CorrectionMoves ==
    ASSUME NEW s \in Sessions, IInv,
           Unapprove(s) \/ (\E n \in Corrected : Update(s, n)) \/ DeleteItem(s)
    PROVE  Moves(s)
  <1>1. PICK t \in CallType : t = txn[s] /\ Call(t)
    BY NoneAmong
  <1>2. PICK a : a = t.item
    OBVIOUS
  <1>3. Correctable(s) /\ t.pc = "read" /\ t.op = "correct"
    BY <1>1 DEF Unapprove, Update, DeleteItem, Correctable, Ready
  <1>4. a \in Items /\ item[a].status # "NONE"
    BY <1>1, <1>2, <1>3 DEF Call, Corrects, HasItem
  <1>5. PICK q \in ItemType : q = item[a]
    BY <1>4, NoneAmong
  <1>6. CASE Unapprove(s)
    <2>1. PICK r : r = [[q EXCEPT !.status = "NEW"] EXCEPT !.line = None]
      OBVIOUS
    <2>2. PICK r1 : r1 = [q EXCEPT !.status = "NEW"]
      OBVIOUS
    <2>3. r1 \in ItemType /\ r1.status = "NEW"
      BY <2>2 DEF ItemType
    <2>4. r = [r1 EXCEPT !.line = None]
      BY <2>1, <2>2
    <2>5. r \in ItemType /\ r.status = "NEW" /\ r.line = None
      BY <2>3, <2>4 DEF ItemType, None
    <2>6. Correct(s, r)
      BY <1>1, <1>2, <1>5, <1>6, <2>1 DEF Unapprove
    <2> QED
      BY <1>1, <1>2, <1>3, <2>5, <2>6, CorrectMoves
  <1>7. ASSUME NEW n \in Corrected, Update(s, n) PROVE Moves(s)
    <2>1. PICK r : r = [q EXCEPT !.amount = n]
      OBVIOUS
    <2>2. r \in ItemType /\ r.status = q.status /\ r.line = q.line
      BY <2>1, BoundsAssumption DEF ItemType
    <2>3. Correct(s, r)
      BY <1>1, <1>2, <1>5, <1>7, <2>1 DEF Update
    <2> QED
      BY <1>1, <1>2, <1>3, <1>4, <1>5, <2>2, <2>3, CorrectMoves
  <1>8. CASE DeleteItem(s)
    <2>1. PICK r : r = [status |-> "GONE", amount |-> 0, line |-> None]
      OBVIOUS
    <2>2. r \in ItemType /\ r.status = "GONE" /\ r.line = None
      BY <2>1 DEF ItemType, None
    <2>3. Correct(s, r)
      BY <1>8, <2>1 DEF DeleteItem
    <2> QED
      BY <1>1, <1>2, <1>3, <2>2, <2>3, CorrectMoves
  <1> QED
    BY <1>6, <1>7, <1>8
\* Lines L are thrown away and their adjustments let go.
LEMMA Cut ==
    ASSUME IInv, NEW L, L \subseteq DOMAIN line,
           NEW lines, lines = Without(L), NEW items, items = Detached(L)
    PROVE  /\ lines \in Seq(LineType) /\ DOMAIN lines = DOMAIN line /\ Len(lines) = Len(line)
           /\ \A l \in DOMAIN line : /\ l \in L => lines[l] = Gone
                                     /\ l \notin L => lines[l] = line[l]
           /\ items \in [Items -> ItemType]
           /\ \A a \in Items :
                  /\ items[a].status = item[a].status /\ items[a].amount = item[a].amount
                  /\ item[a].line \in L => items[a].line = None
                  /\ item[a].line \notin L => items[a] = item[a]
  <1>1. line \in Seq(LineType) /\ item \in [Items -> ItemType]
    BY DEF IInv, Typed, DataTyped
  <1>2. /\ lines = [l \in DOMAIN line |-> lines[l]]
        /\ \A l \in DOMAIN line : /\ l \in L => lines[l] = Gone
                                  /\ l \notin L => lines[l] = line[l]
    BY DEF Without
  <1>3. \A l \in DOMAIN line : lines[l] \in LineType
    BY <1>2, NoneAmong DEF LineType
  <1>4. lines \in Seq(LineType) /\ DOMAIN lines = DOMAIN line /\ Len(lines) = Len(line)
    BY <1>1, <1>2, <1>3, Replaced
  <1>5. ASSUME NEW a \in Items
        PROVE  /\ items[a] \in ItemType
               /\ items[a].status = item[a].status /\ items[a].amount = item[a].amount
               /\ item[a].line \in L => items[a].line = None
               /\ item[a].line \notin L => items[a] = item[a]
    <2>1. PICK q \in ItemType : q = item[a]
      BY <1>1
    <2>2. PICK r : r = [q EXCEPT !.line = None]
      OBVIOUS
    <2>3. r \in ItemType /\ r.status = q.status /\ r.amount = q.amount /\ r.line = None
      BY <2>2 DEF ItemType, None
    <2>4. items[a] = IF q.line \in L THEN r ELSE q
      BY <2>1, <2>2 DEF Detached
    <2> QED
      BY <2>1, <2>3, <2>4
  <1>6. items \in [Items -> ItemType]
    BY <1>5 DEF Detached
  <1> QED
    BY <1>2, <1>4, <1>5, <1>6

LEMMA CutMoves ==
    ASSUME NEW s \in Sessions, IInv, NEW b \in DOMAIN batch, Open(b),
           NEW L, L \subseteq LinesIn(line, b), NEW batches, NEW lines, NEW items,
           lines = Without(L), items = Detached(L),
           txn[s].pc = "idle", Commits(s, {b}, Changed(items), batches, lines, items, Idle),
           \/ batches = [batch EXCEPT ![b] = Deleted] /\ L = LinesIn(line, b)
           \/ batches = Tallied(batch, lines, b)
    PROVE  Moves(s)
  <1>1. /\ batch \in Seq(BatchType) /\ line \in Seq(LineType) /\ item \in [Items -> ItemType]
        /\ batch[b] \in BatchType /\ batch[b] # Deleted /\ batch[b].status # "PAID"
        /\ b # None /\ Gone.batch = None
    BY NoneAmong, Constants0 DEF IInv, Typed, DataTyped, Open, Live
  <1>2. L \subseteq DOMAIN line
    BY DEF LinesIn
  <1>3. /\ lines \in Seq(LineType) /\ DOMAIN lines = DOMAIN line
        /\ \A l \in DOMAIN line : /\ l \in L => lines[l] = Gone
                                  /\ l \notin L => lines[l] = line[l]
        /\ items \in [Items -> ItemType]
        /\ \A a \in Items :
               /\ items[a].status = item[a].status /\ items[a].amount = item[a].amount
               /\ item[a].line \in L => items[a].line = None
               /\ item[a].line \notin L => items[a] = item[a]
    BY <1>2, Cut
  <1>4. /\ batches \in Seq(BatchType) /\ DOMAIN batches = DOMAIN batch
        /\ \A d \in DOMAIN batch : d # b => batches[d] = batch[d]
        /\ \/ batches[b] = Deleted /\ L = LinesIn(line, b)
           \/ /\ batches[b] # Deleted
              /\ batches[b].slot = batch[b].slot /\ batches[b].status = batch[b].status
              /\ batches[b].total = Amounts(lines, LinesIn(lines, b))
    <2>1. CASE batches = [batch EXCEPT ![b] = Deleted] /\ L = LinesIn(line, b)
      <3>1. /\ batches = [d \in DOMAIN batch |-> batches[d]]
            /\ batches[b] = Deleted
            /\ \A d \in DOMAIN batch : d # b => batches[d] = batch[d]
        BY <2>1
      <3>2. \A d \in DOMAIN batch : batches[d] \in BatchType
        BY <3>1, NoneAmong DEF BatchType
      <3> QED
        BY <1>1, <2>1, <3>1, <3>2, Replaced
    <2>2. CASE batches = Tallied(batch, lines, b)
      BY <1>1, <1>3, <2>2, TalliedRow
    <2> QED
      BY <2>1, <2>2
  <1>5. /\ \A l \in DOMAIN line : line[l].batch # None =>
                line[l].batch \in DOMAIN batch /\ batch[line[l].batch] # Deleted
        /\ \A a \in Items : item[a].line # None =>
               /\ item[a].line \in DOMAIN line
               /\ line[item[a].line].batch # None
               /\ line[item[a].line].staff = Owner[a]
        /\ \A a \in Items : item[a].status = "NONE" => item[a].line = None
    BY DEF IInv, Refers
  <1>6. Refers(batches, lines, items)
    <2>1. ASSUME NEW l \in DOMAIN lines, lines[l].batch # None
          PROVE  lines[l].batch \in DOMAIN batches /\ batches[lines[l].batch] # Deleted
      <3>1. l \notin L /\ lines[l] = line[l]
        BY <1>1, <1>3, <2>1
      <3>2. line[l].batch \in DOMAIN batch /\ batch[line[l].batch] # Deleted
        BY <1>3, <1>5, <2>1, <3>1
      <3> QED
        BY <1>3, <1>4, <3>1, <3>2 DEF LinesIn
    <2>2. ASSUME NEW a \in Items
          PROVE  /\ items[a].line # None =>
                       /\ items[a].line \in DOMAIN lines
                       /\ lines[items[a].line].batch # None
                       /\ lines[items[a].line].staff = Owner[a]
                 /\ items[a].status = "NONE" => items[a].line = None
      BY <1>3, <1>5
    <2> QED
      BY <2>1, <2>2 DEF Refers
  <1>7. Written({b}, Changed(items), batches, lines, items)
    <2>1. DataTyped(batches, lines, items)
      BY <1>3, <1>4 DEF DataTyped
    <2>2. \A l \in DOMAIN line :
              /\ line[l].batch \notin {b} => lines[l] = line[l]
              /\ lines[l].batch # None => lines[l].batch = line[l].batch /\ lines[l].staff = line[l].staff
      BY <1>1, <1>3 DEF LinesIn
    <2>3. \A a \in Items : /\ a \notin Changed(items) => items[a] = item[a]
                           /\ item[a].status # "NONE" => items[a].status # "NONE"
      BY <1>3 DEF Changed
    <2>4. \A a \in Items : \A k \in DOMAIN line : line[k].batch \notin {b} \cup {None} =>
              /\ items[a].line = k <=> item[a].line = k
              /\ item[a].line = k /\ item[a].status = "APPROVED" => items[a] = item[a]
      <3> SUFFICES ASSUME NEW a \in Items, NEW k \in DOMAIN line, line[k].batch \notin {b} \cup {None}
                   PROVE  /\ items[a].line = k <=> item[a].line = k
                          /\ item[a].line = k => items[a] = item[a]
        OBVIOUS
      <3>1. k \notin L /\ k # None
        BY NoneAmong DEF LinesIn
      <3> QED
        BY <1>3, <3>1
    <2>5. \A d \in DOMAIN batch :
              /\ d \notin {b} => batches[d] = batch[d]
              /\ batches[d] # Deleted => batch[d] # Deleted /\ batches[d].slot = batch[d].slot
      BY <1>1, <1>4
    <2> QED
      BY <1>3, <1>4, <1>6, <2>1, <2>2, <2>3, <2>4, <2>5 DEF Written
  <1>8. ASSUME b \notin doubtful, batches[b] # Deleted
        PROVE  AddsUp(batches, lines, items, b, Elsewhere(s) \cup Awaiting(Idle))
    <2>1. AddsUp(batch, line, item, b, Awaited)
      BY <1>1, <1>8 DEF IInv, Books, Live
    <2>2. Awaited = Elsewhere(s) \cup Awaiting(Idle)
      BY AwaitedSplit
    <2>3. ASSUME NEW k \in LinesIn(lines, b)
          PROVE  /\ k \in Awaited \/ LineAddsUp(lines, items, k)
                 /\ \A a \in LinkedTo(items, k) : items[a].status = "APPROVED"
                 /\ lines[k].paid = (batches[b].status = "PAID")
                 /\ \A j \in LinesIn(lines, b) : lines[j].staff = lines[k].staff => j = k
      <3>1. /\ k \in DOMAIN line /\ k \notin L /\ lines[k] = line[k] /\ k \in LinesIn(line, b)
            /\ k # None
        BY <1>1, <1>3, NoneAmong DEF LinesIn
      <3>2. \A j \in LinesIn(lines, b) : lines[j] = line[j] /\ j \in LinesIn(line, b)
        BY <1>1, <1>3 DEF LinesIn
      <3>3. /\ k \in Awaited \/ LineAddsUp(line, item, k)
            /\ \A a \in LinkedTo(item, k) : item[a].status = "APPROVED"
            /\ line[k].paid = (batch[b].status = "PAID")
            /\ \A j \in LinesIn(line, b) : line[j].staff = line[k].staff => j = k
        BY <2>1, <3>1 DEF AddsUp
      <3>4. LinkedTo(items, k) = LinkedTo(item, k)
        BY <1>3, <3>1 DEF LinkedTo
      <3>5. LinkedTo(item, k) \subseteq Items /\ \A a \in LinkedTo(item, k) : items[a] = item[a]
        BY <1>3, <3>1 DEF LinkedTo
      <3>6. Worth(items, LinkedTo(item, k)) = Worth(item, LinkedTo(item, k))
        BY <1>1, <1>3, <3>5, WorthSame
      <3>7. LineAddsUp(line, item, k) => LineAddsUp(lines, items, k)
        BY <3>1, <3>4, <3>6 DEF LineAddsUp
      <3> QED
        BY <1>4, <1>8, <3>1, <3>2, <3>3, <3>4, <3>5, <3>7
    <2> QED
      BY <1>4, <1>8, <2>2, <2>3 DEF AddsUp
  <1>9. /\ \A l \in Awaiting(txn[s]) : l \in DOMAIN line /\ line[l].batch \in {b} \cup {None}
        /\ {b} \subseteq DOMAIN batch
        /\ Idle \in CallType /\ Call(Idle)' /\ Idle.op # "generate"
    BY IdleCall, Constants0 DEF Awaiting
  <1>10. \A d \in {b} \ doubtful :
            /\ Open(d)
            /\ \/ batches[d] = Deleted
               \/ AddsUp(batches, lines, items, d, Elsewhere(s) \cup Awaiting(Idle))
    BY <1>8
  <1> QED
    BY <1>4, <1>7, <1>9, <1>10, CommitMoves

LEMMA DeleteMoves ==
    ASSUME NEW s \in Sessions, NEW b \in DOMAIN batch, IInv, Delete(s, b)
    PROVE  Moves(s)
  <1>1. PICK L, lines, items, batches :
            /\ L = LinesIn(line, b) /\ lines = Without(L) /\ items = Detached(L)
            /\ batches = [batch EXCEPT ![b] = Deleted]
    OBVIOUS
  <1>2. /\ Open(b) /\ txn[s].pc = "idle"
        /\ Commits(s, {b}, Changed(items), batches, lines, items, Idle)
    BY <1>1 DEF Delete, AtOnce, Lines
  <1> QED
    BY <1>1, <1>2, CutMoves

LEMMA RemoveMoves ==
    ASSUME NEW s \in Sessions, NEW l \in DOMAIN line, IInv, RemoveLine(s, l)
    PROVE  Moves(s)
  <1>1. PICK b : b = line[l].batch
    OBVIOUS
  <1>2. PICK L, lines, items, batches :
            /\ L = {l} /\ lines = Without(L) /\ items = Detached(L)
            /\ batches = Tallied(batch, lines, b)
    OBVIOUS
  <1>3. /\ Open(b) /\ txn[s].pc = "idle"
        /\ Commits(s, {b}, Changed(items), batches, lines, items, Idle)
    BY <1>1, <1>2 DEF RemoveLine, AtOnce
  <1>4. L \subseteq LinesIn(line, b) /\ b \in DOMAIN batch
    BY <1>1, <1>2, <1>3 DEF LinesIn, Open, Live
  <1> QED
    BY <1>2, <1>3, <1>4, CutMoves
LEMMA InOrder ==
    ASSUME NEW staff \in SUBSET Staff, NEW order, order = SetToSeq(staff)
    PROVE  \E n \in Nat :
               /\ order \in [1..n -> staff]
               /\ \A i, j \in 1..n : order[i] = order[j] => i = j
               /\ \A m \in staff : \E i \in 1..n : order[i] = m
  <1>1. PICK n : n = Cardinality(staff)
    OBVIOUS
  <1>2. IsFiniteSet(staff)
    BY FinitenessAssumption, FS_Subset
  <1>3. n \in Nat /\ ExistsBijection(1..n, staff)
    BY <1>1, <1>2, FS_CardinalityType
  <1>4. \E f \in [1..n -> staff] : IsInjective(f)
    BY <1>3 DEF ExistsBijection, Bijection, Injection
  <1>5. order \in [1..n -> staff] /\ IsInjective(order)
    BY <1>1, <1>4, Zenon DEF SetToSeq
  <1>6. order \in Injection(1..n, staff)
    BY <1>5 DEF Injection
  <1>7. Cardinality(1..n) = n
    BY <1>3, FS_Interval
  <1>8. order \in Surjection(1..n, staff)
    BY <1>1, <1>2, <1>6, <1>7, FS_Injection
  <1> QED
    BY <1>3, <1>5, <1>8 DEF IsInjective, Surjection

LEMMA RebuildMoves ==
    ASSUME NEW s \in Sessions, IInv, NEW b, NEW batches, NEW staff \in SUBSET Staff,
           Rebuild(s, b, batches, staff), txn[s].pc = "read",
           \/ b \in DOMAIN batch /\ Live(b) /\ batches = batch /\ (~txn[s].late => Open(b))
           \/ /\ txn[s].op = "generate" /\ txn[s].b = None
              /\ b = Len(batch) + 1
              /\ batches = Append(batch, [slot |-> txn[s].slot, status |-> "DRAFT", total |-> 0])
    PROVE  Moves(s)
  <1>1. PICK L, lines0, items0, order, N :
            /\ L = Lines(b) /\ lines0 = Without(L) /\ items0 = Detached(L)
            /\ order = SetToSeq(staff) /\ N = Len(line)
    OBVIOUS
  <1>2. PICK fresh, swept :
            /\ fresh = FreshLines(b, items0, order)
            /\ swept = Swept(items0, staff)
    OBVIOUS
  <1>3. PICK items : items = Hung(items0, swept, order, N)
    OBVIOUS
  <1>4. PICK lines : lines = lines0 \o fresh
    OBVIOUS
  <1>5. PICK tallied, A, D :
            /\ tallied = Tallied(batches, lines, b)
            /\ A = swept \cup Changed(items0)
            /\ D = IF txn[s].late THEN doubtful \cup {b} ELSE doubtful \ {b}
    OBVIOUS
  <1>6. /\ txn' = After(s, {b}, A, Idle) /\ item' = items /\ doubtful' = D
        /\ Followed(tallied, lines)
    BY <1>1, <1>2, <1>3, <1>4, <1>5 DEF Rebuild
  <1>7. PICK M \in Nat :
            /\ order \in [1..M -> staff]
            /\ \A i, j \in 1..M : order[i] = order[j] => i = j
            /\ \A m \in staff : \E i \in 1..M : order[i] = m
    BY <1>1, InOrder
  <1>8. /\ batch \in Seq(BatchType) /\ line \in Seq(LineType) /\ item \in [Items -> ItemType]
        /\ doubtful \subseteq DOMAIN batch
        /\ N \in Nat /\ DOMAIN line = 1..N /\ None = 0
    BY <1>1, Rows, Constants0 DEF IInv, Typed, DataTyped
  <1>9. L = LinesIn(line, b) /\ L \subseteq DOMAIN line
    BY <1>1 DEF Lines, LinesIn
  <1>10. /\ lines0 \in Seq(LineType) /\ Len(lines0) = N
         /\ \A l \in DOMAIN line : /\ l \in L => lines0[l] = Gone
                                   /\ l \notin L => lines0[l] = line[l]
         /\ items0 \in [Items -> ItemType]
         /\ \A a \in Items :
                /\ items0[a].status = item[a].status /\ items0[a].amount = item[a].amount
                /\ item[a].line \in L => items0[a].line = None
                /\ item[a].line \notin L => items0[a] = item[a]
    BY <1>1, <1>9, Cut
  <1>11. /\ batches \in Seq(BatchType) /\ b \in DOMAIN batches /\ batches[b] # Deleted
         /\ DOMAIN batches = DOMAIN batch \cup {b} /\ b \in Nat \ {0}
         /\ \A d \in DOMAIN batch : batches[d] = batch[d]
         /\ b \notin DOMAIN batch => /\ txn[s].op = "generate" /\ txn[s].b = None
                                     /\ batches[b].slot = txn[s].slot
         /\ ~txn[s].late => batches[b].status # "PAID" /\ (b \in DOMAIN batch => Open(b))
    <2>1. CASE b \in DOMAIN batch /\ Live(b) /\ batches = batch /\ (~txn[s].late => Open(b))
      BY <1>8, <2>1, NoneAmong DEF Live, Open
    <2>2. CASE /\ txn[s].op = "generate" /\ txn[s].b = None
               /\ b = Len(batch) + 1
               /\ batches = Append(batch, [slot |-> txn[s].slot, status |-> "DRAFT", total |-> 0])
      <3>1. PICK r : r = [slot |-> txn[s].slot, status |-> "DRAFT", total |-> 0]
        OBVIOUS
      <3>2. txn[s].slot \in Slots
        BY <2>2, NoneAmong DEF Call, Generates
      <3>3. r \in BatchType /\ r # Deleted /\ r.slot = txn[s].slot /\ r.status = "DRAFT"
        BY <3>1, <3>2 DEF BatchType, Deleted, Statuses
      <3>4. Len(batch) \in Nat /\ DOMAIN batch = 1..Len(batch)
        BY <1>8, Rows
      <3>5. /\ batches \in Seq(BatchType) /\ Len(batches) = Len(batch) + 1
            /\ batches[b] = r
            /\ \A d \in DOMAIN batch : batches[d] = batch[d]
        BY <1>8, <2>2, <3>1, <3>3, AppendProperties
      <3>6. DOMAIN batches = 1..(Len(batch) + 1)
        BY <3>5, Rows
      <3> QED
        BY <2>2, <3>3, <3>4, <3>5, <3>6
    <2> QED
      BY <2>1, <2>2
  <1>12. ASSUME NEW m \in Staff
         PROVE  /\ Pending(items0, m) \subseteq Items
                /\ Worth(items0, Pending(items0, m)) \in Nat
    BY <1>10, WorthSame DEF Pending
  <1>13. /\ fresh \in Seq(LineType) /\ Len(fresh) = M
         /\ \A i \in 1..M :
                /\ fresh[i].batch = b /\ fresh[i].staff = order[i] /\ fresh[i].base = Base
                /\ fresh[i].paid = FALSE
                /\ fresh[i].amount = Base + Worth(items0, Pending(items0, order[i]))
    <2>1. /\ fresh = [i \in 1..M |-> fresh[i]]
          /\ \A i \in 1..M : fresh[i] =
                 [batch |-> b, staff |-> order[i], base |-> Base, paid |-> FALSE,
                  amount |-> Base + Worth(items0, Pending(items0, order[i]))]
      BY <1>2, <1>7 DEF FreshLines
    <2>2. ASSUME NEW i \in 1..M PROVE fresh[i] \in LineType
      <3>1. order[i] \in Staff /\ Base \in Nat
        BY <1>7, BoundsAssumption
      <3>2. PICK w \in Nat : w = Worth(items0, Pending(items0, order[i]))
        BY <1>12, <3>1
      <3>3. PICK n \in Nat : n = Base + w
        BY <3>1, <3>2
      <3>4. fresh[i] = [batch |-> b, staff |-> order[i], base |-> Base, paid |-> FALSE, amount |-> n]
        BY <2>1, <3>2, <3>3
      <3>5. b \in Nat \ {0} /\ Base <= n /\ FALSE \in BOOLEAN
        BY <1>11, <3>1, <3>2, <3>3
      <3> QED
        BY <3>1, <3>4, <3>5 DEF LineType
    <2>3. fresh \in [1..M -> LineType]
      BY <2>1, <2>2
    <2>4. fresh \in Seq(LineType) /\ Len(fresh) = M
      BY <1>7, <2>3
    <2> QED
      BY <2>1, <2>4
  <1>14. /\ lines \in Seq(LineType) /\ DOMAIN lines = 1..(N + M)
         /\ \A l \in DOMAIN line : lines[l] = lines0[l] /\ l \in DOMAIN lines
         /\ \A i \in 1..M : lines[N + i] = fresh[i] /\ N + i \in DOMAIN lines /\ N + i \notin DOMAIN line
         /\ \A l \in DOMAIN lines \ DOMAIN line : \E i \in 1..M : l = N + i
    <2>1. /\ lines \in Seq(LineType) /\ Len(lines) = N + M
          /\ \A i \in 1..(N + M) : lines[i] = IF i <= N THEN lines0[i] ELSE fresh[i - N]
      <3>1. lines0 \in Seq(LineType) /\ fresh \in Seq(LineType)
        BY <1>10, <1>13
      <3>2. /\ lines0 \o fresh \in Seq(LineType)
            /\ Len(lines0 \o fresh) = Len(lines0) + Len(fresh)
            /\ \A i \in 1..(Len(lines0) + Len(fresh)) :
                   (lines0 \o fresh)[i] = IF i <= Len(lines0) THEN lines0[i] ELSE fresh[i - Len(lines0)]
        BY <3>1, ConcatProperties
      <3> QED
        BY <1>4, <1>10, <1>13, <3>2
    <2>2. DOMAIN lines = 1..(N + M)
      BY <2>1, Rows
    <2>3. ASSUME NEW i \in 1..M
          PROVE  lines[N + i] = fresh[i] /\ N + i \in DOMAIN lines /\ N + i \notin DOMAIN line
      <3>1. N + i \in 1..(N + M) /\ ~(N + i <= N) /\ (N + i) - N = i /\ N + i \notin 1..N
        BY <1>7, <1>8
      <3> QED
        BY <1>8, <2>1, <2>2, <3>1
    <2>4. ASSUME NEW l \in DOMAIN lines \ DOMAIN line
          PROVE  \E i \in 1..M : l = N + i
      <3>1. l - N \in 1..M /\ l = N + (l - N)
        BY <1>7, <1>8, <2>2
      <3> QED
        BY <3>1
    <2>5. \A l \in DOMAIN line : lines[l] = lines0[l] /\ l \in DOMAIN lines
      BY <1>7, <1>8, <2>1, <2>2
    <2> QED
      BY <2>1, <2>2, <2>3, <2>4, <2>5
  <1>15. /\ tallied \in Seq(BatchType) /\ DOMAIN tallied = DOMAIN batches
         /\ tallied[b].slot = batches[b].slot /\ tallied[b].status = batches[b].status
         /\ tallied[b].total = Amounts(lines, LinesIn(lines, b))
         /\ tallied[b] # Deleted
         /\ \A d \in DOMAIN batches : d # b => tallied[d] = batches[d]
    BY <1>5, <1>11, <1>14, TalliedRow
  <1>16. \A a \in Items : a \in swept <=> /\ Owner[a] \in staff /\ items0[a].line = None
                                          /\ items0[a].status = "APPROVED"
    BY <1>2 DEF Swept, Pending
  <1>17. /\ items \in [Items -> ItemType]
         /\ \A a \in Items :
                /\ items[a].status = items0[a].status /\ items[a].amount = items0[a].amount
                /\ a \notin swept => items[a] = items0[a]
                /\ a \in swept => \E i \in 1..M : order[i] = Owner[a] /\ items[a].line = N + i
    <2>1. ASSUME NEW a \in Items
          PROVE  /\ items[a] \in ItemType
                 /\ items[a].status = items0[a].status /\ items[a].amount = items0[a].amount
                 /\ a \notin swept => items[a] = items0[a]
                 /\ a \in swept => \E i \in 1..M : order[i] = Owner[a] /\ items[a].line = N + i
      <3>1. CASE a \notin swept
        BY <1>3, <1>10, <3>1 DEF Hung
      <3>2. CASE a \in swept
        <4>1. PICK i : i = CHOOSE j \in DOMAIN order : order[j] = Owner[a]
          OBVIOUS
        <4>2. i \in 1..M /\ order[i] = Owner[a]
          BY <1>7, <1>16, <3>2, <4>1
        <4>3. PICK q \in ItemType : q = items0[a]
          BY <1>10
        <4>4. PICK k : k = N + i
          OBVIOUS
        <4>5. k \in Nat
          BY <1>7, <1>8, <4>2, <4>4
        <4>6. PICK r : r = [q EXCEPT !.line = k]
          OBVIOUS
        <4>7. r \in ItemType /\ r.line = k /\ r.status = q.status /\ r.amount = q.amount
          BY <4>5, <4>6 DEF ItemType
        <4>8. items[a] = r
          BY <1>3, <3>2, <4>1, <4>3, <4>4, <4>6 DEF Hung
        <4> QED
          BY <3>2, <4>2, <4>3, <4>4, <4>7, <4>8
      <3> QED
        BY <3>1, <3>2
    <2>2. items = [a \in Items |-> items[a]]
      BY <1>3 DEF Hung
    <2> QED
      BY <2>1, <2>2
  <1>18. /\ \A l \in DOMAIN line : line[l].batch # None =>
                line[l].batch \in DOMAIN batch /\ batch[line[l].batch] # Deleted
         /\ \A a \in Items : item[a].line # None =>
                /\ item[a].line \in DOMAIN line
                /\ line[item[a].line].batch # None
                /\ line[item[a].line].staff = Owner[a]
         /\ \A a \in Items : item[a].status = "NONE" => item[a].line = None
    BY DEF IInv, Refers
  <1>19. /\ \A l \in DOMAIN line : /\ line[l].batch = b => lines[l] = Gone
                                   /\ line[l].batch # b => lines[l] = line[l]
         /\ Gone.batch = None
    BY <1>9, <1>10, <1>14, Constants0 DEF LinesIn
  <1>20. \A a \in Items : items0[a].line = None \/ (items0[a] = item[a] /\ item[a].line \notin L)
    BY <1>10
  <1>21. Refers(tallied, lines, items)
    <2>1. ASSUME NEW l \in DOMAIN lines, lines[l].batch # None
          PROVE  lines[l].batch \in DOMAIN tallied /\ tallied[lines[l].batch] # Deleted
      <3>1. CASE l \in DOMAIN line
        <4>1. lines[l] = line[l] /\ line[l].batch # b
          BY <1>19, <2>1, <3>1
        <4>2. line[l].batch \in DOMAIN batch /\ batch[line[l].batch] # Deleted
          BY <1>18, <2>1, <3>1, <4>1
        <4> QED
          BY <1>11, <1>15, <4>1, <4>2
      <3>2. CASE l \notin DOMAIN line
        <4>1. lines[l].batch = b
          BY <1>13, <1>14, <3>2
        <4> QED
          BY <1>11, <1>15, <4>1
      <3> QED
        BY <3>1, <3>2
    <2>2. ASSUME NEW a \in Items
          PROVE  /\ items[a].line # None =>
                       /\ items[a].line \in DOMAIN lines
                       /\ lines[items[a].line].batch # None
                       /\ lines[items[a].line].staff = Owner[a]
                 /\ items[a].status = "NONE" => items[a].line = None
      <3>1. CASE a \in swept
        <4>1. PICK i \in 1..M : order[i] = Owner[a] /\ items[a].line = N + i
          BY <1>17, <3>1
        <4>2. /\ lines[N + i].batch = b /\ lines[N + i].staff = Owner[a] /\ N + i \in DOMAIN lines
          BY <1>13, <1>14, <4>1
        <4>3. items[a].status = "APPROVED" /\ b # None
          BY <1>8, <1>11, <1>16, <1>17, <3>1
        <4> QED
          BY <4>1, <4>2, <4>3
      <3>2. CASE a \notin swept
        <4>1. items[a] = items0[a] /\ items0[a].status = item[a].status
          BY <1>10, <1>17, <3>2
        <4>2. CASE items0[a].line = None
          BY <4>1, <4>2
        <4>3. CASE items0[a].line # None
          <5>1. items[a] = item[a] /\ item[a].line # None /\ item[a].line \notin L
            BY <1>20, <4>1, <4>3
          <5>2. /\ item[a].line \in DOMAIN line /\ line[item[a].line].batch # None
                /\ line[item[a].line].staff = Owner[a]
            BY <1>18, <5>1
          <5>3. lines[item[a].line] = line[item[a].line]
            BY <1>9, <1>19, <5>1, <5>2 DEF LinesIn
          <5> QED
            BY <1>14, <1>18, <5>1, <5>2, <5>3
        <4> QED
          BY <4>2, <4>3
      <3> QED
        BY <3>1, <3>2
    <2> QED
      BY <2>1, <2>2 DEF Refers
  <1>22. Written({b}, A, tallied, lines, items)
    <2>1. DataTyped(tallied, lines, items)
      BY <1>14, <1>15, <1>17 DEF DataTyped
    <2>2. \A l \in DOMAIN line :
              /\ line[l].batch \notin {b} => lines[l] = line[l]
              /\ lines[l].batch # None => lines[l].batch = line[l].batch /\ lines[l].staff = line[l].staff
      BY <1>19
    <2>3. \A l \in DOMAIN lines \ DOMAIN line : lines[l].batch \in {b} \cup {None}
      BY <1>13, <1>14
    <2>4. ASSUME NEW a \in Items
          PROVE  /\ a \notin A => items[a] = item[a]
                 /\ item[a].status # "NONE" => items[a].status # "NONE"
      BY <1>5, <1>10, <1>17 DEF Changed
    <2>5. ASSUME NEW a \in Items, NEW k \in DOMAIN line, line[k].batch \notin {b} \cup {None}
          PROVE  /\ items[a].line = k <=> item[a].line = k
                 /\ item[a].line = k /\ item[a].status = "APPROVED" => items[a] = item[a]
      <3>1. k \notin L /\ k # None
        BY <1>9, <2>5, NoneAmong DEF LinesIn
      <3>2. CASE a \in swept
        <4>1. items0[a].line = None /\ item[a].line # k
          BY <1>10, <1>16, <3>1, <3>2
        <4>2. items[a].line # k
          BY <1>14, <1>17, <3>2
        <4> QED
          BY <4>1, <4>2
      <3>3. CASE a \notin swept
        BY <1>10, <1>17, <3>1, <3>3
      <3> QED
        BY <3>2, <3>3
    <2>6. \A d \in DOMAIN batch :
              /\ d \notin {b} => tallied[d] = batch[d]
              /\ tallied[d] # Deleted => batch[d] # Deleted /\ tallied[d].slot = batch[d].slot
      BY <1>11, <1>15
    <2>7. DOMAIN batch \subseteq DOMAIN tallied /\ DOMAIN tallied \ DOMAIN batch \subseteq {b}
      BY <1>11, <1>15
    <2>8. DOMAIN line \subseteq DOMAIN lines
      BY <1>14
    <2> QED
      BY <1>21, <2>1, <2>2, <2>3, <2>4, <2>5, <2>6, <2>7, <2>8 DEF Written
  <1>23. ASSUME NEW k \in LinesIn(lines, b)
         PROVE  /\ LineAddsUp(lines, items, k)
                /\ \A a \in LinkedTo(items, k) : items[a].status = "APPROVED"
                /\ lines[k].paid = FALSE
                /\ \A j \in LinesIn(lines, b) : lines[j].staff = lines[k].staff => j = k
    <2>1. ASSUME NEW j \in LinesIn(lines, b)
          PROVE  \E i \in 1..M : j = N + i /\ lines[j] = fresh[i]
      <3>1. j \in DOMAIN lines /\ lines[j].batch = b
        BY DEF LinesIn
      <3>2. j \notin DOMAIN line
        BY <1>8, <1>11, <1>19, <3>1
      <3> QED
        BY <1>14, <3>1, <3>2
    <2>2. PICK i \in 1..M : k = N + i /\ lines[k] = fresh[i]
      BY <2>1
    <2>3. LinkedTo(items, k) = Pending(items0, order[i])
      <3>1. ASSUME NEW a \in Items, items[a].line = k PROVE a \in Pending(items0, order[i])
        <4>1. a \in Items /\ a \in swept
          <5> SUFFICES ASSUME a \notin swept PROVE FALSE
            OBVIOUS
          <5>1. items[a] = items0[a]
            BY <1>17
          <5>2. k # None /\ k \notin DOMAIN line
            BY <1>7, <1>8, <1>14, <2>2
          <5> QED
            BY <1>18, <1>20, <3>1, <5>1, <5>2
        <4>2. PICK j \in 1..M : order[j] = Owner[a] /\ items[a].line = N + j
          BY <1>17, <4>1
        <4>3. j = i
          BY <1>7, <1>8, <2>2, <3>1, <4>2
        <4> QED
          BY <1>16, <4>1, <4>2, <4>3 DEF Pending
      <3>2. ASSUME NEW a \in Pending(items0, order[i]) PROVE a \in Items /\ items[a].line = k
        <4>1. /\ a \in Items /\ Owner[a] = order[i] /\ items0[a].line = None
              /\ items0[a].status = "APPROVED"
          BY DEF Pending
        <4>2. a \in Items /\ a \in swept
          BY <1>7, <1>16, <4>1
        <4>3. PICK j \in 1..M : order[j] = Owner[a] /\ items[a].line = N + j
          BY <1>17, <4>2
        <4>4. j = i
          BY <1>7, <4>1, <4>3
        <4> QED
          BY <2>2, <4>1, <4>3, <4>4
      <3> QED
        BY <3>1, <3>2 DEF LinkedTo, Pending
    <2>4. order[i] \in Staff
      BY <1>7
    <2>5. Worth(items, Pending(items0, order[i])) = Worth(items0, Pending(items0, order[i]))
      <3>1. Pending(items0, order[i]) \subseteq Items
        BY <1>12, <2>4
      <3>2. \A a \in Pending(items0, order[i]) : items[a].amount = items0[a].amount
        BY <1>17, <3>1
      <3> QED
        BY <1>10, <1>17, <3>1, <3>2, WorthSame
    <2>6. /\ fresh[i].base = Base /\ fresh[i].paid = FALSE /\ fresh[i].staff = order[i]
          /\ fresh[i].amount = Base + Worth(items0, Pending(items0, order[i]))
      BY <1>13
    <2>7. LineAddsUp(lines, items, k)
      BY <2>2, <2>3, <2>5, <2>6 DEF LineAddsUp
    <2>8. \A a \in LinkedTo(items, k) : items[a].status = "APPROVED"
      BY <1>17, <2>3 DEF Pending
    <2>9. \A j \in LinesIn(lines, b) : lines[j].staff = lines[k].staff => j = k
      BY <1>7, <1>13, <2>1, <2>2
    <2> QED
      BY <2>2, <2>6, <2>7, <2>8, <2>9
  <1>24. ~txn[s].late => AddsUp(tallied, lines, items, b, {})
    <2> SUFFICES ASSUME ~txn[s].late PROVE AddsUp(tallied, lines, items, b, {})
      OBVIOUS
    <2>1. (tallied[b].status = "PAID") = FALSE
      BY <1>11, <1>15
    <2>2. ASSUME NEW k \in LinesIn(lines, b)
          PROVE  /\ k \in {} \/ LineAddsUp(lines, items, k)
                 /\ \A a \in LinkedTo(items, k) : items[a].status = "APPROVED"
                 /\ lines[k].paid = (tallied[b].status = "PAID")
                 /\ \A j \in LinesIn(lines, b) : lines[j].staff = lines[k].staff => j = k
      BY <1>23, <2>1
    <2> QED
      BY <1>15, <2>2 DEF AddsUp
  <1>25. /\ \A d \in doubtful : d \in {b} \/ d \in D
         /\ D \subseteq DOMAIN tallied /\ {b} \subseteq DOMAIN tallied
         /\ txn[s].late => b \in D
    BY <1>5, <1>8, <1>11, <1>15
  <1>26. Keeps(s, {b}, tallied, lines, items, D, Idle)
    <2>1. \A d \in {b} \cap DOMAIN batch : d \in D \/ Open(d)
      BY <1>11, <1>25
    <2>2. \A d \in {b} : d \in D \/ tallied[d] = Deleted
                         \/ \E W : W \subseteq Awaited' /\ AddsUp(tallied, lines, items, d, W)
      BY <1>24, <1>25
    <2>3. Awaiting(txn[s]) = {}
      BY DEF Awaiting
    <2> QED
      BY <1>25, <2>1, <2>2, <2>3 DEF Keeps
  <1>27. Shown(tallied, lines, D)
    BY <1>6, <1>14, <1>15, <1>25, FollowedIsShown
  <1>28. Fills(s, tallied)
    BY <1>11, <1>15 DEF Fills
  <1>29. Marked(s, {b}, A, Idle)
    BY <1>6, IdleCall, AfterMarks
  <1>30. Steps(s, {b}, A, tallied, lines, items, D, Idle)
    BY <1>6, <1>22, <1>26, <1>27, <1>28, <1>29, IdleCall, Constants0 DEF Steps
  <1> QED
    BY <1>30 DEF Moves
LEMMA GenerateCommitMoves ==
    ASSUME NEW s \in Sessions, IInv, GenerateCommit(s)
    PROVE  Moves(s)
  <1>1. PICK t \in CallType : t = txn[s] /\ Call(t)
    BY NoneAmong
  <1>2. PICK staff, row :
            /\ staff = Covers[t.slot]
            /\ row = [slot |-> t.slot, status |-> "DRAFT", total |-> 0]
    OBVIOUS
  <1>3. /\ t.pc = "read" /\ t.op = "generate"
        /\ \/ t.b = None /\ Rebuild(s, Len(batch) + 1, Append(batch, row), staff)
           \/ Live(t.b) /\ Rebuild(s, t.b, batch, staff)
    BY <1>1, <1>2, Zenon DEF GenerateCommit, Ready
  <1>4. Generates(t)
    BY <1>1, <1>3 DEF Call
  <1>5. staff \in SUBSET Staff
    BY <1>2, <1>4, SlotsAssumption DEF Generates
  <1>6. CASE t.b = None /\ Rebuild(s, Len(batch) + 1, Append(batch, row), staff)
    BY <1>1, <1>2, <1>3, <1>5, <1>6, RebuildMoves
  <1>7. CASE Live(t.b) /\ Rebuild(s, t.b, batch, staff)
    <2>1. t.b \in DOMAIN batch /\ t.b # None
      BY <1>7, NoneAmong DEF Live
    <2>2. ~t.late => Open(t.b)
      BY <1>4, <2>1 DEF Generates
    <2> QED
      BY <1>1, <1>3, <1>5, <1>7, <2>1, <2>2, RebuildMoves
  <1> QED
    BY <1>3, <1>6, <1>7

LEMMA RecalculateCommitMoves ==
    ASSUME NEW s \in Sessions, IInv, RecalculateCommit(s)
    PROVE  Moves(s)
  <1>1. PICK t \in CallType : t = txn[s] /\ Call(t)
    BY NoneAmong
  <1>2. PICK staff : staff = IF t.slot \in Departments THEN Covers[t.slot] ELSE {}
    OBVIOUS
  <1>3. t.pc = "read" /\ t.op = "recalculate" /\ Live(t.b) /\ Rebuild(s, t.b, batch, staff)
    BY <1>1, <1>2, Zenon DEF RecalculateCommit, Ready
  <1>4. Recalculates(t)
    BY <1>1, <1>3 DEF Call
  <1>5. staff \in SUBSET Staff
    BY <1>2, <1>4, SlotsAssumption DEF Recalculates
  <1>6. t.b \in DOMAIN batch /\ (~t.late => Open(t.b))
    BY <1>4 DEF Recalculates
  <1> QED
    BY <1>1, <1>3, <1>5, <1>6, RebuildMoves

LEMMA NextMoves ==
    ASSUME IInv, Next
    PROVE  \E s \in Sessions : Moves(s)
  <1>1. PICK s \in Sessions : Starting(s) \/ GoingOn(s)
    BY DEF Next
  <1>2. CASE Starting(s)
    <2>1. \/ \E slot \in Slots : GenerateRead(s, slot)
          \/ \E b \in DOMAIN batch :
                RecalculateRead(s, b) \/ SubmitRead(s, b) \/ Approve(s, b) \/ Reject(s, b)
                   \/ Pay(s, b) \/ Delete(s, b)
          \/ \E l \in DOMAIN line : EditRead(s, l) \/ RemoveLine(s, l)
          \/ \E a \in Items : (\E n \in Earned : CreateItem(s, a, n)) \/ ApproveItem(s, a)
                               \/ CorrectRead(s, a)
      BY <1>2 DEF Starting
    <2>2. CASE \E slot \in Slots : GenerateRead(s, slot)
      BY <2>2, GenerateReadMoves
    <2>3. CASE \E b \in DOMAIN batch :
                  RecalculateRead(s, b) \/ SubmitRead(s, b) \/ Approve(s, b) \/ Reject(s, b)
                     \/ Pay(s, b) \/ Delete(s, b)
      BY <2>3, RecalculateReadMoves, SubmitReadMoves, PayMoves, DeleteMoves
    <2>4. CASE \E l \in DOMAIN line : EditRead(s, l) \/ RemoveLine(s, l)
      BY <2>4, EditReadMoves, RemoveMoves
    <2>5. CASE \E a \in Items : (\E n \in Earned : CreateItem(s, a, n)) \/ ApproveItem(s, a)
                                \/ CorrectRead(s, a)
      BY <2>5, CreateMoves, ApproveItemMoves, CorrectReadMoves
    <2> QED
      BY <2>1, <2>2, <2>3, <2>4, <2>5
  <1>3. CASE GoingOn(s)
    <2>1. \/ GenerateCommit(s) \/ RecalculateCommit(s) \/ SubmitCommit(s)
          \/ (\E a \in Items, n \in Earned : AddCommit(s, a, n))
          \/ (\E n \in Corrected : OverrideCommit(s, n))
          \/ AbsorbRead(s) \/ AbsorbCommit(s) \/ Recompute(s)
          \/ Unapprove(s) \/ (\E n \in Corrected : Update(s, n)) \/ DeleteItem(s)
          \/ Rollback(s)
      BY <1>3 DEF GoingOn, Writing
    <2>2. CASE GenerateCommit(s) \/ RecalculateCommit(s) \/ SubmitCommit(s)
      BY <2>2, GenerateCommitMoves, RecalculateCommitMoves, SubmitMoves
    <2>3. CASE (\E a \in Items, n \in Earned : AddCommit(s, a, n))
               \/ (\E n \in Corrected : OverrideCommit(s, n))
      BY <2>3, AddMoves, OverrideMoves
    <2>4. CASE AbsorbRead(s) \/ AbsorbCommit(s) \/ Recompute(s)
      BY <2>4, AbsorbReadMoves, AbsorbMoves, RecomputeMoves
    <2>5. CASE Unapprove(s) \/ (\E n \in Corrected : Update(s, n)) \/ DeleteItem(s)
      BY <2>5, CorrectionMoves
    <2>6. CASE Rollback(s)
      BY <2>6, RollbackMoves
    <2> QED
      BY <2>1, <2>2, <2>3, <2>4, <2>5, <2>6
  <1> QED
    BY <1>1, <1>2, <1>3

------------------------------------------------------------------------------
LEMMA InitInvariant ==
    ASSUME Init
    PROVE  IInv
  <1>1. batch = <<>> /\ line = <<>> /\ doubtful = {}
    BY DEF Init
  <1>2. DOMAIN batch = {} /\ DOMAIN line = {}
    BY <1>1
  <1>3. PICK r : r = [status |-> "NONE", amount |-> 0, line |-> None]
    OBVIOUS
  <1>4. r \in ItemType /\ r.line = None
    BY <1>3 DEF ItemType, None
  <1>5. item \in [Items -> ItemType] /\ \A a \in Items : item[a].line = None
    BY <1>3, <1>4 DEF Init
  <1>6. Idle \in CallType /\ Idle.pc = "idle" /\ Idle.op = "none"
    BY DEF Idle, CallType, None
  <1>7. txn \in [Sessions -> CallType] /\ \A s \in Sessions : txn[s] = Idle
    BY <1>6 DEF Init
  <1>8. Typed
    BY <1>1, <1>2, <1>5, <1>7 DEF Typed, DataTyped
  <1>9. Refers(batch, line, item)
    BY <1>2, <1>5 DEF Refers
  <1>10. \A s \in Sessions : Call(txn[s])
    BY <1>6, <1>7 DEF Call
  <1>11. SlotsLocked
    BY <1>6, <1>7 DEF SlotsLocked
  <1>12. OneBatchPerSlot /\ Books
    BY <1>2 DEF OneBatchPerSlot, Books
  <1> QED
    BY <1>8, <1>9, <1>10, <1>11, <1>12 DEF IInv

LEMMA Stutters ==
    ASSUME IInv, UNCHANGED vars
    PROVE  IInv'
  <1>1. UNCHANGED <<batch, line, item, txn, doubtful>>
    BY DEF vars
  <1>2. Typed' /\ Refers(batch, line, item)'
    BY <1>1 DEF IInv, Typed, DataTyped, Refers
  <1>3. (\A s \in Sessions : Call(txn[s]))'
    BY <1>1 DEF IInv, Call, Recomputes, Generates, Recalculates, Submits, Edits, Absorbs, Corrects,
                HasLine, HasItem, Live, Open, Kept
  <1>4. SlotsLocked' /\ OneBatchPerSlot'
    BY <1>1 DEF IInv, SlotsLocked, OneBatchPerSlot, Live
  <1>5. Books'
    <2>1. PICK bs, ls, items, D, calls, W :
              /\ bs = batch' /\ ls = line' /\ items = item' /\ D = doubtful' /\ calls = txn'
              /\ W = Awaited'
      OBVIOUS
    <2>2. W = Awaited
      BY <1>1, <2>1 DEF Awaited, Awaiting
    <2>3. bs = batch /\ ls = line /\ items = item /\ D = doubtful
      BY <1>1, <2>1
    <2> SUFFICES ASSUME NEW b \in DOMAIN bs \ D, bs[b] # Deleted PROVE AddsUp(bs, ls, items, b, W)
      BY <2>1 DEF Books, Live
    <2> QED
      BY <2>2, <2>3 DEF IInv, Books, Live
  <1> QED
    BY <1>2, <1>3, <1>4, <1>5 DEF IInv

LEMMA Preserved ==
    ASSUME IInv, [Next]_vars
    PROVE  IInv'
  <1>1. CASE Next
    BY <1>1, NextMoves, StepKeeps DEF Moves
  <1>2. CASE UNCHANGED vars
    BY <1>2, Stutters
  <1> QED
    BY <1>1, <1>2

LEMMA Invariant == Spec => []IInv
  BY InitInvariant, Preserved, PTL DEF Spec

\* Rows keep their types, and the foreign keys never find an orphan: a line belongs to a
\* batch that still exists and an adjustment to a line of its owner, whatever was deleted,
\* rebuilt or absorbed meanwhile by calls that read the rows before.
THEOREM PayrollTyped == Spec => []TypeOK
  <1>1. ASSUME IInv PROVE TypeOK
    <2>1. \A b \in DOMAIN batch :
              batch[b] # Deleted => batch[b] \in [slot : Slots, status : Statuses, total : Nat]
      BY <1>1, NoneAmong DEF BatchType
    <2>2. \A l \in DOMAIN line : line[l] # Gone => Live(line[l].batch) /\ line[l].staff \in Staff
      BY <1>1, NoneAmong, LineRow DEF IInv, Refers, Live
    <2>3. \A a \in Items :
              /\ item[a].status \in {"NONE", "NEW", "APPROVED", "GONE"}
              /\ item[a].line # None => Kept(item[a].line) /\ line[item[a].line].staff = Owner[a]
      BY <1>1, NoneAmong DEF ItemType, IInv, Refers, Kept
    <2>4. doubtful \subseteq DOMAIN batch
      BY <1>1 DEF IInv, Typed
    <2> QED
      BY <2>1, <2>2, <2>3, <2>4 DEF TypeOK
  <1> QED
    BY <1>1, Invariant, PTL

\* The advisory lock of the slot is enough: however many generations of a slot run, and
\* whatever is deleted between their lookup and their commit, no slot gets two batches.
THEOREM SlotsNeverShared == Spec => []OneBatchPerSlot
  <1>1. IInv => OneBatchPerSlot
    BY DEF IInv
  <1> QED
    BY <1>1, Invariant, PTL

\* A batch that no late call wrote and that awaits no recomputation totals its lines, and
\* its lines pay their base and the approved adjustments linked to them, one line for each
\* member of staff.
THEOREM BooksAddUp == Spec => []BooksAgree
  <1>1. ASSUME IInv, NEW b \in DOMAIN batch \ doubtful, Live(b),
               \A s \in Sessions : txn[s].pc = "recompute" => txn[s].b # b
        PROVE  /\ batch[b].total = Amounts(line, Lines(b))
               /\ \A l \in Lines(b) :
                      LET linked == {a \in Items : item[a].line = l} IN
                      /\ line[l].amount = line[l].base + Worth(item, linked)
                      /\ \A a \in linked : item[a].status = "APPROVED"
                      /\ line[l].paid = (batch[b].status = "PAID")
                      /\ \A k \in Lines(b) : line[k].staff = line[l].staff => k = l
    <2>1. AddsUp(batch, line, item, b, Awaited)
      BY <1>1 DEF IInv, Books
    <2>2. ASSUME NEW l \in LinesIn(line, b) PROVE l \notin Awaited
      <3> SUFFICES ASSUME NEW s \in Sessions, l \in Awaiting(txn[s]) PROVE FALSE
        BY DEF Awaited
      <3>1. txn[s].pc = "recompute" /\ txn[s].l = l
        BY DEF Awaiting
      <3>2. HasLine(txn[s])
        BY <1>1, <3>1, NoneAmong DEF Call, Recomputes
      <3>3. line[l].batch = b /\ b # None
        BY <1>1, NoneAmong DEF LinesIn
      <3> QED
        BY <1>1, <3>1, <3>2, <3>3 DEF HasLine
    <2>3. \A l \in LinesIn(line, b) : LineAddsUp(line, item, l)
      BY <2>1, <2>2 DEF AddsUp
    <2> QED
      BY <2>1, <2>3 DEF AddsUp, LineAddsUp, LinkedTo, Lines
  <1>2. IInv => BooksAgree
    BY <1>1 DEF BooksAgree
  <1> QED
    BY <1>2, Invariant, PTL

\* Paid payroll is a record: once a batch is PAID only a call that was already under way
\* changes it, a line of it or an adjustment paid in one; the batch is in doubt from then on.
THEOREM PaidPayrollStays == Spec => PaidStays
  <1> DEFINE PaidKept ==
        \A b \in DOMAIN batch :
           batch[b].status = "PAID" /\ b \notin doubtful' =>
               /\ batch'[b] = batch[b]
               /\ \A l \in Lines(b) : line'[l] = line[l]
               /\ \A a \in Items : BatchOf(item[a].line) = {b} => item'[a] = item[a]
  <1>1. ASSUME IInv, Next PROVE PaidKept
    <2>1. PICK s \in Sessions : Moves(s)
      BY <1>1, NextMoves
    <2>2. ASSUME NEW b \in DOMAIN batch, batch[b].status = "PAID", b \notin doubtful'
          PROVE  Stays(b)
      BY <1>1, <2>1, <2>2, StepStays DEF Moves
    <2> QED
      BY <2>2 DEF Stays
  <1>2. IInv /\ [Next]_vars => [PaidKept]_vars
    BY <1>1
  <1> QED
    BY <1>2, Invariant, PTL DEF Spec, PaidStays
==============================================================================
