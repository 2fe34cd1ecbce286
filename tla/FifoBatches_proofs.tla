------------------------- MODULE FifoBatches_proofs -------------------------
(***************************************************************************)
(* The cost batches: bounds and the pool of units, whatever walks          *)
(* interleave; the order of consumption, its cost and exact restoration,   *)
(* one walk at a time.  For any batches, currencies and size of a page.    *)
(*                                                                         *)
(* HInv: a walk writes what it has locked and nobody else does, so that    *)
(* what it has taken or given back is the difference between its own       *)
(* version of the batches and the committed one.  SoloInv: a lone walk     *)
(* comes to the batches in order and leaves none behind.                   *)
(***************************************************************************)
EXTENDS FifoBatches, Sums, SequenceTheorems, WellFoundedInduction, TLAPS

RowType == [cur : Currencies, cost : Nat, received : Nat, remaining : Nat]

RowsTyped(bs) ==
    /\ bs \in Seq(RowType) /\ Len(bs) <= MaxBatches
    /\ \A i \in DOMAIN bs : bs[i].remaining <= bs[i].received

Typed ==
    /\ RowsTyped(batches)
    /\ walk \in [Sessions -> WalkType]
    /\ out \in [Currencies -> Nat] /\ short \in Nat /\ mixed \in BOOLEAN

\* remaining_quantity in the version of the batches that walk w sees.
View(bs, w, i) == IF w.written[i] # Unwritten THEN w.written[i] ELSE bs[i].remaining

\* What the walk has taken from batch i, negative when it filled it up.
Takes(bs, w) == [i \in DOMAIN bs |-> bs[i].remaining - View(bs, w, i)]

WalkSound(bs, w) ==
    /\ w \in WalkType
    /\ w.page \subseteq w.held /\ w.held \subseteq DOMAIN bs /\ w.todo \subseteq DOMAIN bs
    /\ \A i \in Rows : w.written[i] # Unwritten => i \in w.held
    /\ \A i \in DOMAIN bs : View(bs, w, i) \in 0 .. bs[i].received
    /\ w.pc = "idle" => w = Idle
    /\ w.pc # "idle" => w.cur \in Currencies
    /\ w.pc = "page" => w.page # {}
    /\ w.left <= w.n
    /\ w.op = "consume" => SumFunction(Takes(bs, w)) = w.n - w.left
    /\ w.op = "restore" => SumFunction(Takes(bs, w)) = w.left - w.n
    /\ w.op = "simulate" => \A i \in Rows : w.written[i] = Unwritten

Exclusive == \A s, t \in Sessions : s # t => walk[s].held \cap walk[t].held = {}

HInv == Typed /\ (\A s \in Sessions : WalkSound(batches, walk[s])) /\ Exclusive

------------------------------------------------------------------------------
LEMMA RowFacts ==
    ASSUME NEW bs, RowsTyped(bs)
    PROVE  /\ Len(bs) \in Nat /\ DOMAIN bs = 1 .. Len(bs) /\ DOMAIN bs \subseteq Rows
           /\ IsFiniteSet(DOMAIN bs)
           /\ \A i \in DOMAIN bs : /\ i \in Nat \ {0} /\ bs[i] \in RowType
                                   /\ bs[i].remaining \in Nat /\ bs[i].received \in Nat
                                   /\ bs[i].cost \in Nat /\ bs[i].cur \in Currencies
                                   /\ bs[i].remaining <= bs[i].received
  <1>1. Len(bs) \in Nat /\ DOMAIN bs = 1 .. Len(bs)
    BY DEF RowsTyped
  <1>2. IsFiniteSet(DOMAIN bs)
    BY <1>1, FS_Interval
  <1>3. DOMAIN bs \subseteq Rows
    BY <1>1, FifoAssumption DEF RowsTyped, Rows
  <1>4. \A i \in DOMAIN bs : bs[i] \in RowType
    BY <1>1 DEF RowsTyped
  <1> QED
    BY <1>1, <1>2, <1>3, <1>4 DEF RowsTyped, RowType

LEMMA SeenIsView ==
    ASSUME NEW s \in Sessions, NEW i
    PROVE  /\ Seen(s, i) = View(batches, walk[s], i)
           /\ Headroom(s, i) = batches[i].received - View(batches, walk[s], i)
  BY DEF Seen, Headroom, View

LEMMA IdleSound ==
    ASSUME NEW bs, RowsTyped(bs)
    PROVE  WalkSound(bs, Idle) /\ Idle.pc = "idle" /\ Idle.held = {}
  <1>1. Idle \in WalkType
    BY DEF Idle, WalkType, Unwritten
  <1>2. /\ Idle.page = {} /\ Idle.held = {} /\ Idle.todo = {} /\ Idle.pc = "idle"
        /\ Idle.op = "consume" /\ Idle.n = 0 /\ Idle.left = 0
        /\ \A i \in Rows : Idle.written[i] = Unwritten
    BY DEF Idle
  <1>3. \A i \in DOMAIN bs : View(bs, Idle, i) = bs[i].remaining
    BY <1>2, RowFacts DEF View
  <1>4. PICK f : f = Takes(bs, Idle)
    OBVIOUS
  <1>5. DOMAIN f = DOMAIN bs /\ \A i \in DOMAIN bs : f[i] = 0
    BY <1>3, <1>4, RowFacts DEF Takes
  <1>6. SumFunctionOnSet(f, DOMAIN bs) = 0
    BY <1>5, RowFacts, SumSigns
  <1>7. SumFunction(Takes(bs, Idle)) = 0
    BY <1>4, <1>5, <1>6 DEF SumFunction
  <1>8. \A i \in DOMAIN bs : View(bs, Idle, i) \in 0 .. bs[i].received
    BY <1>3, RowFacts
  <1> QED
    BY <1>1, <1>2, <1>7, <1>8 DEF WalkSound

\* A walk is none the worse for what happens to batches it does not hold.
LEMMA SoundElsewhere ==
    ASSUME NEW bs, NEW cs, RowsTyped(bs), RowsTyped(cs), DOMAIN bs \subseteq DOMAIN cs,
           NEW w, WalkSound(bs, w),
           \A i \in DOMAIN bs : /\ cs[i].received = bs[i].received
                                /\ i \in w.held => cs[i] = bs[i]
    PROVE  WalkSound(cs, w)
  <1>1. \A i \in DOMAIN cs : i \notin w.held => View(cs, w, i) = cs[i].remaining
    BY RowFacts DEF WalkSound, View
  <1>2. /\ \A i \in DOMAIN bs : i \in w.held => View(cs, w, i) = View(bs, w, i)
        /\ \A i \in DOMAIN bs : i \notin w.held => View(bs, w, i) = bs[i].remaining
    BY RowFacts DEF WalkSound, View
  <1>3. PICK f, g : f = Takes(bs, w) /\ g = Takes(cs, w)
    OBVIOUS
  <1>4. w.held \subseteq DOMAIN bs
    BY DEF WalkSound
  <1>5. /\ DOMAIN f = DOMAIN bs /\ DOMAIN g = DOMAIN cs
        /\ \A i \in DOMAIN bs : f[i] = bs[i].remaining - View(bs, w, i)
        /\ \A i \in DOMAIN cs : g[i] = cs[i].remaining - View(cs, w, i)
    BY <1>3 DEF Takes
  <1>6. /\ \A i \in DOMAIN bs : f[i] \in Int /\ g[i] = f[i]
        /\ \A i \in DOMAIN cs \ DOMAIN bs : g[i] = 0
    <2>1. ASSUME NEW i \in DOMAIN bs PROVE f[i] \in Int /\ g[i] = f[i]
      <3>1. View(bs, w, i) \in Int
        BY DEF WalkSound
      <3>2. CASE i \in w.held
        BY <1>2, <1>5, <3>1, <3>2, RowFacts
      <3>3. CASE i \notin w.held
        BY <1>1, <1>2, <1>5, <3>1, <3>3, RowFacts
      <3> QED
        BY <3>2, <3>3
    <2>2. ASSUME NEW i \in DOMAIN cs \ DOMAIN bs PROVE g[i] = 0
      BY <1>1, <1>4, <1>5, RowFacts
    <2> QED
      BY <2>1, <2>2
  <1>7. SumFunctionOnSet(g, DOMAIN cs) = SumFunctionOnSet(f, DOMAIN bs)
    <2>1. IsFiniteSet(DOMAIN cs) /\ DOMAIN bs \in SUBSET DOMAIN cs
      BY RowFacts
    <2> QED
      BY <1>6, <2>1, SumMasked
  <1>8. SumFunction(Takes(cs, w)) = SumFunction(Takes(bs, w))
    BY <1>3, <1>5, <1>7 DEF SumFunction
  <1>9. ASSUME NEW i \in DOMAIN cs PROVE View(cs, w, i) \in 0 .. cs[i].received
    <2>1. CASE i \in w.held
      BY <1>2, <1>4, <2>1 DEF WalkSound
    <2>2. CASE i \notin w.held
      BY <1>1, <2>2, RowFacts
    <2> QED
      BY <2>1, <2>2
  <1> QED
    BY <1>8, <1>9 DEF WalkSound

\* Nor for what it does besides writing.
LEMMA SoundAside ==
    ASSUME NEW bs, RowsTyped(bs), NEW w, WalkSound(bs, w), NEW u \in WalkType,
           u.written = w.written /\ u.left = w.left /\ u.n = w.n /\ u.op = w.op /\ u.cur = w.cur,
           w.pc # "idle" /\ u.pc # "idle", u.pc = "page" => u.page # {},
           w.held \subseteq u.held, u.held \subseteq DOMAIN bs, u.page \subseteq u.held,
           u.todo \subseteq DOMAIN bs
    PROVE  WalkSound(bs, u)
  <1>1. /\ \A i : View(bs, u, i) = View(bs, w, i)
        /\ Takes(bs, u) = Takes(bs, w)
    BY DEF View, Takes
  <1> QED
    BY <1>1 DEF WalkSound

LEMMA NewWalk ==
    ASSUME HInv, NEW s \in Sessions, NEW u, walk' = [walk EXCEPT ![s] = u]
    PROVE  walk'[s] = u /\ \A t \in Sessions : t # s => walk'[t] = walk[t]
  BY DEF HInv, Typed

\* The step of a walk that commits nothing.
LEMMA Walks ==
    ASSUME HInv, NEW s \in Sessions, NEW u, walk' = [walk EXCEPT ![s] = u], WalkSound(batches, u),
           \A t \in Sessions : t # s => walk[t].held \cap u.held = {},
           batches' = batches, out' \in [Currencies -> Nat], short' = short, mixed' \in BOOLEAN
    PROVE  HInv'
  <1>1. walk'[s] = u /\ \A t \in Sessions : t # s => walk'[t] = walk[t]
    BY NewWalk
  <1>2. walk' \in [Sessions -> WalkType]
    BY DEF HInv, Typed, WalkSound
  <1>3. Typed'
    BY <1>2 DEF HInv, Typed, RowsTyped
  <1>4. \A t \in Sessions : WalkSound(batches, walk'[t])
    BY <1>1 DEF HInv
  <1>5. Exclusive'
    BY <1>1 DEF HInv, Exclusive
  <1>6. PICK bs, ws : bs = batches' /\ ws = walk'
    OBVIOUS
  <1>7. \A t \in Sessions : WalkSound(bs, ws[t])
    BY <1>4, <1>6
  <1> QED
    BY <1>3, <1>5, <1>6, <1>7 DEF HInv
------------------------------------------------------------------------------
(***************************************************************************)
(* The batch a walk comes to first.                                        *)
(***************************************************************************)
LEMMA Smallest ==
    ASSUME NEW S, S \subseteq Nat, S # {}
    PROVE  \E i \in S : \A j \in S : i <= j
  <1>1. IsWellFoundedOn(OpToRel(<, Nat), Nat)
    BY NatLessThanWellFounded
  <1>2. PICK i \in S : \A j \in S : ~ (<<j, i>> \in OpToRel(<, Nat))
    BY <1>1, WFMin
  <1> SUFFICES ASSUME NEW j \in S PROVE i <= j
    OBVIOUS
  <1>3. i \in Nat /\ j \in Nat
    OBVIOUS
  <1>4. CASE j < i
    <2>1. PICK x : x = <<j, i>>
      OBVIOUS
    <2>2. x \in Nat \X Nat /\ x[1] = j /\ x[2] = i /\ x[1] < x[2]
      BY <1>3, <1>4, <2>1
    <2>3. x \in OpToRel(<, Nat)
      BY <2>2, Zenon DEF OpToRel
    <2> QED
      BY <1>2, <2>1, <2>3
  <1> QED
    BY <1>3, <1>4

LEMMA MinIs ==
    ASSUME NEW S, S \subseteq Nat, S # {}
    PROVE  Min(S) \in S /\ \A j \in S : Min(S) <= j
  BY Smallest DEF Min

LEMMA MaxIs ==
    ASSUME NEW S, NEW n \in Nat, S \subseteq 1 .. n, S # {}
    PROVE  Max(S) \in S /\ \A j \in S : j <= Max(S)
  <1>1. PICK T : T = {n - i : i \in S}
    OBVIOUS
  <1>2. T \subseteq Nat /\ T # {}
    <2>1. \A i \in S : n - i \in Nat
      OBVIOUS
    <2> QED
      BY <1>1, <2>1
  <1>3. PICK d \in T : \A e \in T : d <= e
    BY <1>2, Smallest
  <1>4. PICK i \in S : d = n - i
    BY <1>1, <1>3
  <1>5. \A j \in S : j <= i
    <2> SUFFICES ASSUME NEW j \in S PROVE j <= i
      OBVIOUS
    <2>1. n - j \in T
      BY <1>1
    <2>2. d <= n - j
      BY <1>3, <2>1
    <2>3. i \in Int /\ j \in Int /\ n - i <= n - j
      BY <1>4, <2>2
    <2> QED
      BY <2>3
  <1>6. \E x \in S : \A y \in S : x >= y
    <2>1. \A y \in S : i >= y
      BY <1>5
    <2> QED
      BY <2>1
  <1>7. Max(S) \in S /\ \A y \in S : Max(S) >= y
    BY <1>6 DEF Max
  <1>8. Max(S) \in Int /\ \A y \in S : y \in Int
    <2>1. \A y \in S : y \in Int
      OBVIOUS
    <2> QED
      BY <1>7, <2>1
  <1> QED
    BY <1>7, <1>8

LEMMA FirstIs ==
    ASSUME RowsTyped(batches), NEW s \in Sessions, NEW S, S \subseteq DOMAIN batches, S # {},
           NEW i, i = First(s, S)
    PROVE  /\ i \in S
           /\ walk[s].op = "restore" => \A j \in S : j <= i
           /\ walk[s].op # "restore" => \A j \in S : i <= j
  <1>1. PICK n \in Nat : n = Len(batches) /\ S \subseteq 1 .. n /\ S \subseteq Nat
    BY RowFacts
  <1>2. CASE walk[s].op = "restore"
    BY <1>1, <1>2, MaxIs DEF First
  <1>3. CASE walk[s].op # "restore"
    BY <1>1, <1>3, MinIs DEF First
  <1> QED
    BY <1>2, <1>3
------------------------------------------------------------------------------
(***************************************************************************)
(* Each step of a walk, as what the walk becomes.                          *)
(***************************************************************************)

LEMMA WalkFacts ==
    ASSUME HInv, NEW s \in Sessions
    PROVE  /\ walk[s] \in WalkType /\ WalkSound(batches, walk[s]) /\ RowsTyped(batches)
           /\ \A t \in Sessions : t # s => walk[t].held \cap walk[s].held = {}
           /\ out \in [Currencies -> Nat] /\ short \in Nat /\ mixed \in BOOLEAN
  BY DEF HInv, Typed, Exclusive

LEMMA BeginWalk ==
    ASSUME HInv, NEW s \in Sessions, NEW op \in {"consume", "simulate", "restore"},
           NEW c \in Currencies, NEW n \in 1 .. MaxQty, Begin(s, op, c, n)
    PROVE  \E u : /\ walk' = [walk EXCEPT ![s] = u] /\ WalkSound(batches, u)
                  /\ u.pc = "read" /\ u.op = op /\ u.cur = c /\ u.n = n /\ u.left = n
                  /\ u.cost = 0 /\ u.cursor = 0 /\ u.held = {} /\ u.written = Idle.written
                  /\ ~ u.slipped
  <1>1. PICK u : u = [Idle EXCEPT !.pc = "read", !.op = op, !.cur = c, !.n = n, !.left = n]
    OBVIOUS
  <1>2. walk' = [walk EXCEPT ![s] = u]
    BY <1>1 DEF Begin
  <1>3. n \in Nat
    BY FifoAssumption
  <1>4. /\ u.pc = "read" /\ u.op = op /\ u.cur = c /\ u.n = n /\ u.left = n
        /\ u.cost = 0 /\ u.cursor = 0 /\ u.held = {} /\ u.todo = {} /\ u.page = {}
        /\ u.written = Idle.written /\ ~ u.slipped
    BY <1>1 DEF Idle
  <1>5. u \in WalkType
    <2>1. PICK w \in WalkType : w = Idle
      BY WalkFacts, IdleSound DEF WalkSound
    <2>2. u = [w EXCEPT !.pc = "read", !.op = op, !.cur = c, !.n = n, !.left = n]
      BY <1>1, <2>1
    <2> QED
      BY <1>3, <2>2 DEF WalkType
  <1>6. RowsTyped(batches)
    BY WalkFacts
  <1>7. WalkSound(batches, Idle) /\ Idle.op = "consume" /\ Idle.n = 0 /\ Idle.left = 0
        /\ \A i \in Rows : Idle.written[i] = Unwritten
    BY <1>6, IdleSound DEF Idle
  <1>8. /\ \A i : View(batches, u, i) = View(batches, Idle, i)
        /\ Takes(batches, u) = Takes(batches, Idle)
    BY <1>4 DEF View, Takes
  <1>9. SumFunction(Takes(batches, u)) = 0
    BY <1>7, <1>8 DEF WalkSound
  <1>10. WalkSound(batches, u)
    BY <1>3, <1>4, <1>5, <1>7, <1>8, <1>9 DEF WalkSound
  <1> QED
    BY <1>2, <1>4, <1>10

LEMMA ReadWalk ==
    ASSUME HInv, NEW s \in Sessions, Read(s)
    PROVE  \E u : /\ walk' = [walk EXCEPT ![s] = u] /\ WalkSound(batches, u)
                  /\ u = [walk[s] EXCEPT !.pc = "lock", !.page = {},
                                         !.slipped = Slips(s),
                                         !.todo = {i \in DOMAIN batches : Matches(s, i)}]
  <1>1. PICK w \in WalkType : w = walk[s] /\ WalkSound(batches, w) /\ RowsTyped(batches)
    BY WalkFacts
  <1>2. PICK T, b : T = {i \in DOMAIN batches : Matches(s, i)} /\ b = Slips(s)
    OBVIOUS
  <1>3. PICK u : u = [w EXCEPT !.pc = "lock", !.page = {}, !.slipped = b, !.todo = T]
    OBVIOUS
  <1>4. walk' = [walk EXCEPT ![s] = u] /\ w.pc = "read"
    BY <1>1, <1>2, <1>3 DEF Read
  <1>5. T \subseteq DOMAIN batches /\ T \subseteq Rows /\ b \in BOOLEAN
    BY <1>1, <1>2, RowFacts DEF WalkType, Slips
  <1>6. /\ u \in WalkType /\ u.written = w.written /\ u.left = w.left /\ u.n = w.n
        /\ u.op = w.op /\ u.cur = w.cur /\ u.pc = "lock" /\ u.held = w.held
        /\ u.page = {} /\ u.todo = T
    BY <1>3, <1>5 DEF WalkType
  <1>7. w.held \subseteq DOMAIN batches
    BY <1>1 DEF WalkSound
  <1>8. WalkSound(batches, u)
    BY <1>1, <1>4, <1>5, <1>6, <1>7, SoundAside
  <1> QED
    BY <1>1, <1>2, <1>3, <1>4, <1>8

LEMMA LockRowWalk ==
    ASSUME HInv, NEW s \in Sessions, LockRow(s)
    PROVE  \E u, i : /\ walk' = [walk EXCEPT ![s] = u] /\ WalkSound(batches, u)
                     /\ i = First(s, walk[s].todo) /\ ~HeldByOther(s, i) /\ i \in walk[s].todo
                     /\ u = [walk[s] EXCEPT !.todo = walk[s].todo \ {i},
                                            !.held = walk[s].held \cup {i},
                                            !.page = IF Matches(s, i) THEN walk[s].page \cup {i}
                                                                      ELSE walk[s].page]
                     /\ u.held = walk[s].held \cup {i}
  <1>1. PICK w \in WalkType : w = walk[s] /\ WalkSound(batches, w) /\ RowsTyped(batches)
    BY WalkFacts
  <1>2. PICK i : i = First(s, w.todo)
    OBVIOUS
  <1>3. PICK T, H, P : /\ T = w.todo \ {i} /\ H = w.held \cup {i}
                       /\ P = IF Matches(s, i) THEN w.page \cup {i} ELSE w.page
    OBVIOUS
  <1>4. PICK u : u = [w EXCEPT !.todo = T, !.held = H, !.page = P]
    OBVIOUS
  <1>5. /\ walk' = [walk EXCEPT ![s] = u] /\ w.pc = "lock" /\ w.todo # {} /\ ~HeldByOther(s, i)
    BY <1>1, <1>2, <1>3, <1>4, Zenon DEF LockRow
  <1>6. /\ w.todo \subseteq DOMAIN batches /\ w.held \subseteq DOMAIN batches
        /\ w.page \subseteq w.held
    BY <1>1 DEF WalkSound
  <1>7. i \in w.todo
    BY <1>1, <1>2, <1>5, <1>6, FirstIs
  <1>8. /\ T \subseteq DOMAIN batches /\ H \subseteq DOMAIN batches /\ P \subseteq H
        /\ w.held \subseteq H /\ DOMAIN batches \subseteq Rows
    BY <1>1, <1>3, <1>6, <1>7, RowFacts
  <1>9. /\ u \in WalkType /\ u.written = w.written /\ u.left = w.left /\ u.n = w.n
        /\ u.op = w.op /\ u.cur = w.cur /\ u.pc = "lock" /\ u.held = H
        /\ u.page = P /\ u.todo = T
    BY <1>4, <1>5, <1>8 DEF WalkType
  <1>10. WalkSound(batches, u)
    BY <1>1, <1>5, <1>8, <1>9, SoundAside
  <1> QED
    BY <1>1, <1>2, <1>3, <1>4, <1>5, <1>7, <1>9, <1>10

LEMMA PageReadWalk ==
    ASSUME HInv, NEW s \in Sessions, PageRead(s)
    PROVE  \E u : /\ walk' = [walk EXCEPT ![s] = u] /\ WalkSound(batches, u)
                  /\ u = [walk[s] EXCEPT !.pc = IF walk[s].page = {} THEN "end" ELSE "page"]
                  /\ u.held = walk[s].held
  <1>1. PICK w \in WalkType : w = walk[s] /\ WalkSound(batches, w) /\ RowsTyped(batches)
    BY WalkFacts
  <1>2. PICK pc : pc = IF w.page = {} THEN "end" ELSE "page"
    OBVIOUS
  <1>3. PICK u : u = [w EXCEPT !.pc = pc]
    OBVIOUS
  <1>4. walk' = [walk EXCEPT ![s] = u] /\ w.pc = "lock"
    BY <1>1, <1>2, <1>3 DEF PageRead
  <1>5. /\ u \in WalkType /\ u.written = w.written /\ u.left = w.left /\ u.n = w.n
        /\ u.op = w.op /\ u.cur = w.cur /\ u.pc = pc /\ u.held = w.held
        /\ u.page = w.page /\ u.todo = w.todo /\ pc \in {"end", "page"}
    BY <1>2, <1>3 DEF WalkType
  <1>6. /\ w.todo \subseteq DOMAIN batches /\ w.held \subseteq DOMAIN batches
        /\ w.page \subseteq w.held
    BY <1>1 DEF WalkSound
  <1>7. WalkSound(batches, u)
    BY <1>1, <1>2, <1>4, <1>5, <1>6, SoundAside
  <1> QED
    BY <1>1, <1>2, <1>3, <1>4, <1>5, <1>7

LEMMA MovedFacts ==
    ASSUME HInv, NEW s \in Sessions, NEW i \in DOMAIN batches, NEW m, m = Moved(s, i)
    PROVE  /\ m \in Nat /\ m <= walk[s].left
           /\ walk[s].op = "restore" => m <= batches[i].received - View(batches, walk[s], i)
           /\ walk[s].op # "restore" => m <= View(batches, walk[s], i)
           /\ \/ m = walk[s].left
              \/ walk[s].op = "restore" /\ m = batches[i].received - View(batches, walk[s], i)
              \/ walk[s].op # "restore" /\ m = View(batches, walk[s], i)
           /\ CostOf(s, i, m) \in Nat
  <1>1. PICK w \in WalkType : w = walk[s] /\ WalkSound(batches, w) /\ RowsTyped(batches)
    BY WalkFacts
  <1>2. PICK v : v = View(batches, w, i)
    OBVIOUS
  <1>3. w.left \in Nat /\ v \in 0 .. batches[i].received /\ batches[i].received \in Nat
        /\ batches[i].cost \in Nat
    BY <1>1, <1>2, RowFacts DEF WalkType, WalkSound
  <1>4. m = Lesser(w.left, IF w.op = "restore" THEN batches[i].received - v ELSE v)
    BY <1>1, <1>2, SeenIsView DEF Moved
  <1>5. m \in Nat /\ m <= w.left
        /\ (w.op = "restore" => m <= batches[i].received - v)
        /\ (w.op # "restore" => m <= v)
        /\ \/ m = w.left
           \/ w.op = "restore" /\ m = batches[i].received - v
           \/ w.op # "restore" /\ m = v
    BY <1>3, <1>4 DEF Lesser
  <1>6. \A a, b \in Nat : a * b \in Nat
    OBVIOUS
  <1>7. CostOf(s, i, m) \in Nat
    BY <1>3, <1>5, <1>6 DEF CostOf
  <1> QED
    BY <1>1, <1>2, <1>5, <1>7

\* A walk writes the batch it comes to, and takes or gives back what it moves.
LEMMA RewrittenFacts ==
    ASSUME HInv, NEW s \in Sessions, NEW i \in DOMAIN batches, NEW m, m = Moved(s, i),
           i \in walk[s].held, NEW r, r = Rewritten(s, i, m)
    PROVE  /\ r \in [Rows -> Int]
           /\ \A j \in Rows : j # i => r[j] = walk[s].written[j]
           /\ walk[s].op = "simulate" => r = walk[s].written
           /\ walk[s].op = "consume" => r[i] = View(batches, walk[s], i) - m
           /\ walk[s].op = "restore" => r[i] = View(batches, walk[s], i) + m
           /\ walk[s].op # "simulate" => r[i] \in 0 .. batches[i].received
  <1>1. PICK w \in WalkType : w = walk[s] /\ WalkSound(batches, w) /\ RowsTyped(batches)
    BY WalkFacts
  <1>2. PICK v : v = View(batches, w, i)
    OBVIOUS
  <1>3. w.written \in [Rows -> Int] /\ w.op \in {"consume", "simulate", "restore"}
        /\ v \in 0 .. batches[i].received /\ batches[i].received \in Nat /\ i \in Rows
    BY <1>1, <1>2, RowFacts DEF WalkType, WalkSound
  <1>4. m \in Nat /\ (w.op = "restore" => m <= batches[i].received - v)
        /\ (w.op # "restore" => m <= v)
    BY <1>1, <1>2, MovedFacts
  <1>5. v - m \in Int /\ v + m \in Int
    BY <1>3, <1>4
  <1>6. /\ w.op = "consume" => r = [w.written EXCEPT ![i] = v - m]
        /\ w.op = "restore" => r = [w.written EXCEPT ![i] = v + m]
        /\ w.op = "simulate" => r = w.written
    BY <1>1, <1>2, <1>3, SeenIsView DEF Rewritten
  <1>7. w.op # "simulate" => r[i] \in 0 .. batches[i].received
    BY <1>3, <1>4, <1>5, <1>6
  <1>8. r \in [Rows -> Int] /\ \A j \in Rows : j # i => r[j] = w.written[j]
    BY <1>3, <1>5, <1>6
  <1>9. /\ w.op = "consume" => r[i] = v - m
        /\ w.op = "restore" => r[i] = v + m
    BY <1>3, <1>6
  <1> QED
    BY <1>1, <1>2, <1>6, <1>7, <1>8, <1>9

\* The step of the walk s at batch i, which moves m units.
Visited(s, u, i, m) ==
    /\ walk' = [walk EXCEPT ![s] = u]
    /\ walk[s].pc = "page" /\ i = First(s, walk[s].page) /\ i \in walk[s].page
    /\ i \in DOMAIN batches /\ i \in walk[s].held /\ m = Moved(s, i)
    /\ u.pc = AfterVisit(s, walk[s].left - m, walk[s].page \ {i})
    /\ u.page = walk[s].page \ {i} /\ u.todo = walk[s].todo /\ u.held = walk[s].held
    /\ u.op = walk[s].op /\ u.cur = walk[s].cur /\ u.n = walk[s].n
    /\ u.left = walk[s].left - m /\ u.cost = walk[s].cost + CostOf(s, i, m)
    /\ u.cursor = i /\ u.written = Rewritten(s, i, m) /\ u.slipped = walk[s].slipped

LEMMA VisitWalk ==
    ASSUME HInv, NEW s \in Sessions, Visit(s)
    PROVE  \E u, i, m : Visited(s, u, i, m) /\ WalkSound(batches, u)
  <1>1. PICK w \in WalkType : w = walk[s] /\ WalkSound(batches, w) /\ RowsTyped(batches)
    BY WalkFacts
  <1>2. PICK i, m : i = First(s, w.page) /\ m = Moved(s, i)
    OBVIOUS
  <1>3. PICK P, r, c, pc : /\ P = w.page \ {i} /\ r = Rewritten(s, i, m) /\ c = CostOf(s, i, m)
                           /\ pc = AfterVisit(s, w.left - m, P)
    OBVIOUS
  <1>4. PICK u : u = [w EXCEPT !.pc = pc, !.page = P, !.left = w.left - m, !.cost = w.cost + c,
                               !.cursor = i, !.written = r]
    OBVIOUS
  <1>5. walk' = [walk EXCEPT ![s] = u] /\ w.pc = "page"
    BY <1>1, <1>2, <1>3, <1>4, Zenon DEF Visit
  <1>6. /\ w.page # {} /\ w.page \subseteq w.held /\ w.held \subseteq DOMAIN batches
        /\ w.todo \subseteq DOMAIN batches /\ w.left <= w.n /\ w.cur \in Currencies
    BY <1>1, <1>5 DEF WalkSound
  <1>7. i \in w.page /\ i \in w.held /\ i \in DOMAIN batches /\ i \in Rows /\ i \in Nat
    BY <1>1, <1>2, <1>6, FirstIs, RowFacts
  <1>8. m \in Nat /\ m <= w.left /\ c \in Nat /\ w.left \in Nat /\ w.cost \in Nat /\ w.n \in Nat
    BY <1>1, <1>2, <1>3, <1>7, MovedFacts DEF WalkType
  <1>9. w.left - m \in Nat /\ w.cost + c \in Nat
    BY <1>8
  <1>10. PICK v : v = View(batches, w, i)
    OBVIOUS
  <1>11. /\ r \in [Rows -> Int] /\ \A j \in Rows : j # i => r[j] = w.written[j]
         /\ w.op = "simulate" => r = w.written
         /\ w.op = "consume" => r[i] = v - m
         /\ w.op = "restore" => r[i] = v + m
         /\ w.op # "simulate" => r[i] \in 0 .. batches[i].received
    BY <1>1, <1>2, <1>3, <1>7, <1>10, RewrittenFacts
  <1>12. pc \in {"end", "read", "page"} /\ (pc = "page" => P # {})
    BY <1>3 DEF AfterVisit
  <1>13. /\ u \in WalkType /\ u.pc = pc /\ u.page = P /\ u.left = w.left - m
         /\ u.cost = w.cost + c /\ u.cursor = i /\ u.written = r /\ u.todo = w.todo
         /\ u.held = w.held /\ u.op = w.op /\ u.cur = w.cur /\ u.n = w.n
         /\ u.slipped = w.slipped
    BY <1>3, <1>4, <1>7, <1>9, <1>11, <1>12 DEF WalkType
  <1>14. ASSUME NEW j \in DOMAIN batches, j # i PROVE View(batches, u, j) = View(batches, w, j)
    BY <1>1, <1>11, <1>13, <1>14, RowFacts DEF View
  <1>15. /\ w.op = "simulate" => View(batches, u, i) = v
         /\ w.op # "simulate" => View(batches, u, i) = r[i]
    BY <1>7, <1>10, <1>11, <1>13 DEF View, Unwritten
  <1>16. \A j \in DOMAIN batches : /\ View(batches, w, j) \in 0 .. batches[j].received
                                   /\ View(batches, u, j) \in 0 .. batches[j].received
    <2>1. \A j \in DOMAIN batches : View(batches, w, j) \in 0 .. batches[j].received
      BY <1>1 DEF WalkSound
    <2>2. View(batches, u, i) \in 0 .. batches[i].received
      BY <1>7, <1>10, <1>11, <1>15, <2>1
    <2> QED
      BY <1>14, <2>1, <2>2
  <1>17. PICK f, g : f = Takes(batches, w) /\ g = Takes(batches, u)
    OBVIOUS
  <1>18. /\ DOMAIN f = DOMAIN batches /\ DOMAIN g = DOMAIN batches
         /\ \A j \in DOMAIN batches : /\ f[j] = batches[j].remaining - View(batches, w, j)
                                      /\ g[j] = batches[j].remaining - View(batches, u, j)
                                      /\ f[j] \in Int /\ g[j] \in Int
    BY <1>1, <1>16, <1>17, RowFacts DEF Takes
  <1>19. DiffersAt(f, DOMAIN batches, g, DOMAIN batches, i)
    BY <1>1, <1>14, <1>18, RowFacts DEF DiffersAt
  <1>20. /\ SumFunctionOnSet(f, DOMAIN batches) \in Int
         /\ SumFunctionOnSet(g, DOMAIN batches) = SumFunctionOnSet(f, DOMAIN batches) - f[i] + g[i]
    BY <1>7, <1>19, SumAtOne
  <1>21. PICK F, G : F = SumFunction(f) /\ G = SumFunction(g)
    OBVIOUS
  <1>22. F \in Int /\ G = F - f[i] + g[i]
    BY <1>18, <1>20, <1>21 DEF SumFunction
  <1>23. v \in Int /\ batches[i].remaining \in Int
    BY <1>1, <1>7, <1>10, <1>16, RowFacts
  <1>24. /\ w.op = "consume" => G = F + m
         /\ w.op = "restore" => G = F - m
    BY <1>7, <1>8, <1>10, <1>11, <1>15, <1>18, <1>22, <1>23
  <1>25. /\ w.op = "consume" => F = w.n - w.left
         /\ w.op = "restore" => F = w.left - w.n
    BY <1>1, <1>17, <1>21 DEF WalkSound
  <1>26. /\ u.op = "consume" => SumFunction(Takes(batches, u)) = u.n - u.left
         /\ u.op = "restore" => SumFunction(Takes(batches, u)) = u.left - u.n
    BY <1>8, <1>13, <1>17, <1>21, <1>22, <1>24, <1>25
  <1>27. \A j \in Rows : u.written[j] # Unwritten => j \in u.held
    BY <1>1, <1>7, <1>11, <1>13 DEF WalkSound
  <1>28. u.left <= u.n
    BY <1>6, <1>8, <1>13
  <1>29. WalkSound(batches, u)
    BY <1>1, <1>3, <1>6, <1>11, <1>12, <1>13, <1>16, <1>26, <1>27, <1>28 DEF WalkSound
  <1>30. Visited(s, u, i, m)
    BY <1>1, <1>2, <1>3, <1>5, <1>7, <1>13 DEF Visited
  <1> QED
    BY <1>29, <1>30
------------------------------------------------------------------------------
(***************************************************************************)
(* Commits, rollbacks and intakes.                                         *)
(***************************************************************************)
LEMMA RollbackWalk ==
    ASSUME HInv, NEW s \in Sessions, Rollback(s)
    PROVE  /\ walk' = [walk EXCEPT ![s] = Idle] /\ WalkSound(batches, Idle) /\ Idle.held = {}
           /\ batches' = batches /\ out' \in [Currencies -> Nat] /\ short' = short /\ mixed' = mixed
  <1>1. PICK w \in WalkType : w = walk[s] /\ WalkSound(batches, w) /\ RowsTyped(batches)
    BY WalkFacts
  <1>2. /\ w.pc # "idle" /\ walk' = [walk EXCEPT ![s] = Idle]
        /\ out' = IF w.op = "restore" THEN [out EXCEPT ![w.cur] = out[w.cur] + w.n] ELSE out
        /\ batches' = batches /\ short' = short /\ mixed' = mixed
    BY <1>1 DEF Rollback
  <1>3. w.cur \in Currencies /\ w.n \in Nat /\ out \in [Currencies -> Nat]
    BY <1>1, <1>2, WalkFacts DEF WalkSound, WalkType
  <1>4. out' \in [Currencies -> Nat]
    BY <1>2, <1>3
  <1> QED
    BY <1>1, <1>2, <1>4, IdleSound

\* The committed batches: the version that the walk saw.
Committed(bs, w, cs) ==
    /\ DOMAIN cs = DOMAIN bs
    /\ \A i \in DOMAIN bs :
          /\ cs[i].received = bs[i].received /\ cs[i].cost = bs[i].cost /\ cs[i].cur = bs[i].cur
          /\ cs[i].remaining = View(bs, w, i)
          /\ i \notin w.held => cs[i] = bs[i]

LEMMA CommitBatches ==
    ASSUME HInv, NEW s \in Sessions, NEW cs,
           cs = [i \in DOMAIN batches |-> [batches[i] EXCEPT !.remaining = Seen(s, i)]]
    PROVE  RowsTyped(cs) /\ Committed(batches, walk[s], cs)
  <1>1. PICK w \in WalkType : w = walk[s] /\ WalkSound(batches, w) /\ RowsTyped(batches)
    BY WalkFacts
  <1>2. \A i \in DOMAIN batches : cs[i] = [batches[i] EXCEPT !.remaining = View(batches, w, i)]
    BY <1>1, SeenIsView
  <1>3. \A i \in DOMAIN batches : View(batches, w, i) \in 0 .. batches[i].received
    BY <1>1 DEF WalkSound
  <1>4. ASSUME NEW i \in DOMAIN batches
        PROVE  /\ cs[i] \in RowType /\ cs[i].remaining <= cs[i].received
               /\ cs[i].received = batches[i].received /\ cs[i].cost = batches[i].cost
               /\ cs[i].cur = batches[i].cur /\ cs[i].remaining = View(batches, w, i)
               /\ i \notin w.held => cs[i] = batches[i]
    <2>1. PICK v : v = View(batches, w, i)
      OBVIOUS
    <2>2. batches[i] \in RowType /\ batches[i].received \in Nat /\ v \in 0 .. batches[i].received
      BY <1>1, <1>3, <2>1, RowFacts
    <2>3. v \in Nat /\ v <= batches[i].received
      BY <2>2
    <2>4. cs[i] = [batches[i] EXCEPT !.remaining = v]
      BY <1>2, <2>1
    <2>5. i \notin w.held => v = batches[i].remaining
      BY <1>1, <2>1, RowFacts DEF WalkSound, View
    <2> QED
      BY <2>1, <2>2, <2>3, <2>4, <2>5 DEF RowType
  <1>5. PICK n \in Nat : n = Len(batches) /\ DOMAIN batches = 1 .. n /\ n <= MaxBatches
    BY <1>1, RowFacts DEF RowsTyped
  <1>6. DOMAIN cs = 1 .. n /\ cs \in Seq(RowType) /\ Len(cs) = n
    <2>1. cs \in [1 .. n -> RowType]
      BY <1>4, <1>5
    <2> QED
      BY <2>1
  <1>7. RowsTyped(cs)
    BY <1>4, <1>5, <1>6 DEF RowsTyped
  <1> QED
    BY <1>1, <1>4, <1>7 DEF Committed

LEMMA CommitFacts ==
    ASSUME HInv, NEW s \in Sessions, Commit(s)
    PROVE  \E cs : /\ batches' = cs /\ RowsTyped(cs) /\ Committed(batches, walk[s], cs)
                   /\ walk' = [walk EXCEPT ![s] = Idle] /\ walk[s].pc = "end" /\ mixed' = mixed
                   /\ out' \in [Currencies -> Nat] /\ short' \in Nat
                   /\ out' = IF walk[s].op = "consume"
                               THEN [out EXCEPT ![walk[s].cur] = out[walk[s].cur] + walk[s].n]
                               ELSE out
                   /\ short' = IF walk[s].op = "restore" THEN short + walk[s].left ELSE short
                   /\ walk[s].op = "consume" => walk[s].left = 0
  <1>1. PICK w \in WalkType : w = walk[s] /\ WalkSound(batches, w) /\ RowsTyped(batches)
    BY WalkFacts
  <1>2. PICK cs : cs = [i \in DOMAIN batches |-> [batches[i] EXCEPT !.remaining = Seen(s, i)]]
    OBVIOUS
  <1>3. /\ w.pc = "end" /\ walk' = [walk EXCEPT ![s] = Idle] /\ batches' = cs
        /\ out' = IF w.op = "consume" THEN [out EXCEPT ![w.cur] = out[w.cur] + w.n] ELSE out
        /\ short' = IF w.op = "restore" THEN short + w.left ELSE short
        /\ mixed' = mixed
        /\ ~ (w.op = "consume" /\ w.left > 0)
    BY <1>1, <1>2 DEF Commit, Insufficient
  <1>4. w.cur \in Currencies /\ w.n \in Nat /\ w.left \in Nat /\ out \in [Currencies -> Nat]
        /\ short \in Nat
    BY <1>1, <1>3, WalkFacts DEF WalkSound, WalkType
  <1>5. out' \in [Currencies -> Nat] /\ short' \in Nat /\ (w.op = "consume" => w.left = 0)
    BY <1>3, <1>4
  <1> QED
    BY <1>1, <1>2, <1>3, <1>5, CommitBatches

\* An intake of n units of c makes cs of the batches, with a newest one, k.
TookIn(cs, k, c, n) ==
    /\ batches' = cs /\ RowsTyped(cs) /\ k \notin DOMAIN batches /\ k \in Nat
    /\ DOMAIN cs = DOMAIN batches \cup {k}
    /\ \A i \in DOMAIN batches : cs[i] = batches[i] /\ i < k
    /\ cs[k].cur = c /\ cs[k].received = n /\ cs[k].remaining = n
    /\ n \in Nat
    /\ walk' = walk /\ out' = out /\ short' = short /\ mixed' = mixed

LEMMA IntakeFacts ==
    ASSUME HInv, NEW c \in Currencies, NEW cost \in Costs, NEW n \in 1 .. MaxQty,
           Intake(c, cost, n)
    PROVE  \E cs, k : TookIn(cs, k, c, n)
  <1>1. RowsTyped(batches)
    BY DEF HInv, Typed
  <1>2. PICK l \in Nat : l = Len(batches) /\ DOMAIN batches = 1 .. l /\ l < MaxBatches
    BY <1>1, RowFacts DEF Intake
  <1>3. PICK e : e = [cur |-> c, cost |-> cost, received |-> n, remaining |-> n]
    OBVIOUS
  <1>4. n \in Nat /\ cost \in Nat
    BY FifoAssumption
  <1>5. e \in RowType /\ e.cur = c /\ e.received = n /\ e.remaining = n
    BY <1>3, <1>4 DEF RowType
  <1>6. batches \in Seq(RowType) /\ \A i \in DOMAIN batches : batches[i].remaining <= batches[i].received
    BY <1>1 DEF RowsTyped
  <1>7. PICK cs : cs = Append(batches, e)
    OBVIOUS
  <1>8. /\ cs \in Seq(RowType) /\ Len(cs) = l + 1 /\ DOMAIN cs = 1 .. l + 1
        /\ cs[l + 1] = e /\ \A i \in 1 .. l : cs[i] = batches[i]
    BY <1>2, <1>5, <1>6, <1>7
  <1>9. \A i \in DOMAIN cs : cs[i].remaining <= cs[i].received
    BY <1>2, <1>4, <1>5, <1>6, <1>8
  <1>10. l + 1 <= MaxBatches
    BY <1>2, FifoAssumption
  <1>11. RowsTyped(cs)
    BY <1>8, <1>9, <1>10 DEF RowsTyped
  <1>12. batches' = cs /\ walk' = walk /\ out' = out /\ short' = short /\ mixed' = mixed
    BY <1>3, <1>7 DEF Intake
  <1>13. PICK k \in Nat : k = l + 1
    OBVIOUS
  <1>14. /\ DOMAIN cs = DOMAIN batches \cup {k} /\ k \notin DOMAIN batches
         /\ \A i \in DOMAIN batches : cs[i] = batches[i] /\ i < k
    BY <1>2, <1>8, <1>13
  <1>15. cs[k].cur = c /\ cs[k].received = n /\ cs[k].remaining = n
    BY <1>5, <1>8, <1>13
  <1>16. TookIn(cs, k, c, n)
    BY <1>4, <1>11, <1>12, <1>13, <1>14, <1>15 DEF TookIn
  <1> QED
    BY <1>16

\* The invariant holds again once batches and walks fit.
LEMMA FitsAgain ==
    ASSUME NEW bs, NEW ws, bs = batches', ws = walk', RowsTyped(bs), ws \in [Sessions -> WalkType],
           \A t \in Sessions : WalkSound(bs, ws[t]),
           \A s, t \in Sessions : s # t => ws[s].held \cap ws[t].held = {},
           out' \in [Currencies -> Nat], short' \in Nat, mixed' \in BOOLEAN
    PROVE  HInv'
  <1>1. Typed'
    BY DEF Typed, RowsTyped
  <1>2. Exclusive'
    BY DEF Exclusive
  <1> QED
    BY <1>1, <1>2 DEF HInv

LEMMA CommitKeeps ==
    ASSUME HInv, NEW s \in Sessions, Commit(s)
    PROVE  HInv'
  <1>1. PICK cs : /\ batches' = cs /\ RowsTyped(cs) /\ Committed(batches, walk[s], cs)
                  /\ walk' = [walk EXCEPT ![s] = Idle] /\ mixed' = mixed
                  /\ out' \in [Currencies -> Nat] /\ short' \in Nat
    BY CommitFacts
  <1>2. RowsTyped(batches) /\ mixed' \in BOOLEAN
    BY <1>1, WalkFacts
  <1>3. PICK ws : ws = walk'
    OBVIOUS
  <1>4. ws[s] = Idle /\ \A t \in Sessions : t # s => ws[t] = walk[t]
    BY <1>1, <1>3, NewWalk
  <1>5. WalkSound(cs, Idle) /\ Idle.held = {}
    BY <1>1, IdleSound
  <1>6. ASSUME NEW t \in Sessions, t # s PROVE WalkSound(cs, walk[t])
    <2>1. WalkSound(batches, walk[t]) /\ walk[t].held \cap walk[s].held = {}
      BY <1>6, WalkFacts
    <2>2. /\ DOMAIN batches \subseteq DOMAIN cs
          /\ \A i \in DOMAIN batches : /\ cs[i].received = batches[i].received
                                       /\ i \in walk[t].held => cs[i] = batches[i]
      BY <1>1, <2>1 DEF Committed
    <2> QED
      BY <1>1, <1>2, <2>1, <2>2, SoundElsewhere
  <1>7. \A t \in Sessions : WalkSound(cs, ws[t])
    BY <1>4, <1>5, <1>6
  <1>8. ws \in [Sessions -> WalkType]
    BY <1>1, <1>3, <1>5 DEF HInv, Typed, WalkSound
  <1>9. \A x, t \in Sessions : x # t => ws[x].held \cap ws[t].held = {}
    BY <1>4, <1>5 DEF HInv, Exclusive
  <1> QED
    BY <1>1, <1>2, <1>3, <1>7, <1>8, <1>9, FitsAgain

LEMMA IntakeKeeps ==
    ASSUME HInv, NEW c \in Currencies, NEW cost \in Costs, NEW n \in 1 .. MaxQty,
           Intake(c, cost, n)
    PROVE  HInv'
  <1>0. PICK cs, k : TookIn(cs, k, c, n)
    BY IntakeFacts
  <1>1. /\ batches' = cs /\ RowsTyped(cs) /\ DOMAIN cs = DOMAIN batches \cup {k}
        /\ \A i \in DOMAIN batches : cs[i] = batches[i]
        /\ walk' = walk /\ out' = out /\ short' = short /\ mixed' = mixed
    BY <1>0 DEF TookIn
  <1>2. \A t \in Sessions : WalkSound(cs, walk[t])
    <2> SUFFICES ASSUME NEW t \in Sessions PROVE WalkSound(cs, walk[t])
      OBVIOUS
    <2>1. WalkSound(batches, walk[t]) /\ RowsTyped(batches)
      BY WalkFacts
    <2> QED
      BY <1>1, <2>1, SoundElsewhere
  <1>3. PICK ws : ws = walk'
    OBVIOUS
  <1> QED
    BY <1>1, <1>2, <1>3, FitsAgain DEF HInv, Typed, Exclusive

LEMMA NextKeeps ==
    ASSUME HInv, [Next]_vars
    PROVE  HInv'
  <1>1. ASSUME NEW s \in Sessions, NEW op \in {"consume", "simulate", "restore"},
               NEW c \in Currencies, NEW n \in 1 .. MaxQty, Begin(s, op, c, n)
        PROVE  HInv'
    <2>1. PICK u : walk' = [walk EXCEPT ![s] = u] /\ WalkSound(batches, u) /\ u.held = {}
      BY <1>1, BeginWalk
    <2>2. batches' = batches /\ short' = short /\ mixed' \in BOOLEAN
      BY <1>1, WalkFacts DEF Begin
    <2>3. out' \in [Currencies -> Nat]
      <3>1. n \in Nat /\ out[c] \in Nat
        BY FifoAssumption, WalkFacts
      <3>2. op = "restore" => out[c] - n \in Nat
        BY <1>1, <3>1 DEF Begin
      <3> QED
        BY <1>1, <3>1, <3>2, WalkFacts DEF Begin
    <2> QED
      BY <2>1, <2>2, <2>3, Walks
  <1>2. ASSUME NEW s \in Sessions, Read(s) PROVE HInv'
    <2>1. PICK u : /\ walk' = [walk EXCEPT ![s] = u] /\ WalkSound(batches, u)
                   /\ u.held = walk[s].held
      <3>1. PICK u : /\ walk' = [walk EXCEPT ![s] = u] /\ WalkSound(batches, u)
                     /\ u = [walk[s] EXCEPT !.pc = "lock", !.page = {},
                                            !.slipped = Slips(s),
                                            !.todo = {i \in DOMAIN batches : Matches(s, i)}]
        BY <1>2, ReadWalk
      <3>2. u.held = walk[s].held
        BY <3>1, WalkFacts DEF WalkType
      <3> QED
        BY <3>1, <3>2
    <2>2. batches' = batches /\ out' = out /\ short' = short /\ mixed' = mixed
      BY <1>2 DEF Read
    <2>3. \A t \in Sessions : t # s => walk[t].held \cap u.held = {}
      BY <2>1, WalkFacts
    <2>4. out' \in [Currencies -> Nat] /\ mixed' \in BOOLEAN
      BY <2>2, WalkFacts
    <2> QED
      BY <2>1, <2>2, <2>3, <2>4, Walks
  <1>3. ASSUME NEW s \in Sessions, LockRow(s) PROVE HInv'
    <2>1. PICK u, i : /\ walk' = [walk EXCEPT ![s] = u] /\ WalkSound(batches, u)
                      /\ ~HeldByOther(s, i) /\ u.held = walk[s].held \cup {i}
      BY <1>3, LockRowWalk
    <2>2. batches' = batches /\ out' = out /\ short' = short /\ mixed' = mixed
      BY <1>3, Zenon DEF LockRow
    <2>4. out' \in [Currencies -> Nat] /\ mixed' \in BOOLEAN
      BY <2>2, WalkFacts
    <2>3. \A t \in Sessions : t # s => walk[t].held \cap u.held = {}
      BY <2>1, WalkFacts DEF HeldByOther
    <2> QED
      BY <2>1, <2>2, <2>3, <2>4, Walks
  <1>4. ASSUME NEW s \in Sessions, PageRead(s) PROVE HInv'
    <2>1. PICK u : /\ walk' = [walk EXCEPT ![s] = u] /\ WalkSound(batches, u)
                   /\ u.held = walk[s].held
      BY <1>4, PageReadWalk
    <2>2. batches' = batches /\ out' = out /\ short' = short /\ mixed' = mixed
      BY <1>4, Zenon DEF PageRead
    <2>3. \A t \in Sessions : t # s => walk[t].held \cap u.held = {}
      BY <2>1, WalkFacts
    <2>4. out' \in [Currencies -> Nat] /\ mixed' \in BOOLEAN
      BY <2>2, WalkFacts
    <2> QED
      BY <2>1, <2>2, <2>3, <2>4, Walks
  <1>5. ASSUME NEW s \in Sessions, Visit(s) PROVE HInv'
    <2>1. PICK u : /\ walk' = [walk EXCEPT ![s] = u] /\ WalkSound(batches, u)
                   /\ u.held = walk[s].held
      BY <1>5, VisitWalk DEF Visited
    <2>2. batches' = batches /\ out' = out /\ short' = short /\ mixed' = mixed
      BY <1>5, Zenon DEF Visit
    <2>3. \A t \in Sessions : t # s => walk[t].held \cap u.held = {}
      BY <2>1, WalkFacts
    <2>4. out' \in [Currencies -> Nat] /\ mixed' \in BOOLEAN
      BY <2>2, WalkFacts
    <2> QED
      BY <2>1, <2>2, <2>3, <2>4, Walks
  <1>6. ASSUME NEW s \in Sessions, Rollback(s) PROVE HInv'
    <2>1. mixed \in BOOLEAN
      BY WalkFacts
    <2> QED
      BY <1>6, <2>1, RollbackWalk, Walks
  <1>7. CASE UNCHANGED vars
    BY <1>7 DEF vars, HInv, Typed, RowsTyped, Exclusive, WalkSound, View, Takes
  <1> QED
    BY <1>1, <1>2, <1>3, <1>4, <1>5, <1>6, <1>7, CommitKeeps, IntakeKeeps DEF Next

LEMMA InitHolds == Init => HInv
  <1> SUFFICES ASSUME Init PROVE HInv
    OBVIOUS
  <1>1. /\ batches = FirstBatches /\ walk = [s \in Sessions |-> Idle]
        /\ out = [c \in Currencies |-> 0] /\ short = 0 /\ mixed = FALSE
    BY DEF Init
  <1>2. RowsTyped(batches)
    <2>1. batches \in Seq(RowType) /\ Len(batches) <= MaxBatches
      BY <1>1, FirstAssumption DEF RowType
    <2>2. \A i \in DOMAIN batches : batches[i] \in RowType
      BY <2>1
    <2>3. \A i \in DOMAIN batches : batches[i].remaining <= batches[i].received
      BY <1>1, <2>2, FirstAssumption DEF RowType
    <2> QED
      BY <2>1, <2>3 DEF RowsTyped
  <1>3. WalkSound(batches, Idle) /\ Idle.held = {}
    BY <1>2, IdleSound
  <1>4. Idle \in WalkType
    BY <1>3 DEF WalkSound
  <1> QED
    BY <1>1, <1>2, <1>3, <1>4 DEF HInv, Typed, Exclusive

LEMMA HolderInvariant == Spec => []HInv
  BY InitHolds, NextKeeps, PTL DEF Spec

\* No batch is consumed below zero or filled beyond what it received, whatever walks
\* of consumeFifoRemainingInTx and restoreFifoBatchesForReturnInTx interleave.
THEOREM BatchesBounded == Spec => []TypeOK
  <1>1. ASSUME HInv PROVE TypeOK
    <2>1. RowsTyped(batches)
      BY <1>1 DEF HInv, Typed
    <2>2. \A i \in DOMAIN batches : /\ batches[i].cur \in Currencies
                                    /\ batches[i].remaining \in 0 .. batches[i].received
      BY <2>1, RowFacts
    <2> QED
      BY <1>1, <2>1, <2>2 DEF HInv, Typed, TypeOK, RowsTyped
  <1> QED
    BY <1>1, HolderInvariant, PTL
------------------------------------------------------------------------------
(***************************************************************************)
(* The batches as a pool of units.                                         *)
(***************************************************************************)
ReceivedOf(bs) == SumFunction([i \in DOMAIN bs |-> bs[i].received])
RemainingOf(bs) == SumFunction([i \in DOMAIN bs |-> bs[i].remaining])

\* What a walk is giving back to a currency.
Gives(w, c) == w.pc # "idle" /\ w.op = "restore" /\ w.cur = c
Giving(w, c) == IF Gives(w, c) THEN w.n ELSE 0
Given(ws, c) == SumFunctionOnSet([s \in Sessions |-> ws[s].n], {s \in Sessions : Gives(ws[s], c)})
AwayOf(os, ws) == [c \in Currencies |-> os[c] + Given(ws, c)]

LEMMA GivenChange ==
    ASSUME NEW c, NEW s \in Sessions, NEW ws \in [Sessions -> WalkType],
           NEW xs \in [Sessions -> WalkType], \A t \in Sessions : t # s => xs[t] = ws[t]
    PROVE  /\ Given(ws, c) \in Int
           /\ Given(xs, c) = Given(ws, c) - Giving(ws[s], c) + Giving(xs[s], c)
  <1>1. PICK f, g : f = [t \in Sessions |-> ws[t].n] /\ g = [t \in Sessions |-> xs[t].n]
    OBVIOUS
  <1>2. PICK I, J : I = {t \in Sessions : Gives(ws[t], c)} /\ J = {t \in Sessions : Gives(xs[t], c)}
    OBVIOUS
  <1>3. \A t \in Sessions : /\ f[t] = ws[t].n /\ g[t] = xs[t].n
                            /\ f[t] \in Int /\ g[t] \in Int
    BY <1>1 DEF WalkType
  <1>4. \A t \in Sessions : t # s => f[t] = g[t] /\ (t \in I <=> t \in J)
    BY <1>2, <1>3
  <1>5. IsFiniteSet(I)
    BY <1>2, FinitenessAssumption, FS_Subset
  <1>6. DiffersAt(f, I, g, J, s)
    BY <1>2, <1>3, <1>4, <1>5 DEF DiffersAt
  <1>7. /\ SumFunctionOnSet(f, I) \in Int
        /\ SumFunctionOnSet(g, J) = SumFunctionOnSet(f, I) - Part(f, I, s) + Part(g, J, s)
    BY <1>6, SumChange
  <1>8. Part(f, I, s) = Giving(ws[s], c) /\ Part(g, J, s) = Giving(xs[s], c)
    BY <1>2, <1>3 DEF Part, Giving
  <1> QED
    BY <1>1, <1>2, <1>7, <1>8 DEF Given

LEMMA AwayType ==
    ASSUME NEW os \in [Currencies -> Nat], NEW ws \in [Sessions -> WalkType]
    PROVE  /\ DOMAIN AwayOf(os, ws) = Currencies
           /\ \A c \in Currencies : /\ AwayOf(os, ws)[c] = os[c] + Given(ws, c)
                                    /\ Given(ws, c) \in Nat /\ AwayOf(os, ws)[c] \in Nat
           /\ SumFunction(AwayOf(os, ws)) \in Nat
           /\ SumFunction(AwayOf(os, ws)) = SumFunctionOnSet(AwayOf(os, ws), Currencies)
  <1>1. ASSUME NEW c \in Currencies PROVE Given(ws, c) \in Nat
    <2>1. PICK f, I : f = [t \in Sessions |-> ws[t].n] /\ I = {t \in Sessions : Gives(ws[t], c)}
      OBVIOUS
    <2>2. IsFiniteSet(I) /\ \A t \in I : f[t] \in Nat
      BY <2>1, FinitenessAssumption, FS_Subset DEF WalkType
    <2> QED
      BY <2>1, <2>2, SumSigns DEF Given
  <1>2. PICK h : h = AwayOf(os, ws)
    OBVIOUS
  <1>3. DOMAIN h = Currencies /\ \A c \in Currencies : h[c] = os[c] + Given(ws, c) /\ h[c] \in Nat
    BY <1>1, <1>2 DEF AwayOf
  <1>4. SumFunctionOnSet(h, Currencies) \in Nat /\ SumFunction(h) = SumFunctionOnSet(h, Currencies)
    BY <1>3, FinitenessAssumption, SumSigns DEF SumFunction
  <1> QED
    BY <1>1, <1>2, <1>3, <1>4

\* Walk w becomes u and units out os become ps: of currency k, d units more are away.
Balanced(os, ps, w, u, k, d) ==
    \A c \in Currencies : ps[c] - Giving(w, c) + Giving(u, c) = IF c = k THEN os[c] + d ELSE os[c]

\* Units away change with one currency.
LEMMA AwayAtOne ==
    ASSUME NEW os \in [Currencies -> Nat], NEW ws \in [Sessions -> WalkType],
           NEW ps \in [Currencies -> Nat], NEW xs \in [Sessions -> WalkType],
           NEW s \in Sessions, \A t \in Sessions : t # s => xs[t] = ws[t],
           NEW k \in Currencies, NEW d \in Int, Balanced(os, ps, ws[s], xs[s], k, d)
    PROVE  SumFunction(AwayOf(ps, xs)) = SumFunction(AwayOf(os, ws)) + d
  <1>1. PICK f, g : f = AwayOf(os, ws) /\ g = AwayOf(ps, xs)
    OBVIOUS
  <1>2. /\ \A c \in Currencies : /\ f[c] = os[c] + Given(ws, c) /\ g[c] = ps[c] + Given(xs, c)
                                 /\ f[c] \in Int /\ g[c] \in Int
        /\ SumFunction(f) = SumFunctionOnSet(f, Currencies)
        /\ SumFunction(g) = SumFunctionOnSet(g, Currencies)
        /\ SumFunction(f) \in Int
    BY <1>1, AwayType
  <1>3. \A c \in Currencies : g[c] = IF c = k THEN f[c] + d ELSE f[c]
    <2> SUFFICES ASSUME NEW c \in Currencies PROVE g[c] = IF c = k THEN f[c] + d ELSE f[c]
      OBVIOUS
    <2>1. /\ Given(ws, c) \in Int
          /\ Given(xs, c) = Given(ws, c) - Giving(ws[s], c) + Giving(xs[s], c)
      BY GivenChange
    <2>2. ws[s].n \in Int /\ xs[s].n \in Int /\ os[c] \in Int /\ ps[c] \in Int
      BY DEF WalkType
    <2>3. Giving(ws[s], c) \in Int /\ Giving(xs[s], c) \in Int
      BY <2>2 DEF Giving
    <2>4. ps[c] - Giving(ws[s], c) + Giving(xs[s], c) = IF c = k THEN os[c] + d ELSE os[c]
      BY DEF Balanced
    <2> QED
      BY <1>2, <2>1, <2>2, <2>3, <2>4
  <1>4. DiffersAt(f, Currencies, g, Currencies, k)
    BY <1>2, <1>3, FinitenessAssumption DEF DiffersAt
  <1>5. SumFunctionOnSet(g, Currencies) = SumFunctionOnSet(f, Currencies) - f[k] + g[k]
    BY <1>4, SumAtOne
  <1>6. f[k] \in Int /\ g[k] = f[k] + d
    BY <1>2, <1>3
  <1> QED
    BY <1>1, <1>2, <1>5, <1>6

ReceivedUnits == ReceivedOf(batches)
RemainingUnits == RemainingOf(batches)
AwayUnits == SumFunction([c \in Currencies |-> Away(c)]) + short

LEMMA UnitsAway ==
    ASSUME NEW os, NEW ws, NEW n
    PROVE  /\ os = out /\ ws = walk /\ n = short => AwayUnits = SumFunction(AwayOf(os, ws)) + n
           /\ os = out' /\ ws = walk' /\ n = short' => AwayUnits' = SumFunction(AwayOf(os, ws)) + n
  BY DEF AwayUnits, Away, Restoring, AwayOf, Given, Gives

\* The step of a walk changes what is away of one currency.
LEMMA AwayMoves ==
    ASSUME HInv, HInv', NEW s \in Sessions, NEW u, walk' = [walk EXCEPT ![s] = u],
           NEW k \in Currencies, NEW d \in Int, Balanced(out, out', walk[s], u, k, d)
    PROVE  /\ AwayUnits \in Nat /\ AwayUnits' \in Nat
           /\ AwayUnits' = AwayUnits + d + short' - short
  <1>1. PICK os, ws, n, ps, xs, l : /\ os = out /\ ws = walk /\ n = short
                                    /\ ps = out' /\ xs = walk' /\ l = short'
    OBVIOUS
  <1>2. /\ os \in [Currencies -> Nat] /\ ws \in [Sessions -> WalkType] /\ n \in Nat
        /\ ps \in [Currencies -> Nat] /\ xs \in [Sessions -> WalkType] /\ l \in Nat
    BY <1>1 DEF HInv, Typed
  <1>3. xs[s] = u /\ \A t \in Sessions : t # s => xs[t] = ws[t]
    BY <1>1, NewWalk
  <1>4. Balanced(os, ps, ws[s], xs[s], k, d)
    BY <1>1, <1>3
  <1>5. SumFunction(AwayOf(ps, xs)) = SumFunction(AwayOf(os, ws)) + d
    BY <1>2, <1>3, <1>4, AwayAtOne
  <1>6. SumFunction(AwayOf(os, ws)) \in Nat /\ SumFunction(AwayOf(ps, xs)) \in Nat
    BY <1>2, AwayType
  <1>7. AwayUnits = SumFunction(AwayOf(os, ws)) + n /\ AwayUnits' = SumFunction(AwayOf(ps, xs)) + l
    BY <1>1, UnitsAway
  <1> QED
    BY <1>1, <1>2, <1>5, <1>6, <1>7

Even(os, ps, w, u) == \A c \in Currencies : ps[c] - Giving(w, c) + Giving(u, c) = os[c]

LEMMA WalkAside ==
    ASSUME HInv, HInv', NEW s \in Sessions, NEW u, walk' = [walk EXCEPT ![s] = u],
           NEW k \in Currencies, batches' = batches, short' = short,
           Even(out, out', walk[s], u)
    PROVE  /\ ReceivedUnits' = ReceivedUnits /\ RemainingUnits' = RemainingUnits
           /\ AwayUnits' = AwayUnits
  <1>1. \A c \in Currencies : out[c] \in Nat
    BY DEF HInv, Typed
  <1>2. PICK d \in Int : d = 0
    OBVIOUS
  <1>3. Balanced(out, out', walk[s], u, k, d)
    BY <1>1, <1>2 DEF Balanced, Even
  <1>4. AwayUnits \in Nat /\ AwayUnits' = AwayUnits + d + short' - short
    BY <1>3, AwayMoves
  <1>5. AwayUnits' = AwayUnits
    BY <1>2, <1>4 DEF HInv, Typed
  <1> QED
    BY <1>5 DEF ReceivedUnits, RemainingUnits, ReceivedOf, RemainingOf

\* What a walk took comes off the remaining units when it commits.
LEMMA UnitsCommitted ==
    ASSUME NEW bs, NEW cs, NEW w, RowsTyped(bs), RowsTyped(cs), WalkSound(bs, w),
           Committed(bs, w, cs)
    PROVE  /\ ReceivedOf(cs) = ReceivedOf(bs) /\ RemainingOf(bs) \in Nat /\ RemainingOf(cs) \in Nat
           /\ SumFunction(Takes(bs, w)) \in Int
           /\ RemainingOf(cs) = RemainingOf(bs) - SumFunction(Takes(bs, w))
  <1>1. PICK f, g, h, x, y : /\ f = [i \in DOMAIN bs |-> bs[i].remaining]
                             /\ g = [i \in DOMAIN cs |-> cs[i].remaining]
                             /\ h = Takes(bs, w)
                             /\ x = [i \in DOMAIN bs |-> bs[i].received]
                             /\ y = [i \in DOMAIN cs |-> cs[i].received]
    OBVIOUS
  <1>2. /\ DOMAIN f = DOMAIN bs /\ DOMAIN g = DOMAIN bs /\ DOMAIN h = DOMAIN bs
        /\ DOMAIN x = DOMAIN bs /\ DOMAIN y = DOMAIN bs
    BY <1>1 DEF Committed, Takes
  <1>3. ASSUME NEW i \in DOMAIN bs
        PROVE  /\ f[i] \in Nat /\ g[i] \in Nat /\ h[i] \in Int /\ f[i] = g[i] + h[i]
               /\ x[i] \in Nat /\ y[i] = x[i]
    <2>1. bs[i].remaining \in Nat /\ bs[i].received \in Nat
      BY RowFacts
    <2>2. View(bs, w, i) \in Nat
      BY <2>1 DEF WalkSound
    <2>3. /\ f[i] = bs[i].remaining /\ h[i] = bs[i].remaining - View(bs, w, i)
          /\ x[i] = bs[i].received
      BY <1>1 DEF Takes
    <2>4. g[i] = View(bs, w, i) /\ y[i] = bs[i].received
      BY <1>1 DEF Committed
    <2> QED
      BY <2>1, <2>2, <2>3, <2>4
  <1>4. IsFiniteSet(DOMAIN bs)
    BY RowFacts
  <1>5. SumFunctionOnSet(f, DOMAIN bs) = SumFunctionOnSet(g, DOMAIN bs) + SumFunctionOnSet(h, DOMAIN bs)
    BY <1>3, <1>4, SumPlus
  <1>6. SumFunctionOnSet(y, DOMAIN bs) = SumFunctionOnSet(x, DOMAIN bs)
    BY <1>3, <1>4, SumSame
  <1>7. /\ SumFunctionOnSet(f, DOMAIN bs) \in Nat /\ SumFunctionOnSet(g, DOMAIN bs) \in Nat
        /\ SumFunctionOnSet(h, DOMAIN bs) \in Int
    BY <1>3, <1>4, SumSigns, SumType
  <1>8. /\ RemainingOf(bs) = SumFunctionOnSet(f, DOMAIN bs)
        /\ RemainingOf(cs) = SumFunctionOnSet(g, DOMAIN bs)
        /\ SumFunction(Takes(bs, w)) = SumFunctionOnSet(h, DOMAIN bs)
        /\ ReceivedOf(bs) = SumFunctionOnSet(x, DOMAIN bs)
        /\ ReceivedOf(cs) = SumFunctionOnSet(y, DOMAIN bs)
    BY <1>1, <1>2 DEF RemainingOf, ReceivedOf, SumFunction
  <1> QED
    BY <1>5, <1>6, <1>7, <1>8

LEMMA CommitUnits ==
    ASSUME HInv, HInv', NEW s \in Sessions, Commit(s)
    PROVE  Pool!Ship \/ Pool!GiveBack
           \/ UNCHANGED <<ReceivedUnits, RemainingUnits, AwayUnits>>
  <1>1. PICK w \in WalkType : w = walk[s] /\ WalkSound(batches, w) /\ RowsTyped(batches)
    BY WalkFacts
  <1>2. PICK cs : /\ batches' = cs /\ RowsTyped(cs) /\ Committed(batches, w, cs)
                  /\ walk' = [walk EXCEPT ![s] = Idle] /\ w.pc = "end"
                  /\ out' = IF w.op = "consume" THEN [out EXCEPT ![w.cur] = out[w.cur] + w.n]
                                                ELSE out
                  /\ short' = IF w.op = "restore" THEN short + w.left ELSE short
                  /\ w.op = "consume" => w.left = 0
    BY <1>1, CommitFacts
  <1>3. /\ w.cur \in Currencies /\ w.n \in Nat /\ w.left \in Nat /\ w.left <= w.n /\ short \in Nat
        /\ w.op \in {"consume", "simulate", "restore"} /\ out \in [Currencies -> Nat]
    BY <1>1, <1>2, WalkFacts DEF WalkSound, WalkType
  <1>4. PICK D : D = SumFunction(Takes(batches, w))
    OBVIOUS
  <1>5. /\ ReceivedUnits' = ReceivedUnits /\ RemainingUnits \in Nat /\ RemainingUnits' \in Nat
        /\ D \in Int /\ RemainingUnits' = RemainingUnits - D
    BY <1>1, <1>2, <1>4, UnitsCommitted
       DEF ReceivedUnits, RemainingUnits, ReceivedOf, RemainingOf
  <1>6. PICK d \in Int : d = IF w.op = "consume" THEN w.n ELSE IF w.op = "restore" THEN - w.n ELSE 0
    BY <1>3
  <1>7. Balanced(out, out', walk[s], Idle, w.cur, d)
    <2> SUFFICES ASSUME NEW c \in Currencies
                 PROVE  out'[c] - Giving(walk[s], c) + Giving(Idle, c)
                          = IF c = w.cur THEN out[c] + d ELSE out[c]
      BY DEF Balanced
    <2>1. Giving(Idle, c) = 0
      BY DEF Giving, Gives, Idle
    <2>2. Giving(walk[s], c) = IF w.op = "restore" /\ c = w.cur THEN w.n ELSE 0
      BY <1>1, <1>2 DEF Giving, Gives
    <2>3. out'[c] = IF w.op = "consume" /\ c = w.cur THEN out[c] + w.n ELSE out[c]
      BY <1>2, <1>3
    <2>4. out[c] \in Nat
      BY <1>3
    <2> QED
      BY <1>3, <1>6, <2>1, <2>2, <2>3, <2>4
  <1>8. AwayUnits \in Nat /\ AwayUnits' \in Nat /\ AwayUnits' = AwayUnits + d + short' - short
    BY <1>2, <1>3, <1>7, AwayMoves
  <1>9. CASE w.op = "consume"
    <2>1. D = w.n /\ d = w.n /\ short' = short
      BY <1>1, <1>2, <1>3, <1>4, <1>6, <1>9 DEF WalkSound
    <2>2. /\ AwayUnits <= AwayUnits' /\ 0 <= RemainingUnits'
          /\ AwayUnits' - AwayUnits = RemainingUnits - RemainingUnits'
          /\ ReceivedUnits' = ReceivedUnits
      BY <1>3, <1>5, <1>8, <2>1
    <2> QED
      BY <2>2 DEF Pool!Ship, AwayUnits, RemainingUnits, ReceivedUnits, ReceivedOf, RemainingOf
  <1>10. CASE w.op = "restore"
    <2>1. D = w.left - w.n /\ d = - w.n /\ short' = short + w.left
      BY <1>1, <1>2, <1>3, <1>4, <1>6, <1>10 DEF WalkSound
    <2>2. /\ 0 <= AwayUnits' /\ AwayUnits' <= AwayUnits
          /\ RemainingUnits' - RemainingUnits = AwayUnits - AwayUnits'
          /\ ReceivedUnits' = ReceivedUnits
      BY <1>3, <1>5, <1>8, <2>1
    <2> QED
      BY <2>2 DEF Pool!GiveBack, AwayUnits, RemainingUnits, ReceivedUnits, ReceivedOf, RemainingOf
  <1>11. CASE w.op = "simulate"
    <2>1. \A i \in DOMAIN batches : Takes(batches, w)[i] = 0
      BY <1>1, <1>11, RowFacts DEF Takes, View, WalkSound
    <2>2. PICK f : f = Takes(batches, w)
      OBVIOUS
    <2>3. DOMAIN f = DOMAIN batches /\ SumFunctionOnSet(f, DOMAIN batches) = 0
      <3>1. DOMAIN f = DOMAIN batches
        BY <2>2 DEF Takes
      <3>2. IsFiniteSet(DOMAIN batches)
        BY <1>1, RowFacts
      <3> QED
        BY <2>1, <2>2, <3>1, <3>2, SumSigns
    <2>4. D = 0 /\ d = 0 /\ short' = short
      BY <1>2, <1>4, <1>6, <1>11, <2>2, <2>3 DEF SumFunction
    <2> QED
      BY <1>3, <1>5, <1>8, <2>4
  <1> QED
    BY <1>3, <1>9, <1>10, <1>11

LEMMA IntakeUnits ==
    ASSUME HInv, NEW c \in Currencies, NEW cost \in Costs, NEW n \in 1 .. MaxQty,
           Intake(c, cost, n)
    PROVE  Pool!TakeIn
  <1>0. PICK cs, k : TookIn(cs, k, c, n)
    BY IntakeFacts
  <1>1. /\ batches' = cs /\ RowsTyped(cs) /\ k \notin DOMAIN batches
        /\ DOMAIN cs = DOMAIN batches \cup {k}
        /\ \A i \in DOMAIN batches : cs[i] = batches[i] /\ i < k
        /\ cs[k].received = n /\ cs[k].remaining = n /\ n \in Nat
        /\ walk' = walk /\ out' = out /\ short' = short
    BY <1>0 DEF TookIn
  <1>2. RowsTyped(batches)
    BY DEF HInv, Typed
  <1>3. PICK bs : bs = batches
    OBVIOUS
  <1>4. PICK f, g, x, y : /\ f = [i \in DOMAIN bs |-> bs[i].remaining]
                          /\ g = [i \in DOMAIN cs |-> cs[i].remaining]
                          /\ x = [i \in DOMAIN bs |-> bs[i].received]
                          /\ y = [i \in DOMAIN cs |-> cs[i].received]
    OBVIOUS
  <1>5. /\ \A i \in DOMAIN bs : /\ f[i] \in Nat /\ x[i] \in Nat /\ g[i] = f[i] /\ y[i] = x[i]
        /\ \A i \in DOMAIN cs : g[i] \in Nat /\ y[i] \in Nat
        /\ g[k] = n /\ y[k] = n /\ k \in DOMAIN cs
    BY <1>1, <1>2, <1>3, <1>4, RowFacts
  <1>6. DOMAIN cs \ {k} = DOMAIN bs \ {k} /\ k \notin DOMAIN bs /\ IsFiniteSet(DOMAIN bs)
    BY <1>1, <1>2, <1>3, RowFacts
  <1>7. DiffersAt(f, DOMAIN bs, g, DOMAIN cs, k) /\ DiffersAt(x, DOMAIN bs, y, DOMAIN cs, k)
    BY <1>5, <1>6 DEF DiffersAt
  <1>8. /\ SumFunctionOnSet(f, DOMAIN bs) \in Int /\ SumFunctionOnSet(x, DOMAIN bs) \in Int
        /\ SumFunctionOnSet(g, DOMAIN cs)
             = SumFunctionOnSet(f, DOMAIN bs) - Part(f, DOMAIN bs, k) + Part(g, DOMAIN cs, k)
        /\ SumFunctionOnSet(y, DOMAIN cs)
             = SumFunctionOnSet(x, DOMAIN bs) - Part(x, DOMAIN bs, k) + Part(y, DOMAIN cs, k)
    BY <1>7, SumChange
  <1>9. /\ Part(f, DOMAIN bs, k) = 0 /\ Part(x, DOMAIN bs, k) = 0
        /\ Part(g, DOMAIN cs, k) = n /\ Part(y, DOMAIN cs, k) = n
    BY <1>5, <1>6 DEF Part
  <1>10. PICK F, G, X, Y : /\ F = SumFunctionOnSet(f, DOMAIN bs) /\ G = SumFunctionOnSet(g, DOMAIN cs)
                           /\ X = SumFunctionOnSet(x, DOMAIN bs) /\ Y = SumFunctionOnSet(y, DOMAIN cs)
    OBVIOUS
  <1>11. F \in Int /\ X \in Int /\ G = F + n /\ Y = X + n
    BY <1>1, <1>8, <1>9, <1>10
  <1>12. /\ RemainingOf(bs) = F /\ RemainingOf(cs) = G /\ ReceivedOf(bs) = X /\ ReceivedOf(cs) = Y
    BY <1>4, <1>10 DEF RemainingOf, ReceivedOf, SumFunction
  <1>13. /\ RemainingUnits = F /\ RemainingUnits' = G /\ ReceivedUnits = X /\ ReceivedUnits' = Y
    BY <1>1, <1>3, <1>12 DEF ReceivedUnits, RemainingUnits, ReceivedOf, RemainingOf
  <1>14. AwayUnits' = AwayUnits
    BY <1>1 DEF AwayUnits, Away, Restoring
  <1>15. /\ ReceivedUnits <= ReceivedUnits'
         /\ RemainingUnits' - RemainingUnits = ReceivedUnits' - ReceivedUnits
    BY <1>1, <1>11, <1>13
  <1> QED
    BY <1>14, <1>15 DEF Pool!TakeIn, AwayUnits, RemainingUnits, ReceivedUnits, ReceivedOf, RemainingOf

\* A step of a walk after which it still gives back the same.
LEMMA WalkGoesOn ==
    ASSUME HInv, HInv', NEW s \in Sessions, NEW u, walk' = [walk EXCEPT ![s] = u],
           walk[s].pc # "idle", u.pc # "idle",
           u.op = walk[s].op, u.cur = walk[s].cur, u.n = walk[s].n,
           batches' = batches, out' = out, short' = short
    PROVE  /\ ReceivedUnits' = ReceivedUnits /\ RemainingUnits' = RemainingUnits
           /\ AwayUnits' = AwayUnits
  <1>1. walk[s] \in WalkType /\ WalkSound(batches, walk[s]) /\ out \in [Currencies -> Nat]
    BY WalkFacts
  <1>2. PICK k \in Currencies : k = walk[s].cur
    BY <1>1 DEF WalkSound
  <1>3. Even(out, out', walk[s], u)
    <2> SUFFICES ASSUME NEW c \in Currencies
                 PROVE  out'[c] - Giving(walk[s], c) + Giving(u, c) = out[c]
      BY DEF Even
    <2>1. Giving(u, c) = Giving(walk[s], c) /\ Giving(walk[s], c) \in Int
      BY <1>1 DEF Giving, Gives, WalkType
    <2> QED
      BY <1>1, <2>1
  <1> QED
    BY <1>2, <1>3, WalkAside

LEMMA PoolStep ==
    ASSUME HInv, HInv', Next
    PROVE  Pool!Next \/ UNCHANGED <<ReceivedUnits, RemainingUnits, AwayUnits>>
  <1>1. ASSUME NEW s \in Sessions, NEW op \in {"consume", "simulate", "restore"},
               NEW c \in Currencies, NEW n \in 1 .. MaxQty, Begin(s, op, c, n)
        PROVE  UNCHANGED <<ReceivedUnits, RemainingUnits, AwayUnits>>
    <2>1. PICK u : walk' = [walk EXCEPT ![s] = u] /\ u.pc = "read" /\ u.op = op /\ u.cur = c
                   /\ u.n = n
      BY <1>1, BeginWalk
    <2>2. /\ walk[s].pc = "idle" /\ batches' = batches /\ short' = short
          /\ out' = IF op = "restore" THEN [out EXCEPT ![c] = out[c] - n] ELSE out
      BY <1>1 DEF Begin
    <2>3. n \in Nat /\ out \in [Currencies -> Nat]
      BY FifoAssumption, WalkFacts
    <2>4. Even(out, out', walk[s], u)
      <3> SUFFICES ASSUME NEW b \in Currencies
                   PROVE  out'[b] - Giving(walk[s], b) + Giving(u, b) = out[b]
        BY DEF Even
      <3>1. Giving(walk[s], b) = 0
        BY <2>2 DEF Giving, Gives
      <3>2. Giving(u, b) = IF op = "restore" /\ b = c THEN n ELSE 0
        BY <2>1 DEF Giving, Gives
      <3>3. out'[b] = IF op = "restore" /\ b = c THEN out[b] - n ELSE out[b]
        BY <2>2, <2>3
      <3>4. out[b] \in Int /\ n \in Int
        BY <2>3
      <3> QED
        BY <3>1, <3>2, <3>3, <3>4
    <2> QED
      BY <2>1, <2>2, <2>4, WalkAside
  <1>2. ASSUME NEW s \in Sessions, Read(s) \/ LockRow(s) \/ PageRead(s) \/ Visit(s)
        PROVE  UNCHANGED <<ReceivedUnits, RemainingUnits, AwayUnits>>
    <2>1. PICK w \in WalkType : w = walk[s]
      BY WalkFacts
    <2>2. \E u : /\ walk' = [walk EXCEPT ![s] = u] /\ w.pc # "idle" /\ u.pc # "idle"
                 /\ u.op = w.op /\ u.cur = w.cur /\ u.n = w.n
      <3>1. CASE Read(s)
        <4>1. PICK u : walk' = [walk EXCEPT ![s] = u]
                       /\ u = [w EXCEPT !.pc = "lock", !.page = {},
                                        !.slipped = Slips(s),
                                        !.todo = {i \in DOMAIN batches : Matches(s, i)}]
          BY <2>1, <3>1, ReadWalk
        <4>2. u.pc = "lock" /\ u.op = w.op /\ u.cur = w.cur /\ u.n = w.n
          BY <4>1 DEF WalkType
        <4>3. w.pc = "read"
          BY <2>1, <3>1 DEF Read
        <4> QED
          BY <4>1, <4>2, <4>3
      <3>2. CASE LockRow(s)
        <4>1. PICK u, i : walk' = [walk EXCEPT ![s] = u]
                          /\ u = [w EXCEPT !.todo = w.todo \ {i}, !.held = w.held \cup {i},
                                           !.page = IF Matches(s, i) THEN w.page \cup {i} ELSE w.page]
          BY <2>1, <3>2, LockRowWalk
        <4>2. u.pc = w.pc /\ u.op = w.op /\ u.cur = w.cur /\ u.n = w.n
          BY <4>1 DEF WalkType
        <4>3. w.pc = "lock"
          BY <2>1, <3>2, Zenon DEF LockRow
        <4> QED
          BY <4>1, <4>2, <4>3
      <3>3. CASE PageRead(s)
        <4>1. PICK u : walk' = [walk EXCEPT ![s] = u]
                       /\ u = [w EXCEPT !.pc = IF w.page = {} THEN "end" ELSE "page"]
          BY <2>1, <3>3, PageReadWalk
        <4>2. u.pc \in {"end", "page"} /\ u.op = w.op /\ u.cur = w.cur /\ u.n = w.n
          BY <4>1 DEF WalkType
        <4>3. w.pc = "lock"
          BY <2>1, <3>3 DEF PageRead
        <4> QED
          BY <4>1, <4>2, <4>3
      <3>4. CASE Visit(s)
        <4>1. PICK u, i, m : Visited(s, u, i, m)
          BY <3>4, VisitWalk
        <4>2. u.pc # "idle"
          BY <4>1 DEF Visited, AfterVisit
        <4> QED
          BY <2>1, <4>1, <4>2 DEF Visited
      <3> QED
        BY <1>2, <3>1, <3>2, <3>3, <3>4
    <2>3. batches' = batches /\ out' = out /\ short' = short
      <3>1. CASE LockRow(s)
        BY <3>1, Zenon DEF LockRow
      <3>2. CASE Visit(s)
        BY <3>2, Zenon DEF Visit
      <3>3. CASE Read(s) \/ PageRead(s)
        BY <3>3 DEF Read, PageRead
      <3> QED
        BY <1>2, <3>1, <3>2, <3>3
    <2> QED
      BY <2>1, <2>2, <2>3, WalkGoesOn
  <1>3. ASSUME NEW s \in Sessions, Rollback(s)
        PROVE  UNCHANGED <<ReceivedUnits, RemainingUnits, AwayUnits>>
    <2>1. /\ walk' = [walk EXCEPT ![s] = Idle] /\ batches' = batches /\ short' = short
      BY <1>3, RollbackWalk
    <2>2. PICK w \in WalkType : w = walk[s] /\ WalkSound(batches, w) /\ out \in [Currencies -> Nat]
      BY WalkFacts
    <2>3. /\ w.pc # "idle"
          /\ out' = IF w.op = "restore" THEN [out EXCEPT ![w.cur] = out[w.cur] + w.n] ELSE out
      BY <1>3, <2>2 DEF Rollback
    <2>4. w.cur \in Currencies /\ w.n \in Nat
      BY <2>2, <2>3 DEF WalkSound, WalkType
    <2>5. Even(out, out', walk[s], Idle)
      <3> SUFFICES ASSUME NEW b \in Currencies
                   PROVE  out'[b] - Giving(walk[s], b) + Giving(Idle, b) = out[b]
        BY DEF Even
      <3>1. Giving(Idle, b) = 0
        BY DEF Giving, Gives, Idle
      <3>2. Giving(walk[s], b) = IF w.op = "restore" /\ b = w.cur THEN w.n ELSE 0
        BY <2>2, <2>3 DEF Giving, Gives
      <3>3. out'[b] = IF w.op = "restore" /\ b = w.cur THEN out[b] + w.n ELSE out[b]
        BY <2>2, <2>3, <2>4
      <3>4. out[b] \in Int /\ w.n \in Int
        BY <2>2, <2>4
      <3> QED
        BY <3>1, <3>2, <3>3, <3>4
    <2> QED
      BY <2>1, <2>4, <2>5, WalkAside
  <1> QED
    BY <1>1, <1>2, <1>3, CommitUnits, IntakeUnits DEF Next, Pool!Next

LEMMA PoolStart ==
    ASSUME HInv, Init
    PROVE  Pool!Init
  <1>1. /\ batches = FirstBatches /\ walk = [s \in Sessions |-> Idle]
        /\ out = [c \in Currencies |-> 0] /\ short = 0
    BY DEF Init
  <1>2. RowsTyped(batches)
    BY DEF HInv, Typed
  <1>3. PICK x, y : /\ x = [i \in DOMAIN batches |-> batches[i].received]
                    /\ y = [i \in DOMAIN batches |-> batches[i].remaining]
    OBVIOUS
  <1>4. \A i \in DOMAIN batches : x[i] \in Nat /\ y[i] = x[i]
    BY <1>1, <1>2, <1>3, RowFacts, FirstAssumption
  <1>5. IsFiniteSet(DOMAIN batches) /\ DOMAIN x = DOMAIN batches /\ DOMAIN y = DOMAIN batches
    BY <1>2, <1>3, RowFacts
  <1>6. /\ SumFunctionOnSet(x, DOMAIN batches) \in Nat
        /\ SumFunctionOnSet(y, DOMAIN batches) = SumFunctionOnSet(x, DOMAIN batches)
    BY <1>4, <1>5, SumSigns, SumSame
  <1>7. ReceivedUnits >= 0 /\ RemainingUnits = ReceivedUnits
    BY <1>3, <1>5, <1>6 DEF ReceivedUnits, RemainingUnits, ReceivedOf, RemainingOf, SumFunction
  <1>8. PICK os, ws : os = out /\ ws = walk
    OBVIOUS
  <1>9. os \in [Currencies -> Nat] /\ ws \in [Sessions -> WalkType]
    BY <1>8 DEF HInv, Typed
  <1>10. ASSUME NEW c \in Currencies PROVE AwayOf(os, ws)[c] = 0
    <2>1. {s \in Sessions : Gives(ws[s], c)} = {}
      BY <1>1, <1>8 DEF Gives, Idle
    <2>2. Given(ws, c) = 0
      BY <2>1, SumEmpty DEF Given
    <2> QED
      BY <1>1, <1>8, <2>2 DEF AwayOf
  <1>11. PICK h : h = AwayOf(os, ws)
    OBVIOUS
  <1>12. SumFunctionOnSet(h, Currencies) = 0
    BY <1>10, <1>11, FinitenessAssumption, SumSigns
  <1>13. SumFunction(AwayOf(os, ws)) = 0
    BY <1>9, <1>11, <1>12, AwayType
  <1>14. AwayUnits = 0
    BY <1>1, <1>8, <1>13, UnitsAway
  <1> QED
    BY <1>7, <1>14 DEF Pool!Init, ReceivedUnits, RemainingUnits, AwayUnits, ReceivedOf, RemainingOf

\* Whatever deliveries, returns, simulations and intakes interleave, and whatever is
\* rolled back, the batches are a pool of units: a consumption that commits takes as many
\* as it ships, a restoration puts back as many as it says, and nothing else moves a unit.
THEOREM BatchesArePool == Spec => ImplementsPool
  <1>1. Init => Pool!Init
    BY InitHolds, PoolStart
  <1>2. ASSUME HInv, [Next]_vars
        PROVE  [Pool!Next]_<<ReceivedUnits, RemainingUnits, AwayUnits>>
    <2>1. HInv'
      BY <1>2, NextKeeps
    <2>2. CASE Next
      BY <1>2, <2>1, <2>2, PoolStep
    <2>3. CASE UNCHANGED vars
      BY <2>3 DEF vars, ReceivedUnits, RemainingUnits, AwayUnits, ReceivedOf, RemainingOf, Away,
                  Restoring
    <2> QED
      BY <1>2, <2>2, <2>3
  <1>3. ASSUME HInv, [Next]_vars
        PROVE  [Pool!Next]_<<SumFunction([i \in DOMAIN batches |-> batches[i].received]),
                             SumFunction([i \in DOMAIN batches |-> batches[i].remaining]),
                             SumFunction([c \in Currencies |-> Away(c)]) + short>>
    BY <1>2, <1>3 DEF ReceivedUnits, RemainingUnits, AwayUnits, ReceivedOf, RemainingOf
  <1> QED
    BY <1>1, <1>3, HolderInvariant, PTL DEF Spec, ImplementsPool, Pool!Spec
------------------------------------------------------------------------------
(***************************************************************************)
(* One walk at a time.  A walk comes to the batches that it wants in       *)
(* order, and leaves none behind: what it counts is the oldest units.      *)
(***************************************************************************)

\* Walk w comes to batch i before it comes to batch j.
Before(w, i, j) == IF w.op = "restore" THEN j < i ELSE i < j

Wants(bs, w, i) ==
    IF w.op = "restore" THEN bs[i].received - View(bs, w, i) > 0
    ELSE bs[i].cur = w.cur /\ View(bs, w, i) > 0 /\ (w.op = "simulate" => i > w.cursor)

\* As the walk sees them, a batch is untouched until the older ones are used up.
InOrder(bs, w) ==
    \A i, j \in DOMAIN bs :
        i < j /\ bs[i].cur = bs[j].cur /\ View(bs, w, j) < bs[j].received => View(bs, w, i) = 0

\* The page holds what the walk wants first.
Sweeps(bs, w) ==
    /\ w.pc \in {"read", "lock", "page"} => w.left > 0
    /\ w.pc \in {"lock", "page"} => \A p \in w.page : Wants(bs, w, p)
    /\ w.pc = "lock" =>
         /\ \A j \in DOMAIN bs : Wants(bs, w, j) /\ j \notin w.page \cup w.todo
                => \A p \in w.page \cup w.todo : Before(w, p, j)
         /\ \A p \in w.page, t \in w.todo : Before(w, p, t)
    /\ w.pc = "page" =>
         \A j \in DOMAIN bs : Wants(bs, w, j) /\ j \notin w.page => \A p \in w.page : Before(w, p, j)
    /\ w.op = "restore" =>
         /\ w.pc = "lock" => \A j \in DOMAIN bs : Wants(bs, w, j) => j \in w.page \cup w.todo
         /\ w.pc = "end" /\ w.left > 0 => \A j \in DOMAIN bs : ~ Wants(bs, w, j)

\* The operators of CostIsFifo, for given batches.
UpTo(bs, c, k) == {j \in DOMAIN bs : bs[j].cur = c /\ j <= k}
UnitsOn(bs, S) == SumFunctionOnSet([j \in DOMAIN bs |-> bs[j].remaining], S)
AheadOf(bs, i) == UnitsOn(bs, UpTo(bs, bs[i].cur, i - 1))
UnitsIn(bs, n, i) ==
    IF n < AheadOf(bs, i) THEN 0 ELSE Lesser(n - AheadOf(bs, i), bs[i].remaining)
CostsIn(bs, n) == [i \in DOMAIN bs |-> UnitsIn(bs, n, i) * bs[i].cost]
OldestOf(bs, c, n) == SumFunctionOnSet(CostsIn(bs, n), UpTo(bs, c, MaxBatches))

\* What a walk has counted are the oldest units, and until it ends they are all those up to
\* its cursor.
CountsOldest(bs, w) ==
    /\ w.cursor \in DOMAIN bs \cup {0}
    /\ \A j \in DOMAIN bs : w.op = "consume" /\ w.written[j] # Unwritten => j <= w.cursor
    /\ w.op # "restore" =>
         /\ w.cost = OldestOf(bs, w.cur, w.n - w.left)
         /\ w.n - w.left <= UnitsOn(bs, UpTo(bs, w.cur, MaxBatches))
         /\ w.left > 0 => w.n - w.left = UnitsOn(bs, UpTo(bs, w.cur, w.cursor))
         /\ w.left > 0 /\ w.op = "consume" =>
                \A j \in UpTo(bs, w.cur, w.cursor) : View(bs, w, j) = 0

\* The page of a simulation began at a cursor that was not cut.
Straight(w) ==
    w.op = "simulate" /\ w.cursor # 0 /\ w.pc = "lock" => Cut[w.cursor] = w.cursor

\* A simulation whose cursor was cut may come to a batch again: it keeps the order, for it
\* writes nothing, and no other promise.
Neat(bs, w) ==
    /\ InOrder(bs, w)
    /\ w.slipped => w.op = "simulate"
    /\ ~ w.slipped => Sweeps(bs, w) /\ CountsOldest(bs, w) /\ Straight(w)

Alone == \A s, t \in Sessions : walk[s].pc # "idle" /\ walk[t].pc # "idle" => s = t

SoloInv == ~mixed => Alone /\ Neat(batches, Idle) /\ \A s \in Sessions : Neat(batches, walk[s])

LEMMA UnitsOnPart ==
    ASSUME NEW bs, RowsTyped(bs), NEW S \in SUBSET DOMAIN bs, NEW T \in SUBSET S
    PROVE  /\ UnitsOn(bs, S) \in Nat /\ UnitsOn(bs, T) \in Nat /\ UnitsOn(bs, T) <= UnitsOn(bs, S)
           /\ \A i \in S : UnitsOn(bs, S) = bs[i].remaining + UnitsOn(bs, S \ {i})
           /\ (\A i \in S \ T : bs[i].remaining = 0) => UnitsOn(bs, S) = UnitsOn(bs, T)
  <1>1. PICK f : f = [j \in DOMAIN bs |-> bs[j].remaining]
    OBVIOUS
  <1>2. \A j \in DOMAIN bs : f[j] = bs[j].remaining /\ f[j] \in Nat
    BY <1>1, RowFacts
  <1>3. IsFiniteSet(S) /\ IsFiniteSet(T) /\ IsFiniteSet(S \ T) /\ T \cap (S \ T) = {} /\ T \cup (S \ T) = S
    BY RowFacts, FS_Subset
  <1>4. /\ UnitsOn(bs, S) = SumFunctionOnSet(f, S) /\ UnitsOn(bs, T) = SumFunctionOnSet(f, T)
        /\ \A i : UnitsOn(bs, S \ {i}) = SumFunctionOnSet(f, S \ {i})
    BY <1>1 DEF UnitsOn
  <1>5. (\A x \in S : f[x] \in Nat) /\ (\A x \in S : f[x] \in Int) /\ (\A x \in T \cup (S \ T) : f[x] \in Int)
    BY <1>2
  <1>6. /\ SumFunctionOnSet(f, S) \in Nat /\ SumFunctionOnSet(f, T) \in Nat
        /\ SumFunctionOnSet(f, T) <= SumFunctionOnSet(f, S)
    BY <1>3, <1>5, SumPart
  <1>7. \A i \in S : SumFunctionOnSet(f, S) = f[i] + SumFunctionOnSet(f, S \ {i})
    BY <1>3, <1>5, SumRemove
  <1>8. ASSUME \A i \in S \ T : bs[i].remaining = 0
        PROVE  SumFunctionOnSet(f, S) = SumFunctionOnSet(f, T)
    <2>1. SumFunctionOnSet(f, S) = SumFunctionOnSet(f, T) + SumFunctionOnSet(f, S \ T)
      BY <1>3, <1>5, SumApart
    <2>2. \A x \in S \ T : f[x] = 0
      BY <1>2, <1>8
    <2>3. SumFunctionOnSet(f, S \ T) = 0
      BY <1>3, <2>2, SumSigns
    <2> QED
      BY <1>6, <2>1, <2>3
  <1> QED
    BY <1>2, <1>4, <1>6, <1>7, <1>8

\* The units ahead of a batch, and the units of it that are among the n oldest.
LEMMA AheadFacts ==
    ASSUME NEW bs, RowsTyped(bs), NEW i \in DOMAIN bs
    PROVE  /\ AheadOf(bs, i) \in Nat
           /\ \A j \in DOMAIN bs : j < i /\ bs[j].cur = bs[i].cur
                                     => AheadOf(bs, j) + bs[j].remaining <= AheadOf(bs, i)
           /\ AheadOf(bs, i) + bs[i].remaining <= UnitsOn(bs, UpTo(bs, bs[i].cur, MaxBatches))
  <1>1. ASSUME NEW j \in DOMAIN bs, NEW k \in Nat, j <= k
        PROVE  /\ AheadOf(bs, j) \in Nat
               /\ AheadOf(bs, j) + bs[j].remaining <= UnitsOn(bs, UpTo(bs, bs[j].cur, k))
    <2>1. PICK S, T, U : S = UpTo(bs, bs[j].cur, k) /\ T = UpTo(bs, bs[j].cur, j - 1) /\ U = S \ {j}
      OBVIOUS
    <2>2. j \in Nat \ {0} /\ \A x \in DOMAIN bs : x \in Nat
      BY RowFacts
    <2>3. S \in SUBSET DOMAIN bs /\ U \in SUBSET S /\ U \in SUBSET DOMAIN bs /\ T \in SUBSET U /\ j \in S
      BY <1>1, <2>1, <2>2 DEF UpTo
    <2>4. /\ UnitsOn(bs, S) = bs[j].remaining + UnitsOn(bs, U)
          /\ UnitsOn(bs, U) \in Nat /\ UnitsOn(bs, T) \in Nat /\ UnitsOn(bs, T) <= UnitsOn(bs, U)
      BY <2>1, <2>3, UnitsOnPart
    <2>5. bs[j].remaining \in Nat /\ AheadOf(bs, j) = UnitsOn(bs, T)
      BY <2>1, RowFacts DEF AheadOf
    <2> QED
      BY <2>1, <2>4, <2>5
  <1>2. i \in Nat \ {0} /\ i <= MaxBatches /\ MaxBatches \in Nat
    BY RowFacts, FifoAssumption DEF Rows
  <1>3. ASSUME NEW j \in DOMAIN bs, j < i, bs[j].cur = bs[i].cur
        PROVE  AheadOf(bs, j) + bs[j].remaining <= AheadOf(bs, i)
    <2>1. PICK k \in Nat : k = i - 1
      BY <1>2
    <2>2. j \in Nat /\ j <= k
      BY <1>2, <1>3, <2>1, RowFacts
    <2>3. AheadOf(bs, j) + bs[j].remaining <= UnitsOn(bs, UpTo(bs, bs[j].cur, k))
      BY <1>1, <2>2
    <2> QED
      BY <1>3, <2>1, <2>3 DEF AheadOf
  <1> QED
    BY <1>1, <1>2, <1>3

LEMMA UnitsInFacts ==
    ASSUME NEW bs, RowsTyped(bs), NEW i \in DOMAIN bs, NEW n \in Nat
    PROVE  /\ UnitsIn(bs, n, i) \in Nat
           /\ n <= AheadOf(bs, i) => UnitsIn(bs, n, i) = 0
           /\ n >= AheadOf(bs, i) + bs[i].remaining => UnitsIn(bs, n, i) = bs[i].remaining
           /\ n >= AheadOf(bs, i) /\ n <= AheadOf(bs, i) + bs[i].remaining
                => UnitsIn(bs, n, i) = n - AheadOf(bs, i)
           /\ CostsIn(bs, n)[i] = UnitsIn(bs, n, i) * bs[i].cost /\ CostsIn(bs, n)[i] \in Nat
  <1>1. AheadOf(bs, i) \in Nat /\ bs[i].remaining \in Nat /\ bs[i].cost \in Nat
    BY AheadFacts, RowFacts
  <1>2. /\ UnitsIn(bs, n, i) \in Nat
        /\ n <= AheadOf(bs, i) => UnitsIn(bs, n, i) = 0
        /\ n >= AheadOf(bs, i) + bs[i].remaining => UnitsIn(bs, n, i) = bs[i].remaining
        /\ n >= AheadOf(bs, i) /\ n <= AheadOf(bs, i) + bs[i].remaining
             => UnitsIn(bs, n, i) = n - AheadOf(bs, i)
    BY <1>1 DEF UnitsIn, Lesser
  <1>3. \A a, b \in Nat : a * b \in Nat
    OBVIOUS
  <1>4. CostsIn(bs, n)[i] = UnitsIn(bs, n, i) * bs[i].cost
    BY DEF CostsIn
  <1> QED
    BY <1>1, <1>2, <1>3, <1>4

LEMMA NothingCosts ==
    ASSUME NEW bs, RowsTyped(bs), NEW c
    PROVE  OldestOf(bs, c, 0) = 0
  <1>1. PICK S, f : S = UpTo(bs, c, MaxBatches) /\ f = CostsIn(bs, 0)
    OBVIOUS
  <1>2. S \subseteq DOMAIN bs /\ IsFiniteSet(S)
    BY <1>1, RowFacts, FS_Subset DEF UpTo
  <1>3. ASSUME NEW i \in S PROVE f[i] = 0
    <2>1. /\ CostsIn(bs, 0)[i] = UnitsIn(bs, 0, i) * bs[i].cost
          /\ 0 <= AheadOf(bs, i) => UnitsIn(bs, 0, i) = 0
      BY <1>2, UnitsInFacts
    <2>2. AheadOf(bs, i) \in Nat /\ bs[i].cost \in Nat
      BY <1>2, AheadFacts, RowFacts
    <2>3. \A x \in Nat : 0 * x = 0
      OBVIOUS
    <2> QED
      BY <1>1, <2>1, <2>2, <2>3
  <1>4. SumFunctionOnSet(f, S) = 0
    BY <1>2, <1>3, SumSigns
  <1> QED
    BY <1>1, <1>4 DEF OldestOf

\* Counting on from the units ahead of a batch costs what that batch costs.
LEMMA NextCosts ==
    ASSUME NEW bs, RowsTyped(bs), NEW i \in DOMAIN bs, NEW m \in Nat, m <= bs[i].remaining,
           NEW q \in Nat, q = AheadOf(bs, i)
    PROVE  OldestOf(bs, bs[i].cur, q + m) = OldestOf(bs, bs[i].cur, q) + m * bs[i].cost
  <1>1. PICK S, f, g : /\ S = UpTo(bs, bs[i].cur, MaxBatches)
                       /\ f = CostsIn(bs, q) /\ g = CostsIn(bs, q + m)
    OBVIOUS
  <1>2. S \subseteq DOMAIN bs /\ IsFiniteSet(S) /\ i \in S
    BY <1>1, RowFacts, FS_Subset, FifoAssumption DEF UpTo, Rows
  <1>3. q + m \in Nat /\ bs[i].cost \in Nat /\ bs[i].remaining \in Nat
    BY RowFacts
  <1>4. \A j \in S : f[j] \in Int /\ g[j] \in Int
    <2> SUFFICES ASSUME NEW j \in S PROVE f[j] \in Int /\ g[j] \in Int
      OBVIOUS
    <2>1. CostsIn(bs, q)[j] \in Nat /\ CostsIn(bs, q + m)[j] \in Nat
      BY <1>2, <1>3, UnitsInFacts
    <2> QED
      BY <1>1, <2>1
  <1>5. ASSUME NEW j \in S \ {i} PROVE g[j] = f[j]
    <2>1. j \in DOMAIN bs /\ bs[j].cur = bs[i].cur /\ j \in Nat /\ i \in Nat /\ j # i
      BY <1>1, <1>2, <1>5, RowFacts DEF UpTo
    <2>2. /\ CostsIn(bs, q)[j] = UnitsIn(bs, q, j) * bs[j].cost
          /\ CostsIn(bs, q + m)[j] = UnitsIn(bs, q + m, j) * bs[j].cost
      BY <1>3, <2>1, UnitsInFacts
    <2>3. AheadOf(bs, j) \in Nat /\ bs[j].remaining \in Nat
      BY <2>1, AheadFacts, RowFacts
    <2>4. UnitsIn(bs, q + m, j) = UnitsIn(bs, q, j)
      <3>1. CASE j < i
        <4>1. AheadOf(bs, j) + bs[j].remaining <= q
          BY <2>1, <3>1, AheadFacts
        <4>2. q >= AheadOf(bs, j) + bs[j].remaining /\ q + m >= AheadOf(bs, j) + bs[j].remaining
          BY <2>3, <4>1
        <4> QED
          BY <1>3, <2>1, <4>2, UnitsInFacts
      <3>2. CASE i < j
        <4>1. q + bs[i].remaining <= AheadOf(bs, j)
          BY <2>1, <3>2, AheadFacts
        <4>2. q <= AheadOf(bs, j) /\ q + m <= AheadOf(bs, j)
          BY <1>3, <2>3, <4>1
        <4>3. UnitsIn(bs, q, j) = 0 /\ UnitsIn(bs, q + m, j) = 0
          BY <1>3, <2>1, <4>2, UnitsInFacts
        <4> QED
          BY <4>3
      <3> QED
        BY <2>1, <3>1, <3>2
    <2> QED
      BY <1>1, <2>2, <2>4
  <1>6. f[i] = 0 /\ g[i] = m * bs[i].cost
    <2>1. /\ CostsIn(bs, q)[i] = UnitsIn(bs, q, i) * bs[i].cost
          /\ CostsIn(bs, q + m)[i] = UnitsIn(bs, q + m, i) * bs[i].cost
      BY <1>3, UnitsInFacts
    <2>2. UnitsIn(bs, q, i) = 0
      BY UnitsInFacts
    <2>3. q + m >= AheadOf(bs, i) /\ q + m <= AheadOf(bs, i) + bs[i].remaining /\ q + m - AheadOf(bs, i) = m
      BY <1>3
    <2>4. UnitsIn(bs, q + m, i) = m
      BY <1>3, <2>3, UnitsInFacts
    <2>5. \A x \in Nat : 0 * x = 0
      OBVIOUS
    <2> QED
      BY <1>1, <1>3, <2>1, <2>2, <2>4, <2>5
  <1>7. DiffersAt(f, S, g, S, i)
    BY <1>2, <1>4, <1>5 DEF DiffersAt
  <1>8. /\ SumFunctionOnSet(f, S) \in Int
        /\ SumFunctionOnSet(g, S) = SumFunctionOnSet(f, S) - f[i] + g[i]
    BY <1>2, <1>7, SumAtOne
  <1>9. /\ OldestOf(bs, bs[i].cur, q) = SumFunctionOnSet(f, S)
        /\ OldestOf(bs, bs[i].cur, q + m) = SumFunctionOnSet(g, S)
    BY <1>1 DEF OldestOf
  <1>10. g[i] \in Int
    BY <1>2, <1>4
  <1> QED
    BY <1>6, <1>8, <1>9, <1>10

\* Batch k is taken in.
Grown(bs, cs, k) ==
    /\ RowsTyped(bs) /\ RowsTyped(cs) /\ k \in Nat /\ k \notin DOMAIN bs
    /\ DOMAIN cs = DOMAIN bs \cup {k}
    /\ \A i \in DOMAIN bs : cs[i] = bs[i] /\ i < k

LEMMA GrownUnits ==
    ASSUME NEW bs, NEW cs, NEW k, Grown(bs, cs, k)
    PROVE  /\ \A S \in SUBSET DOMAIN bs : UnitsOn(cs, S) = UnitsOn(bs, S)
           /\ \A c : \A l \in Int : l < k => UpTo(cs, c, l) = UpTo(bs, c, l)
           /\ \A c : UpTo(cs, c, k - 1) = UpTo(bs, c, MaxBatches)
           /\ \A c : UpTo(bs, c, MaxBatches) \subseteq UpTo(cs, c, MaxBatches)
           /\ \A i \in DOMAIN bs : AheadOf(cs, i) = AheadOf(bs, i)
  <1>1. /\ \A i \in DOMAIN bs : i \in Nat \ {0} /\ i <= MaxBatches /\ cs[i] = bs[i] /\ i < k
        /\ k \in Nat /\ MaxBatches \in Nat /\ DOMAIN cs = DOMAIN bs \cup {k}
    BY RowFacts, FifoAssumption DEF Grown, Rows
  <1>2. ASSUME NEW S \in SUBSET DOMAIN bs PROVE UnitsOn(cs, S) = UnitsOn(bs, S)
    <2>1. PICK f, g : f = [j \in DOMAIN bs |-> bs[j].remaining] /\ g = [j \in DOMAIN cs |-> cs[j].remaining]
      OBVIOUS
    <2>2. IsFiniteSet(S) /\ \A j \in S : f[j] \in Int /\ g[j] = f[j]
      BY <1>1, <2>1, RowFacts, FS_Subset DEF Grown
    <2>3. SumFunctionOnSet(g, S) = SumFunctionOnSet(f, S)
      BY <2>2, SumSame
    <2> QED
      BY <2>1, <2>3 DEF UnitsOn
  <1>3. ASSUME NEW c, NEW l \in Int, l < k PROVE UpTo(cs, c, l) = UpTo(bs, c, l)
    <2>1. ~ (k <= l)
      BY <1>1, <1>3
    <2> QED
      BY <1>1, <2>1 DEF UpTo
  <1>4. ASSUME NEW c
        PROVE  /\ UpTo(cs, c, k - 1) = UpTo(bs, c, MaxBatches)
               /\ UpTo(bs, c, MaxBatches) \subseteq UpTo(cs, c, MaxBatches)
    <2>1. ~ (k <= k - 1) /\ \A i \in DOMAIN bs : i <= k - 1
      BY <1>1
    <2>2. UpTo(cs, c, k - 1) = UpTo(bs, c, MaxBatches)
      BY <1>1, <2>1 DEF UpTo
    <2>3. UpTo(bs, c, MaxBatches) \subseteq UpTo(cs, c, MaxBatches)
      BY <1>1 DEF UpTo
    <2> QED
      BY <2>2, <2>3
  <1>5. ASSUME NEW i \in DOMAIN bs PROVE AheadOf(cs, i) = AheadOf(bs, i)
    <2>1. PICK l \in Int : l = i - 1
      BY <1>1
    <2>2. l < k /\ cs[i] = bs[i]
      BY <1>1, <2>1
    <2>3. UpTo(cs, bs[i].cur, l) = UpTo(bs, bs[i].cur, l)
      BY <1>3, <2>2
    <2>4. UpTo(bs, bs[i].cur, l) \in SUBSET DOMAIN bs
      BY DEF UpTo
    <2> QED
      BY <1>2, <2>1, <2>2, <2>3, <2>4 DEF AheadOf
  <1> QED
    BY <1>2, <1>3, <1>4, <1>5

\* A new batch is no part of what can be counted without it.
LEMMA GrownCosts ==
    ASSUME NEW bs, NEW cs, NEW k, Grown(bs, cs, k), NEW c, NEW q \in Nat,
           q <= UnitsOn(bs, UpTo(bs, c, MaxBatches))
    PROVE  /\ OldestOf(cs, c, q) = OldestOf(bs, c, q)
           /\ q <= UnitsOn(cs, UpTo(cs, c, MaxBatches))
  <1>1. PICK f, g, S, T : /\ f = CostsIn(bs, q) /\ g = CostsIn(cs, q)
                          /\ S = UpTo(bs, c, MaxBatches) /\ T = UpTo(cs, c, MaxBatches)
    OBVIOUS
  <1>2. RowsTyped(bs) /\ RowsTyped(cs) /\ DOMAIN cs = DOMAIN bs \cup {k} /\ k \in DOMAIN cs
        /\ k \notin DOMAIN bs /\ k \in Nat
        /\ \A i \in DOMAIN bs : cs[i] = bs[i] /\ i < k
    BY DEF Grown
  <1>3. S \in SUBSET T /\ S \in SUBSET DOMAIN bs /\ T \in SUBSET DOMAIN cs /\ T \ S \subseteq {k}
    <2>1. S \subseteq T
      BY <1>1, GrownUnits
    <2> QED
      BY <1>1, <1>2, <2>1 DEF UpTo
  <1>4. IsFiniteSet(T)
    BY <1>2, <1>3, RowFacts, FS_Subset
  <1>5. ASSUME NEW i \in S PROVE f[i] \in Int /\ g[i] = f[i]
    <2>1. i \in DOMAIN bs /\ i \in DOMAIN cs /\ cs[i] = bs[i] /\ AheadOf(cs, i) = AheadOf(bs, i)
      BY <1>2, <1>3, GrownUnits
    <2>2. UnitsIn(cs, q, i) = UnitsIn(bs, q, i)
      BY <2>1 DEF UnitsIn
    <2>3. /\ CostsIn(bs, q)[i] = UnitsIn(bs, q, i) * bs[i].cost /\ CostsIn(bs, q)[i] \in Nat
          /\ CostsIn(cs, q)[i] = UnitsIn(cs, q, i) * cs[i].cost
      BY <1>2, <2>1, UnitsInFacts
    <2> QED
      BY <1>1, <2>1, <2>2, <2>3
  <1>6. ASSUME NEW i \in T \ S PROVE g[i] = 0
    <2>1. i = k /\ cs[k].cur = c
      BY <1>1, <1>3, <1>6 DEF UpTo
    <2>2. UpTo(cs, c, k - 1) = S
      BY <1>1, GrownUnits
    <2>3. UnitsOn(cs, S) = UnitsOn(bs, S)
      BY <1>3, GrownUnits
    <2>4. q <= AheadOf(cs, k)
      BY <1>1, <2>1, <2>2, <2>3 DEF AheadOf
    <2>5. UnitsIn(cs, q, k) = 0 /\ CostsIn(cs, q)[k] = UnitsIn(cs, q, k) * cs[k].cost
      BY <1>2, <2>4, UnitsInFacts
    <2>6. cs[k].cost \in Nat /\ \A x \in Nat : 0 * x = 0
      BY <1>2, RowFacts
    <2> QED
      BY <1>1, <2>1, <2>5, <2>6
  <1>7. SumFunctionOnSet(g, T) = SumFunctionOnSet(f, S)
    BY <1>3, <1>4, <1>5, <1>6, SumMasked
  <1>8. q <= UnitsOn(cs, T)
    <2>1. UnitsOn(cs, S) = UnitsOn(bs, S)
      BY <1>3, GrownUnits
    <2>2. UnitsOn(cs, S) <= UnitsOn(cs, T) /\ UnitsOn(cs, S) \in Nat /\ UnitsOn(cs, T) \in Nat
      BY <1>2, <1>3, UnitsOnPart
    <2> QED
      BY <1>1, <2>1, <2>2
  <1> QED
    BY <1>1, <1>7, <1>8 DEF OldestOf
------------------------------------------------------------------------------
(***************************************************************************)
(* Each step keeps a walk neat while there is no other.                    *)
(***************************************************************************)
LEMMA MatchesWants ==
    ASSUME HInv, NEW s \in Sessions, NEW i \in DOMAIN batches,
           walk[s].op = "simulate" /\ walk[s].cursor # 0 => Cut[walk[s].cursor] = walk[s].cursor
    PROVE  Matches(s, i) <=> Wants(batches, walk[s], i)
  <1>1. i > 0
    BY WalkFacts, RowFacts
  <1>2. walk[s].op = "simulate" => (PastCursor(s, i) <=> i > walk[s].cursor)
    BY <1>1 DEF PastCursor
  <1> QED
    BY <1>2, SeenIsView DEF Matches, PastCursor, Wants

\* What does not write keeps the order; what counts nothing keeps the count.
LEMMA OrderKept ==
    ASSUME NEW bs, NEW w, NEW u, u.written = w.written, InOrder(bs, w)
    PROVE  InOrder(bs, u)
  BY DEF InOrder, View

LEMMA CountKept ==
    ASSUME NEW bs, NEW w, NEW u, u.written = w.written, u.cursor = w.cursor, u.op = w.op,
           u.cost = w.cost, u.cur = w.cur, u.n = w.n, u.left = w.left, CountsOldest(bs, w)
    PROVE  CountsOldest(bs, u)
  BY DEF CountsOldest, View

LEMMA IdleNeat ==
    ASSUME NEW bs, RowsTyped(bs),
           \A i, j \in DOMAIN bs : i < j /\ bs[i].cur = bs[j].cur /\ bs[j].remaining < bs[j].received
                                      => bs[i].remaining = 0
    PROVE  Neat(bs, Idle)
  <1>1. /\ Idle.pc = "idle" /\ Idle.op = "consume" /\ Idle.cursor = 0 /\ Idle.cost = 0
        /\ Idle.n = 0 /\ Idle.left = 0 /\ Idle.cur = NoCurrency /\ \A i \in Rows : Idle.written[i] = Unwritten
        /\ Idle.slipped = FALSE
    BY DEF Idle
  <1>2. \A i \in DOMAIN bs : View(bs, Idle, i) = bs[i].remaining /\ Idle.written[i] = Unwritten
    BY <1>1, RowFacts DEF View
  <1>3. InOrder(bs, Idle)
    BY <1>2 DEF InOrder
  <1>4. Sweeps(bs, Idle)
    BY <1>1 DEF Sweeps
  <1>5. OldestOf(bs, NoCurrency, 0) = 0
    BY NothingCosts
  <1>6. UnitsOn(bs, UpTo(bs, NoCurrency, MaxBatches)) \in Nat
    <2>1. UpTo(bs, NoCurrency, MaxBatches) \in SUBSET DOMAIN bs
      BY DEF UpTo
    <2> QED
      BY <2>1, UnitsOnPart
  <1>7. CountsOldest(bs, Idle)
    BY <1>1, <1>2, <1>5, <1>6 DEF CountsOldest
  <1> QED
    BY <1>1, <1>3, <1>4, <1>7 DEF Neat, Straight

LEMMA BeginNeat ==
    ASSUME NEW bs, RowsTyped(bs), Neat(bs, Idle), NEW u, NEW n \in Nat \ {0},
           u.pc = "read", u.n = n, u.left = n, u.cost = 0, u.cursor = 0, u.written = Idle.written,
           ~ u.slipped
    PROVE  Neat(bs, u)
  <1>1. InOrder(bs, u)
    BY OrderKept DEF Neat
  <1>2. Sweeps(bs, u)
    BY DEF Sweeps
  <1>3. UpTo(bs, u.cur, 0) = {}
    <2>1. \A j \in DOMAIN bs : ~ (j <= 0)
      BY RowFacts
    <2> QED
      BY <2>1 DEF UpTo
  <1>4. UnitsOn(bs, UpTo(bs, u.cur, 0)) = 0
    BY <1>3, SumEmpty DEF UnitsOn
  <1>5. UnitsOn(bs, UpTo(bs, u.cur, MaxBatches)) \in Nat
    <2>1. UpTo(bs, u.cur, MaxBatches) \in SUBSET DOMAIN bs
      BY DEF UpTo
    <2> QED
      BY <2>1, UnitsOnPart
  <1>6. OldestOf(bs, u.cur, 0) = 0 /\ u.n - u.left = 0
    BY NothingCosts
  <1>7. \A i \in DOMAIN bs : u.written[i] = Unwritten
    BY RowFacts DEF Idle
  <1>8. CountsOldest(bs, u)
    BY <1>3, <1>4, <1>5, <1>6, <1>7 DEF CountsOldest
  <1> QED
    BY <1>1, <1>2, <1>8 DEF Neat, Straight

\* A step that neither counts nor writes.
Looks(w, u) ==
    /\ u.written = w.written /\ u.cursor = w.cursor /\ u.op = w.op /\ u.cost = w.cost
    /\ u.cur = w.cur /\ u.n = w.n /\ u.left = w.left

LEMMA LooksWants ==
    ASSUME NEW bs, NEW w, NEW u, Looks(w, u)
    PROVE  /\ \A i : Wants(bs, u, i) <=> Wants(bs, w, i)
           /\ \A i, j : Before(u, i, j) <=> Before(w, i, j)
  BY DEF Wants, Before, View, Looks

LEMMA SlippedNeat ==
    ASSUME NEW bs, NEW w, NEW u, Neat(bs, w), w.slipped, u.slipped = w.slipped,
           u.written = w.written, u.op = w.op
    PROVE  Neat(bs, u)
  BY OrderKept DEF Neat

LEMMA LooksNeat ==
    ASSUME NEW bs, NEW w, NEW u, Neat(bs, w), Looks(w, u), w.slipped => u.slipped,
           u.slipped => u.op = "simulate", ~ u.slipped => Sweeps(bs, u) /\ Straight(u)
    PROVE  Neat(bs, u)
  BY OrderKept, CountKept DEF Neat, Looks

LEMMA ReadNeat ==
    ASSUME HInv, NEW s \in Sessions, Read(s), Neat(batches, walk[s]),
           NEW u, u = [walk[s] EXCEPT !.pc = "lock", !.page = {},
                                      !.slipped = Slips(s),
                                      !.todo = {i \in DOMAIN batches : Matches(s, i)}]
    PROVE  Neat(batches, u)
  <1>1. PICK w \in WalkType : w = walk[s] /\ w.pc = "read"
    BY WalkFacts DEF Read
  <1>2. PICK T, b : T = {i \in DOMAIN batches : Matches(s, i)} /\ b = Slips(s)
    OBVIOUS
  <1>3. u = [w EXCEPT !.pc = "lock", !.page = {}, !.slipped = b, !.todo = T]
    BY <1>1, <1>2
  <1>4. Looks(w, u) /\ u.pc = "lock" /\ u.page = {} /\ u.todo = T /\ u.slipped = b
    BY <1>3 DEF Looks, WalkType
  <1>5. ASSUME ~ b PROVE Sweeps(batches, u) /\ Straight(u)
    <2>1. ~ w.slipped /\ (w.op = "simulate" /\ w.cursor # 0 => Cut[w.cursor] = w.cursor)
      BY <1>1, <1>2, <1>5 DEF Slips
    <2>2. \A j \in DOMAIN batches : Wants(batches, w, j) => j \in T
      BY <1>1, <1>2, <2>1, MatchesWants
    <2>3. \A j \in DOMAIN batches : Wants(batches, u, j) => j \in T
      BY <1>4, <2>2, LooksWants
    <2>4. u.left > 0
      BY <1>1, <1>4, <2>1 DEF Neat, Sweeps, Looks
    <2>5. Sweeps(batches, u)
      BY <1>4, <2>3, <2>4 DEF Sweeps
    <2>6. Straight(u)
      BY <1>4, <2>1 DEF Straight, Looks
    <2> QED
      BY <2>5, <2>6
  <1>6. b => u.op = "simulate"
    BY <1>1, <1>2, <1>4 DEF Neat, Looks, Slips
  <1>7. w.slipped => b
    BY <1>1, <1>2 DEF Slips
  <1>8. Neat(batches, w)
    BY <1>1
  <1> QED
    BY <1>4, <1>5, <1>6, <1>7, <1>8, LooksNeat

LEMMA LockRowNeat ==
    ASSUME HInv, NEW s \in Sessions, LockRow(s), Neat(batches, walk[s]), NEW u, NEW i,
           i = First(s, walk[s].todo), i \in walk[s].todo,
           u = [walk[s] EXCEPT !.todo = walk[s].todo \ {i}, !.held = walk[s].held \cup {i},
                               !.page = IF Matches(s, i) THEN walk[s].page \cup {i}
                                                         ELSE walk[s].page]
    PROVE  Neat(batches, u)
  <1> SUFFICES ASSUME ~ walk[s].slipped PROVE Neat(batches, u)
    <2>1. u.slipped = walk[s].slipped /\ u.written = walk[s].written /\ u.op = walk[s].op
      BY WalkFacts DEF WalkType
    <2> QED
      BY <2>1, SlippedNeat
  <1>1. PICK w \in WalkType : w = walk[s] /\ WalkSound(batches, w) /\ RowsTyped(batches)
    BY WalkFacts
  <1>2. w.pc = "lock"
    BY <1>1, Zenon DEF LockRow
  <1>3. PICK T, H, P : /\ T = w.todo \ {i} /\ H = w.held \cup {i}
                       /\ P = IF Wants(batches, w, i) THEN w.page \cup {i} ELSE w.page
    OBVIOUS
  <1>4. u = [w EXCEPT !.todo = T, !.held = H, !.page = P]
    <2>1. i \in DOMAIN batches
      BY <1>1 DEF WalkSound
    <2>2. w.op = "simulate" /\ w.cursor # 0 => Cut[w.cursor] = w.cursor
      BY <1>1, <1>2 DEF Neat, Straight
    <2> QED
      BY <1>1, <1>3, <2>1, <2>2, MatchesWants
  <1>5. /\ Looks(w, u) /\ u.pc = "lock" /\ u.page = P /\ u.todo = T
        /\ u.slipped = w.slipped /\ Straight(w)
    BY <1>1, <1>2, <1>4 DEF Looks, WalkType, Neat
  <1>6. w.todo \subseteq DOMAIN batches /\ w.todo # {} /\ i \in w.todo
    BY <1>1 DEF WalkSound
  <1>7. \A j \in w.todo : j # i => Before(w, i, j)
    <2>1. /\ w.op = "restore" => \A j \in w.todo : j <= i
          /\ w.op # "restore" => \A j \in w.todo : i <= j
      BY <1>1, <1>6, FirstIs
    <2>2. \A j \in w.todo : j \in Nat
      BY <1>1, <1>6, RowFacts
    <2> QED
      BY <1>6, <2>1, <2>2 DEF Before
  <1>8. /\ w.left > 0
        /\ \A p \in w.page : Wants(batches, w, p)
        /\ \A j \in DOMAIN batches : Wants(batches, w, j) /\ j \notin w.page \cup w.todo
               => \A p \in w.page \cup w.todo : Before(w, p, j)
        /\ \A p \in w.page, t \in w.todo : Before(w, p, t)
        /\ w.op = "restore" =>
               \A j \in DOMAIN batches : Wants(batches, w, j) => j \in w.page \cup w.todo
    BY <1>1, <1>2 DEF Neat, Sweeps
  <1>9. \A j : Wants(batches, w, j) /\ j \in w.page \cup w.todo => j \in P \cup T
    BY <1>3
  <1>10. P \cup T \subseteq w.page \cup w.todo
    BY <1>3, <1>6
  <1>11. /\ \A p \in P : Wants(batches, w, p)
         /\ \A j \in DOMAIN batches : Wants(batches, w, j) /\ j \notin P \cup T
                => \A p \in P \cup T : Before(w, p, j)
         /\ \A p \in P, t \in T : Before(w, p, t)
         /\ w.op = "restore" => \A j \in DOMAIN batches : Wants(batches, w, j) => j \in P \cup T
    <2>1. \A p \in P, t \in T : Before(w, p, t)
      BY <1>3, <1>7, <1>8
    <2>2. \A p \in P : Wants(batches, w, p)
      BY <1>3, <1>8
    <2> QED
      BY <1>8, <1>9, <1>10, <2>1, <2>2
  <1>12. /\ \A j : Wants(batches, u, j) <=> Wants(batches, w, j)
         /\ \A x, y : Before(u, x, y) <=> Before(w, x, y)
    BY <1>5, LooksWants
  <1>13. Sweeps(batches, u)
    BY <1>5, <1>8, <1>11, <1>12 DEF Sweeps, Looks
  <1>14. Straight(u)
    BY <1>2, <1>5 DEF Straight, Looks
  <1> QED
    BY <1>1, <1>5, <1>13, <1>14, LooksNeat

LEMMA PageReadNeat ==
    ASSUME HInv, NEW s \in Sessions, PageRead(s), Neat(batches, walk[s]),
           NEW u, u = [walk[s] EXCEPT !.pc = IF walk[s].page = {} THEN "end" ELSE "page"]
    PROVE  Neat(batches, u)
  <1> SUFFICES ASSUME ~ walk[s].slipped PROVE Neat(batches, u)
    <2>1. u.slipped = walk[s].slipped /\ u.written = walk[s].written /\ u.op = walk[s].op
      BY WalkFacts DEF WalkType
    <2> QED
      BY <2>1, SlippedNeat
  <1>1. PICK w \in WalkType : w = walk[s] /\ w.pc = "lock" /\ (w.todo = {} \/ PageFull(s))
    BY WalkFacts DEF PageRead
  <1>2. PICK pc : pc = IF w.page = {} THEN "end" ELSE "page"
    OBVIOUS
  <1>3. u = [w EXCEPT !.pc = pc]
    BY <1>1, <1>2
  <1>4. Looks(w, u) /\ u.pc = pc /\ u.page = w.page /\ u.slipped = w.slipped /\ pc # "lock"
    BY <1>2, <1>3 DEF Looks, WalkType
  <1>5. w.page = {} => w.todo = {}
    <2>1. PageFull(s) => w.page # {}
      BY <1>1, FS_EmptySet, FifoAssumption DEF PageFull
    <2> QED
      BY <1>1, <2>1
  <1>6. /\ w.left > 0
        /\ \A p \in w.page : Wants(batches, w, p)
        /\ \A j \in DOMAIN batches : Wants(batches, w, j) /\ j \notin w.page \cup w.todo
               => \A p \in w.page \cup w.todo : Before(w, p, j)
        /\ \A p \in w.page, t \in w.todo : Before(w, p, t)
        /\ w.op = "restore" =>
               \A j \in DOMAIN batches : Wants(batches, w, j) => j \in w.page \cup w.todo
    BY <1>1 DEF Neat, Sweeps
  <1>7. \A j \in DOMAIN batches : Wants(batches, w, j) /\ j \notin w.page
               => \A p \in w.page : Before(w, p, j)
    BY <1>6
  <1>8. w.op = "restore" /\ w.page = {} => \A j \in DOMAIN batches : ~ Wants(batches, w, j)
    BY <1>5, <1>6
  <1>9. /\ \A j : Wants(batches, u, j) <=> Wants(batches, w, j)
        /\ \A x, y : Before(u, x, y) <=> Before(w, x, y)
    BY <1>4, LooksWants
  <1>10. Sweeps(batches, u)
    BY <1>2, <1>4, <1>6, <1>7, <1>8, <1>9 DEF Sweeps, Looks
  <1> QED
    BY <1>1, <1>4, <1>10, LooksNeat DEF Straight

\* The walk w, which comes to batch i first of those that it wants, moves m units of it
\* and becomes u.
Turn(bs, w, u, i, m) ==
    /\ RowsTyped(bs) /\ i \in DOMAIN bs /\ m \in Nat /\ w.op \in {"consume", "simulate", "restore"}
    /\ w.left \in Nat /\ w.n \in Nat /\ w.left <= w.n /\ m <= w.left /\ w.cursor \in Nat
    /\ Wants(bs, w, i)
    /\ \A j \in DOMAIN bs : j # i /\ Wants(bs, w, j) => Before(w, i, j)
    /\ \A j \in DOMAIN bs : View(bs, w, j) \in Nat /\ View(bs, w, j) <= bs[j].received
    /\ \/ m = w.left
       \/ w.op = "restore" /\ m = bs[i].received - View(bs, w, i)
       \/ w.op # "restore" /\ m = View(bs, w, i)
    /\ w.op # "restore" => m <= View(bs, w, i)
    /\ w.op = "simulate" => \A j \in DOMAIN bs : w.written[j] = Unwritten
    /\ \A j \in DOMAIN bs : j # i => u.written[j] = w.written[j]
    /\ w.op = "consume" => View(bs, u, i) = View(bs, w, i) - m
    /\ w.op = "restore" => View(bs, u, i) = View(bs, w, i) + m
    /\ w.op = "simulate" => u.written = w.written
    /\ u.op = w.op /\ u.cur = w.cur /\ u.n = w.n /\ u.left = w.left - m /\ u.cursor = i

LEMMA VisitTurns ==
    ASSUME HInv, NEW s \in Sessions, NEW u, NEW i, NEW m, Visited(s, u, i, m),
           WalkSound(batches, u), Sweeps(batches, walk[s])
    PROVE  Turn(batches, walk[s], u, i, m)
  <1>1. PICK w \in WalkType : w = walk[s] /\ WalkSound(batches, w) /\ RowsTyped(batches)
    BY WalkFacts
  <1>2. /\ w.pc = "page" /\ i = First(s, w.page) /\ i \in w.page /\ i \in DOMAIN batches
        /\ i \in w.held /\ m = Moved(s, i)
        /\ u.op = w.op /\ u.cur = w.cur /\ u.n = w.n /\ u.left = w.left - m /\ u.cursor = i
        /\ u.written = Rewritten(s, i, m)
    BY <1>1 DEF Visited
  <1>3. /\ m \in Nat /\ m <= w.left
        /\ \/ m = w.left
           \/ w.op = "restore" /\ m = batches[i].received - View(batches, w, i)
           \/ w.op # "restore" /\ m = View(batches, w, i)
        /\ w.op # "restore" => m <= View(batches, w, i)
    BY <1>1, <1>2, MovedFacts
  <1>4. /\ \A j \in Rows : j # i => u.written[j] = w.written[j]
        /\ w.op = "simulate" => u.written = w.written
        /\ w.op = "consume" => u.written[i] = View(batches, w, i) - m
        /\ w.op = "restore" => u.written[i] = View(batches, w, i) + m
        /\ w.op # "simulate" => u.written[i] \in 0 .. batches[i].received
    BY <1>1, <1>2, RewrittenFacts
  <1>5. w.op # "simulate" => View(batches, u, i) = u.written[i]
    BY <1>1, <1>2, <1>4, RowFacts DEF View, Unwritten
  <1>6. \A j \in DOMAIN batches : /\ View(batches, w, j) \in Nat
                                  /\ View(batches, w, j) <= batches[j].received
    BY <1>1, RowFacts DEF WalkSound
  <1>7. \A p \in w.page : p # i => Before(w, i, p)
    <2>1. w.page \subseteq DOMAIN batches /\ w.page # {}
      BY <1>1, <1>2 DEF WalkSound
    <2>2. /\ w.op = "restore" => \A j \in w.page : j <= i
          /\ w.op # "restore" => \A j \in w.page : i <= j
      BY <1>1, <1>2, <2>1, FirstIs
    <2>3. \A j \in w.page : j \in Nat
      BY <1>1, <2>1, RowFacts
    <2> QED
      BY <1>2, <2>2, <2>3 DEF Before
  <1>8. /\ \A p \in w.page : Wants(batches, w, p)
        /\ \A j \in DOMAIN batches : Wants(batches, w, j) /\ j \notin w.page
               => \A p \in w.page : Before(w, p, j)
    BY <1>1, <1>2 DEF Sweeps
  <1>9. \A j \in DOMAIN batches : j # i /\ Wants(batches, w, j) => Before(w, i, j)
    BY <1>2, <1>7, <1>8
  <1>10. /\ w.op \in {"consume", "simulate", "restore"} /\ w.left \in Nat /\ w.n \in Nat
         /\ w.left <= w.n /\ w.cursor \in Nat
         /\ w.op = "simulate" => \A j \in DOMAIN batches : w.written[j] = Unwritten
    BY <1>1, RowFacts DEF WalkType, WalkSound
  <1>11. \A j \in DOMAIN batches : j # i => u.written[j] = w.written[j]
    BY <1>1, <1>4, RowFacts
  <1> QED
    BY <1>1, <1>2, <1>3, <1>4, <1>5, <1>6, <1>8, <1>9, <1>10, <1>11 DEF Turn

LEMMA TurnViews ==
    ASSUME NEW bs, NEW w, NEW u, NEW i, NEW m, Turn(bs, w, u, i, m)
    PROVE  \A j \in DOMAIN bs : j # i \/ w.op = "simulate" => View(bs, u, j) = View(bs, w, j)
  BY DEF Turn, View

LEMMA TurnOrder ==
    ASSUME NEW bs, NEW w, NEW u, NEW i, NEW m, Turn(bs, w, u, i, m), InOrder(bs, w)
    PROVE  InOrder(bs, u)
  <1> SUFFICES ASSUME NEW x \in DOMAIN bs, NEW y \in DOMAIN bs, x < y, bs[x].cur = bs[y].cur,
                      View(bs, u, y) < bs[y].received
               PROVE  View(bs, u, x) = 0
    BY DEF InOrder
  <1>1. /\ View(bs, w, y) < bs[y].received => View(bs, w, x) = 0
        /\ \A j \in DOMAIN bs : j # i => View(bs, u, j) = View(bs, w, j)
    BY TurnViews DEF InOrder
  <1>2. /\ Wants(bs, w, i) /\ i \in DOMAIN bs /\ RowsTyped(bs)
        /\ \A j \in DOMAIN bs : j # i /\ Wants(bs, w, j) => Before(w, i, j)
        /\ \A j \in DOMAIN bs : View(bs, w, j) \in Nat /\ View(bs, w, j) <= bs[j].received
        /\ w.op \in {"consume", "simulate", "restore"}
    BY DEF Turn
  <1>3. x \in Nat /\ y \in Nat /\ i \in Nat /\ bs[y].received \in Nat
    BY <1>2, RowFacts
  <1>4. CASE w.op = "simulate"
    <2>1. View(bs, u, x) = View(bs, w, x) /\ View(bs, u, y) = View(bs, w, y)
      BY <1>4, TurnViews
    <2> QED
      BY <1>1, <2>1
  <1>5. CASE w.op = "consume"
    <2>1. CASE y = i
      <3>1. View(bs, w, x) # 0 => Wants(bs, w, x)
        BY <1>2, <1>5, <2>1 DEF Wants
      <3>2. ~ Before(w, i, x) /\ x # i
        BY <1>3, <1>5, <2>1 DEF Before
      <3> QED
        BY <1>1, <1>2, <3>1, <3>2
    <2>2. CASE x = i
      <3>1. View(bs, w, i) > 0
        BY <1>2, <1>5 DEF Wants
      <3>2. View(bs, u, y) = View(bs, w, y)
        BY <1>1, <1>3, <2>2
      <3> QED
        BY <1>1, <2>2, <3>1, <3>2
    <2> QED
      BY <1>1, <2>1, <2>2
  <1>6. CASE w.op = "restore"
    <2>1. CASE y = i
      <3>1. View(bs, w, i) < bs[i].received
        BY <1>2, <1>3, <1>6, <2>1 DEF Wants
      <3>2. View(bs, u, x) = View(bs, w, x)
        BY <1>1, <1>3, <2>1
      <3> QED
        BY <1>1, <2>1, <3>1, <3>2
    <2>2. CASE x = i
      <3>1. View(bs, w, y) < bs[y].received /\ y # i
        BY <1>1, <1>3, <2>2
      <3>2. bs[y].received - View(bs, w, y) > 0
        BY <1>2, <1>3, <3>1
      <3>3. Wants(bs, w, y)
        BY <1>6, <3>2 DEF Wants
      <3>4. ~ Before(w, i, y)
        BY <1>3, <1>6, <2>2 DEF Before
      <3> QED
        BY <1>2, <3>1, <3>3, <3>4
    <2> QED
      BY <1>1, <2>1, <2>2
  <1> QED
    BY <1>2, <1>4, <1>5, <1>6

LEMMA TurnWants ==
    ASSUME NEW bs, NEW w, NEW u, NEW i, NEW m, Turn(bs, w, u, i, m)
    PROVE  /\ \A j \in DOMAIN bs : j # i /\ Wants(bs, w, j) => Wants(bs, u, j)
           /\ \A j \in DOMAIN bs : j # i /\ Wants(bs, u, j) => Wants(bs, w, j)
           /\ u.left > 0 => ~ Wants(bs, u, i)
           /\ \A x, y : Before(u, x, y) <=> Before(w, x, y)
  <1>1. /\ Wants(bs, w, i) /\ i \in DOMAIN bs /\ RowsTyped(bs)
        /\ \A j \in DOMAIN bs : j # i /\ Wants(bs, w, j) => Before(w, i, j)
        /\ w.op \in {"consume", "simulate", "restore"} /\ u.op = w.op /\ u.cur = w.cur
        /\ u.cursor = i
    BY DEF Turn
  <1>2. ASSUME NEW j \in DOMAIN bs, j # i, Wants(bs, w, j) PROVE Wants(bs, u, j)
    <2>1. View(bs, u, j) = View(bs, w, j) /\ Before(w, i, j)
      BY <1>1, <1>2, TurnViews
    <2>2. w.op = "simulate" => j > i
      BY <2>1, <1>1, RowFacts DEF Before
    <2> QED
      BY <1>1, <1>2, <2>1, <2>2 DEF Wants
  <1>3. ASSUME NEW j \in DOMAIN bs, j # i, Wants(bs, u, j) PROVE Wants(bs, w, j)
    <2>1. View(bs, u, j) = View(bs, w, j)
      BY <1>1, <1>3, TurnViews
    <2>2. CASE w.op = "simulate"
      <3>1. i > w.cursor /\ j > i /\ View(bs, w, j) > 0 /\ bs[j].cur = w.cur
        BY <1>1, <1>3, <2>1, <2>2 DEF Wants
      <3>2. j > w.cursor
        <4>1. w.cursor \in Nat /\ i \in Nat /\ j \in Nat
          BY <1>1, RowFacts DEF Turn
        <4> QED
          BY <3>1, <4>1
      <3> QED
        BY <2>2, <3>1, <3>2 DEF Wants
    <2>3. CASE w.op # "simulate"
      BY <1>1, <1>3, <2>1, <2>3 DEF Wants
    <2> QED
      BY <2>2, <2>3
  <1>4. ASSUME u.left > 0 PROVE ~ Wants(bs, u, i)
    <2>1. m # w.left
      BY <1>4 DEF Turn
    <2>2. View(bs, w, i) \in Nat /\ bs[i].received \in Nat /\ i \in Nat
      BY <1>1, RowFacts DEF Turn
    <2>3. CASE w.op = "restore"
      <3>1. bs[i].received - View(bs, u, i) = 0
        BY <2>1, <2>2, <2>3 DEF Turn
      <3> QED
        BY <1>1, <2>3, <3>1 DEF Wants
    <2>4. CASE w.op = "consume"
      <3>1. View(bs, u, i) = 0
        BY <2>1, <2>2, <2>4 DEF Turn
      <3> QED
        BY <1>1, <2>4, <3>1 DEF Wants
    <2>5. CASE w.op = "simulate"
      <3>1. ~ (i > u.cursor)
        BY <1>1, <2>2
      <3> QED
        BY <1>1, <2>5, <3>1 DEF Wants
    <2> QED
      BY <1>1, <2>3, <2>4, <2>5
  <1>5. \A x, y : Before(u, x, y) <=> Before(w, x, y)
    BY <1>1 DEF Before
  <1> QED
    BY <1>2, <1>3, <1>4, <1>5

LEMMA TurnSweeps ==
    ASSUME NEW bs, NEW w, NEW u, NEW i, NEW m, Turn(bs, w, u, i, m), Sweeps(bs, w),
           NEW s, w.pc = "page", i \in w.page, u.page = w.page \ {i}, w.page \subseteq DOMAIN bs,
           u.pc = AfterVisit(s, w.left - m, w.page \ {i})
    PROVE  Sweeps(bs, u)
  <1>1. /\ \A p \in w.page : Wants(bs, w, p)
        /\ \A j \in DOMAIN bs : Wants(bs, w, j) /\ j \notin w.page
               => \A p \in w.page : Before(w, p, j)
    BY DEF Sweeps
  <1>2. u.left \in Nat /\ u.left = w.left - m
    BY DEF Turn
  <1>3. /\ u.pc \in {"end", "read", "page"}
        /\ u.pc # "end" => u.left # 0
        /\ u.pc = "end" => u.left = 0
    BY <1>2 DEF AfterVisit
  <1>4. u.pc = "page" =>
            /\ \A p \in u.page : Wants(bs, u, p)
            /\ \A j \in DOMAIN bs : Wants(bs, u, j) /\ j \notin u.page
                   => \A p \in u.page : Before(u, p, j)
    <2> SUFFICES ASSUME u.pc = "page"
                 PROVE  /\ \A p \in u.page : Wants(bs, u, p)
                        /\ \A j \in DOMAIN bs : Wants(bs, u, j) /\ j \notin u.page
                               => \A p \in u.page : Before(u, p, j)
      OBVIOUS
    <2>1. u.left > 0
      BY <1>2, <1>3
    <2>2. \A p \in u.page : Wants(bs, u, p)
      BY <1>1, TurnWants
    <2>3. ASSUME NEW j \in DOMAIN bs, Wants(bs, u, j), j \notin u.page, NEW p \in u.page
          PROVE  Before(u, p, j)
      <3>1. j # i
        BY <2>1, <2>3, TurnWants
      <3>2. Wants(bs, w, j) /\ j \notin w.page
        BY <2>3, <3>1, TurnWants
      <3> QED
        BY <1>1, <2>3, <3>2, TurnWants
    <2> QED
      BY <2>2, <2>3
  <1> QED
    BY <1>2, <1>3, <1>4 DEF Sweeps

LEMMA TurnCounts ==
    ASSUME NEW bs, NEW w, NEW u, NEW i, NEW m, Turn(bs, w, u, i, m), CountsOldest(bs, w),
           w.left > 0, u.cost = w.cost + (IF w.op = "restore" THEN 0 ELSE m * bs[i].cost)
    PROVE  CountsOldest(bs, u)
  <1>1. /\ Wants(bs, w, i) /\ i \in DOMAIN bs /\ RowsTyped(bs) /\ m \in Nat
        /\ \A j \in DOMAIN bs : j # i /\ Wants(bs, w, j) => Before(w, i, j)
        /\ w.op \in {"consume", "simulate", "restore"} /\ u.op = w.op /\ u.cur = w.cur
        /\ u.cursor = i /\ u.n = w.n /\ u.left = w.left - m /\ w.cursor \in Nat
        /\ w.left \in Nat /\ w.n \in Nat /\ w.left <= w.n /\ m <= w.left
        /\ \A j \in DOMAIN bs : View(bs, w, j) \in Nat
        /\ w.op # "restore" => m <= View(bs, w, i)
        /\ w.op = "simulate" => \A j \in DOMAIN bs : w.written[j] = Unwritten
        /\ \A j \in DOMAIN bs : j # i => u.written[j] = w.written[j]
    BY DEF Turn
  <1>2. \A j \in DOMAIN bs : /\ j \in Nat \ {0} /\ bs[j].remaining \in Nat /\ bs[j].cost \in Nat
                             /\ j <= MaxBatches
    BY <1>1, RowFacts, FifoAssumption DEF Rows
  <1>3. CASE w.op = "restore"
    BY <1>1, <1>3 DEF CountsOldest
  <1>4. CASE w.op # "restore"
    <2> DEFINE c == w.cur
               q == w.n - w.left
    <2>1. bs[i].cur = c /\ View(bs, w, i) > 0 /\ (w.op = "simulate" => i > w.cursor)
      BY <1>1, <1>4 DEF Wants
    <2>2. /\ w.cost = OldestOf(bs, c, q) /\ q = UnitsOn(bs, UpTo(bs, c, w.cursor))
          /\ \A j \in DOMAIN bs : w.op = "consume" /\ w.written[j] # Unwritten => j <= w.cursor
          /\ w.op = "consume" => \A j \in UpTo(bs, c, w.cursor) : View(bs, w, j) = 0
      BY <1>4 DEF CountsOldest
    <2>3. i > w.cursor
      <3>1. CASE w.op = "consume"
        <4>1. i \notin UpTo(bs, c, w.cursor)
          BY <2>1, <2>2, <3>1
        <4> QED
          BY <1>1, <1>2, <2>1, <4>1 DEF UpTo
      <3> QED
        BY <1>1, <1>4, <2>1, <3>1
    <2>4. \A j \in DOMAIN bs : j > w.cursor => View(bs, w, j) = bs[j].remaining
      <3> SUFFICES ASSUME NEW j \in DOMAIN bs, j > w.cursor PROVE View(bs, w, j) = bs[j].remaining
        OBVIOUS
      <3>1. ~ (j <= w.cursor)
        BY <1>1, <1>2
      <3>2. w.written[j] = Unwritten
        BY <1>1, <1>4, <2>2, <3>1
      <3> QED
        BY <3>2 DEF View
    <2>5. ASSUME NEW j \in DOMAIN bs, bs[j].cur = c, j < i, j > w.cursor \/ w.op = "consume"
          PROVE  View(bs, w, j) = 0
      <3>1. ~ Before(w, i, j) /\ j # i
        BY <1>1, <1>2, <1>4, <2>5 DEF Before
      <3>2. ~ Wants(bs, w, j)
        BY <1>1, <3>1
      <3>3. ~ (View(bs, w, j) > 0)
        BY <1>1, <1>4, <2>5, <3>2 DEF Wants
      <3> QED
        BY <1>1, <3>3
    <2>6. q = AheadOf(bs, i)
      <3>1. PICK S, T : S = UpTo(bs, c, i - 1) /\ T = UpTo(bs, c, w.cursor)
        OBVIOUS
      <3>2. S \in SUBSET DOMAIN bs /\ T \in SUBSET S
        BY <1>1, <1>2, <2>3, <3>1 DEF UpTo
      <3>3. \A j \in S \ T : bs[j].remaining = 0
        <4> SUFFICES ASSUME NEW j \in S \ T PROVE bs[j].remaining = 0
          OBVIOUS
        <4>1. j \in DOMAIN bs /\ bs[j].cur = c /\ j < i /\ j > w.cursor
          BY <1>1, <1>2, <3>1 DEF UpTo
        <4> QED
          BY <2>4, <2>5, <4>1
      <3>4. UnitsOn(bs, S) = UnitsOn(bs, T)
        BY <1>1, <3>2, <3>3, UnitsOnPart
      <3> QED
        BY <2>1, <2>2, <3>1, <3>4 DEF AheadOf
    <2>7. q \in Nat /\ u.n - u.left = q + m /\ m <= bs[i].remaining
      BY <1>1, <1>4, <2>3, <2>4
    <2> HIDE DEF q
    <2>8. u.cost = OldestOf(bs, c, q + m)
      <3>1. OldestOf(bs, c, q + m) = OldestOf(bs, c, q) + m * bs[i].cost
        BY <1>1, <2>1, <2>6, <2>7, NextCosts
      <3> QED
        BY <1>4, <2>2, <3>1
    <2>9. q + m <= UnitsOn(bs, UpTo(bs, c, MaxBatches))
      <3>1. AheadOf(bs, i) + bs[i].remaining <= UnitsOn(bs, UpTo(bs, c, MaxBatches))
        BY <1>1, <2>1, AheadFacts
      <3>2. UnitsOn(bs, UpTo(bs, c, MaxBatches)) \in Nat
        <4>1. UpTo(bs, c, MaxBatches) \in SUBSET DOMAIN bs
          BY DEF UpTo
        <4> QED
          BY <1>1, <4>1, UnitsOnPart
      <3> QED
        BY <1>1, <1>2, <2>6, <2>7, <3>1, <3>2
    <2>10. ASSUME u.left > 0
           PROVE  /\ q + m = UnitsOn(bs, UpTo(bs, c, i))
                  /\ w.op = "consume" => \A j \in UpTo(bs, c, i) : View(bs, u, j) = 0
      <3>1. m = View(bs, w, i) /\ m = bs[i].remaining
        BY <1>1, <1>2, <1>4, <2>3, <2>4, <2>10 DEF Turn
      <3>2. PICK S, T : S = UpTo(bs, c, i) /\ T = UpTo(bs, c, i - 1)
        OBVIOUS
      <3>3. S \in SUBSET DOMAIN bs /\ i \in S /\ S \ {i} = T
        BY <1>1, <1>2, <2>1, <3>2 DEF UpTo
      <3>4. UnitsOn(bs, S) = bs[i].remaining + UnitsOn(bs, T)
        BY <1>1, <3>3, UnitsOnPart
      <3>5. UnitsOn(bs, T) = q
        BY <2>1, <2>6, <3>2 DEF AheadOf
      <3>6. q + m = UnitsOn(bs, S)
        BY <1>1, <1>2, <2>7, <3>1, <3>4, <3>5
      <3>7. ASSUME w.op = "consume", NEW j \in S PROVE View(bs, u, j) = 0
        <4>1. CASE j = i
          BY <1>1, <3>1, <3>7, <4>1 DEF Turn
        <4>2. CASE j # i
          <5>1. j \in DOMAIN bs /\ bs[j].cur = c /\ j < i
            BY <1>1, <1>2, <3>2, <4>2 DEF UpTo
          <5>2. View(bs, w, j) = 0
            BY <2>5, <3>7, <5>1
          <5> QED
            BY <4>2, <5>1, <5>2, TurnViews
        <4> QED
          BY <4>1, <4>2
      <3> QED
        BY <3>2, <3>6, <3>7
    <2>11. ASSUME NEW j \in DOMAIN bs, w.op = "consume", u.written[j] # Unwritten PROVE j <= i
      <3>1. CASE j # i
        <4>1. j <= w.cursor
          BY <1>1, <2>2, <2>11, <3>1
        <4> QED
          BY <1>1, <1>2, <2>3, <4>1
      <3> QED
        BY <1>2, <3>1
    <2> QED
      BY <1>1, <1>4, <2>7, <2>8, <2>9, <2>10, <2>11 DEF CountsOldest
  <1> QED
    BY <1>3, <1>4

LEMMA VisitNeat ==
    ASSUME HInv, NEW s \in Sessions, NEW u, NEW i, NEW m, Visited(s, u, i, m),
           WalkSound(batches, u), Neat(batches, walk[s])
    PROVE  Neat(batches, u)
  <1> SUFFICES ASSUME ~ walk[s].slipped PROVE Neat(batches, u)
    <2> SUFFICES ASSUME walk[s].slipped PROVE Neat(batches, u)
      OBVIOUS
    <2>1. walk[s].op = "simulate"
      BY DEF Neat
    <2>2. u.slipped = walk[s].slipped /\ u.op = walk[s].op
          /\ u.written = Rewritten(s, i, m) /\ i \in DOMAIN batches
      BY DEF Visited
    <2>3. u.written = walk[s].written
      BY <2>1, <2>2 DEF Rewritten
    <2> QED
      BY <2>2, <2>3, SlippedNeat
  <1>1. PICK w \in WalkType : w = walk[s] /\ WalkSound(batches, w)
    BY WalkFacts
  <1>3. InOrder(batches, w) /\ Sweeps(batches, w) /\ CountsOldest(batches, w)
    BY <1>1 DEF Neat
  <1>2. Turn(batches, w, u, i, m)
    BY <1>1, <1>3, VisitTurns
  <1>4. /\ w.pc = "page" /\ i \in w.page /\ u.page = w.page \ {i}
        /\ u.pc = AfterVisit(s, w.left - m, w.page \ {i})
        /\ u.cost = w.cost + (IF w.op = "restore" THEN 0 ELSE m * batches[i].cost)
        /\ u.slipped = w.slipped
    BY <1>1 DEF Visited, CostOf
  <1>5. w.page \subseteq DOMAIN batches
    BY <1>1 DEF WalkSound
  <1>6. w.left > 0
    BY <1>3, <1>4 DEF Sweeps
  <1>7. Sweeps(batches, u)
    BY <1>2, <1>3, <1>4, <1>5, TurnSweeps
  <1>8. CountsOldest(batches, u)
    BY <1>2, <1>3, <1>4, <1>6, TurnCounts
  <1>9. InOrder(batches, u)
    BY <1>2, <1>3, TurnOrder
  <1>10. Straight(u)
    BY <1>4 DEF Straight, AfterVisit
  <1> QED
    BY <1>1, <1>4, <1>7, <1>8, <1>9, <1>10 DEF Neat

LEMMA IntakeNeat ==
    ASSUME NEW bs, NEW cs, NEW k, Grown(bs, cs, k), cs[k].remaining = cs[k].received,
           NEW w, WalkSound(bs, w), Neat(bs, w)
    PROVE  Neat(cs, w)
  <1>1. /\ RowsTyped(bs) /\ RowsTyped(cs) /\ DOMAIN cs = DOMAIN bs \cup {k} /\ k \in Nat
        /\ k \notin DOMAIN bs /\ k \in DOMAIN cs
        /\ \A i \in DOMAIN bs : cs[i] = bs[i] /\ i < k
    BY DEF Grown
  <1>2. /\ w \in WalkType /\ w.page \subseteq DOMAIN bs /\ w.todo \subseteq DOMAIN bs
        /\ w.written[k] = Unwritten /\ w.left <= w.n
    BY <1>1, RowFacts DEF WalkSound
  <1>3. /\ \A i \in DOMAIN bs : View(cs, w, i) = View(bs, w, i)
        /\ View(cs, w, k) = cs[k].received
        /\ cs[k].received \in Nat
    BY <1>1, <1>2, RowFacts DEF View
  <1>4. \A i \in DOMAIN bs : Wants(cs, w, i) <=> Wants(bs, w, i)
    BY <1>1, <1>3 DEF Wants
  <1>5. InOrder(cs, w)
    <2> SUFFICES ASSUME NEW i \in DOMAIN cs, NEW j \in DOMAIN cs, i < j, cs[i].cur = cs[j].cur,
                        View(cs, w, j) < cs[j].received
                 PROVE  View(cs, w, i) = 0
      BY DEF InOrder
    <2>1. j \in DOMAIN bs
      BY <1>1, <1>3
    <2>2. i \in DOMAIN bs
      <3>1. j < k /\ j \in Nat
        BY <1>1, <2>1, RowFacts
      <3>2. i # k
        BY <1>1, <3>1
      <3> QED
        BY <1>1, <3>2
    <2> QED
      BY <1>1, <1>3, <2>1, <2>2 DEF Neat, InOrder
  <1>6. ASSUME ~ w.slipped PROVE Sweeps(cs, w)
    <2>1. w.op = "restore" => ~ Wants(cs, w, k)
      <3>1. ~ (cs[k].received - cs[k].received > 0)
        BY <1>3
      <3> QED
        BY <1>3, <3>1 DEF Wants
    <2>2. w.op # "restore" => \A p \in DOMAIN bs : Before(w, p, k)
      BY <1>1 DEF Before
    <2>3. Sweeps(bs, w)
      BY <1>6 DEF Neat
    <2>4. w.pc \in {"lock", "page"} => \A p \in w.page : Wants(cs, w, p)
      BY <1>2, <1>4, <2>3 DEF Sweeps
    <2>5. w.pc = "lock" =>
            /\ \A j \in DOMAIN cs : Wants(cs, w, j) /\ j \notin w.page \cup w.todo
                   => \A p \in w.page \cup w.todo : Before(w, p, j)
            /\ \A p \in w.page, t \in w.todo : Before(w, p, t)
      <3>1. ASSUME w.pc = "lock", NEW j \in DOMAIN cs, Wants(cs, w, j), j \notin w.page \cup w.todo,
                   NEW p \in w.page \cup w.todo
            PROVE  Before(w, p, j)
        <4>1. p \in DOMAIN bs
          BY <1>2
        <4>2. CASE j \in DOMAIN bs
          BY <1>4, <2>3, <3>1, <4>2 DEF Sweeps
        <4>3. CASE j = k
          BY <2>1, <2>2, <3>1, <4>1, <4>3
        <4> QED
          BY <1>1, <4>2, <4>3
      <3> QED
        BY <2>3, <3>1 DEF Sweeps
    <2>6. w.pc = "page" =>
            \A j \in DOMAIN cs : Wants(cs, w, j) /\ j \notin w.page
                => \A p \in w.page : Before(w, p, j)
      <3> SUFFICES ASSUME w.pc = "page", NEW j \in DOMAIN cs, Wants(cs, w, j), j \notin w.page,
                          NEW p \in w.page
                   PROVE  Before(w, p, j)
        OBVIOUS
      <3>1. p \in DOMAIN bs
        BY <1>2
      <3>2. CASE j \in DOMAIN bs
        BY <1>4, <2>3, <3>2 DEF Sweeps
      <3>3. CASE j = k
        BY <2>1, <2>2, <3>1, <3>3
      <3> QED
        BY <1>1, <3>2, <3>3
    <2>7. w.op = "restore" =>
            /\ w.pc = "lock" => \A j \in DOMAIN cs : Wants(cs, w, j) => j \in w.page \cup w.todo
            /\ w.pc = "end" /\ w.left > 0 => \A j \in DOMAIN cs : ~ Wants(cs, w, j)
      BY <1>1, <1>4, <2>1, <2>3 DEF Sweeps
    <2> QED
      BY <2>3, <2>4, <2>5, <2>6, <2>7 DEF Sweeps
  <1>7. ASSUME ~ w.slipped PROVE CountsOldest(cs, w)
    <2>1. CountsOldest(bs, w)
      BY <1>7 DEF Neat
    <2>2. w.cursor \in DOMAIN cs \cup {0} /\ w.cursor \in Int /\ w.cursor < k
      <3>1. w.cursor \in DOMAIN bs \cup {0}
        BY <2>1 DEF CountsOldest
      <3>2. 0 < k /\ w.cursor \in Int
        BY <1>1, <1>2, RowFacts DEF WalkType
      <3> QED
        BY <1>1, <3>1, <3>2
    <2>3. \A j \in DOMAIN cs : w.op = "consume" /\ w.written[j] # Unwritten => j <= w.cursor
      BY <1>1, <1>2, <2>1 DEF CountsOldest
    <2>4. CASE w.op # "restore"
      <3>1. UpTo(cs, w.cur, w.cursor) = UpTo(bs, w.cur, w.cursor)
        BY <2>2, GrownUnits
      <3>2. UnitsOn(cs, UpTo(cs, w.cur, w.cursor)) = UnitsOn(bs, UpTo(bs, w.cur, w.cursor))
        <4>1. UpTo(bs, w.cur, w.cursor) \in SUBSET DOMAIN bs
          BY DEF UpTo
        <4> QED
          BY <3>1, <4>1, GrownUnits
      <3>3. w.n - w.left \in Nat
        BY <1>2 DEF WalkType
      <3>4. w.n - w.left <= UnitsOn(bs, UpTo(bs, w.cur, MaxBatches))
        BY <2>1, <2>4 DEF CountsOldest
      <3>5. /\ OldestOf(cs, w.cur, w.n - w.left) = OldestOf(bs, w.cur, w.n - w.left)
            /\ w.n - w.left <= UnitsOn(cs, UpTo(cs, w.cur, MaxBatches))
        BY <3>3, <3>4, GrownCosts
      <3>6. \A j \in UpTo(bs, w.cur, w.cursor) : View(cs, w, j) = View(bs, w, j)
        BY <1>3 DEF UpTo
      <3> QED
        BY <2>1, <2>2, <2>3, <2>4, <3>1, <3>2, <3>5, <3>6 DEF CountsOldest
    <2>5. CASE w.op = "restore"
      BY <2>2, <2>3, <2>5 DEF CountsOldest
    <2> QED
      BY <2>4, <2>5
  <1> QED
    BY <1>5, <1>6, <1>7 DEF Neat

LEMMA CommitNeat ==
    ASSUME NEW bs, NEW cs, NEW w, RowsTyped(cs), Committed(bs, w, cs), InOrder(bs, w)
    PROVE  Neat(cs, Idle)
  <1>1. \A i, j \in DOMAIN cs : i < j /\ cs[i].cur = cs[j].cur /\ cs[j].remaining < cs[j].received
                                    => cs[i].remaining = 0
    BY DEF Committed, InOrder
  <1> QED
    BY <1>1, IdleNeat

LEMMA SoloFits ==
    ASSUME NEW bs, NEW ws, bs = batches', ws = walk',
           ~ mixed' => /\ \A s, t \in Sessions : ws[s].pc # "idle" /\ ws[t].pc # "idle" => s = t
                       /\ Neat(bs, Idle)
                       /\ \A s \in Sessions : Neat(bs, ws[s])
    PROVE  SoloInv'
  BY DEF SoloInv, Alone

LEMMA SoloWalks ==
    ASSUME HInv, SoloInv, NEW s \in Sessions, NEW u, walk' = [walk EXCEPT ![s] = u],
           batches' = batches, mixed' = mixed, walk[s].pc # "idle" \/ u.pc = "idle",
           ~ mixed => Neat(batches, u)
    PROVE  SoloInv'
  <1>1. PICK ws : ws = walk'
    OBVIOUS
  <1>2. ws[s] = u /\ \A t \in Sessions : t # s => ws[t] = walk[t]
    BY <1>1, NewWalk
  <1>3. ASSUME ~ mixed
        PROVE  /\ \A x, t \in Sessions : ws[x].pc # "idle" /\ ws[t].pc # "idle" => x = t
               /\ Neat(batches, Idle)
               /\ \A x \in Sessions : Neat(batches, ws[x])
    <2>1. Alone /\ Neat(batches, Idle) /\ \A x \in Sessions : Neat(batches, walk[x])
      BY <1>3 DEF SoloInv
    <2>2. \A x \in Sessions : Neat(batches, ws[x])
      BY <1>2, <1>3, <2>1
    <2>3. \A x, t \in Sessions : ws[x].pc # "idle" /\ ws[t].pc # "idle" => x = t
      BY <1>2, <2>1 DEF Alone
    <2> QED
      BY <2>1, <2>2, <2>3
  <1> QED
    BY <1>1, <1>3, SoloFits

LEMMA IntakeSolo ==
    ASSUME HInv, SoloInv, NEW c \in Currencies, NEW cost \in Costs, NEW n \in 1 .. MaxQty,
           Intake(c, cost, n)
    PROVE  SoloInv'
  <1>0. PICK cs, k : TookIn(cs, k, c, n)
    BY IntakeFacts
  <1>1. /\ batches' = cs /\ RowsTyped(cs) /\ k \notin DOMAIN batches /\ k \in Nat
        /\ DOMAIN cs = DOMAIN batches \cup {k}
        /\ \A i \in DOMAIN batches : cs[i] = batches[i] /\ i < k
        /\ cs[k].received = n /\ cs[k].remaining = n
        /\ walk' = walk /\ mixed' = mixed
    BY <1>0 DEF TookIn
  <1>2. RowsTyped(batches)
    BY DEF HInv, Typed
  <1>3. Grown(batches, cs, k) /\ cs[k].remaining = cs[k].received
    BY <1>1, <1>2 DEF Grown
  <1>4. ASSUME ~ mixed
        PROVE  Alone /\ Neat(cs, Idle) /\ \A x \in Sessions : Neat(cs, walk[x])
    <2>1. Alone /\ Neat(batches, Idle) /\ \A x \in Sessions : Neat(batches, walk[x])
      BY <1>4 DEF SoloInv
    <2>2. WalkSound(batches, Idle) /\ \A x \in Sessions : WalkSound(batches, walk[x])
      BY <1>2, IdleSound DEF HInv
    <2>3. Neat(cs, Idle)
      BY <1>3, <2>1, <2>2, IntakeNeat
    <2>4. \A x \in Sessions : Neat(cs, walk[x])
      BY <1>3, <2>1, <2>2, IntakeNeat
    <2> QED
      BY <2>1, <2>3, <2>4
  <1>5. PICK ws : ws = walk' /\ ws = walk
    BY <1>1
  <1>6. ~ mixed' => /\ \A s, t \in Sessions : ws[s].pc # "idle" /\ ws[t].pc # "idle" => s = t
                    /\ Neat(cs, Idle)
                    /\ \A s \in Sessions : Neat(cs, ws[s])
    BY <1>1, <1>4, <1>5 DEF Alone
  <1> QED
    BY <1>1, <1>5, <1>6, SoloFits

LEMMA SoloStep ==
    ASSUME HInv, SoloInv, [Next]_vars
    PROVE  SoloInv'
  <1>1. ASSUME NEW s \in Sessions, NEW op \in {"consume", "simulate", "restore"},
               NEW c \in Currencies, NEW n \in 1 .. MaxQty, Begin(s, op, c, n)
        PROVE  SoloInv'
    <2>1. PICK u : /\ walk' = [walk EXCEPT ![s] = u]
                   /\ u.pc = "read" /\ u.n = n /\ u.left = n /\ u.cost = 0 /\ u.cursor = 0
                   /\ u.written = Idle.written /\ ~ u.slipped
      BY <1>1, BeginWalk
    <2>2. /\ batches' = batches /\ walk[s].pc = "idle"
          /\ ~ mixed' => ~ mixed /\ \A t \in Sessions : t # s => walk[t].pc = "idle"
      BY <1>1 DEF Begin
    <2>3. PICK ws : ws = walk'
      OBVIOUS
    <2>4. ws[s] = u /\ \A t \in Sessions : t # s => ws[t] = walk[t]
      BY <2>1, <2>3, NewWalk
    <2>5. n \in Nat \ {0} /\ RowsTyped(batches)
      BY FifoAssumption, WalkFacts
    <2>6. ASSUME ~ mixed'
          PROVE  /\ \A x, t \in Sessions : ws[x].pc # "idle" /\ ws[t].pc # "idle" => x = t
                 /\ Neat(batches, Idle)
                 /\ \A x \in Sessions : Neat(batches, ws[x])
      <3>1. Neat(batches, Idle) /\ \A x \in Sessions : Neat(batches, walk[x])
        BY <2>2, <2>6 DEF SoloInv
      <3>2. Neat(batches, u)
        BY <2>1, <2>5, <3>1, BeginNeat
      <3>3. \A x \in Sessions : x # s => ws[x].pc = "idle"
        BY <2>2, <2>4, <2>6
      <3> QED
        BY <2>4, <3>1, <3>2, <3>3
    <2> QED
      BY <2>2, <2>3, <2>6, SoloFits
  <1>2. ASSUME NEW s \in Sessions, Read(s) PROVE SoloInv'
    <2>1. PICK u : /\ walk' = [walk EXCEPT ![s] = u]
                   /\ u = [walk[s] EXCEPT !.pc = "lock", !.page = {},
                                          !.slipped = Slips(s),
                                          !.todo = {i \in DOMAIN batches : Matches(s, i)}]
      BY <1>2, ReadWalk
    <2>2. walk[s].pc = "read" /\ batches' = batches /\ mixed' = mixed
      BY <1>2 DEF Read
    <2>3. ~ mixed => Neat(batches, u)
      BY <1>2, <2>1, ReadNeat DEF SoloInv
    <2> QED
      BY <2>1, <2>2, <2>3, SoloWalks
  <1>3. ASSUME NEW s \in Sessions, LockRow(s) PROVE SoloInv'
    <2>1. PICK u, i : /\ walk' = [walk EXCEPT ![s] = u]
                      /\ i = First(s, walk[s].todo) /\ i \in walk[s].todo
                      /\ u = [walk[s] EXCEPT !.todo = walk[s].todo \ {i},
                                             !.held = walk[s].held \cup {i},
                                             !.page = IF Matches(s, i) THEN walk[s].page \cup {i}
                                                                       ELSE walk[s].page]
      BY <1>3, LockRowWalk
    <2>2. walk[s].pc = "lock" /\ batches' = batches /\ mixed' = mixed
      BY <1>3, Zenon DEF LockRow
    <2>3. ~ mixed => Neat(batches, u)
      BY <1>3, <2>1, LockRowNeat DEF SoloInv
    <2> QED
      BY <2>1, <2>2, <2>3, SoloWalks
  <1>4. ASSUME NEW s \in Sessions, PageRead(s) PROVE SoloInv'
    <2>1. PICK u : /\ walk' = [walk EXCEPT ![s] = u]
                   /\ u = [walk[s] EXCEPT !.pc = IF walk[s].page = {} THEN "end" ELSE "page"]
      BY <1>4, PageReadWalk
    <2>2. walk[s].pc = "lock" /\ batches' = batches /\ mixed' = mixed
      BY <1>4 DEF PageRead
    <2>3. ~ mixed => Neat(batches, u)
      BY <1>4, <2>1, PageReadNeat DEF SoloInv
    <2> QED
      BY <2>1, <2>2, <2>3, SoloWalks
  <1>5. ASSUME NEW s \in Sessions, Visit(s) PROVE SoloInv'
    <2>1. PICK u, i, m : Visited(s, u, i, m) /\ WalkSound(batches, u)
      BY <1>5, VisitWalk
    <2>2. batches' = batches /\ mixed' = mixed
      BY <1>5, Zenon DEF Visit
    <2>3. walk' = [walk EXCEPT ![s] = u] /\ walk[s].pc = "page"
      BY <2>1 DEF Visited
    <2>4. ~ mixed => Neat(batches, u)
      BY <2>1, VisitNeat DEF SoloInv
    <2> QED
      BY <2>2, <2>3, <2>4, SoloWalks
  <1>6. ASSUME NEW s \in Sessions, Rollback(s) PROVE SoloInv'
    <2>1. walk' = [walk EXCEPT ![s] = Idle] /\ batches' = batches /\ mixed' = mixed
      BY <1>6, RollbackWalk
    <2>2. Idle.pc = "idle"
      BY DEF Idle
    <2>3. ~ mixed => Neat(batches, Idle)
      BY DEF SoloInv
    <2> QED
      BY <2>1, <2>2, <2>3, SoloWalks
  <1>7. ASSUME NEW s \in Sessions, Commit(s) PROVE SoloInv'
    <2>1. PICK cs : /\ batches' = cs /\ RowsTyped(cs) /\ Committed(batches, walk[s], cs)
                    /\ walk' = [walk EXCEPT ![s] = Idle] /\ walk[s].pc = "end" /\ mixed' = mixed
      BY <1>7, CommitFacts
    <2>2. PICK ws : ws = walk'
      OBVIOUS
    <2>3. ws[s] = Idle /\ \A t \in Sessions : t # s => ws[t] = walk[t]
      BY <2>1, <2>2, NewWalk
    <2>4. Idle.pc = "idle"
      BY DEF Idle
    <2>5. ASSUME ~ mixed
          PROVE  /\ \A x, t \in Sessions : ws[x].pc # "idle" /\ ws[t].pc # "idle" => x = t
                 /\ Neat(cs, Idle)
                 /\ \A x \in Sessions : Neat(cs, ws[x])
      <3>1. Alone /\ InOrder(batches, walk[s])
        BY <2>5 DEF SoloInv, Neat
      <3>2. Neat(cs, Idle)
        BY <2>1, <3>1, CommitNeat
      <3>3. \A t \in Sessions : t # s => walk[t].pc = "idle"
        BY <2>1, <3>1 DEF Alone
      <3>4. \A t \in Sessions : t # s => walk[t] = Idle
        BY <3>3, WalkFacts DEF WalkSound
      <3>5. \A t \in Sessions : ws[t] = Idle
        BY <2>3, <3>4
      <3> QED
        BY <2>4, <3>2, <3>5
    <2> QED
      BY <2>1, <2>2, <2>5, SoloFits
  <1>8. CASE UNCHANGED vars
    <2>1. PICK bs, ws : bs = batches' /\ ws = walk' /\ bs = batches /\ ws = walk
      BY <1>8 DEF vars
    <2>2. mixed' = mixed
      BY <1>8 DEF vars
    <2>3. ~ mixed' => /\ \A s, t \in Sessions : ws[s].pc # "idle" /\ ws[t].pc # "idle" => s = t
                      /\ Neat(bs, Idle)
                      /\ \A s \in Sessions : Neat(bs, ws[s])
      BY <2>1, <2>2 DEF SoloInv, Alone
    <2> QED
      BY <2>1, <2>3, SoloFits
  <1> QED
    BY <1>1, <1>2, <1>3, <1>4, <1>5, <1>6, <1>7, <1>8, IntakeSolo DEF Next

LEMMA SoloStart ==
    ASSUME HInv, Init
    PROVE  SoloInv
  <1>1. /\ batches = FirstBatches /\ \A s \in Sessions : walk[s] = Idle
    BY DEF Init
  <1>2. RowsTyped(batches)
    BY DEF HInv, Typed
  <1>3. \A j \in DOMAIN batches : ~ (batches[j].remaining < batches[j].received)
    <2>1. \A j \in DOMAIN batches : batches[j].received \in Nat /\ batches[j].remaining = batches[j].received
      BY <1>1, <1>2, RowFacts, FirstAssumption
    <2> QED
      BY <2>1
  <1>4. Neat(batches, Idle)
    BY <1>2, <1>3, IdleNeat
  <1>5. Idle.pc = "idle"
    BY DEF Idle
  <1> QED
    BY <1>1, <1>4, <1>5 DEF SoloInv, Alone

LEMMA SoloInvariant == Spec => [](HInv /\ SoloInv)
  <1>1. Init => HInv /\ SoloInv
    BY InitHolds, SoloStart
  <1>2. HInv /\ SoloInv /\ [Next]_vars => (HInv /\ SoloInv)'
    BY NextKeeps, SoloStep
  <1> QED
    BY <1>1, <1>2, PTL DEF Spec

\* One walk at a time, consumption is first in, first out and a return undoes the latest
\* consumption first: no batch is touched before the older ones of its currency are used up.
THEOREM OldestFirstUsed == Spec => []OldestUsedUp
  <1>1. ASSUME HInv, SoloInv PROVE OldestUsedUp
    <2> SUFFICES ASSUME ~ mixed, NEW i \in DOMAIN batches, NEW j \in DOMAIN batches, i < j,
                        batches[i].cur = batches[j].cur,
                        batches[j].remaining < batches[j].received
                 PROVE  batches[i].remaining = 0
      BY DEF OldestUsedUp
    <2>1. InOrder(batches, Idle)
      BY <1>1 DEF SoloInv, Neat
    <2>2. RowsTyped(batches)
      BY <1>1 DEF HInv, Typed
    <2>3. View(batches, Idle, i) = batches[i].remaining /\ View(batches, Idle, j) = batches[j].remaining
      BY <2>2, RowFacts DEF View, Idle
    <2> QED
      BY <2>1, <2>3 DEF InOrder
  <1> QED
    BY <1>1, SoloInvariant, PTL

\* The operators of CostIsFifo are those of the invariant.
LEMMA OldestCosts ==
    ASSUME HInv, NEW c, NEW n
    PROVE  OldestOf(batches, c, n) = OldestCost(c, n)
  <1>1. PICK l \in Nat : l = Len(batches) /\ DOMAIN batches = 1 .. l /\ l <= MaxBatches
    <2>1. RowsTyped(batches)
      BY DEF HInv, Typed
    <2> QED
      BY <2>1, RowFacts DEF RowsTyped
  <1>2. UpTo(batches, c, MaxBatches) = {i \in DOMAIN batches : batches[i].cur = c}
    BY <1>1, FifoAssumption DEF UpTo
  <1>3. ASSUME NEW i \in DOMAIN batches PROVE UnitsIn(batches, n, i) = UnitsOf(n, i)
    <2>1. UpTo(batches, batches[i].cur, i - 1) = Older(i)
      BY <1>1 DEF UpTo, Older
    <2>2. AheadOf(batches, i) = Ahead(i)
      BY <2>1 DEF AheadOf, Ahead, UnitsOn
    <2> QED
      BY <2>2 DEF UnitsIn, UnitsOf
  <1>4. CostsIn(batches, n) = [i \in DOMAIN batches |-> UnitsOf(n, i) * batches[i].cost]
    BY <1>3 DEF CostsIn
  <1> QED
    BY <1>2, <1>4 DEF OldestOf, OldestCost

\* One walk at a time, a delivery and the simulation of it cost what the oldest units of the
\* currency cost, whatever the size of a page and whatever is taken in between the pages; the
\* simulation as long as no page of it began at a cursor that was cut.
THEOREM CostsAreFifo == Spec => []CostIsFifo
  <1>1. ASSUME HInv, SoloInv PROVE CostIsFifo
    <2> SUFFICES ASSUME ~ mixed, NEW s \in Sessions, walk[s].pc = "end",
                        walk[s].op # "restore", walk[s].left = 0, ~ walk[s].slipped
                 PROVE  walk[s].cost = OldestCost(walk[s].cur, walk[s].n)
      BY DEF CostIsFifo
    <2>1. CountsOldest(batches, walk[s])
      BY <1>1 DEF SoloInv, Neat
    <2>2. walk[s].cost = OldestOf(batches, walk[s].cur, walk[s].n - walk[s].left)
      BY <2>1 DEF CountsOldest
    <2>3. walk[s].n - walk[s].left = walk[s].n
      BY <1>1, WalkFacts DEF WalkType
    <2> QED
      BY <1>1, <2>2, <2>3, OldestCosts
  <1> QED
    BY <1>1, SoloInvariant, PTL
------------------------------------------------------------------------------
(***************************************************************************)
(* Restoration.  The units missing from the batches are those away, so     *)
(* that a walk which has filled every batch has given back all it had to.  *)
(***************************************************************************)
FullInv == ReceivedUnits = RemainingUnits + AwayUnits /\ RestoredInFull

LEMMA UnitsTyped ==
    ASSUME NEW bs, RowsTyped(bs), NEW os \in [Currencies -> Nat],
           NEW ws \in [Sessions -> WalkType], NEW n \in Nat
    PROVE  /\ ReceivedOf(bs) \in Nat /\ RemainingOf(bs) \in Nat
           /\ SumFunction(AwayOf(os, ws)) + n \in Nat
  <1>1. PICK x, y : x = [i \in DOMAIN bs |-> bs[i].received] /\ y = [i \in DOMAIN bs |-> bs[i].remaining]
    OBVIOUS
  <1>2. /\ DOMAIN x = DOMAIN bs /\ DOMAIN y = DOMAIN bs /\ IsFiniteSet(DOMAIN bs)
        /\ \A i \in DOMAIN bs : x[i] \in Nat
        /\ \A i \in DOMAIN bs : y[i] \in Nat
    BY <1>1, RowFacts
  <1>3. SumFunctionOnSet(x, DOMAIN bs) \in Nat /\ SumFunctionOnSet(y, DOMAIN bs) \in Nat
    BY <1>2, SumSigns
  <1>4. ReceivedOf(bs) \in Nat /\ RemainingOf(bs) \in Nat
    BY <1>1, <1>2, <1>3 DEF ReceivedOf, RemainingOf, SumFunction
  <1>5. SumFunction(AwayOf(os, ws)) \in Nat
    BY AwayType
  <1> QED
    BY <1>4, <1>5

\* What a walk is giving back is away.
LEMMA GivenIsAway ==
    ASSUME HInv, NEW s \in Sessions, walk[s].pc # "idle", walk[s].op = "restore"
    PROVE  walk[s].n <= AwayUnits
  <1>1. PICK os, ws, k : os = out /\ ws = walk /\ k = walk[s].cur
    OBVIOUS
  <1>2. /\ os \in [Currencies -> Nat] /\ ws \in [Sessions -> WalkType] /\ k \in Currencies
        /\ short \in Nat
    BY <1>1, WalkFacts DEF HInv, Typed, WalkSound
  <1>3. PICK f, I : f = [t \in Sessions |-> ws[t].n] /\ I = {t \in Sessions : Gives(ws[t], k)}
    OBVIOUS
  <1>4. /\ IsFiniteSet(I) /\ s \in I /\ f[s] = walk[s].n
        /\ \A t \in I : f[t] \in Nat
    BY <1>1, <1>2, <1>3, FinitenessAssumption, FS_Subset DEF WalkType, Gives
  <1>5. SumFunctionOnSet(f, {s}) <= SumFunctionOnSet(f, I) /\ SumFunctionOnSet(f, I) \in Nat
    <2>1. {s} \in SUBSET I
      BY <1>4
    <2> QED
      BY <1>4, <2>1, SumPart
  <1>6. SumFunctionOnSet(f, {s}) = f[s]
    BY <1>4, SumOne
  <1>7. walk[s].n <= Given(ws, k)
    BY <1>3, <1>4, <1>5, <1>6 DEF Given
  <1>8. PICK h : h = AwayOf(os, ws)
    OBVIOUS
  <1>9. /\ \A c \in Currencies : h[c] \in Nat
        /\ h[k] = os[k] + Given(ws, k) /\ Given(ws, k) \in Nat
        /\ SumFunction(h) = SumFunctionOnSet(h, Currencies)
    BY <1>2, <1>8, AwayType
  <1>10. SumFunctionOnSet(h, {k}) <= SumFunctionOnSet(h, Currencies)
         /\ SumFunctionOnSet(h, Currencies) \in Nat
    <2>1. {k} \in SUBSET Currencies
      BY <1>2
    <2> QED
      BY <1>9, <2>1, FinitenessAssumption, SumPart
  <1>11. SumFunctionOnSet(h, {k}) = h[k]
    <2>1. h[k] \in Int
      BY <1>2, <1>9
    <2> QED
      BY <2>1, SumOne
  <1>12. AwayUnits = SumFunctionOnSet(h, Currencies) + short
    BY <1>1, <1>8, <1>9, UnitsAway
  <1>13. walk[s].n \in Nat /\ os[k] \in Nat
    BY <1>1, <1>2 DEF WalkType
  <1> QED
    BY <1>2, <1>7, <1>9, <1>10, <1>11, <1>12, <1>13

\* When every batch is full in a walk's eyes, it has put back all that was missing.
LEMMA FullTakes ==
    ASSUME NEW bs, NEW w, RowsTyped(bs), WalkSound(bs, w),
           \A i \in DOMAIN bs : View(bs, w, i) = bs[i].received
    PROVE  SumFunction(Takes(bs, w)) + ReceivedOf(bs) = RemainingOf(bs)
  <1>1. PICK f, g, h : /\ f = [i \in DOMAIN bs |-> bs[i].remaining]
                       /\ g = [i \in DOMAIN bs |-> bs[i].received]
                       /\ h = Takes(bs, w)
    OBVIOUS
  <1>2. DOMAIN f = DOMAIN bs /\ DOMAIN g = DOMAIN bs /\ DOMAIN h = DOMAIN bs
    BY <1>1 DEF Takes
  <1>3. ASSUME NEW i \in DOMAIN bs
        PROVE  h[i] \in Int /\ g[i] \in Int /\ f[i] = h[i] + g[i]
    <2>1. bs[i].remaining \in Nat /\ bs[i].received \in Nat
      BY RowFacts
    <2>2. /\ f[i] = bs[i].remaining /\ g[i] = bs[i].received
          /\ h[i] = bs[i].remaining - bs[i].received
      BY <1>1 DEF Takes
    <2> QED
      BY <2>1, <2>2
  <1>4. IsFiniteSet(DOMAIN bs)
    BY RowFacts
  <1>5. SumFunctionOnSet(f, DOMAIN bs) = SumFunctionOnSet(h, DOMAIN bs) + SumFunctionOnSet(g, DOMAIN bs)
    BY <1>3, <1>4, SumPlus
  <1> QED
    BY <1>1, <1>2, <1>5 DEF RemainingOf, ReceivedOf, SumFunction

\* A step of the pool keeps the units apart from each other adding up.
LEMMA PoolAddsUp ==
    ASSUME HInv, HInv', ReceivedUnits = RemainingUnits + AwayUnits,
           Pool!Next \/ UNCHANGED <<ReceivedUnits, RemainingUnits, AwayUnits>>
    PROVE  ReceivedUnits' = RemainingUnits' + AwayUnits'
  <1>1. PICK a, b, c, x, y, z : /\ a = ReceivedUnits /\ b = RemainingUnits /\ c = AwayUnits
                                /\ x = ReceivedUnits' /\ y = RemainingUnits' /\ z = AwayUnits'
    OBVIOUS
  <1>2. a \in Nat /\ b \in Nat /\ c \in Nat
    <2>1. PICK bs, os, ws, n : bs = batches /\ os = out /\ ws = walk /\ n = short
      OBVIOUS
    <2>2. RowsTyped(bs) /\ os \in [Currencies -> Nat] /\ ws \in [Sessions -> WalkType] /\ n \in Nat
      BY <2>1 DEF HInv, Typed
    <2>3. a = ReceivedOf(bs) /\ b = RemainingOf(bs) /\ c = SumFunction(AwayOf(os, ws)) + n
      BY <1>1, <2>1, UnitsAway DEF ReceivedUnits, RemainingUnits
    <2> QED
      BY <2>2, <2>3, UnitsTyped
  <1>3. x \in Nat /\ y \in Nat /\ z \in Nat
    <2>1. PICK bs, os, ws, n : bs = batches' /\ os = out' /\ ws = walk' /\ n = short'
      OBVIOUS
    <2>2. RowsTyped(bs) /\ os \in [Currencies -> Nat] /\ ws \in [Sessions -> WalkType] /\ n \in Nat
      BY <2>1 DEF HInv, Typed
    <2>3. x = ReceivedOf(bs) /\ y = RemainingOf(bs)
      BY <1>1, <2>1 DEF ReceivedUnits, RemainingUnits, ReceivedOf, RemainingOf
    <2>4. z = SumFunction(AwayOf(os, ws)) + n
      BY <1>1, <2>1, UnitsAway
    <2> QED
      BY <2>2, <2>3, <2>4, UnitsTyped
  <1>4. \/ y - b = x - a /\ z = c
        \/ z - c = b - y /\ x = a
        \/ y - b = c - z /\ x = a
        \/ x = a /\ y = b /\ z = c
    <2>1. CASE Pool!Next
      BY <1>1, <2>1 DEF Pool!Next, Pool!TakeIn, Pool!Ship, Pool!GiveBack,
                        ReceivedUnits, RemainingUnits, AwayUnits, ReceivedOf, RemainingOf
    <2>2. CASE UNCHANGED <<ReceivedUnits, RemainingUnits, AwayUnits>>
      BY <1>1, <2>2
    <2> QED
      BY <2>1, <2>2
  <1>5. a = b + c
    BY <1>1
  <1>6. x = y + z
    BY <1>2, <1>3, <1>4, <1>5
  <1> QED
    BY <1>1, <1>6

\* A restoration that ends with units left has found every batch full, which is impossible:
\* it cannot give back more than is missing.
LEMMA NothingLeft ==
    ASSUME HInv, SoloInv, ~ mixed, ReceivedUnits = RemainingUnits + AwayUnits,
           NEW s \in Sessions, walk[s].pc = "end", walk[s].op = "restore"
    PROVE  walk[s].left = 0
  <1> SUFFICES ASSUME walk[s].left # 0 PROVE FALSE
    OBVIOUS
  <1>1. PICK w \in WalkType : w = walk[s] /\ WalkSound(batches, w) /\ RowsTyped(batches)
    BY WalkFacts
  <1>2. w.left \in Nat /\ w.n \in Nat /\ w.left > 0
    BY <1>1 DEF WalkType
  <1>3. \A j \in DOMAIN batches : ~ Wants(batches, w, j)
    <2>1. Neat(batches, w) /\ ~ w.slipped
      BY <1>1 DEF SoloInv, Neat
    <2> QED
      BY <1>1, <1>2, <2>1 DEF Neat, Sweeps
  <1>4. ASSUME NEW j \in DOMAIN batches PROVE View(batches, w, j) = batches[j].received
    <2>1. batches[j].received \in Nat /\ View(batches, w, j) \in 0 .. batches[j].received
      BY <1>1, RowFacts DEF WalkSound
    <2>2. ~ (batches[j].received - View(batches, w, j) > 0)
      BY <1>1, <1>3 DEF Wants
    <2> QED
      BY <2>1, <2>2
  <1>5. SumFunction(Takes(batches, w)) + ReceivedUnits = RemainingUnits
    BY <1>1, <1>4, FullTakes DEF ReceivedUnits, RemainingUnits
  <1>6. SumFunction(Takes(batches, w)) = w.left - w.n
    BY <1>1 DEF WalkSound
  <1>7. w.n <= AwayUnits
    BY <1>1, GivenIsAway
  <1>8. ReceivedUnits \in Nat /\ RemainingUnits \in Nat /\ AwayUnits \in Nat
    <2>1. PICK bs, os, ws, n : bs = batches /\ os = out /\ ws = walk /\ n = short
      OBVIOUS
    <2>2. RowsTyped(bs) /\ os \in [Currencies -> Nat] /\ ws \in [Sessions -> WalkType] /\ n \in Nat
      BY <2>1 DEF HInv, Typed
    <2> QED
      BY <2>1, <2>2, UnitsTyped, UnitsAway DEF ReceivedUnits, RemainingUnits
  <1> QED
    BY <1>2, <1>5, <1>6, <1>7, <1>8

LEMMA FullStep ==
    ASSUME HInv, SoloInv, FullInv, [Next]_vars
    PROVE  FullInv'
  <1>1. HInv'
    BY NextKeeps
  <1>2. Pool!Next \/ UNCHANGED <<ReceivedUnits, RemainingUnits, AwayUnits>>
    <2>1. CASE Next
      BY <1>1, <2>1, PoolStep
    <2>2. CASE UNCHANGED vars
      BY <2>2 DEF vars, ReceivedUnits, RemainingUnits, AwayUnits, ReceivedOf, RemainingOf, Away,
                  Restoring
    <2> QED
      BY <2>1, <2>2
  <1>3. ReceivedUnits' = RemainingUnits' + AwayUnits'
    BY <1>1, <1>2, PoolAddsUp DEF FullInv
  <1>4. ~ mixed => short = 0
    BY DEF FullInv, RestoredInFull
  <1>5. ASSUME NEW s \in Sessions, Commit(s) PROVE ~ mixed' => short' = 0
    <2>1. /\ mixed' = mixed /\ walk[s].pc = "end"
          /\ short' = IF walk[s].op = "restore" THEN short + walk[s].left ELSE short
      BY <1>5, CommitFacts
    <2>2. ~ mixed /\ walk[s].op = "restore" => walk[s].left = 0
      BY <2>1, NothingLeft DEF FullInv
    <2> QED
      BY <1>4, <2>1, <2>2
  <1>6. ASSUME NEW s \in Sessions, LockRow(s) \/ Visit(s) PROVE ~ mixed' => short' = 0
    <2>1. CASE LockRow(s)
      BY <1>4, <2>1, Zenon DEF LockRow
    <2>2. CASE Visit(s)
      BY <1>4, <2>2, Zenon DEF Visit
    <2> QED
      BY <1>6, <2>1, <2>2
  <1>7. ASSUME NEW s \in Sessions, Read(s) \/ PageRead(s) \/ Rollback(s)
        PROVE  ~ mixed' => short' = 0
    BY <1>4, <1>7 DEF Read, PageRead, Rollback
  <1>8. ASSUME NEW s \in Sessions, NEW op \in {"consume", "simulate", "restore"},
               NEW c \in Currencies, NEW n \in 1 .. MaxQty, Begin(s, op, c, n)
        PROVE  ~ mixed' => short' = 0
    BY <1>4, <1>8 DEF Begin
  <1>9. ASSUME NEW c \in Currencies, NEW cost \in Costs, NEW n \in 1 .. MaxQty, Intake(c, cost, n)
        PROVE  ~ mixed' => short' = 0
    BY <1>4, <1>9 DEF Intake
  <1>10. ASSUME UNCHANGED vars PROVE ~ mixed' => short' = 0
    BY <1>4, <1>10 DEF vars, FullInv, RestoredInFull
  <1>11. ~ mixed' => short' = 0
    <2>1. CASE Next
      BY <1>5, <1>6, <1>7, <1>8, <1>9, <2>1 DEF Next
    <2> QED
      BY <1>10, <2>1
  <1>12. RestoredInFull'
    BY <1>11 DEF RestoredInFull
  <1> QED
    BY <1>3, <1>12 DEF FullInv

\* One walk at a time, what is given back finds room in the batches: nothing is ever
\* reported short.
THEOREM GivenBackInFull == Spec => []RestoredInFull
  <1>1. Init => FullInv
    <2> SUFFICES ASSUME Init PROVE FullInv
      OBVIOUS
    <2>1. Pool!Init
      BY InitHolds, PoolStart
    <2>2. RemainingUnits = ReceivedUnits /\ AwayUnits = 0
      BY <2>1 DEF Pool!Init, ReceivedUnits, RemainingUnits, AwayUnits, ReceivedOf, RemainingOf
    <2>3. RemainingUnits \in Nat /\ short = 0
      <3>1. RowsTyped(batches)
        BY InitHolds DEF HInv, Typed
      <3>2. RemainingOf(batches) \in Nat
        <4>1. PICK os, ws, n : os = out /\ ws = walk /\ n = short
          OBVIOUS
        <4>2. os \in [Currencies -> Nat] /\ ws \in [Sessions -> WalkType] /\ n \in Nat
          BY <4>1, InitHolds DEF HInv, Typed
        <4> QED
          BY <3>1, <4>2, UnitsTyped
      <3> QED
        BY <3>2 DEF RemainingUnits, Init
    <2> QED
      BY <2>2, <2>3 DEF FullInv, RestoredInFull
  <1>2. HInv /\ SoloInv /\ FullInv /\ [Next]_vars => FullInv'
    BY FullStep
  <1>3. FullInv => RestoredInFull
    BY DEF FullInv
  <1> QED
    BY <1>1, <1>2, <1>3, SoloInvariant, PTL DEF Spec
==============================================================================
