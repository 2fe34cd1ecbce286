------------------------- MODULE OrderIntake_proofs -------------------------
(***************************************************************************)
(* No submission that was received is lost, and a second order of one has  *)
(* a reason, for any number of requests, calls, runs, faults and deaths.   *)
(*                                                                         *)
(* The invariant says of everybody who waits for orders.create what the    *)
(* call is about, and of the Redis lists that every entry goes back to one *)
(* that was pushed by the worker and that no run ever removes.             *)
(***************************************************************************)
EXTENDS OrderIntake, SequenceTheorems, WellFoundedInduction, TLAPS

Answers == {"none", "waiting", "ok", "rejected", "failed"}
CallType == [pc : {"idle", "check", "insert", "respond"},
             payload : Payloads \cup {Nobody}, caller : Callers \cup {Nobody},
             flag : BOOLEAN]
RunType == [pc : {"idle", "reclaim", "take", "wait", "remove"},
            item : EntryType \cup {NoItem}, rest : 0..(4 * BatchSize)]
Entries == ToSet(pending) \cup ToSet(processing)
Holds(d) == drain[d].pc \in {"wait", "remove"}

\* A call is about a payload, and about what its caller is about.
CallMeans(s) ==
    /\ call[s].pc = "idle" => call[s].caller = Nobody
    /\ call[s].pc # "idle" => call[s].payload \in Payloads
    /\ call[s].pc = "respond" => Ordered(call[s].payload)
    /\ \A k \in Posts : call[s].caller \in {<<"form", k>>, <<"qstash", k>>} =>
         call[s].payload = post[k].payload
    /\ \A d \in Drains : call[s].caller = <<"drain", d>> =>
         call[s].payload = drain[d].item.payload
CallsMean == \A s \in Slots : CallMeans(s)

\* Who has a call in progress waits for it and has no other.
CallersWait ==
    /\ \A s \in Slots : call[s].caller # Nobody => answer[call[s].caller] = "waiting"
    /\ \A s, t \in Slots : call[s].caller = call[t].caller /\ call[s].caller # Nobody => s = t

\* An answer ok tells of an order; nobody has an answer left from before.
AnswersMean ==
    /\ \A k \in Posts :
         /\ answer[<<"form", k>>] = "ok" => Ordered(post[k].payload)
         /\ answer[<<"qstash", k>>] = "ok" => Ordered(post[k].payload)
         /\ post[k].pc # "api" => answer[<<"form", k>>] = "none"
         /\ message[k].pc # "sent" => answer[<<"qstash", k>>] = "none"
    /\ \A d \in Drains :
         /\ answer[<<"drain", d>>] = "ok" => Ordered(drain[d].item.payload)
         /\ drain[d].pc # "wait" => answer[<<"drain", d>>] = "none"

\* Messages and entries are copies of a request that was made.
Made(k) == post[k].pc # "new"
Published(k) == post[k].pc \in {"redis", "success", "unsure"}
Copies(e) == e \in EntryType /\ Made(e.id) /\ e.payload = post[e.id].payload
CopiesMean ==
    /\ \A k \in Posts : Made(k) => post[k].payload \in Payloads
    /\ \A k \in Posts : message[k].pc # "none" => Published(k)
    /\ \A e \in Entries : Copies(e)
    /\ \A d \in Drains : Holds(d) => Copies(drain[d].item)

\* The entry that was pushed for a request, before any attempt, is still there; what a
\* run looks for in order to drop it has been counted.
Root(k) == \E e \in Entries : e.id = k /\ e.attempts = 0
RunMeans(d) ==
    Holds(d) => /\ Root(drain[d].item.id)
                /\ drain[d].pc = "remove" => drain[d].item.attempts > 0
DropsMean == (\A e \in Entries : Root(e.id)) /\ (\A d \in Drains : RunMeans(d))

IInv == TypeOK /\ CallsMean /\ CallersWait /\ AnswersMean /\ CopiesMean /\ DropsMean /\ NoneLost

------------------------------------------------------------------------------
\* What a call that has found no earlier order knows of it, as long as no other call
\* works on the payload.
OrdersAged ==
    /\ \A p \in recent : Ordered(p)
    /\ \A p \in Payloads : Ordered(p) => p \in recent \cup lapsed
InsertsAlone ==
    \A s, t \in Slots :
        /\ call[s].pc = "insert" /\ call[t].pc = "insert" /\ call[s].payload = call[t].payload
        /\ call[s].payload \notin overlapped
        => s = t
InsertsExplained ==
    \A s \in Slots :
        LET p == call[s].payload
        IN call[s].pc = "insert" /\ p \notin overlapped =>
             /\ call[s].flag => mode = "FLAG" /\ p \in lapsed
             /\ ~call[s].flag /\ Ordered(p) => mode = "OFF" /\ p \in lapsed

OInv == OrdersAged /\ InsertsAlone /\ InsertsExplained /\ SecondOrderExplained

------------------------------------------------------------------------------
(***************************************************************************)
(* Sequences.                                                              *)
(***************************************************************************)

LEMMA AppendElements ==
    ASSUME NEW T, NEW q \in Seq(T), NEW e \in T
    PROVE  Append(q, e) \in Seq(T) /\ ToSet(Append(q, e)) = ToSet(q) \cup {e}
  <1>1. /\ Append(q, e) \in Seq(T) /\ DOMAIN q = 1..Len(q) /\ Len(q) \in Nat
        /\ DOMAIN Append(q, e) = 1..(Len(q) + 1)
        /\ Append(q, e)[Len(q) + 1] = e
        /\ \A i \in 1..Len(q) : Append(q, e)[i] = q[i]
    OBVIOUS
  <1> QED
    BY <1>1 DEF ToSet

LEMMA HeadTailElements ==
    ASSUME NEW T, NEW q \in Seq(T), q # <<>>
    PROVE  Head(q) \in T /\ Tail(q) \in Seq(T) /\ ToSet(q) = ToSet(Tail(q)) \cup {Head(q)}
  <1>1. /\ Head(q) \in T /\ Tail(q) \in Seq(T) /\ Len(Tail(q)) = Len(q) - 1
        /\ \A i \in 1..Len(Tail(q)) : Tail(q)[i] = q[i + 1]
    BY HeadTailProperties
  <1>2. Head(q) = q[1] /\ Len(q) \in Nat \ {0} /\ DOMAIN q = 1..Len(q)
    OBVIOUS
  <1>3. DOMAIN Tail(q) = 1..(Len(q) - 1)
    BY <1>1, <1>2, LenProperties
  <1>4. \A i \in 1..Len(q) : i = 1 \/ (i - 1 \in 1..(Len(q) - 1) /\ Tail(q)[i - 1] = q[i])
    BY <1>1, <1>2
  <1>5. \A i \in 1..(Len(q) - 1) : Tail(q)[i] = q[i + 1] /\ i + 1 \in 1..Len(q)
    BY <1>1, <1>2
  <1>6. ToSet(q) \subseteq ToSet(Tail(q)) \cup {Head(q)}
    BY <1>2, <1>3, <1>4 DEF ToSet
  <1>7. ToSet(Tail(q)) \cup {Head(q)} \subseteq ToSet(q)
    BY <1>2, <1>3, <1>5 DEF ToSet
  <1> QED
    BY <1>1, <1>6, <1>7

LEMMA LeastElement ==
    ASSUME NEW I \in SUBSET Nat, I # {}
    PROVE  Min(I) \in I
  <1>1. IsWellFoundedOn(OpToRel(<, Nat), Nat)
    BY NatLessThanWellFounded
  <1>2. PICK i \in I : \A j \in I : ~ (<<j, i>> \in OpToRel(<, Nat))
    BY <1>1, WFMin
  <1>3. \A j \in I : i <= j
    <2> SUFFICES ASSUME NEW j \in I, j < i PROVE FALSE
      OBVIOUS
    <2> DEFINE x == <<j, i>>
    <2>1. x \in Nat \X Nat /\ x[1] < x[2]
      OBVIOUS
    <2>2. x \in OpToRel(<, Nat)
      BY <2>1, Zenon DEF OpToRel
    <2> QED
      BY <1>2, <2>2
  <1> QED
    BY <1>3 DEF Min

LEMMA RemoveFirstElements ==
    ASSUME NEW T, NEW q \in Seq(T), NEW e
    PROVE  /\ RemoveFirst(q, e) \in Seq(T)
           /\ ToSet(RemoveFirst(q, e)) \subseteq ToSet(q)
           /\ ToSet(q) \subseteq ToSet(RemoveFirst(q, e)) \cup {e}
  <1>1. CASE ~ \E i \in 1..Len(q) : q[i] = e
    BY <1>1 DEF RemoveFirst
  <1>2. CASE \E i \in 1..Len(q) : q[i] = e
    <2> DEFINE I == {i \in 1..Len(q) : q[i] = e}
               n == Min(I)
               r == SubSeq(q, 1, n - 1) \o SubSeq(q, n + 1, Len(q))
    <2>1. n \in I
      <3>1. I \in SUBSET Nat /\ I # {}
        BY <1>2
      <3> HIDE DEF I
      <3> QED
        BY <3>1, LeastElement
    <2>2. RemoveFirst(q, e) = r
      BY <1>2 DEF RemoveFirst, RemoveAt, SelectInSeq
    <2>3. n \in 1..Len(q) /\ q[n] = e /\ Len(q) \in Nat
      BY <2>1
    <2> HIDE DEF n
    <2>4. DOMAIN q = 1..Len(q) /\ \A i \in 1..Len(q) : q[i] \in T
      OBVIOUS
    <2>5. /\ SubSeq(q, 1, n - 1) \in Seq(T) /\ Len(SubSeq(q, 1, n - 1)) = n - 1
          /\ \A i \in 1..(n - 1) : SubSeq(q, 1, n - 1)[i] = q[i]
      <3>1. \A i \in 1..(n - 1) : q[i] \in T
        BY <2>3, <2>4
      <3> QED
        BY <2>3, <3>1, SubSeqProperties
    <2>6. /\ SubSeq(q, n + 1, Len(q)) \in Seq(T)
          /\ Len(SubSeq(q, n + 1, Len(q))) = Len(q) - n
          /\ \A i \in 1..(Len(q) - n) : SubSeq(q, n + 1, Len(q))[i] = q[n + i]
      <3>1. \A i \in (n + 1)..Len(q) : q[i] \in T
        BY <2>3, <2>4
      <3> QED
        BY <2>3, <3>1, SubSeqProperties
    <2>7. /\ r \in Seq(T) /\ Len(r) = Len(q) - 1
          /\ \A i \in 1..(Len(q) - 1) : r[i] = IF i <= n - 1 THEN q[i] ELSE q[i + 1]
      <3> HIDE DEF r
      <3>1. /\ r \in Seq(T) /\ Len(r) = n - 1 + (Len(q) - n)
            /\ \A i \in 1..(n - 1 + (Len(q) - n)) :
                 r[i] = IF i <= n - 1 THEN SubSeq(q, 1, n - 1)[i]
                        ELSE SubSeq(q, n + 1, Len(q))[i - (n - 1)]
        BY <2>5, <2>6, ConcatProperties DEF r
      <3> QED
        BY <2>3, <2>5, <2>6, <3>1
    <2> HIDE DEF r
    <2>8. DOMAIN r = 1..(Len(q) - 1)
      BY <2>7, LenProperties
    <2>9. ToSet(r) \subseteq ToSet(q)
      <3>1. \A i \in 1..(Len(q) - 1) : \E j \in 1..Len(q) : r[i] = q[j]
        <4> TAKE i \in 1..(Len(q) - 1)
        <4>1. i \in 1..Len(q) /\ i + 1 \in 1..Len(q)
          BY <2>3
        <4> QED
          BY <2>7, <4>1
      <3> QED
        BY <2>4, <2>8, <3>1 DEF ToSet
    <2>10. \A i \in 1..Len(q) : q[i] \in ToSet(r) \cup {e}
      <3> SUFFICES ASSUME NEW i \in 1..Len(q), i # n PROVE q[i] \in ToSet(r)
        BY <2>3
      <3>1. CASE i < n
        <4>1. i \in 1..(Len(q) - 1) /\ r[i] = q[i]
          BY <2>3, <2>7, <3>1
        <4> QED
          BY <2>8, <4>1 DEF ToSet
      <3>2. CASE i > n
        <4>1. i - 1 \in 1..(Len(q) - 1) /\ r[i - 1] = q[i]
          BY <2>3, <2>7, <3>2
        <4> QED
          BY <2>8, <4>1 DEF ToSet
      <3> QED
        BY <2>3, <3>1, <3>2
    <2>11. ToSet(q) \subseteq ToSet(r) \cup {e}
      BY <2>4, <2>10 DEF ToSet
    <2> QED
      BY <2>2, <2>7, <2>9, <2>11
  <1> QED
    BY <1>1, <1>2

------------------------------------------------------------------------------
(***************************************************************************)
(* orders.create.                                                          *)
(***************************************************************************)

\* The callers of the three kinds are not mistaken for each other, nor for nobody.
LEMMA CallersDiffer ==
    /\ \A k \in Posts : <<"form", k>> \in Callers /\ <<"qstash", k>> \in Callers
    /\ \A d \in Drains : <<"drain", d>> \in Callers
    /\ Nobody \notin Callers
  BY NobodyAssumption DEF Callers

\* What was bought or given up stays so.
Grows ==
    /\ \A p \in Payloads : Ordered(p) => Ordered(p)'
    /\ dead \subseteq dead' /\ logged \subseteq logged'

LEMMA FinalKept ==
    ASSUME IInv, Grows, NEW k \in Posts, Final(k),
           Made(k)' /\ post'[k].payload = post[k].payload
    PROVE  Final(k)'
  BY DEF IInv, CopiesMean, Made, Final, Grows

\* A step of the API leaves the buffers and the runs alone.
LEMMA BuffersKept ==
    ASSUME IInv, UNCHANGED <<post, message, redis, drain>>,
           \A p \in Payloads : Ordered(p) => Ordered(p)'
    PROVE  CopiesMean' /\ DropsMean' /\ NoneLost'
  <1>1. UNCHANGED <<post, message, pending, processing, dead, logged, drain>>
    BY DEF redis
  <1>2. CopiesMean'
    BY <1>1 DEF IInv, CopiesMean, Made, Published, Copies, Entries, Holds
  <1>3. \A k \in Posts : Final(k) => Final(k)'
    <2> TAKE k \in Posts
    <2>1. Final(k) => Made(k)
      BY DEF Final, Made
    <2> QED
      BY <1>1, <2>1, FinalKept DEF Grows, Made
  <1>4. DropsMean'
    BY <1>1 DEF IInv, DropsMean, RunMeans, Holds, Root, Entries
  <1>5. NoneLost'
    BY <1>1, <1>3 DEF IInv, NoneLost, Buffered, InRedis, Dropped
  <1> QED
    BY <1>2, <1>4, <1>5

\* A call that ends is heard by the caller that waits for it.
LEMMA EndsKeeps ==
    ASSUME IInv, NEW s \in Slots, NEW a \in {"ok", "rejected", "failed"},
           call[s].pc # "idle", a = "ok" => Ordered(call[s].payload), Ends(s, a),
           UNCHANGED <<orders, post, message, drain>>
    PROVE  /\ call' \in [Slots -> CallType] /\ answer' \in [Callers -> Answers]
           /\ CallsMean' /\ CallersWait' /\ AnswersMean'
  <1> USE CallersDiffer
  <1>1. call \in [Slots -> CallType] /\ answer \in [Callers -> Answers]
    BY DEF IInv, TypeOK, CallType, Answers
  <1>2. /\ call'[s] = NoCall
        /\ \A t \in Slots : t # s => call'[t] = call[t]
        /\ call' \in [Slots -> CallType]
    BY <1>1 DEF Ends, NoCall, CallType
  <1>3. /\ answer' \in [Callers -> Answers]
        /\ \A c \in Callers : answer'[c] = IF c = call[s].caller THEN a ELSE answer[c]
    BY <1>1 DEF Ends, Answers
  <1>4. \A p : Ordered(p)' = Ordered(p)
    BY DEF Ordered
  <1>5. CallsMean'
    <2>1. /\ NoCall.pc = "idle" /\ NoCall.caller = Nobody
          /\ \A k \in Posts : Nobody # <<"form", k>> /\ Nobody # <<"qstash", k>>
          /\ \A d \in Drains : Nobody # <<"drain", d>>
      BY DEF NoCall
    <2>2. CallsMean
      BY DEF IInv
    <2>3. ASSUME NEW t \in Slots, t # s PROVE CallMeans(t)'
      <3>1. CallMeans(t)
        BY <2>2 DEF CallsMean
      <3>2. call'[t] = call[t]
        BY <1>2, <2>3
      <3> QED
        BY <3>1, <3>2 DEF CallMeans, Ordered
    <2>4. CallMeans(s)'
      BY <1>2, <2>1 DEF CallMeans
    <2> QED
      BY <2>3, <2>4 DEF CallsMean
  <1>6. CallersWait'
    <2>1. \A t \in Slots : call'[t].caller # Nobody =>
             t # s /\ call'[t].caller = call[t].caller /\ call[t].caller \in Callers
      BY <1>1, <1>2 DEF NoCall, CallType
    <2>2. \A t \in Slots : call'[t].caller # Nobody => call'[t].caller # call[s].caller
      BY <2>1 DEF IInv, CallersWait
    <2> QED
      BY <1>3, <2>1, <2>2 DEF IInv, CallersWait
  <1>7. AnswersMean'
    <2>1. \A k \in Posts :
            /\ call[s].caller \in {<<"form", k>>, <<"qstash", k>>} =>
                 call[s].payload = post[k].payload
            /\ call[s].caller = <<"form", k>> => answer[<<"form", k>>] = "waiting"
            /\ call[s].caller = <<"qstash", k>> => answer[<<"qstash", k>>] = "waiting"
      BY DEF IInv, CallsMean, CallMeans, CallersWait
    <2>2. \A d \in Drains :
            call[s].caller = <<"drain", d>> =>
              call[s].payload = drain[d].item.payload /\ answer[<<"drain", d>>] = "waiting"
      BY DEF IInv, CallsMean, CallMeans, CallersWait
    <2> QED
      BY <1>3, <1>4, <2>1, <2>2 DEF IInv, AnswersMean
  <1> QED
    BY <1>2, <1>3, <1>5, <1>6, <1>7

LEMMA TypesOfOrders ==
    ASSUME TypeOK
    PROVE  /\ orders \in [Payloads -> [plain : Nat, flagged : Nat]]
           /\ recent \subseteq Payloads /\ lapsed \subseteq Payloads
           /\ call \in [Slots -> CallType] /\ answer \in [Callers -> Answers]
  BY DEF TypeOK, CallType, Answers

\* One of the bounds is used up a little more.
LEMMA SpendType ==
    ASSUME TypeOK, NEW kind \in {"faults", "losses", "lapses", "deaths", "overlaps"},
           Spend(kind)
    PROVE  left' \in [faults : Nat, losses : Nat, lapses : Nat, deaths : Nat, overlaps : Nat]
  <1>1. left \in [faults : Nat, losses : Nat, lapses : Nat, deaths : Nat, overlaps : Nat]
    BY DEF TypeOK
  <1>2. left[kind] - 1 \in Nat
    BY <1>1 DEF Spend
  <1> QED
    BY <1>1, <1>2 DEF Spend

\* An earlier order was found, or a payload refused, or the order inserted, or not.
LEMMA CallEnds ==
    ASSUME IInv, OInv, NEW s \in Slots,
           Reject(s) \/ Recognise(s) \/ Respond(s) \/ InsertFails(s)
    PROVE  IInv' /\ OInv'
  <1>1. PICK a \in {"ok", "rejected", "failed"} :
          /\ Ends(s, a) /\ call[s].pc # "idle"
          /\ a = "ok" => Ordered(call[s].payload)
    BY DEF Reject, Recognise, Respond, InsertFails, IInv, OInv, CallsMean, CallMeans, OrdersAged,
           Duplicate
  <1>2. UNCHANGED <<mode, orders, recent, lapsed, overlapped, up, post, message, redis, drain>>
    BY DEF Reject, Recognise, Respond, InsertFails, api
  <1>3. /\ call' \in [Slots -> CallType] /\ answer' \in [Callers -> Answers]
        /\ CallsMean' /\ CallersWait' /\ AnswersMean'
    BY <1>1, <1>2, EndsKeeps
  <1>4. CopiesMean' /\ DropsMean' /\ NoneLost'
    BY <1>2, BuffersKept DEF Ordered
  <1>5. left' \in [faults : Nat, losses : Nat, lapses : Nat, deaths : Nat, overlaps : Nat]
    BY SpendType DEF IInv, TypeOK, Reject, Recognise, Respond, InsertFails
  <1>6. TypeOK'
    BY <1>2, <1>3, <1>5 DEF IInv, TypeOK, CallType, Answers, redis
  <1>7. \A t \in Slots : call'[t].pc = "insert" => call'[t] = call[t]
    BY <1>1, TypesOfOrders DEF IInv, Ends, NoCall
  <1>8. OInv'
    BY <1>2, <1>7 DEF OInv, OrdersAged, InsertsAlone, InsertsExplained, SecondOrderExplained,
                      Ordered
  <1> QED
    BY <1>3, <1>4, <1>6, <1>8 DEF IInv

\* The look for an earlier order: what the call then knows of the orders.
LEMMA LookStep ==
    ASSUME IInv, OInv, NEW s \in Slots, FindNone(s)
    PROVE  IInv' /\ OInv'
  <1> DEFINE p == call[s].payload
             f == mode = "FLAG" /\ Ordered(p)
             o == {q \in {p} : \E t \in Slots \ {s} :
                     call[t].pc = "insert" /\ call[t].payload = q}
  <1>1. /\ call[s].pc = "check" /\ ~Duplicate(p)
        /\ call' = [call EXCEPT ![s].pc = "insert", ![s].flag = f]
        /\ overlapped' = overlapped \cup o
        /\ UNCHANGED <<mode, orders, recent, lapsed, up, answer, post, message, redis, drain, left>>
    BY DEF FindNone
  <1>2. call \in [Slots -> CallType] /\ p \in Payloads
    BY <1>1, TypesOfOrders DEF IInv, CallsMean, CallMeans
  <1>3. f \in BOOLEAN
    OBVIOUS
  <1> HIDE DEF f
  <1>4. /\ call' \in [Slots -> CallType]
        /\ \A t \in Slots : t # s => call'[t] = call[t]
        /\ call'[s].pc = "insert" /\ call'[s].flag = f /\ call'[s].payload = p
        /\ call'[s].caller = call[s].caller
    BY <1>1, <1>2, <1>3 DEF CallType
  <1>5. CallsMean'
    <2> SUFFICES ASSUME NEW t \in Slots PROVE CallMeans(t)'
      BY DEF CallsMean
    <2>1. CallMeans(t)
      BY DEF IInv, CallsMean
    <2> QED
      BY <1>1, <1>2, <1>4, <2>1 DEF CallMeans, Ordered
  <1>6. CallersWait' /\ AnswersMean'
    <2>1. \A t \in Slots : call'[t].caller = call[t].caller
      BY <1>4
    <2>2. CallersWait'
      BY <1>1, <2>1 DEF IInv, CallersWait
    <2>3. AnswersMean'
      BY <1>1 DEF IInv, AnswersMean, Ordered
    <2> QED
      BY <2>2, <2>3
  <1>7. CopiesMean' /\ DropsMean' /\ NoneLost'
    BY <1>1, BuffersKept DEF Ordered
  <1>8. TypeOK'
    <2>1. o \subseteq Payloads
      BY <1>2
    <2> HIDE DEF o
    <2> QED
      BY <1>1, <1>4, <2>1 DEF IInv, TypeOK, CallType, redis
  <1>9. \A t \in Slots : call'[t].pc = "insert" /\ t # s /\ call'[t].payload = p => p \in overlapped'
    BY <1>1, <1>4
  <1>10. InsertsAlone'
    <2> SUFFICES ASSUME NEW t \in Slots, NEW u \in Slots,
                        call'[t].pc = "insert", call'[u].pc = "insert",
                        call'[t].payload = call'[u].payload, call'[t].payload \notin overlapped'
                 PROVE  t = u
      BY DEF InsertsAlone
    <2>1. CASE t # s /\ u # s
      BY <1>1, <1>4, <2>1 DEF OInv, InsertsAlone
    <2> QED
      BY <1>4, <1>9, <2>1
  <1>11. InsertsExplained'
    <2> SUFFICES ASSUME NEW t \in Slots, call'[t].pc = "insert",
                        call'[t].payload \notin overlapped'
                 PROVE  /\ call'[t].flag => mode = "FLAG" /\ call'[t].payload \in lapsed
                        /\ ~call'[t].flag /\ Ordered(call'[t].payload) =>
                             mode = "OFF" /\ call'[t].payload \in lapsed
      BY <1>1 DEF InsertsExplained, Ordered
    <2>1. CASE t # s
      BY <1>1, <1>4, <2>1 DEF OInv, InsertsExplained
    <2>2. CASE t = s
      <3>1. Ordered(p) => p \in lapsed /\ mode # "BLOCK"
        BY <1>1, <1>2 DEF OInv, OrdersAged, Duplicate
      <3>2. mode \in {"OFF", "FLAG", "BLOCK"}
        BY IntakeAssumption DEF IInv, TypeOK
      <3> QED
        BY <1>4, <2>2, <3>1, <3>2 DEF f
    <2> QED
      BY <2>1, <2>2
  <1>12. OrdersAged' /\ SecondOrderExplained'
    BY <1>1 DEF OInv, OrdersAged, SecondOrderExplained, Ordered
  <1> QED
    BY <1>5, <1>6, <1>7, <1>8, <1>10, <1>11, <1>12 DEF IInv, OInv

\* The insertion.
LEMMA InsertStep ==
    ASSUME IInv, OInv, NEW s \in Slots, Insert(s)
    PROVE  IInv' /\ OInv'
  <1>0. PICK p \in Payloads : p = call[s].payload
    BY DEF Insert, IInv, CallsMean, CallMeans
  <1>1. /\ call[s].pc = "insert"
        /\ orders' = IF call[s].flag THEN [orders EXCEPT ![p].flagged = @ + 1]
                     ELSE [orders EXCEPT ![p].plain = @ + 1]
        /\ recent' = recent \cup {p}
        /\ call' = [call EXCEPT ![s].pc = "respond"]
        /\ UNCHANGED <<mode, lapsed, overlapped, up, answer, post, message, redis, drain, left>>
    BY <1>0 DEF Insert
  <1>2. /\ call \in [Slots -> CallType]
        /\ orders \in [Payloads -> [plain : Nat, flagged : Nat]]
    BY TypesOfOrders DEF IInv
  <1>3. /\ call' \in [Slots -> CallType]
        /\ \A t \in Slots : t # s => call'[t] = call[t]
        /\ call'[s].pc = "respond" /\ call'[s].payload = p
        /\ \A t \in Slots : call'[t].caller = call[t].caller
    BY <1>0, <1>1, <1>2 DEF CallType
  <1>4. /\ orders' \in [Payloads -> [plain : Nat, flagged : Nat]]
        /\ \A q \in Payloads : q # p => orders'[q] = orders[q]
        /\ orders'[p].plain = orders[p].plain + (IF call[s].flag THEN 0 ELSE 1)
        /\ orders'[p].flagged = orders[p].flagged + (IF call[s].flag THEN 1 ELSE 0)
    <2>1. orders[p] \in [plain : Nat, flagged : Nat]
      BY <1>2
    <2>2. CASE call[s].flag
      <3>1. orders' = [orders EXCEPT ![p] = [orders[p] EXCEPT !.flagged = @ + 1]]
        BY <1>1, <1>2, <2>2
      <3>2. [orders[p] EXCEPT !.flagged = @ + 1] \in [plain : Nat, flagged : Nat]
        BY <2>1
      <3> QED
        BY <1>2, <2>1, <2>2, <3>1, <3>2
    <2>3. CASE ~call[s].flag
      <3>1. orders' = [orders EXCEPT ![p] = [orders[p] EXCEPT !.plain = @ + 1]]
        BY <1>1, <1>2, <2>3
      <3>2. [orders[p] EXCEPT !.plain = @ + 1] \in [plain : Nat, flagged : Nat]
        BY <2>1
      <3> QED
        BY <1>2, <2>1, <2>3, <3>1, <3>2
    <2> QED
      BY <2>2, <2>3
  <1>5. Ordered(p)' /\ (\A q \in Payloads : Ordered(q) => Ordered(q)')
        /\ (\A q \in Payloads : q # p => (Ordered(q) <=> Ordered(q)'))
    <2>1. \A q \in Payloads : orders[q].plain \in Nat /\ orders[q].flagged \in Nat
      BY <1>2
    <2>2. orders'[p].plain + orders'[p].flagged = orders[p].plain + orders[p].flagged + 1
      BY <1>4, <2>1
    <2>3. Ordered(p)'
      BY <2>1, <2>2 DEF Ordered
    <2>4. \A q \in Payloads : q # p => (Ordered(q) <=> Ordered(q)')
      BY <1>4 DEF Ordered
    <2> QED
      BY <2>3, <2>4
  <1>6. CallsMean'
    <2> SUFFICES ASSUME NEW t \in Slots PROVE CallMeans(t)'
      BY DEF CallsMean
    <2>1. CallMeans(t)
      BY DEF IInv, CallsMean
    <2>2. CASE t = s
      BY <1>0, <1>1, <1>3, <1>5, <2>1, <2>2 DEF CallMeans, Ordered
    <2>3. CASE t # s
      <3>1. call'[t] = call[t]
        BY <1>3, <2>3
      <3>2. call[t].pc = "respond" => Ordered(call[t].payload)'
        <4> SUFFICES ASSUME call[t].pc = "respond" PROVE Ordered(call[t].payload)'
          OBVIOUS
        <4>1. PICK q \in Payloads : q = call[t].payload
          BY <2>1 DEF CallMeans
        <4> QED
          BY <1>5, <2>1, <3>1, <4>1 DEF CallMeans, Ordered
      <3> QED
        BY <1>1, <2>1, <3>1, <3>2 DEF CallMeans
    <2> QED
      BY <2>2, <2>3
  <1>7. CallersWait'
    BY <1>1, <1>3 DEF IInv, CallersWait
  <1>8. AnswersMean'
    <2>1. \A k \in Posts : answer[<<"form", k>>] = "ok" \/ answer[<<"qstash", k>>] = "ok" =>
             post[k].payload \in Payloads
      BY DEF IInv, AnswersMean, CopiesMean, Made, Published
    <2>2. \A d \in Drains : answer[<<"drain", d>>] = "ok" => drain[d].item.payload \in Payloads
      BY DEF IInv, AnswersMean, CopiesMean, Holds, Copies, EntryType
    <2> QED
      BY <1>1, <1>5, <2>1, <2>2 DEF IInv, AnswersMean, Ordered
  <1>9. CopiesMean' /\ DropsMean' /\ NoneLost'
    BY <1>1, <1>5, BuffersKept
  <1>10. TypeOK'
    <2>1. recent' \subseteq Payloads
      BY <1>1, TypesOfOrders DEF IInv
    <2>2. UNCHANGED <<mode, lapsed, overlapped, up, answer, post, message, pending,
                      processing, dead, logged, drain, left>>
      BY <1>1 DEF redis
    <2> QED
      BY <1>3, <1>4, <2>1, <2>2 DEF IInv, TypeOK, CallType
  <1>11. OrdersAged'
    BY <1>1, <1>5, TypesOfOrders DEF IInv, OInv, OrdersAged
  <1>12. InsertsAlone'
    BY <1>1, <1>3 DEF OInv, InsertsAlone
  <1>13. InsertsExplained'
    <2> SUFFICES ASSUME NEW t \in Slots, call'[t].pc = "insert",
                        call'[t].payload \notin overlapped
                 PROVE  /\ call'[t].flag => mode = "FLAG" /\ call'[t].payload \in lapsed
                        /\ ~call'[t].flag /\ Ordered(call[t].payload)' =>
                             mode = "OFF" /\ call'[t].payload \in lapsed
      BY <1>1 DEF InsertsExplained, Ordered
    <2>1. t # s /\ call'[t] = call[t]
      BY <1>3
    <2>2. PICK q \in Payloads : q = call[t].payload
      BY <2>1 DEF IInv, CallsMean, CallMeans
    <2>3. q # p
      BY <1>0, <1>1, <2>1, <2>2 DEF OInv, InsertsAlone
    <2>4. /\ call[t].flag => mode = "FLAG" /\ q \in lapsed
          /\ ~call[t].flag /\ Ordered(q) => mode = "OFF" /\ q \in lapsed
      BY <2>1, <2>2 DEF OInv, InsertsExplained
    <2>5. Ordered(q)' <=> Ordered(q)
      BY <1>5, <2>3
    <2> QED
      BY <2>1, <2>2, <2>4, <2>5 DEF Ordered
  <1>14. SecondOrderExplained'
    <2> SUFFICES ASSUME NEW q \in Payloads \ overlapped
                 PROVE  /\ orders'[q].plain > 1 => mode = "OFF" /\ q \in lapsed
                        /\ orders'[q].flagged > 0 => mode = "FLAG" /\ q \in lapsed
      BY <1>1 DEF SecondOrderExplained
    <2>1. CASE q # p
      BY <1>4, <2>1 DEF OInv, SecondOrderExplained
    <2>2. CASE q = p
      <3>1. orders[p].plain \in Nat /\ orders[p].flagged \in Nat
        BY <1>2
      <3>2. /\ call[s].flag => mode = "FLAG" /\ p \in lapsed
            /\ ~call[s].flag /\ orders[p].plain > 0 => mode = "OFF" /\ p \in lapsed
        BY <1>0, <1>1, <2>2, <3>1 DEF OInv, InsertsExplained, Ordered
      <3>3. /\ orders[p].plain > 1 => mode = "OFF" /\ p \in lapsed
            /\ orders[p].flagged > 0 => mode = "FLAG" /\ p \in lapsed
        BY <2>2 DEF OInv, SecondOrderExplained
      <3> QED
        BY <1>4, <2>2, <3>1, <3>2, <3>3
    <2> QED
      BY <2>1, <2>2
  <1> QED
    BY <1>6, <1>7, <1>8, <1>9, <1>10, <1>11, <1>12, <1>13, <1>14 DEF IInv, OInv

\* Whatever leaves the orders alone and brings no call to its insertion.
LEMMA OrdersExplained ==
    ASSUME OInv, UNCHANGED api,
           \A s \in Slots : call'[s].pc = "insert" =>
              /\ call[s].pc = "insert" /\ call'[s].payload = call[s].payload
              /\ call'[s].flag = call[s].flag
    PROVE  OInv'
  <1>1. UNCHANGED <<mode, orders, recent, lapsed, overlapped>>
    BY DEF api
  <1>2. OrdersAged' /\ SecondOrderExplained'
    BY <1>1 DEF OInv, OrdersAged, SecondOrderExplained, Ordered
  <1>3. InsertsAlone'
    BY <1>1 DEF OInv, InsertsAlone
  <1>4. InsertsExplained'
    BY <1>1 DEF OInv, InsertsExplained, Ordered
  <1> QED
    BY <1>2, <1>3, <1>4 DEF OInv

\* Calls go on, end or lose their callers.
LetsGo(s) == call'[s] \in {call[s], NoCall, [call[s] EXCEPT !.caller = Nobody]}
LEMMA CallsLetGo ==
    ASSUME IInv, \A s \in Slots : LetsGo(s),
           call' \in [Slots -> CallType],
           UNCHANGED orders,
           \A s \in Slots : call'[s].caller # Nobody => answer'[call'[s].caller] = "waiting",
           \A s \in Slots : \A k \in Posts :
              call'[s].caller \in {<<"form", k>>, <<"qstash", k>>} =>
                 post'[k].payload = post[k].payload,
           \A s \in Slots : \A d \in Drains :
              call'[s].caller = <<"drain", d>> => drain'[d].item = drain[d].item
    PROVE  CallsMean' /\ CallersWait'
  <1> USE CallersDiffer
  <1>1. ASSUME NEW s \in Slots
        PROVE  /\ call'[s].pc = "idle" => call'[s].caller = Nobody
               /\ call'[s].caller # Nobody => call'[s].caller = call[s].caller
               /\ call'[s].pc # "idle" =>
                    call'[s].pc = call[s].pc /\ call'[s].payload = call[s].payload
               /\ call'[s].caller # Nobody => call'[s].pc # "idle"
    <2>1. LetsGo(s) /\ call[s] \in CallType /\ CallMeans(s)
      BY TypesOfOrders DEF IInv, CallsMean
    <2>2. /\ NoCall.pc = "idle" /\ NoCall.caller = Nobody
      BY DEF NoCall
    <2>3. CASE call'[s] = call[s]
      BY <2>1, <2>3 DEF CallMeans
    <2>4. CASE call'[s] = NoCall
      BY <2>2, <2>4
    <2>5. CASE call'[s] = [call[s] EXCEPT !.caller = Nobody]
      BY <2>1, <2>5 DEF CallType
    <2> QED
      BY <2>1, <2>3, <2>4, <2>5 DEF LetsGo
  <1>2. ASSUME NEW s \in Slots PROVE CallMeans(s)'
    <2>1. CallMeans(s)
      BY DEF IInv, CallsMean
    <2>2. \A k \in Posts : call'[s].caller \in {<<"form", k>>, <<"qstash", k>>} =>
             call'[s].payload = post'[k].payload
      <3> SUFFICES ASSUME NEW k \in Posts,
                          call'[s].caller \in {<<"form", k>>, <<"qstash", k>>}
                   PROVE  call'[s].payload = post'[k].payload
        OBVIOUS
      <3>1. call'[s].caller # Nobody
        OBVIOUS
      <3>2. /\ call[s].caller \in {<<"form", k>>, <<"qstash", k>>}
            /\ call'[s].payload = call[s].payload
        BY <1>1, <3>1
      <3>3. post'[k].payload = post[k].payload
        OBVIOUS
      <3> QED
        BY <2>1, <3>2, <3>3 DEF CallMeans
    <2>3. \A d \in Drains : call'[s].caller = <<"drain", d>> =>
             call'[s].payload = drain'[d].item.payload
      BY <1>1, <2>1 DEF CallMeans
    <2>4. /\ call'[s].pc # "idle" => call'[s].payload \in Payloads
          /\ call'[s].pc = "respond" => Ordered(call[s].payload) /\ call'[s].payload = call[s].payload
      BY <1>1, <2>1 DEF CallMeans
    <2> QED
      BY <1>1, <2>2, <2>3, <2>4 DEF CallMeans, Ordered
  <1>3. CallersWait'
    BY <1>1 DEF IInv, CallersWait
  <1> QED
    BY <1>2, <1>3 DEF CallsMean

LEMMA TimeoutStep ==
    ASSUME IInv, OInv, NEW s \in Slots, Timeout(s)
    PROVE  IInv' /\ OInv'
  <1> DEFINE c == call[s].caller
  <1>1. /\ c # Nobody /\ call[s].pc # "idle" /\ Spend("losses")
        /\ answer' = [answer EXCEPT ![c] = "failed"]
        /\ call' = [call EXCEPT ![s].caller = Nobody]
        /\ UNCHANGED <<api, up, post, message, redis, drain>>
    BY DEF Timeout
  <1>2. /\ call \in [Slots -> CallType] /\ answer \in [Callers -> Answers] /\ c \in Callers
    BY <1>1, TypesOfOrders DEF IInv, CallType
  <1>3. /\ call' \in [Slots -> CallType]
        /\ \A t \in Slots : t # s => call'[t] = call[t]
        /\ call'[s] = [call[s] EXCEPT !.caller = Nobody]
    BY <1>1, <1>2 DEF CallType
  <1>4. /\ answer' \in [Callers -> Answers] /\ answer'[c] = "failed"
        /\ \A x \in Callers : x # c => answer'[x] = answer[x]
    BY <1>1, <1>2 DEF Answers
  <1>5. \A t \in Slots : call'[t].caller # Nobody =>
           t # s /\ call'[t].caller = call[t].caller /\ call[t].caller # c
                 /\ call[t].caller \in Callers
    BY <1>1, <1>2, <1>3 DEF IInv, CallersWait, CallType
  <1>6. CallsMean' /\ CallersWait'
    <2>1. \A t \in Slots : call'[t].caller # Nobody => answer'[call'[t].caller] = "waiting"
      BY <1>4, <1>5 DEF IInv, CallersWait
    <2>2. \A t \in Slots : LetsGo(t)
      BY <1>3 DEF LetsGo
    <2> QED
      BY <1>1, <1>3, <2>1, <2>2, CallsLetGo DEF api
  <1>7. AnswersMean'
    <2>1. answer[c] = "waiting"
      BY <1>1 DEF IInv, CallersWait
    <2>2. UNCHANGED <<orders, post, message, drain>>
      BY <1>1 DEF api
    <2> QED
      BY <1>4, <2>1, <2>2, CallersDiffer DEF IInv, AnswersMean, Ordered
  <1>8. CopiesMean' /\ DropsMean' /\ NoneLost'
    BY <1>1, BuffersKept DEF Ordered, api
  <1>9. TypeOK'
    <2>1. left' \in [faults : Nat, losses : Nat, lapses : Nat, deaths : Nat, overlaps : Nat]
      BY <1>1, SpendType DEF IInv
    <2> QED
      BY <1>1, <1>3, <1>4, <2>1 DEF IInv, TypeOK, CallType, Answers, api, redis
  <1>10. OInv'
    BY <1>1, <1>2, <1>3, OrdersExplained DEF CallType
  <1> QED
    BY <1>6, <1>7, <1>8, <1>9, <1>10 DEF IInv

LEMMA ApiDiesStep ==
    ASSUME IInv, OInv, ApiDies
    PROVE  IInv' /\ OInv'
  <1>1. /\ Spend("losses") /\ up' = FALSE
        /\ call' = [s \in Slots |-> NoCall]
        /\ answer' = [c \in Callers |-> IF answer[c] = "waiting" THEN "failed" ELSE answer[c]]
        /\ UNCHANGED <<api, post, message, redis, drain>>
    BY DEF ApiDies
  <1>2. /\ call' \in [Slots -> CallType]
        /\ \A s \in Slots : call'[s] = NoCall /\ call'[s].caller = Nobody /\ call'[s].pc = "idle"
    BY <1>1 DEF NoCall, CallType
  <1>3. /\ answer' \in [Callers -> Answers]
        /\ \A c \in Callers :
             answer'[c] = answer[c] \/ (answer[c] = "waiting" /\ answer'[c] = "failed")
    BY <1>1, TypesOfOrders DEF IInv, Answers
  <1>4. CallsMean' /\ CallersWait'
    BY <1>1, <1>2, CallersDiffer, CallsLetGo DEF LetsGo, api
  <1>5. AnswersMean'
    <2>1. UNCHANGED <<orders, post, message, drain>>
      BY <1>1 DEF api
    <2> QED
      BY <1>3, <2>1, CallersDiffer DEF IInv, AnswersMean, Ordered
  <1>6. CopiesMean' /\ DropsMean' /\ NoneLost'
    BY <1>1, BuffersKept DEF Ordered, api
  <1>7. TypeOK'
    <2>1. left' \in [faults : Nat, losses : Nat, lapses : Nat, deaths : Nat, overlaps : Nat]
      BY <1>1, SpendType DEF IInv
    <2> QED
      BY <1>1, <1>2, <1>3, <2>1 DEF IInv, TypeOK, CallType, Answers, api, redis
  <1>8. OInv'
    BY <1>1, <1>2, OrdersExplained
  <1> QED
    BY <1>4, <1>5, <1>6, <1>7, <1>8 DEF IInv

\* The API comes back, or time passes.
LEMMA TimeStep ==
    ASSUME IInv, OInv, ApiReturns \/ \E p \in Payloads : TwoMinutesPass(p)
    PROVE  IInv' /\ OInv'
  <1>1. /\ UNCHANGED <<mode, orders, overlapped, call, answer, post, message, redis, drain>>
        /\ recent' \cup lapsed' \in SUBSET Payloads /\ lapsed \subseteq lapsed'
        /\ recent' \subseteq recent /\ recent \cup lapsed = recent' \cup lapsed'
        /\ up' \in BOOLEAN /\ (left' = left \/ Spend("lapses"))
    <2>1. up \in BOOLEAN /\ recent \in SUBSET Payloads /\ lapsed \in SUBSET Payloads
      BY DEF IInv, TypeOK
    <2>2. CASE ApiReturns
      BY <2>1, <2>2 DEF ApiReturns, api
    <2>3. ASSUME NEW p \in Payloads, TwoMinutesPass(p)
          PROVE  /\ UNCHANGED <<mode, orders, overlapped, up, call, answer, post, message,
                                redis, drain>>
                 /\ Spend("lapses") /\ p \in recent /\ recent' = recent \ {p} /\ lapsed' = lapsed \cup {p}
      BY <2>3 DEF TwoMinutesPass
    <2> QED
      BY <2>1, <2>2, <2>3
  <1>2. CallsMean' /\ CallersWait' /\ AnswersMean'
    BY <1>1 DEF IInv, CallsMean, CallMeans, CallersWait, AnswersMean, Ordered
  <1>3. CopiesMean' /\ DropsMean' /\ NoneLost'
    BY <1>1, BuffersKept DEF Ordered
  <1>4. TypeOK'
    <2>1. left' \in [faults : Nat, losses : Nat, lapses : Nat, deaths : Nat, overlaps : Nat]
      BY <1>1, SpendType DEF IInv, TypeOK
    <2> QED
      BY <1>1, <2>1 DEF IInv, TypeOK, redis
  <1>5. OInv'
    BY <1>1 DEF OInv, OrdersAged, InsertsAlone, InsertsExplained, SecondOrderExplained, Ordered
  <1> QED
    BY <1>2, <1>3, <1>4, <1>5 DEF IInv

------------------------------------------------------------------------------
(***************************************************************************)
(* Callers.                                                                *)
(***************************************************************************)

\* What somebody waits for an answer about does not change.
LinksKept ==
    /\ \A k \in Posts :
         answer[<<"form", k>>] = "waiting" \/ answer[<<"qstash", k>>] = "waiting" =>
            post'[k].payload = post[k].payload
    /\ \A d \in Drains : answer[<<"drain", d>>] = "waiting" => drain'[d].item = drain[d].item

\* A call that stays as it is means what it meant.
LEMMA CallMeansKept ==
    ASSUME IInv, LinksKept, UNCHANGED orders, NEW s \in Slots, call'[s] = call[s]
    PROVE  CallMeans(s)'
  <1>1. CallMeans(s) /\ (call[s].caller # Nobody => answer[call[s].caller] = "waiting")
    BY DEF IInv, CallsMean, CallersWait
  <1>2. ASSUME NEW k \in Posts, call[s].caller \in {<<"form", k>>, <<"qstash", k>>}
        PROVE  call[s].payload = post'[k].payload
    BY <1>1, <1>2, CallersDiffer DEF CallMeans, LinksKept
  <1>3. ASSUME NEW d \in Drains, call[s].caller = <<"drain", d>>
        PROVE  call[s].payload = drain'[d].item.payload
    BY <1>1, <1>3, CallersDiffer DEF CallMeans, LinksKept
  <1> QED
    BY <1>1, <1>2, <1>3 DEF CallMeans, Ordered

LEMMA CallsKept ==
    ASSUME IInv, LinksKept, UNCHANGED <<call, orders>>,
           \A c \in Callers : answer[c] = "waiting" => answer'[c] = "waiting"
    PROVE  CallsMean' /\ CallersWait'
  <1>1. CallsMean'
    BY CallMeansKept DEF CallsMean
  <1>2. \A s \in Slots : call[s].caller # Nobody => call[s].caller \in Callers
    BY TypesOfOrders DEF IInv, CallType
  <1> QED
    BY <1>1, <1>2 DEF IInv, CallersWait

\* A caller that waits for nothing starts a call, or learns that the API is not there.
LEMMA Sends ==
    ASSUME IInv, LinksKept, UNCHANGED orders, NEW c \in Callers, NEW p \in Payloads,
           answer[c] = "none", Send(c, p),
           \A k \in Posts : c \in {<<"form", k>>, <<"qstash", k>>} => post'[k].payload = p,
           \A d \in Drains : c = <<"drain", d>> => drain'[d].item.payload = p
    PROVE  /\ call' \in [Slots -> CallType] /\ answer' \in [Callers -> Answers]
           /\ answer'[c] \in {"waiting", "failed"}
           /\ \A x \in Callers : x # c => answer'[x] = answer[x]
           /\ CallsMean' /\ CallersWait'
           /\ \A s \in Slots : call'[s].pc = "insert" => call'[s] = call[s]
  <1>1. call \in [Slots -> CallType] /\ answer \in [Callers -> Answers]
    BY TypesOfOrders DEF IInv
  <1>2. \A s \in Slots : call[s].caller # c
    BY CallersDiffer DEF IInv, CallersWait
  <1>3. CASE UNCHANGED call /\ answer' = [answer EXCEPT ![c] = "failed"]
    <2>1. \A x \in Callers : answer[x] = "waiting" => answer'[x] = "waiting"
      BY <1>1, <1>3
    <2>2. CallsMean' /\ CallersWait'
      BY <1>3, <2>1, CallsKept
    <2> QED
      BY <1>1, <1>3, <2>2 DEF Answers
  <1>4. ASSUME NEW s \in Slots, call[s].pc = "idle",
               call' = [call EXCEPT ![s] = [NoCall EXCEPT !.pc = "check", !.payload = p,
                                                          !.caller = c]],
               answer' = [answer EXCEPT ![c] = "waiting"]
        PROVE  /\ call' \in [Slots -> CallType] /\ answer' \in [Callers -> Answers]
               /\ answer'[c] = "waiting"
               /\ \A x \in Callers : x # c => answer'[x] = answer[x]
               /\ CallsMean' /\ CallersWait'
               /\ \A t \in Slots : call'[t].pc = "insert" => call'[t] = call[t]
    <2>1. /\ call' \in [Slots -> CallType]
          /\ \A t \in Slots : t # s => call'[t] = call[t]
          /\ call'[s].pc = "check" /\ call'[s].payload = p /\ call'[s].caller = c
      BY <1>1, <1>4 DEF NoCall, CallType
    <2>2. /\ answer' \in [Callers -> Answers] /\ answer'[c] = "waiting"
          /\ \A x \in Callers : x # c => answer'[x] = answer[x]
      BY <1>1, <1>4 DEF Answers
    <2>3. \A t \in Slots : t # s => CallMeans(t)'
      BY <2>1, CallMeansKept
    <2>4. CallMeans(s)'
      BY <2>1 DEF CallMeans
    <2>5. CallersWait'
      BY <1>1, <1>2, <2>1, <2>2 DEF IInv, CallersWait, CallType
    <2> QED
      BY <2>1, <2>2, <2>3, <2>4, <2>5 DEF CallsMean
  <1>5. \/ UNCHANGED call /\ answer' = [answer EXCEPT ![c] = "failed"]
        \/ \E s \in Slots :
             /\ call[s].pc = "idle"
             /\ call' = [call EXCEPT ![s] = [NoCall EXCEPT !.pc = "check", !.payload = p,
                                                           !.caller = c]]
             /\ answer' = [answer EXCEPT ![c] = "waiting"]
    <2> DEFINE free == {s \in Slots : call[s].pc = "idle"}
               s == CHOOSE t \in free : TRUE
    <2>1. CASE ~up
      BY <2>1 DEF Send
    <2>2. CASE up
      <3>1. free # {}
        BY <2>2 DEF Send
      <3>2. s \in free
        BY <3>1
      <3>3. /\ call' = [call EXCEPT ![s] = [NoCall EXCEPT !.pc = "check", !.payload = p,
                                                          !.caller = c]]
            /\ answer' = [answer EXCEPT ![c] = "waiting"]
        BY <2>2 DEF Send
      <3> HIDE DEF s
      <3> QED
        BY <3>2, <3>3
    <2> QED
      BY <2>1, <2>2
  <1> QED
    BY <1>3, <1>4, <1>5

\* A message leaves QStash for an order or a dead letter, or is dropped; the entries that
\* were pushed stay.
InQStash(k) == message[k].pc \in {"due", "sent", "dropped"}
LEMMA NoneLostKept ==
    ASSUME IInv, Grows, DropsMean', \A k \in Posts : Root(k) => Root(k)',
           \A k \in Posts : Made(k) => Made(k)' /\ post'[k].payload = post[k].payload,
           \A k \in Posts : InQStash(k) => InQStash(k)' \/ Final(k)',
           \A k \in Posts : post'[k].pc = "success" =>
                              post[k].pc = "success" \/ Final(k)' \/ Buffered(k)'
    PROVE  NoneLost'
  <1>1. ASSUME NEW k \in Posts, Final(k) PROVE Final(k)'
    <2>1. Made(k)
      BY <1>1 DEF Final, Made
    <2> QED
      BY <1>1, <2>1, FinalKept
  <1>2. \A k \in Posts : InRedis(k) => Root(k)
    BY DEF IInv, DropsMean, InRedis, Entries
  <1>3. \A k \in Posts : Root(k)' => InRedis(k)'
    BY DEF Root, InRedis, Entries
  <1>4. ASSUME NEW k \in Posts, post[k].pc = "success", ~Final(k)'
        PROVE  Buffered(k)' \/ Dropped(k)'
    <2>1. InQStash(k) \/ InRedis(k)
      BY <1>1, <1>4 DEF IInv, NoneLost, Buffered, Dropped, InQStash
    <2> QED
      BY <1>2, <1>3, <1>4, <2>1 DEF Buffered, Dropped, InQStash
  <1> QED
    BY <1>4 DEF NoneLost

\* Nothing leaves the Redis lists, and what is added goes back to an entry that is there.
LEMMA NothingDropped ==
    ASSUME IInv, Grows, Entries \subseteq Entries',
           \A e \in Entries' : e \in Entries \/ e.attempts = 0 \/ Root(e.id),
           \A k \in Posts : Made(k) => Made(k)' /\ post'[k].payload = post[k].payload,
           \A k \in Posts : InQStash(k) => InQStash(k)' \/ Final(k)',
           \A k \in Posts : post'[k].pc = "success" =>
                              post[k].pc = "success" \/ Final(k)' \/ Buffered(k)',
           \A d \in Drains : drain'[d] = drain[d] \/ RunMeans(d)'
    PROVE  DropsMean' /\ NoneLost'
  <1>1. \A k : Root(k) => Root(k)'
    BY DEF Root
  <1>2. \A e \in Entries' : Root(e.id)'
    <2> SUFFICES ASSUME NEW e \in Entries' PROVE Root(e.id)'
      OBVIOUS
    <2>1. CASE e.attempts = 0
      BY <2>1 DEF Root
    <2>2. CASE e \in Entries \/ Root(e.id)
      BY <1>1, <2>2 DEF IInv, DropsMean
    <2> QED
      BY <2>1, <2>2
  <1>3. ASSUME NEW d \in Drains, drain'[d] = drain[d] PROVE RunMeans(d)'
    <2>1. PICK i : i = drain[d].item
      OBVIOUS
    <2>2. Holds(d) => Root(i.id) /\ (drain[d].pc = "remove" => i.attempts > 0)
      BY <2>1 DEF IInv, DropsMean, RunMeans
    <2>3. Holds(d) => Root(i.id)' /\ (drain[d].pc = "remove" => i.attempts > 0)
      BY <1>1, <2>2
    <2> QED
      BY <1>3, <2>1, <2>3 DEF RunMeans, Holds, Root
  <1>4. DropsMean'
    BY <1>2, <1>3 DEF DropsMean
  <1> QED
    BY <1>1, <1>4, NoneLostKept

------------------------------------------------------------------------------
(***************************************************************************)
(* The worker and QStash.                                                  *)
(***************************************************************************)

PostType == [pc : {"new", "api", "qstash", "redis", "success", "refused", "unsure"},
             payload : Payloads \cup {Nobody}]
MessageType == [pc : {"none", "due", "sent", "dropped"}, tries : 0..Retries,
                callback : BOOLEAN]
PostsKept == \A k \in Posts : Made(k) => Made(k)' /\ post'[k].payload = post[k].payload

LEMMA TypesOfBuffers ==
    ASSUME TypeOK
    PROVE  /\ post \in [Posts -> PostType] /\ message \in [Posts -> MessageType]
           /\ pending \in Seq(EntryType) /\ processing \in Seq(EntryType)
           /\ drain \in [Drains -> RunType]
  BY DEF TypeOK, PostType, MessageType, RunType

\* A copy of a request remains one.
LEMMA CopyKept ==
    ASSUME PostsKept, NEW e, Copies(e)
    PROVE  Copies(e)'
  BY DEF Copies, EntryType, PostsKept, Made

LEMMA HeldCopiesKept ==
    ASSUME IInv, PostsKept, drain' = drain
    PROVE  \A d \in Drains : Holds(d)' => Copies(drain[d].item)'
  <1> SUFFICES ASSUME NEW d \in Drains, Holds(d)' PROVE Copies(drain[d].item)'
    OBVIOUS
  <1>1. PICK e : e = drain[d].item
    OBVIOUS
  <1>2. Copies(e)
    BY <1>1 DEF IInv, CopiesMean, Holds
  <1>3. Copies(e)'
    BY <1>2, CopyKept
  <1> QED
    BY <1>1, <1>3 DEF Copies, Made

LEMMA CopiesKept ==
    ASSUME IInv, PostsKept, drain' = drain, Entries' \subseteq Entries
    PROVE  /\ \A e \in Entries' : Copies(e)'
           /\ \A d \in Drains : Holds(d)' => Copies(drain[d].item)'
  <1>1. \A e \in Entries' : Copies(e)'
    BY CopyKept DEF IInv, CopiesMean
  <1> QED
    BY <1>1, HeldCopiesKept

\* Nobody waits for an answer about a request that has not been made.
LEMMA WaitsMade ==
    ASSUME IInv, PostsKept, drain' = drain
    PROVE  LinksKept
  <1>1. ASSUME NEW k \in Posts, answer[<<"form", k>>] = "waiting" \/ answer[<<"qstash", k>>] = "waiting"
        PROVE  Made(k)
    BY <1>1 DEF IInv, AnswersMean, CopiesMean, Made, Published
  <1> QED
    BY <1>1 DEF LinksKept, PostsKept

\* No new answer ok, and who has done with a call has no answer left.
LEMMA AnswersKept ==
    ASSUME IInv, PostsKept, UNCHANGED orders,
           \A c \in Callers : answer'[c] = "ok" => answer[c] = "ok",
           \A d \in Drains : answer'[<<"drain", d>>] = "ok" => drain'[d].item = drain[d].item,
           \A k \in Posts : post'[k].pc # "api" => answer'[<<"form", k>>] = "none",
           \A k \in Posts : message'[k].pc # "sent" => answer'[<<"qstash", k>>] = "none",
           \A d \in Drains : drain'[d].pc # "wait" => answer'[<<"drain", d>>] = "none"
    PROVE  AnswersMean'
  <1>1. ASSUME NEW k \in Posts,
               answer'[<<"form", k>>] = "ok" \/ answer'[<<"qstash", k>>] = "ok"
        PROVE  Ordered(post[k].payload)'
    <2>1. answer[<<"form", k>>] = "ok" \/ answer[<<"qstash", k>>] = "ok"
      BY <1>1, CallersDiffer
    <2>2. Ordered(post[k].payload) /\ Made(k)
      BY <2>1 DEF IInv, AnswersMean, CopiesMean, Made, Published
    <2> QED
      BY <2>2 DEF PostsKept, Ordered
  <1>2. ASSUME NEW d \in Drains, answer'[<<"drain", d>>] = "ok"
        PROVE  Ordered(drain[d].item.payload)'
    <2>1. answer[<<"drain", d>>] = "ok" /\ drain'[d].item = drain[d].item
      BY <1>2, CallersDiffer
    <2>2. Ordered(drain[d].item.payload)
      BY <2>1 DEF IInv, AnswersMean
    <2> QED
      BY <2>1, <2>2 DEF Ordered
  <1> QED
    BY <1>1, <1>2 DEF AnswersMean

LEMMA SubmitStep ==
    ASSUME IInv, OInv, NEW k \in Posts, NEW p \in Payloads, Submit(k, p)
    PROVE  IInv' /\ OInv'
  <1>1. /\ post[k].pc = "new" /\ Send(<<"form", k>>, p)
        /\ post' = [post EXCEPT ![k].pc = "api", ![k].payload = p]
        /\ UNCHANGED <<api, up, message, redis, drain, left>>
    BY DEF Submit
  <1>2. /\ post' \in [Posts -> PostType] /\ post'[k].pc = "api" /\ post'[k].payload = p
        /\ \A j \in Posts : j # k => post'[j] = post[j]
    BY <1>1, TypesOfBuffers DEF IInv, PostType
  <1>3. PostsKept
    BY <1>1, <1>2 DEF PostsKept, Made
  <1>4. LinksKept
    BY <1>1, <1>3, WaitsMade
  <1>5. /\ call' \in [Slots -> CallType] /\ answer' \in [Callers -> Answers]
        /\ answer'[<<"form", k>>] \in {"waiting", "failed"}
        /\ \A x \in Callers : x # <<"form", k>> => answer'[x] = answer[x]
        /\ CallsMean' /\ CallersWait'
        /\ \A s \in Slots : call'[s].pc = "insert" => call'[s] = call[s]
    <2> DEFINE c == <<"form", k>>
    <2>1. c \in Callers /\ answer[c] = "none"
      BY <1>1, CallersDiffer DEF IInv, AnswersMean
    <2>2. /\ \A j \in Posts : c \in {<<"form", j>>, <<"qstash", j>>} => post'[j].payload = p
          /\ \A d \in Drains : c # <<"drain", d>>
      BY <1>2
    <2> HIDE DEF c
    <2>3. Send(c, p) /\ UNCHANGED orders
      BY <1>1 DEF c, api
    <2>4. /\ call' \in [Slots -> CallType] /\ answer' \in [Callers -> Answers]
          /\ answer'[c] \in {"waiting", "failed"}
          /\ \A x \in Callers : x # c => answer'[x] = answer[x]
          /\ CallsMean' /\ CallersWait'
          /\ \A s \in Slots : call'[s].pc = "insert" => call'[s] = call[s]
      BY <1>4, <2>1, <2>2, <2>3, Sends
    <2> QED
      BY <2>4 DEF c
  <1>6. UNCHANGED <<mode, orders, recent, lapsed, overlapped, up, message, pending, processing,
                    dead, logged, drain, left>>
    BY <1>1 DEF api, redis
  <1>7. AnswersMean'
    <2>1. \A c \in Callers : answer'[c] = "ok" => answer[c] = "ok"
      BY <1>5
    <2>2. \A j \in Posts : post'[j].pc # "api" => answer'[<<"form", j>>] = "none"
      BY <1>2, <1>5, CallersDiffer DEF IInv, AnswersMean
    <2>3. \A j \in Posts : message'[j].pc # "sent" => answer'[<<"qstash", j>>] = "none"
      BY <1>5, <1>6, CallersDiffer DEF IInv, AnswersMean
    <2>4. \A d \in Drains : drain'[d].pc # "wait" => answer'[<<"drain", d>>] = "none"
      BY <1>5, <1>6, CallersDiffer DEF IInv, AnswersMean
    <2> QED
      BY <1>3, <1>6, <2>1, <2>2, <2>3, <2>4, AnswersKept
  <1>8. CopiesMean'
    <2>1. /\ \A e \in Entries' : Copies(e)'
          /\ \A d \in Drains : Holds(d)' => Copies(drain[d].item)'
      BY <1>3, <1>6, CopiesKept DEF Entries
    <2>2. \A j \in Posts : Made(j)' => post'[j].payload \in Payloads
      BY <1>2 DEF IInv, CopiesMean, Made
    <2>3. \A j \in Posts : message'[j].pc # "none" => Published(j)'
      BY <1>1, <1>2, <1>6 DEF IInv, CopiesMean, Published
    <2> QED
      BY <2>1, <2>2, <2>3 DEF CopiesMean
  <1>9. DropsMean' /\ NoneLost'
    <2>1. Grows
      BY <1>6 DEF Grows, Ordered
    <2>2. \A j \in Posts : post'[j].pc = "success" => post[j].pc = "success"
      BY <1>2
    <2> QED
      BY <1>3, <1>6, <2>1, <2>2, NothingDropped DEF PostsKept, Entries, InQStash
  <1>10. TypeOK'
    BY <1>2, <1>5, <1>6 DEF IInv, TypeOK, CallType, Answers, PostType
  <1>11. OInv'
    BY <1>1, <1>5, OrdersExplained
  <1> QED
    BY <1>5, <1>7, <1>8, <1>9, <1>10, <1>11 DEF IInv

\* A caller hears its answer.
LEMMA Hears ==
    ASSUME IInv, LinksKept, UNCHANGED <<call, orders>>, NEW c \in Callers, Heard(c),
           answer' = [answer EXCEPT ![c] = "none"]
    PROVE  /\ answer' \in [Callers -> Answers] /\ answer'[c] = "none"
           /\ \A x \in Callers : x # c => answer'[x] = answer[x]
           /\ CallsMean' /\ CallersWait'
  <1>1. answer \in [Callers -> Answers]
    BY TypesOfOrders DEF IInv
  <1>2. /\ answer' \in [Callers -> Answers] /\ answer'[c] = "none"
        /\ \A x \in Callers : x # c => answer'[x] = answer[x]
    BY <1>1 DEF Answers
  <1>3. \A x \in Callers : answer[x] = "waiting" => answer'[x] = "waiting"
    BY <1>2 DEF Heard
  <1> QED
    BY <1>2, <1>3, CallsKept

LEMMA ApiAnsweredStep ==
    ASSUME IInv, OInv, NEW k \in Posts, ApiAnswered(k)
    PROVE  IInv' /\ OInv'
  <1> DEFINE c == <<"form", k>>
             pc == CASE answer[c] = "ok" -> "success"
                     [] answer[c] = "rejected" -> "refused"
                     [] OTHER -> "qstash"
  <1>1. /\ post[k].pc = "api" /\ Heard(c)
        /\ post' = [post EXCEPT ![k].pc = pc]
        /\ answer' = [answer EXCEPT ![c] = "none"]
        /\ UNCHANGED <<api, up, call, message, redis, drain, left>>
    BY DEF ApiAnswered
  <1>2. /\ pc \in {"success", "refused", "qstash"}
        /\ pc = "success" => answer[c] = "ok"
    OBVIOUS
  <1>3. c \in Callers
    BY CallersDiffer
  <1> HIDE DEF c, pc
  <1>4. /\ post' \in [Posts -> PostType] /\ post'[k].pc = pc
        /\ post'[k].payload = post[k].payload
        /\ \A j \in Posts : j # k => post'[j] = post[j]
    BY <1>1, <1>2, TypesOfBuffers DEF IInv, PostType
  <1>5. PostsKept
    BY <1>2, <1>4 DEF PostsKept, Made
  <1>6. LinksKept
    BY <1>1, <1>5, WaitsMade
  <1>7. UNCHANGED <<mode, orders, recent, lapsed, overlapped, up, call, message, pending,
                    processing, dead, logged, drain, left>>
    BY <1>1 DEF api, redis
  <1>8. /\ answer' \in [Callers -> Answers] /\ answer'[c] = "none"
        /\ \A x \in Callers : x # c => answer'[x] = answer[x]
        /\ CallsMean' /\ CallersWait'
    BY <1>1, <1>3, <1>6, <1>7, Hears
  <1>9. AnswersMean'
    <2>1. \A x \in Callers : answer'[x] = "ok" => answer[x] = "ok"
      BY <1>8
    <2>2. \A j \in Posts : post'[j].pc # "api" => answer'[<<"form", j>>] = "none"
      BY <1>4, <1>8, CallersDiffer DEF IInv, AnswersMean, c
    <2>3. \A j \in Posts : message'[j].pc # "sent" => answer'[<<"qstash", j>>] = "none"
      BY <1>7, <1>8, CallersDiffer DEF IInv, AnswersMean, c
    <2>4. \A d \in Drains : drain'[d].pc # "wait" => answer'[<<"drain", d>>] = "none"
      BY <1>7, <1>8, CallersDiffer DEF IInv, AnswersMean, c
    <2> QED
      BY <1>5, <1>7, <2>1, <2>2, <2>3, <2>4, AnswersKept
  <1>10. CopiesMean'
    <2>1. /\ \A e \in Entries' : Copies(e)'
          /\ \A d \in Drains : Holds(d)' => Copies(drain[d].item)'
      BY <1>5, <1>7, CopiesKept DEF Entries
    <2>2. \A j \in Posts : Made(j)' => post'[j].payload \in Payloads
      BY <1>1, <1>4 DEF IInv, CopiesMean, Made
    <2>3. \A j \in Posts : message'[j].pc # "none" => Published(j)'
      BY <1>1, <1>4, <1>7 DEF IInv, CopiesMean, Published
    <2> QED
      BY <2>1, <2>2, <2>3 DEF CopiesMean
  <1>11. DropsMean' /\ NoneLost'
    <2>1. Grows
      BY <1>7 DEF Grows, Ordered
    <2>2. post'[k].pc = "success" => Final(k)'
      <3> SUFFICES ASSUME pc = "success" PROVE Final(k)'
        BY <1>4
      <3>1. Ordered(post[k].payload)
        BY <1>2 DEF IInv, AnswersMean, c
      <3> QED
        BY <1>4, <1>7, <3>1 DEF Final, Ordered
    <2>3. \A j \in Posts : post'[j].pc = "success" => post[j].pc = "success" \/ Final(j)'
      BY <1>4, <2>2
    <2> QED
      BY <1>5, <1>7, <2>1, <2>3, NothingDropped DEF PostsKept, Entries, InQStash
  <1>12. TypeOK'
    BY <1>4, <1>7, <1>8 DEF IInv, TypeOK, Answers, PostType
  <1>13. OInv'
    BY <1>1, OrdersExplained
  <1> QED
    BY <1>8, <1>9, <1>10, <1>11, <1>12, <1>13 DEF IInv

\* The worker hands a request over to QStash or to Redis, or fails to.
LEMMA HandOver ==
    ASSUME IInv, OInv, NEW k \in Posts,
           \/ ToQStash(k) \/ ToRedis(k)
           \/ \E b \in BOOLEAN : QStashFails(k, b) \/ RedisFails(k, b)
    PROVE  IInv' /\ OInv'
  <1>1. post \in [Posts -> PostType] /\ message \in [Posts -> MessageType]
    BY TypesOfBuffers DEF IInv
  <1>2. /\ post[k].pc \in {"qstash", "redis"}
        /\ \E pc \in {"success", "redis", "unsure"} : post' = [post EXCEPT ![k].pc = pc]
        /\ message' = message \/ Publish(k)
        /\ pending' = pending \/ pending' = Append(pending, Entry(k))
        /\ message' = message \/ post[k].pc = "qstash"
        /\ post'[k].pc = "success" => Publish(k) \/ pending' = Append(pending, Entry(k))
        /\ UNCHANGED <<mode, orders, recent, lapsed, overlapped, up, call, answer,
                       processing, dead, logged, drain>>
        /\ left' = left \/ Spend("faults")
    <2>1. CASE ToQStash(k)
      BY <2>1 DEF ToQStash, api, redis
    <2>2. CASE ToRedis(k)
      BY <2>2 DEF ToRedis, api
    <2>3. ASSUME NEW b \in BOOLEAN, QStashFails(k, b)
          PROVE  /\ post[k].pc = "qstash" /\ post' = [post EXCEPT ![k].pc = "redis"]
                 /\ message' = message \/ Publish(k)
                 /\ UNCHANGED <<mode, orders, recent, lapsed, overlapped, up, call, answer,
                                pending, processing, dead, logged, drain>>
                 /\ Spend("faults")
      BY <2>3 DEF QStashFails, api, redis
    <2>4. ASSUME NEW b \in BOOLEAN, RedisFails(k, b)
          PROVE  /\ post[k].pc = "redis" /\ post' = [post EXCEPT ![k].pc = "unsure"]
                 /\ pending' = pending \/ pending' = Append(pending, Entry(k))
                 /\ UNCHANGED <<mode, orders, recent, lapsed, overlapped, up, call, answer,
                                message, processing, dead, logged, drain, left>>
      BY <2>4 DEF RedisFails, api
    <2>5. ASSUME NEW pc \in {"redis", "unsure"}, post' = [post EXCEPT ![k].pc = pc]
          PROVE  post'[k].pc # "success"
      BY <1>1, <2>5 DEF PostType
    <2> QED
      BY <2>1, <2>2, <2>3, <2>4, <2>5
  <1>3. /\ post' \in [Posts -> PostType] /\ post'[k].pc \in {"success", "redis", "unsure"}
        /\ post'[k].payload = post[k].payload
        /\ \A j \in Posts : j # k => post'[j] = post[j]
    BY <1>1, <1>2 DEF PostType
  <1>4. PostsKept
    BY <1>3 DEF PostsKept, Made
  <1>5. /\ message' \in [Posts -> MessageType]
        /\ \A j \in Posts : j # k => message'[j] = message[j]
        /\ message'[k] = message[k] \/ message'[k].pc = "due"
        /\ message[k].pc = "sent" => message'[k] = message[k]
        /\ Publish(k) => message'[k].pc = "due"
    <2>1. post[k].pc = "qstash" => message[k].pc = "none"
      BY DEF IInv, CopiesMean, Published
    <2>2. ASSUME Publish(k)
          PROVE  /\ message' \in [Posts -> MessageType] /\ message'[k].pc = "due"
                 /\ \A j \in Posts : j # k => message'[j] = message[j]
      <3>1. PICK b \in BOOLEAN : message' = [message EXCEPT ![k].pc = "due", ![k].callback = b]
        BY <2>2, IntakeAssumption DEF Publish
      <3> QED
        BY <1>1, <3>1 DEF MessageType
    <2> QED
      BY <1>1, <1>2, <2>1, <2>2
  <1>6. Copies(Entry(k)) /\ Copies(Entry(k))' /\ Entry(k).id = k /\ Entry(k).attempts = 0
    <2>1. post[k].payload \in Payloads /\ Made(k)
      BY <1>2 DEF IInv, CopiesMean, Made
    <2>2. Copies(Entry(k)) /\ Entry(k).id = k /\ Entry(k).attempts = 0
      BY <2>1 DEF Copies, EntryType, Entry
    <2>3. PICK e : e = Entry(k)
      OBVIOUS
    <2>4. Entry(k)' = e
      BY <1>3, <2>3 DEF Entry
    <2>5. Copies(e)'
      BY <1>4, <2>2, <2>3, CopyKept
    <2> QED
      BY <2>2, <2>4, <2>5 DEF Copies, Made
  <1>7. /\ pending' \in Seq(EntryType) /\ Entries \subseteq Entries'
        /\ \A e \in Entries' : e \in Entries \/ e = Entry(k)
        /\ pending' = Append(pending, Entry(k)) => Entry(k) \in Entries'
    <2>1. pending \in Seq(EntryType) /\ Entry(k) \in EntryType
      BY <1>6, TypesOfBuffers DEF IInv, Copies
    <2>2. CASE pending' = pending
      <3>1. Append(pending, Entry(k)) # pending
        BY <2>1
      <3> QED
        BY <1>2, <2>1, <2>2, <3>1 DEF Entries
    <2>3. CASE pending' = Append(pending, Entry(k))
      BY <1>2, <2>1, <2>3, AppendElements DEF Entries
    <2> QED
      BY <1>2, <2>2, <2>3
  <1>8. CallsMean' /\ CallersWait'
    <2>1. LinksKept
      BY <1>2, <1>4, WaitsMade
    <2> QED
      BY <1>2, <2>1, CallsKept
  <1>9. AnswersMean'
    <2>1. \A j \in Posts : post'[j].pc # "api" => answer'[<<"form", j>>] = "none"
      BY <1>2, <1>3 DEF IInv, AnswersMean
    <2>2. \A j \in Posts : message'[j].pc # "sent" => answer'[<<"qstash", j>>] = "none"
      <3>1. \A j \in Posts : message[j].pc # "sent" => answer[<<"qstash", j>>] = "none"
        BY DEF IInv, AnswersMean
      <3> QED
        BY <1>2, <1>5, <3>1
    <2>3. \A d \in Drains : drain'[d].pc # "wait" => answer'[<<"drain", d>>] = "none"
      BY <1>2 DEF IInv, AnswersMean
    <2> QED
      BY <1>2, <1>4, <2>1, <2>2, <2>3, AnswersKept
  <1>10. CopiesMean'
    <2>1. \A e \in Entries' : Copies(e)'
      <3> SUFFICES ASSUME NEW e \in Entries' PROVE Copies(e)'
        OBVIOUS
      <3>1. Copies(e)
        BY <1>6, <1>7 DEF IInv, CopiesMean
      <3> QED
        BY <1>4, <3>1, CopyKept
    <2>2. \A d \in Drains : Holds(d)' => Copies(drain[d].item)'
      BY <1>2, <1>4, HeldCopiesKept
    <2>3. \A j \in Posts : Made(j)' => post'[j].payload \in Payloads
      BY <1>2, <1>3 DEF IInv, CopiesMean, Made
    <2>4. \A j \in Posts : message'[j].pc # "none" => Published(j)'
      BY <1>3, <1>5 DEF IInv, CopiesMean, Published
    <2> QED
      BY <2>1, <2>2, <2>3, <2>4 DEF CopiesMean
  <1>11. DropsMean' /\ NoneLost'
    <2>1. Grows
      BY <1>2 DEF Grows, Ordered
    <2>2. post'[k].pc = "success" => Buffered(k)'
      BY <1>2, <1>5, <1>6, <1>7 DEF Buffered, InRedis, Entries
    <2>3. \A j \in Posts : post'[j].pc = "success" => post[j].pc = "success" \/ Buffered(j)'
      BY <1>3, <2>2
    <2>4. \A j \in Posts : InQStash(j) => InQStash(j)'
      BY <1>5 DEF InQStash
    <2>5. \A e \in Entries' : e \in Entries \/ e.attempts = 0
      BY <1>6, <1>7
    <2> QED
      BY <1>2, <1>4, <1>7, <2>1, <2>3, <2>4, <2>5, NothingDropped DEF PostsKept
  <1>12. TypeOK'
    <2>1. left' \in [faults : Nat, losses : Nat, lapses : Nat, deaths : Nat, overlaps : Nat]
      BY <1>2, SpendType DEF IInv, TypeOK
    <2>2. \A e \in Entries' : e.attempts < MaxAttempts
      <3>1. 0 < MaxAttempts
        BY IntakeAssumption
      <3> QED
        BY <1>6, <1>7, <3>1 DEF IInv, TypeOK, Entries
    <2> QED
      BY <1>2, <1>3, <1>5, <1>7, <2>1, <2>2 DEF IInv, TypeOK, PostType, MessageType, Entries
  <1>13. OInv'
    BY <1>2, OrdersExplained DEF api
  <1> QED
    BY <1>8, <1>9, <1>10, <1>11, <1>12, <1>13 DEF IInv

LEMMA DeliverStep ==
    ASSUME IInv, OInv, NEW k \in Posts, Deliver(k)
    PROVE  IInv' /\ OInv'
  <1> DEFINE c == <<"qstash", k>>
  <1>1. /\ message[k].pc = "due" /\ Send(c, post[k].payload)
        /\ message' = [message EXCEPT ![k].pc = "sent"]
        /\ UNCHANGED <<mode, orders, recent, lapsed, overlapped, up, post, pending, processing,
                       dead, logged, drain, left>>
    BY DEF Deliver, api, redis
  <1>2. /\ message' \in [Posts -> MessageType] /\ message'[k].pc = "sent"
        /\ \A j \in Posts : j # k => message'[j] = message[j]
    BY <1>1, TypesOfBuffers DEF IInv, MessageType
  <1>3. PostsKept /\ LinksKept
    BY <1>1 DEF PostsKept, LinksKept, Made
  <1>4. PICK p \in Payloads : p = post[k].payload
    BY <1>1 DEF IInv, CopiesMean, Made, Published
  <1>5. /\ c \in Callers /\ answer[c] = "none"
        /\ \A j \in Posts : c \in {<<"form", j>>, <<"qstash", j>>} => post'[j].payload = p
        /\ \A d \in Drains : c # <<"drain", d>>
    BY <1>1, <1>4, CallersDiffer DEF IInv, AnswersMean
  <1>6. /\ \A j \in Posts : c # <<"form", j>> /\ (c = <<"qstash", j>> => j = k)
    OBVIOUS
  <1> HIDE DEF c
  <1>7. /\ call' \in [Slots -> CallType] /\ answer' \in [Callers -> Answers]
        /\ answer'[c] \in {"waiting", "failed"}
        /\ \A x \in Callers : x # c => answer'[x] = answer[x]
        /\ CallsMean' /\ CallersWait'
        /\ \A s \in Slots : call'[s].pc = "insert" => call'[s] = call[s]
    BY <1>1, <1>3, <1>4, <1>5, Sends
  <1>8. AnswersMean'
    <2>1. \A x \in Callers : answer'[x] = "ok" => answer[x] = "ok"
      BY <1>7
    <2>2. \A j \in Posts : post'[j].pc # "api" => answer'[<<"form", j>>] = "none"
      BY <1>1, <1>6, <1>7, CallersDiffer DEF IInv, AnswersMean
    <2>3. \A j \in Posts : message'[j].pc # "sent" => answer'[<<"qstash", j>>] = "none"
      BY <1>2, <1>6, <1>7, CallersDiffer DEF IInv, AnswersMean
    <2>4. \A d \in Drains : drain'[d].pc # "wait" => answer'[<<"drain", d>>] = "none"
      BY <1>1, <1>5, <1>7, CallersDiffer DEF IInv, AnswersMean
    <2> QED
      BY <1>1, <1>3, <2>1, <2>2, <2>3, <2>4, AnswersKept
  <1>9. CopiesMean'
    <2>1. \A j \in Posts : Made(j)' => post'[j].payload \in Payloads
      BY <1>1 DEF IInv, CopiesMean, Made
    <2>2. \A j \in Posts : message'[j].pc # "none" => Published(j)'
      BY <1>1, <1>2 DEF IInv, CopiesMean, Published
    <2> QED
      BY <1>1, <1>3, <2>1, <2>2, CopiesKept DEF CopiesMean, Entries
  <1>10. DropsMean' /\ NoneLost'
    <2>1. Grows
      BY <1>1 DEF Grows, Ordered
    <2>2. \A j \in Posts : InQStash(j) => InQStash(j)'
      BY <1>2 DEF InQStash
    <2> QED
      BY <1>1, <1>3, <2>1, <2>2, NothingDropped DEF PostsKept, Entries
  <1>11. TypeOK'
    BY <1>1, <1>2, <1>7 DEF IInv, TypeOK, CallType, Answers, MessageType
  <1>12. OInv'
    BY <1>1, <1>7, OrdersExplained DEF api
  <1> QED
    BY <1>7, <1>8, <1>9, <1>10, <1>11, <1>12 DEF IInv

\* QStash hears that the order is there, tries again, or gives the message up, with a
\* failure callback or without.
LEMMA DeliveredStep ==
    ASSUME IInv, OInv, NEW k \in Posts, Delivered(k) \/ Exhausted(k)
    PROVE  IInv' /\ OInv'
  <1> DEFINE c == <<"qstash", k>>
  <1>1. /\ message[k].pc = "sent" /\ Heard(c)
        /\ answer' = [answer EXCEPT ![c] = "none"]
        /\ UNCHANGED <<mode, orders, recent, lapsed, overlapped, up, call, post, pending,
                       processing, drain>>
    BY DEF Delivered, Exhausted, api, redis
  <1>2. \/ /\ answer[c] = "ok" /\ message' = [message EXCEPT ![k] = NoMessage]
           /\ UNCHANGED <<dead, logged, left>>
        \/ /\ message[k].tries < Retries
           /\ message' = [message EXCEPT ![k].pc = "due", ![k].tries = @ + 1]
           /\ UNCHANGED <<dead, logged, left>>
        \/ /\ message' = [message EXCEPT ![k].pc = "dropped"]
           /\ UNCHANGED <<dead, logged, left>>
        \/ /\ message' = [message EXCEPT ![k] = NoMessage]
           /\ dead' = dead \cup {post[k].payload} /\ UNCHANGED <<logged, left>>
        \/ /\ message' = [message EXCEPT ![k] = NoMessage]
           /\ Spend("faults") /\ logged' = logged \cup {post[k].payload} /\ UNCHANGED dead
    <2>1. CASE Delivered(k)
      BY <2>1 DEF Delivered, redis
    <2>2. CASE Exhausted(k)
      BY <2>2 DEF Exhausted, CallBack
    <2> QED
      BY <2>1, <2>2
  <1>3. /\ \A j \in Posts : c # <<"form", j>> /\ (c = <<"qstash", j>> => j = k)
        /\ \A d \in Drains : c # <<"drain", d>>
        /\ c \in Callers
        /\ answer[c] = "ok" => Ordered(post[k].payload)
    BY CallersDiffer DEF IInv, AnswersMean
  <1> HIDE DEF c
  <1>4. Made(k) /\ post[k].payload \in Payloads
    BY <1>1 DEF IInv, CopiesMean, Made, Published
  <1>5. message \in [Posts -> MessageType]
    BY TypesOfBuffers DEF IInv
  <1>6. /\ message' \in [Posts -> MessageType] /\ message'[k].pc # "sent"
        /\ \A j \in Posts : j # k => message'[j] = message[j]
        /\ InQStash(k)' \/ Final(k)'
        /\ dead' \subseteq Payloads /\ logged' \subseteq Payloads
        /\ dead \subseteq dead' /\ logged \subseteq logged'
        /\ left' \in [faults : Nat, losses : Nat, lapses : Nat, deaths : Nat, overlaps : Nat]
    <2>1. NoMessage \in MessageType
      BY IntakeAssumption DEF NoMessage, MessageType
    <2>2. dead \subseteq Payloads /\ logged \subseteq Payloads
          /\ left \in [faults : Nat, losses : Nat, lapses : Nat, deaths : Nat, overlaps : Nat]
      BY DEF IInv, TypeOK
    <2>3. CASE message' = [message EXCEPT ![k] = NoMessage] /\ UNCHANGED <<dead, logged, left>>
               /\ answer[c] = "ok"
      BY <1>1, <1>3, <1>4, <1>5, <2>1, <2>2, <2>3 DEF NoMessage, Final, Made, Ordered
    <2>4. CASE /\ message[k].tries < Retries
               /\ message' = [message EXCEPT ![k].pc = "due", ![k].tries = @ + 1]
               /\ UNCHANGED <<dead, logged, left>>
      <3>1. message[k].tries + 1 \in 0..Retries
        BY <1>5, <2>4, IntakeAssumption DEF MessageType
      <3>2. /\ message' \in [Posts -> MessageType] /\ message'[k].pc = "due"
            /\ \A j \in Posts : j # k => message'[j] = message[j]
        BY <1>5, <2>4, <3>1 DEF MessageType
      <3> QED
        BY <2>2, <2>4, <3>2 DEF InQStash
    <2>5. CASE /\ message' = [message EXCEPT ![k] = NoMessage]
               /\ dead' = dead \cup {post[k].payload} /\ UNCHANGED <<logged, left>>
      BY <1>1, <1>4, <1>5, <2>1, <2>2, <2>5 DEF NoMessage, Final, Made
    <2>6. CASE /\ message' = [message EXCEPT ![k] = NoMessage]
               /\ Spend("faults") /\ logged' = logged \cup {post[k].payload} /\ UNCHANGED dead
      <3>1. left' \in [faults : Nat, losses : Nat, lapses : Nat, deaths : Nat, overlaps : Nat]
        BY <2>6, SpendType DEF IInv
      <3> QED
        BY <1>1, <1>4, <1>5, <2>1, <2>2, <2>6, <3>1 DEF NoMessage, Final, Made
    <2>7. CASE /\ message' = [message EXCEPT ![k].pc = "dropped"]
               /\ UNCHANGED <<dead, logged, left>>
      <3>1. /\ message' \in [Posts -> MessageType] /\ message'[k].pc = "dropped"
            /\ \A j \in Posts : j # k => message'[j] = message[j]
        BY <1>5, <2>7 DEF MessageType
      <3> QED
        BY <2>2, <2>7, <3>1 DEF InQStash
    <2> QED
      BY <1>2, <2>3, <2>4, <2>5, <2>6, <2>7
  <1>7. PostsKept /\ LinksKept
    BY <1>1 DEF PostsKept, LinksKept, Made
  <1>8. /\ answer' \in [Callers -> Answers] /\ answer'[c] = "none"
        /\ \A x \in Callers : x # c => answer'[x] = answer[x]
        /\ CallsMean' /\ CallersWait'
    BY <1>1, <1>3, <1>7, Hears
  <1>9. AnswersMean'
    <2>1. \A x \in Callers : answer'[x] = "ok" => answer[x] = "ok"
      BY <1>8
    <2>2. \A j \in Posts : post'[j].pc # "api" => answer'[<<"form", j>>] = "none"
      BY <1>1, <1>3, <1>8, CallersDiffer DEF IInv, AnswersMean
    <2>3. \A j \in Posts : message'[j].pc # "sent" => answer'[<<"qstash", j>>] = "none"
      BY <1>6, <1>8, CallersDiffer DEF IInv, AnswersMean, c
    <2>4. \A d \in Drains : drain'[d].pc # "wait" => answer'[<<"drain", d>>] = "none"
      BY <1>1, <1>3, <1>8, CallersDiffer DEF IInv, AnswersMean
    <2> QED
      BY <1>1, <1>7, <2>1, <2>2, <2>3, <2>4, AnswersKept
  <1>10. CopiesMean'
    <2>1. \A j \in Posts : Made(j)' => post'[j].payload \in Payloads
      BY <1>1 DEF IInv, CopiesMean, Made
    <2>2. \A j \in Posts : message'[j].pc # "none" => Published(j)'
      BY <1>1, <1>6 DEF IInv, CopiesMean, Published
    <2> QED
      BY <1>1, <1>7, <2>1, <2>2, CopiesKept DEF CopiesMean, Entries
  <1>11. DropsMean' /\ NoneLost'
    <2>1. Grows
      BY <1>1, <1>6 DEF Grows, Ordered
    <2>2. \A j \in Posts : InQStash(j) => InQStash(j)' \/ Final(j)'
      BY <1>6 DEF InQStash
    <2> QED
      BY <1>1, <1>7, <2>1, <2>2, NothingDropped DEF PostsKept, Entries
  <1>12. TypeOK'
    BY <1>1, <1>6, <1>8 DEF IInv, TypeOK, Answers, MessageType
  <1>13. OInv'
    BY <1>1, OrdersExplained DEF api
  <1> QED
    BY <1>8, <1>9, <1>10, <1>11, <1>12, <1>13 DEF IInv

------------------------------------------------------------------------------
(***************************************************************************)
(* The cron.                                                               *)
(***************************************************************************)

\* What a run that goes on still holds, the others hold as before.
LEMMA HeldKept ==
    ASSUME IInv, UNCHANGED post, NEW d \in Drains,
           \A e \in Drains : e # d => drain'[e] = drain[e],
           Holds(d)' => Copies(drain[d].item)'
    PROVE  \A e \in Drains : Holds(e)' => Copies(drain[e].item)'
  <1> SUFFICES ASSUME NEW e \in Drains, e # d, Holds(e)' PROVE Copies(drain[e].item)'
    OBVIOUS
  <1>1. Copies(drain[e].item)
    BY DEF IInv, CopiesMean, Holds
  <1> QED
    BY <1>1 DEF Copies, Made

\* A run begins, goes on to take entries, or ends.
LEMMA RunStep ==
    ASSUME IInv, OInv, NEW d \in Drains, Tick(d) \/ Reclaimed(d) \/ RunEnds(d)
    PROVE  IInv' /\ OInv'
  <1>1. drain \in [Drains -> RunType] /\ drain[d] \in RunType
    BY TypesOfBuffers DEF IInv
  <1>2. /\ drain[d].pc \in {"idle", "reclaim", "take"}
        /\ \/ drain' = [drain EXCEPT ![d] = [NoRun EXCEPT !.pc = "reclaim",
                                                          !.rest = 4 * BatchSize]]
           \/ drain' = [drain EXCEPT ![d].pc = "take", ![d].rest = BatchSize]
           \/ drain' = [drain EXCEPT ![d] = NoRun]
        /\ left' = left \/ Spend("overlaps")
        /\ UNCHANGED <<mode, orders, recent, lapsed, overlapped, up, call, answer, post, message,
                       pending, processing, dead, logged>>
    <2>1. CASE Tick(d)
      <3> DEFINE free == {r \in Drains : Run(r, "idle")}
      <3>1. d \in free
        BY <2>1 DEF Tick
      <3> QED
        BY <2>1, <3>1 DEF Tick, Run, api, redis
    <2>2. CASE Reclaimed(d)
      BY <2>2 DEF Reclaimed, Run, api, redis
    <2>3. CASE RunEnds(d)
      BY <2>3 DEF RunEnds, Run, api, redis
    <2> QED
      BY <2>1, <2>2, <2>3
  <1>3. /\ drain' \in [Drains -> RunType] /\ drain'[d].pc \in {"idle", "reclaim", "take"}
        /\ \A e \in Drains : e # d => drain'[e] = drain[e]
    <2>1. /\ NoRun \in RunType /\ NoRun.pc = "idle"
          /\ [NoRun EXCEPT !.pc = "reclaim", !.rest = 4 * BatchSize] \in RunType
          /\ [NoRun EXCEPT !.pc = "reclaim", !.rest = 4 * BatchSize].pc = "reclaim"
          /\ BatchSize \in 0..(4 * BatchSize)
      <3>1. {0, BatchSize, 4 * BatchSize} \subseteq 0..(4 * BatchSize)
        BY IntakeAssumption
      <3>2. NoRun \in RunType /\ NoRun.pc = "idle"
        BY <3>1 DEF NoRun, RunType
      <3>3. \A r \in RunType : [r EXCEPT !.pc = "reclaim", !.rest = 4 * BatchSize] \in
               {x \in RunType : x.pc = "reclaim"}
        BY <3>1 DEF RunType
      <3> QED
        BY <3>1, <3>2, <3>3
    <2>2. CASE drain' = [drain EXCEPT ![d].pc = "take", ![d].rest = BatchSize]
      BY <1>1, <2>1, <2>2 DEF RunType
    <2> QED
      BY <1>1, <1>2, <2>1, <2>2
  <1>4. answer[<<"drain", d>>] = "none"
    BY <1>2 DEF IInv, AnswersMean
  <1>5. PostsKept /\ LinksKept
    BY <1>2, <1>3, <1>4 DEF PostsKept, LinksKept, Made
  <1>6. CallsMean' /\ CallersWait'
    BY <1>2, <1>5, CallsKept
  <1>7. AnswersMean'
    <2>1. \A e \in Drains : answer'[<<"drain", e>>] = "ok" => drain'[e].item = drain[e].item
      BY <1>2, <1>3, <1>4
    <2>2. \A e \in Drains : drain'[e].pc # "wait" => answer'[<<"drain", e>>] = "none"
      BY <1>2, <1>3, <1>4 DEF IInv, AnswersMean
    <2>3. /\ \A k \in Posts : post'[k].pc # "api" => answer'[<<"form", k>>] = "none"
          /\ \A k \in Posts : message'[k].pc # "sent" => answer'[<<"qstash", k>>] = "none"
      BY <1>2 DEF IInv, AnswersMean
    <2> QED
      BY <1>2, <1>5, <2>1, <2>2, <2>3, AnswersKept
  <1>8. CopiesMean'
    <2>1. \A e \in Drains : Holds(e)' => Copies(drain[e].item)'
      BY <1>2, <1>3, HeldKept DEF Holds
    <2>2. \A e \in Entries' : Copies(e)'
      BY <1>2, <1>5, CopyKept DEF IInv, CopiesMean, Entries
    <2>3. /\ \A k \in Posts : Made(k)' => post'[k].payload \in Payloads
          /\ \A k \in Posts : message'[k].pc # "none" => Published(k)'
      BY <1>2 DEF IInv, CopiesMean, Made, Published
    <2> QED
      BY <2>1, <2>2, <2>3 DEF CopiesMean
  <1>9. DropsMean' /\ NoneLost'
    <2>1. Grows
      BY <1>2 DEF Grows, Ordered
    <2>2. \A e \in Drains : drain'[e] = drain[e] \/ RunMeans(e)'
      BY <1>3 DEF RunMeans, Holds
    <2> QED
      BY <1>2, <1>5, <2>1, <2>2, NothingDropped DEF PostsKept, Entries, InQStash
  <1>10. TypeOK'
    <2>1. left' \in [faults : Nat, losses : Nat, lapses : Nat, deaths : Nat, overlaps : Nat]
      BY <1>2, SpendType DEF IInv, TypeOK
    <2> QED
      BY <1>2, <1>3, <2>1 DEF IInv, TypeOK, RunType
  <1>11. OInv'
    BY <1>2, OrdersExplained DEF api
  <1> QED
    BY <1>6, <1>7, <1>8, <1>9, <1>10, <1>11 DEF IInv

\* An entry moves from the head of one list to the tail of the other.
LEMMA EntryMoves ==
    ASSUME NEW T, NEW q \in Seq(T), NEW r \in Seq(T), q # <<>>
    PROVE  /\ Tail(q) \in Seq(T) /\ Append(r, Head(q)) \in Seq(T)
           /\ ToSet(Tail(q)) \cup ToSet(Append(r, Head(q))) = ToSet(q) \cup ToSet(r)
           /\ Head(q) \in ToSet(q)
  <1>1. Head(q) \in T /\ Tail(q) \in Seq(T) /\ ToSet(q) = ToSet(Tail(q)) \cup {Head(q)}
    BY HeadTailElements
  <1>2. Append(r, Head(q)) \in Seq(T) /\ ToSet(Append(r, Head(q))) = ToSet(r) \cup {Head(q)}
    BY <1>1, AppendElements
  <1> QED
    BY <1>1, <1>2

LEMMA ReclaimStep ==
    ASSUME IInv, OInv, NEW d \in Drains, Reclaim(d)
    PROVE  IInv' /\ OInv'
  <1>1. /\ processing # <<>> /\ pending' = Append(pending, Head(processing))
        /\ processing' = Tail(processing)
        /\ drain[d].pc = "reclaim" /\ drain[d].rest > 0
        /\ drain' = [drain EXCEPT ![d].rest = @ - 1]
        /\ UNCHANGED <<mode, orders, recent, lapsed, overlapped, up, call, answer, post, message,
                       dead, logged, left>>
    BY DEF Reclaim, Run, api
  <1>2. /\ pending' \in Seq(EntryType) /\ processing' \in Seq(EntryType) /\ Entries' = Entries
    <2>1. pending \in Seq(EntryType) /\ processing \in Seq(EntryType)
      BY TypesOfBuffers DEF IInv
    <2> QED
      BY <1>1, <2>1, EntryMoves DEF Entries
  <1>3. /\ drain' \in [Drains -> RunType] /\ drain'[d].pc = "reclaim"
        /\ \A r \in Drains : r # d => drain'[r] = drain[r]
        /\ \A r \in Drains : drain'[r].item = drain[r].item /\ drain'[r].pc = drain[r].pc
    <2>1. drain \in [Drains -> RunType] /\ drain[d] \in RunType
      BY TypesOfBuffers DEF IInv
    <2>2. drain[d].rest - 1 \in 0..(4 * BatchSize)
      BY <1>1, <2>1, IntakeAssumption DEF RunType
    <2> QED
      BY <1>1, <2>1, <2>2 DEF RunType
  <1>4. PostsKept /\ LinksKept
    BY <1>1, <1>3 DEF PostsKept, LinksKept, Made
  <1>5. CallsMean' /\ CallersWait'
    BY <1>1, <1>4, CallsKept
  <1>6. AnswersMean'
    BY <1>1, <1>4, <1>3, AnswersKept DEF IInv, AnswersMean
  <1>7. CopiesMean'
    <2>1. /\ \A k \in Posts : Made(k)' => post'[k].payload \in Payloads
          /\ \A k \in Posts : message'[k].pc # "none" => Published(k)'
      BY <1>1 DEF IInv, CopiesMean, Made, Published
    <2>2. \A r \in Drains : Holds(r)' => Copies(drain[r].item)'
      BY <1>1, <1>3, HeldKept DEF Holds
    <2>3. \A x \in Entries' : Copies(x)'
      BY <1>2, <1>4, CopyKept DEF IInv, CopiesMean
    <2> QED
      BY <2>1, <2>2, <2>3 DEF CopiesMean
  <1>8. DropsMean' /\ NoneLost'
    <2>1. Grows
      BY <1>1 DEF Grows, Ordered
    <2>2. \A r \in Drains : drain'[r] = drain[r] \/ RunMeans(r)'
      BY <1>3 DEF RunMeans, Holds
    <2> QED
      BY <1>1, <1>2, <1>4, <2>1, <2>2, NothingDropped DEF PostsKept, InQStash
  <1>9. TypeOK'
    BY <1>1, <1>2, <1>3 DEF IInv, TypeOK, RunType, Entries
  <1>10. OInv'
    BY <1>1, OrdersExplained DEF api
  <1> QED
    BY <1>5, <1>6, <1>7, <1>8, <1>9, <1>10 DEF IInv

LEMMA TakeStep ==
    ASSUME IInv, OInv, NEW d \in Drains, Take(d)
    PROVE  IInv' /\ OInv'
  <1> DEFINE c == <<"drain", d>>
             e == Head(pending)
  <1>1. /\ drain[d].pc = "take" /\ pending # <<>> /\ drain[d].rest > 0
        /\ pending' = Tail(pending) /\ processing' = Append(processing, e)
        /\ Send(c, e.payload)
        /\ drain' = [drain EXCEPT ![d].pc = "wait", ![d].item = [e EXCEPT !.by = Nobody],
                                  ![d].rest = @ - 1]
        /\ UNCHANGED <<mode, orders, recent, lapsed, overlapped, up, post, message, dead, logged,
                       left>>
    BY DEF Take, Run, InFlight, api
  <1>2. /\ pending' \in Seq(EntryType) /\ processing' \in Seq(EntryType) /\ Entries' = Entries
        /\ e \in Entries
    <2>1. pending \in Seq(EntryType) /\ processing \in Seq(EntryType)
      BY TypesOfBuffers DEF IInv
    <2> HIDE DEF e
    <2>2. e = Head(pending)
      BY DEF e
    <2> QED
      BY <1>1, <2>1, <2>2, EntryMoves DEF Entries
  <1>3. PICK f \in EntryType : /\ f = [e EXCEPT !.by = Nobody] /\ f.payload = e.payload
                               /\ Copies(f) /\ f.payload \in Payloads /\ Root(f.id)
    <2>1. e \in EntryType /\ Copies(e) /\ Root(e.id)
      BY <1>2 DEF IInv, CopiesMean, Copies, DropsMean
    <2> HIDE DEF e
    <2> DEFINE f == [e EXCEPT !.by = Nobody]
    <2>2. f \in EntryType /\ f.id = e.id /\ f.payload = e.payload /\ f.payload \in Payloads
      BY <2>1 DEF EntryType
    <2> QED
      BY <2>1, <2>2 DEF Copies
  <1>4. /\ \A j \in Posts : c # <<"form", j>> /\ c # <<"qstash", j>>
        /\ \A r \in Drains : c = <<"drain", r>> => r = d
        /\ c \in Callers /\ answer[c] = "none"
    BY <1>1, CallersDiffer DEF IInv, AnswersMean
  <1> HIDE DEF c, e
  <1>5. /\ drain' \in [Drains -> RunType] /\ drain'[d].pc = "wait" /\ drain'[d].item = f
        /\ \A r \in Drains : r # d => drain'[r] = drain[r]
    <2>1. drain \in [Drains -> RunType] /\ drain[d] \in RunType
      BY TypesOfBuffers DEF IInv
    <2>2. drain[d].rest - 1 \in 0..(4 * BatchSize)
      BY <1>1, <2>1, IntakeAssumption DEF RunType
    <2> QED
      BY <1>1, <1>3, <2>1, <2>2 DEF RunType
  <1>6. PostsKept /\ LinksKept
    <2>1. \A r \in Drains : answer[<<"drain", r>>] = "waiting" => r # d
      BY <1>4 DEF c
    <2> QED
      BY <1>1, <1>5, <2>1 DEF PostsKept, LinksKept, Made
  <1>7. /\ call' \in [Slots -> CallType] /\ answer' \in [Callers -> Answers]
        /\ answer'[c] \in {"waiting", "failed"}
        /\ \A x \in Callers : x # c => answer'[x] = answer[x]
        /\ CallsMean' /\ CallersWait'
        /\ \A s \in Slots : call'[s].pc = "insert" => call'[s] = call[s]
    <2>1. \A r \in Drains : c = <<"drain", r>> => drain'[r].item.payload = f.payload
      BY <1>4, <1>5
    <2>2. Send(c, f.payload)
      BY <1>1, <1>3
    <2>3. \A k \in Posts : c \in {<<"form", k>>, <<"qstash", k>>} => post'[k].payload = f.payload
      BY <1>4
    <2> HIDE DEF Send
    <2> QED
      BY <1>1, <1>3, <1>4, <1>6, <2>1, <2>2, <2>3, Sends
  <1>8. AnswersMean'
    <2>1. \A x \in Callers : answer'[x] = "ok" => answer[x] = "ok"
      BY <1>7
    <2>2. \A j \in Posts : post'[j].pc # "api" => answer'[<<"form", j>>] = "none"
      BY <1>1, <1>4, <1>7, CallersDiffer DEF IInv, AnswersMean
    <2>3. \A j \in Posts : message'[j].pc # "sent" => answer'[<<"qstash", j>>] = "none"
      BY <1>1, <1>4, <1>7, CallersDiffer DEF IInv, AnswersMean
    <2>4. \A r \in Drains : drain'[r].pc # "wait" => answer'[<<"drain", r>>] = "none"
      BY <1>4, <1>5, <1>7, CallersDiffer DEF IInv, AnswersMean
    <2>5. \A r \in Drains : answer'[<<"drain", r>>] = "ok" => drain'[r].item = drain[r].item
      BY <1>5, <1>7 DEF c
    <2> QED
      BY <1>1, <1>6, <2>1, <2>2, <2>3, <2>4, <2>5, AnswersKept
  <1>9. CopiesMean'
    <2>1. Copies(f)'
      BY <1>3, <1>6, CopyKept
    <2>2. Copies(drain[d].item)'
      BY <1>5, <2>1 DEF Copies, Made
    <2>3. \A r \in Drains : Holds(r)' => Copies(drain[r].item)'
      BY <1>1, <1>5, <2>2, HeldKept
    <2>4. \A x \in Entries' : Copies(x)'
      BY <1>2, <1>6, CopyKept DEF IInv, CopiesMean
    <2>5. /\ \A k \in Posts : Made(k)' => post'[k].payload \in Payloads
          /\ \A k \in Posts : message'[k].pc # "none" => Published(k)'
      BY <1>1 DEF IInv, CopiesMean, Made, Published
    <2> QED
      BY <2>3, <2>4, <2>5 DEF CopiesMean
  <1>10. DropsMean' /\ NoneLost'
    <2>1. Grows
      BY <1>1 DEF Grows, Ordered
    <2>2. RunMeans(d)'
      BY <1>2, <1>3, <1>5 DEF RunMeans, Root
    <2>3. \A r \in Drains : drain'[r] = drain[r] \/ RunMeans(r)'
      BY <1>5, <2>2
    <2> QED
      BY <1>1, <1>2, <1>6, <2>1, <2>3, NothingDropped DEF PostsKept, InQStash
  <1>11. TypeOK'
    BY <1>1, <1>2, <1>5, <1>7 DEF IInv, TypeOK, CallType, Answers, RunType, Entries
  <1>12. OInv'
    BY <1>1, <1>7, OrdersExplained DEF api
  <1> QED
    BY <1>7, <1>8, <1>9, <1>10, <1>11, <1>12 DEF IInv

LEMMA AnsweredStep ==
    ASSUME IInv, OInv, NEW d \in Drains, Answered(d)
    PROVE  IInv' /\ OInv'
  <1> DEFINE c == <<"drain", d>>
             ok == answer[c] = "ok"
  <1>1. PICK i : i = drain[d].item
    OBVIOUS
  <1> DEFINE e == [Counted(i) EXCEPT !.by = d]
  <1>2. /\ drain[d].pc = "wait" /\ Heard(c)
        /\ dead' = IF ~ok /\ Spent(e) THEN dead \cup {e.payload} ELSE dead
        /\ pending' = IF ~ok /\ ~Spent(e) THEN Append(pending, e) ELSE pending
        /\ drain' = [drain EXCEPT ![d].pc = "remove", ![d].item = e]
        /\ answer' = [answer EXCEPT ![c] = "none"]
        /\ UNCHANGED <<mode, orders, recent, lapsed, overlapped, up, call, post, message,
                       processing, logged, left>>
    BY <1>1 DEF Answered, Run, api
  <1>3. i \in EntryType /\ Copies(i) /\ i.payload \in Payloads /\ Root(i.id)
    <2>1. Holds(d)
      BY <1>2 DEF Holds
    <2> QED
      BY <1>1, <2>1 DEF IInv, CopiesMean, Copies, EntryType, DropsMean, RunMeans
  <1>4. /\ e \in EntryType /\ e.id = i.id /\ e.payload = i.payload /\ e.attempts = i.attempts + 1
        /\ Copies(e) /\ e.attempts > 0
    <2>1. \A x \in EntryType : Counted(x) \in
             {y \in EntryType : y.id = x.id /\ y.payload = x.payload /\ y.attempts = x.attempts + 1}
      BY DEF Counted, EntryType
    <2>2. \A x \in EntryType : [x EXCEPT !.by = d] \in
             {y \in EntryType : y.id = x.id /\ y.payload = x.payload /\ y.attempts = x.attempts}
      BY DEF EntryType
    <2>3. /\ e \in EntryType /\ e.id = i.id /\ e.payload = i.payload
          /\ e.attempts = i.attempts + 1
      BY <1>3, <2>1, <2>2
    <2> QED
      BY <1>3, <2>3 DEF Copies, EntryType
  <1>5. /\ \A j \in Posts : c # <<"form", j>> /\ c # <<"qstash", j>>
        /\ \A r \in Drains : c = <<"drain", r>> => r = d
        /\ c \in Callers /\ (ok => Ordered(i.payload))
    BY <1>1, CallersDiffer DEF IInv, AnswersMean
  <1> HIDE DEF c, ok, e
  <1>6. /\ drain' \in [Drains -> RunType] /\ drain'[d].pc = "remove" /\ drain'[d].item = e
        /\ \A r \in Drains : r # d => drain'[r] = drain[r]
    BY <1>2, <1>4, TypesOfBuffers DEF IInv, RunType
  <1>7. /\ pending' \in Seq(EntryType) /\ Entries \subseteq Entries'
        /\ \A x \in Entries' : x \in Entries \/ (x = e /\ ~Spent(e))
    <2>1. pending \in Seq(EntryType)
      BY TypesOfBuffers DEF IInv
    <2>2. CASE ~ok /\ ~Spent(e)
      BY <1>2, <1>4, <2>1, <2>2, AppendElements DEF Entries
    <2>3. CASE ok \/ Spent(e)
      BY <1>2, <2>1, <2>3 DEF Entries
    <2> QED
      BY <2>2, <2>3
  <1>8. PostsKept /\ LinksKept
    BY <1>2, <1>6 DEF PostsKept, LinksKept, Made, Heard, c
  <1>9. /\ answer' \in [Callers -> Answers] /\ answer'[c] = "none"
        /\ \A x \in Callers : x # c => answer'[x] = answer[x]
        /\ CallsMean' /\ CallersWait'
    BY <1>2, <1>5, <1>8, Hears
  <1>10. AnswersMean'
    <2>1. \A x \in Callers : answer'[x] = "ok" => answer[x] = "ok"
      BY <1>9
    <2>2. \A j \in Posts : post'[j].pc # "api" => answer'[<<"form", j>>] = "none"
      BY <1>2, <1>5, <1>9, CallersDiffer DEF IInv, AnswersMean
    <2>3. \A j \in Posts : message'[j].pc # "sent" => answer'[<<"qstash", j>>] = "none"
      BY <1>2, <1>5, <1>9, CallersDiffer DEF IInv, AnswersMean
    <2>4. \A r \in Drains : drain'[r].pc # "wait" => answer'[<<"drain", r>>] = "none"
      BY <1>5, <1>6, <1>9, CallersDiffer DEF IInv, AnswersMean, c
    <2>5. \A r \in Drains : answer'[<<"drain", r>>] = "ok" => drain'[r].item = drain[r].item
      BY <1>6, <1>9 DEF c
    <2> QED
      BY <1>2, <1>8, <2>1, <2>2, <2>3, <2>4, <2>5, AnswersKept
  <1>11. CopiesMean'
    <2>1. Copies(e)'
      BY <1>4, <1>8, CopyKept
    <2>2. Copies(drain[d].item)'
      BY <1>6, <2>1 DEF Copies, Made
    <2>3. \A r \in Drains : Holds(r)' => Copies(drain[r].item)'
      BY <1>2, <1>6, <2>2, HeldKept
    <2>4. ASSUME NEW x \in Entries' PROVE Copies(x)'
      <3>1. Copies(x)
        BY <1>4, <1>7 DEF IInv, CopiesMean
      <3> QED
        BY <1>8, <3>1, CopyKept
    <2>5. /\ \A k \in Posts : Made(k)' => post'[k].payload \in Payloads
          /\ \A k \in Posts : message'[k].pc # "none" => Published(k)'
      BY <1>2 DEF IInv, CopiesMean, Made, Published
    <2> QED
      BY <2>3, <2>4, <2>5 DEF CopiesMean
  <1>12. DropsMean' /\ NoneLost'
    <2>1. Grows
      BY <1>2 DEF Grows, Ordered
    <2>2. RunMeans(d)'
      BY <1>3, <1>4, <1>6, <1>7 DEF RunMeans, Root
    <2>3. \A r \in Drains : drain'[r] = drain[r] \/ RunMeans(r)'
      BY <1>6, <2>2
    <2>4. \A x \in Entries' : x \in Entries \/ Root(x.id)
      BY <1>3, <1>4, <1>7
    <2> QED
      BY <1>2, <1>7, <1>8, <2>1, <2>3, <2>4, NothingDropped DEF PostsKept, InQStash
  <1>13. TypeOK'
    <2>1. \A x \in Entries' : x.attempts < MaxAttempts
      <3>1. ~Spent(e) => e.attempts < MaxAttempts
        BY <1>4, IntakeAssumption DEF Spent, EntryType
      <3> QED
        BY <1>7, <3>1 DEF IInv, TypeOK, Entries
    <2>2. dead' \subseteq Payloads
      BY <1>2, <1>3, <1>4 DEF IInv, TypeOK
    <2> QED
      BY <1>2, <1>6, <1>7, <1>9, <2>1, <2>2 DEF IInv, TypeOK, Answers, RunType, Entries
  <1>14. OInv'
    BY <1>2, OrdersExplained DEF api
  <1> QED
    BY <1>9, <1>10, <1>11, <1>12, <1>13, <1>14 DEF IInv

\* Entries that tell a reader the same; which run has counted them is history.
Like(e, f) == f.id = e.id /\ f.payload = e.payload /\ f.attempts = e.attempts

LEMMA ForgottenElements ==
    ASSUME NEW q \in Seq(EntryType), NEW d \in Drains
    PROVE  /\ Forgotten(q, d) \in Seq(EntryType)
           /\ \A e \in ToSet(Forgotten(q, d)) : \E f \in ToSet(q) : Like(e, f)
           /\ \A f \in ToSet(q) : \E e \in ToSet(Forgotten(q, d)) : Like(f, e)
  <1> DEFINE g == Forgotten(q, d)
  <1>1. DOMAIN q = 1..Len(q) /\ Len(q) \in Nat /\ \A i \in 1..Len(q) : q[i] \in EntryType
    OBVIOUS
  <1>2. ASSUME NEW e \in EntryType
        PROVE  [e EXCEPT !.by = Nobody] \in EntryType /\ Like(e, [e EXCEPT !.by = Nobody])
    BY DEF EntryType, Like
  <1>3. g = [i \in 1..Len(q) |-> IF q[i].by = d THEN [q[i] EXCEPT !.by = Nobody] ELSE q[i]]
    BY <1>1 DEF Forgotten
  <1> HIDE DEF g
  <1>4. \A i \in 1..Len(q) : g[i] \in EntryType /\ Like(q[i], g[i])
    <2> TAKE i \in 1..Len(q)
    <2>1. g[i] = IF q[i].by = d THEN [q[i] EXCEPT !.by = Nobody] ELSE q[i]
      BY <1>3
    <2> QED
      BY <1>1, <1>2, <2>1 DEF Like
  <1>5. DOMAIN g = 1..Len(q) /\ g \in Seq(EntryType)
    BY <1>1, <1>3, <1>4
  <1> QED
    BY <1>1, <1>4, <1>5 DEF ToSet, Like, g

\* The history of who has counted an entry is cut off, and nothing else of the lists
\* changes but for counted entries that are dropped: the entries that were pushed stay.
LEMMA RootsKept ==
    ASSUME IInv, UNCHANGED post, NEW i, i.attempts # 0,
           \A e \in Entries' : \E f \in Entries : Like(e, f),
           \A f \in Entries : f = i \/ \E e \in Entries' : Like(f, e),
           Entries' \subseteq EntryType,
           \A r \in Drains : drain'[r] = drain[r] \/ ~Holds(r)'
    PROVE  /\ \A k : Root(k) => Root(k)'
           /\ DropsMean'
           /\ \A e \in Entries' : Copies(e)' /\ (TypeOK => e.attempts < MaxAttempts)
  <1>1. ASSUME NEW k, Root(k) PROVE Root(k)'
    BY <1>1 DEF Root, Like
  <1>2. ASSUME NEW e \in Entries'
        PROVE  Root(e.id)' /\ Copies(e)' /\ (TypeOK => e.attempts < MaxAttempts)
    <2>1. PICK f \in Entries : Like(e, f)
      BY <1>2
    <2>2. Root(f.id) /\ Copies(f) /\ (TypeOK => f.attempts < MaxAttempts)
      BY <2>1 DEF IInv, DropsMean, CopiesMean, TypeOK, Entries
    <2> QED
      BY <1>1, <1>2, <2>1, <2>2 DEF Like, Copies, Made
  <1>3. ASSUME NEW r \in Drains PROVE RunMeans(r)'
    <2> SUFFICES ASSUME drain'[r] = drain[r], Holds(r) PROVE RunMeans(r)'
      BY DEF RunMeans, Holds
    <2>1. PICK j : j = drain[r].item
      OBVIOUS
    <2>2. Root(j.id) /\ (drain[r].pc = "remove" => j.attempts > 0)
      BY <2>1 DEF IInv, DropsMean, RunMeans
    <2>3. Root(j.id)'
      BY <1>1, <2>2
    <2> QED
      BY <2>1, <2>2, <2>3 DEF RunMeans, Root
  <1> QED
    BY <1>1, <1>2, <1>3 DEF DropsMean

\* A run looks for its entry as it has counted it: what it finds, if anything, is a copy
\* that has been put back, never the entry that was pushed.
LEMMA UnholdStep ==
    ASSUME IInv, OInv, NEW d \in Drains, Unhold(d)
    PROVE  IInv' /\ OInv'
  <1>1. PICK i : i = drain[d].item
    OBVIOUS
  <1> DEFINE q == IF Contains(processing, i) THEN RemoveFirst(processing, i) ELSE processing
  <1>2. /\ drain[d].pc = "remove"
        /\ processing' = Forgotten(q, d) /\ pending' = Forgotten(pending, d)
        /\ drain' = [drain EXCEPT ![d].pc = "take", ![d].item = NoItem]
        /\ UNCHANGED <<mode, orders, recent, lapsed, overlapped, up, call, answer, post, message,
                       dead, logged, left>>
    BY <1>1 DEF Unhold, Run, api
  <1>3. i.attempts # 0
    <2>1. Holds(d)
      BY <1>2 DEF Holds
    <2> QED
      BY <1>1, <1>2, <2>1 DEF IInv, CopiesMean, Copies, EntryType, DropsMean, RunMeans
  <1>4. /\ drain' \in [Drains -> RunType] /\ drain'[d].pc = "take"
        /\ \A r \in Drains : r # d => drain'[r] = drain[r]
    BY <1>2, TypesOfBuffers DEF IInv, RunType
  <1>5. /\ q \in Seq(EntryType) /\ ToSet(q) \subseteq ToSet(processing)
        /\ ToSet(processing) \subseteq ToSet(q) \cup {i}
    BY TypesOfBuffers, RemoveFirstElements DEF IInv
  <1> HIDE DEF q
  <1>6. /\ processing' \in Seq(EntryType) /\ pending' \in Seq(EntryType)
        /\ Entries' \subseteq EntryType
        /\ \A e \in Entries' : \E f \in Entries : Like(e, f)
        /\ \A f \in Entries : f = i \/ \E e \in Entries' : Like(f, e)
    <2>1. pending \in Seq(EntryType)
      BY TypesOfBuffers DEF IInv
    <2>2. /\ processing' \in Seq(EntryType)
          /\ \A e \in ToSet(processing') : \E f \in ToSet(q) : Like(e, f)
          /\ \A f \in ToSet(q) : \E e \in ToSet(processing') : Like(f, e)
      BY <1>2, <1>5, ForgottenElements
    <2>3. /\ pending' \in Seq(EntryType)
          /\ \A e \in ToSet(pending') : \E f \in ToSet(pending) : Like(e, f)
          /\ \A f \in ToSet(pending) : \E e \in ToSet(pending') : Like(f, e)
      BY <1>2, <2>1, ForgottenElements
    <2>4. ToSet(processing') \subseteq EntryType /\ ToSet(pending') \subseteq EntryType
      BY <2>2, <2>3 DEF ToSet
    <2> QED
      BY <1>5, <2>2, <2>3, <2>4 DEF Entries
  <1>7. answer[<<"drain", d>>] = "none"
    BY <1>2 DEF IInv, AnswersMean
  <1>8. PostsKept /\ LinksKept
    BY <1>2, <1>4, <1>7 DEF PostsKept, LinksKept, Made
  <1>9. CallsMean' /\ CallersWait'
    BY <1>2, <1>8, CallsKept
  <1>10. AnswersMean'
    <2>1. \A r \in Drains : answer'[<<"drain", r>>] = "ok" => drain'[r].item = drain[r].item
      BY <1>2, <1>4, <1>7
    <2>2. \A r \in Drains : drain'[r].pc # "wait" => answer'[<<"drain", r>>] = "none"
      BY <1>2, <1>4, <1>7 DEF IInv, AnswersMean
    <2>3. /\ \A k \in Posts : post'[k].pc # "api" => answer'[<<"form", k>>] = "none"
          /\ \A k \in Posts : message'[k].pc # "sent" => answer'[<<"qstash", k>>] = "none"
      BY <1>2 DEF IInv, AnswersMean
    <2> QED
      BY <1>2, <1>8, <2>1, <2>2, <2>3, AnswersKept
  <1>11. /\ \A k : Root(k) => Root(k)'
         /\ DropsMean'
         /\ \A e \in Entries' : Copies(e)' /\ e.attempts < MaxAttempts
    <2>1. \A r \in Drains : drain'[r] = drain[r] \/ ~Holds(r)'
      BY <1>4 DEF Holds
    <2> QED
      BY <1>2, <1>3, <1>6, <2>1, RootsKept DEF IInv
  <1>12. CopiesMean'
    <2>1. \A r \in Drains : Holds(r)' => Copies(drain[r].item)'
      BY <1>2, <1>4, HeldKept DEF Holds
    <2>2. /\ \A k \in Posts : Made(k)' => post'[k].payload \in Payloads
          /\ \A k \in Posts : message'[k].pc # "none" => Published(k)'
      BY <1>2 DEF IInv, CopiesMean, Made, Published
    <2> QED
      BY <1>11, <2>1, <2>2 DEF CopiesMean
  <1>13. NoneLost'
    <2>1. Grows
      BY <1>2 DEF Grows, Ordered
    <2> QED
      BY <1>2, <1>8, <1>11, <2>1, NoneLostKept DEF PostsKept, InQStash
  <1>14. TypeOK'
    BY <1>2, <1>4, <1>6, <1>11 DEF IInv, TypeOK, RunType, Entries
  <1>15. OInv'
    BY <1>2, OrdersExplained DEF api
  <1> QED
    BY <1>9, <1>10, <1>11, <1>12, <1>13, <1>14, <1>15 DEF IInv

\* A run dies: its call goes on for nobody.
LEMMA DrainDiesStep ==
    ASSUME IInv, OInv, NEW d \in Drains, DrainDies(d)
    PROVE  IInv' /\ OInv'
  <1> DEFINE c == <<"drain", d>>
  <1>1. /\ Spend("deaths") /\ drain' = [drain EXCEPT ![d] = NoRun]
        /\ answer' = [answer EXCEPT ![c] = "none"]
        /\ call' = [s \in Slots |-> IF call[s].caller = c THEN [call[s] EXCEPT !.caller = Nobody]
                                    ELSE call[s]]
        /\ pending' = Forgotten(pending, d) /\ processing' = Forgotten(processing, d)
        /\ UNCHANGED <<mode, orders, recent, lapsed, overlapped, up, post, message, dead, logged>>
    BY DEF DrainDies, api
  <1>2. /\ \A j \in Posts : c # <<"form", j>> /\ c # <<"qstash", j>>
        /\ \A r \in Drains : c = <<"drain", r>> => r = d
        /\ c \in Callers /\ c # Nobody
    BY CallersDiffer
  <1> HIDE DEF c
  <1>3. /\ drain' \in [Drains -> RunType] /\ drain'[d].pc = "idle"
        /\ \A r \in Drains : r # d => drain'[r] = drain[r]
    <2>1. NoRun \in RunType /\ NoRun.pc = "idle"
      BY IntakeAssumption DEF NoRun, RunType
    <2> QED
      BY <1>1, <2>1, TypesOfBuffers DEF IInv
  <1>4. /\ answer' \in [Callers -> Answers] /\ answer'[c] = "none"
        /\ \A x \in Callers : x # c => answer'[x] = answer[x]
    BY <1>1, <1>2, TypesOfOrders DEF IInv, Answers
  <1>5. /\ call' \in [Slots -> CallType]
        /\ \A s \in Slots : LetsGo(s) /\ call'[s].caller # c
        /\ \A s \in Slots : call'[s].caller \in {call[s].caller, Nobody}
        /\ \A s \in Slots : call'[s].caller = call[s].caller => call'[s] = call[s]
        /\ \A s \in Slots : /\ call'[s].pc = call[s].pc /\ call'[s].payload = call[s].payload
                            /\ call'[s].flag = call[s].flag
    <2>1. call \in [Slots -> CallType]
      BY TypesOfOrders DEF IInv
    <2>2. \A x \in CallType : [x EXCEPT !.caller = Nobody] \in
             {y \in CallType : /\ y.caller = Nobody /\ y.pc = x.pc /\ y.payload = x.payload
                               /\ y.flag = x.flag}
      BY DEF CallType
    <2> QED
      BY <1>1, <1>2, <2>1, <2>2 DEF LetsGo
  <1>6. PostsKept
    BY <1>1 DEF PostsKept, Made
  <1>7. CallsMean' /\ CallersWait'
    <2>1. \A s \in Slots : call'[s].caller # Nobody => answer'[call'[s].caller] = "waiting"
      <3>1. \A s \in Slots : call[s].caller # Nobody =>
               answer[call[s].caller] = "waiting" /\ call[s].caller \in Callers
        BY TypesOfOrders DEF IInv, CallersWait, CallType
      <3> QED
        BY <1>4, <1>5, <3>1
    <2>2. \A s \in Slots : \A r \in Drains :
             call'[s].caller = <<"drain", r>> => drain'[r].item = drain[r].item
      BY <1>3, <1>5 DEF c
    <2> QED
      BY <1>1, <1>5, <2>1, <2>2, CallsLetGo
  <1>8. AnswersMean'
    <2>1. \A x \in Callers : answer'[x] = "ok" => answer[x] = "ok"
      BY <1>4
    <2>2. \A r \in Drains : answer'[<<"drain", r>>] = "ok" => drain'[r].item = drain[r].item
      BY <1>3, <1>4 DEF c
    <2>3. \A j \in Posts : post'[j].pc # "api" => answer'[<<"form", j>>] = "none"
      BY <1>1, <1>2, <1>4, CallersDiffer DEF IInv, AnswersMean
    <2>4. \A j \in Posts : message'[j].pc # "sent" => answer'[<<"qstash", j>>] = "none"
      BY <1>1, <1>2, <1>4, CallersDiffer DEF IInv, AnswersMean
    <2>5. \A r \in Drains : drain'[r].pc # "wait" => answer'[<<"drain", r>>] = "none"
      BY <1>2, <1>3, <1>4, CallersDiffer DEF IInv, AnswersMean, c
    <2> QED
      BY <1>1, <1>6, <2>1, <2>2, <2>3, <2>4, <2>5, AnswersKept
  <1>9. /\ processing' \in Seq(EntryType) /\ pending' \in Seq(EntryType)
        /\ DropsMean' /\ \A k : Root(k) => Root(k)'
        /\ \A e \in Entries' : Copies(e)' /\ e.attempts < MaxAttempts
    <2>1. pending \in Seq(EntryType) /\ processing \in Seq(EntryType)
      BY TypesOfBuffers DEF IInv
    <2>2. /\ processing' \in Seq(EntryType)
          /\ \A e \in ToSet(processing') : \E f \in ToSet(processing) : Like(e, f)
          /\ \A f \in ToSet(processing) : \E e \in ToSet(processing') : Like(f, e)
      BY <1>1, <2>1, ForgottenElements
    <2>3. /\ pending' \in Seq(EntryType)
          /\ \A e \in ToSet(pending') : \E f \in ToSet(pending) : Like(e, f)
          /\ \A f \in ToSet(pending) : \E e \in ToSet(pending') : Like(f, e)
      BY <1>1, <2>1, ForgottenElements
    <2>4. ToSet(processing') \subseteq EntryType /\ ToSet(pending') \subseteq EntryType
      BY <2>2, <2>3 DEF ToSet
    <2>5. /\ Entries' \subseteq EntryType
          /\ \A e \in Entries' : \E f \in Entries : Like(e, f)
          /\ \A f \in Entries : \E e \in Entries' : Like(f, e)
      BY <2>2, <2>3, <2>4 DEF Entries
    <2>6. \A r \in Drains : drain'[r] = drain[r] \/ ~Holds(r)'
      BY <1>3 DEF Holds
    <2>7. PICK i : i.attempts # 0
      <3>1. [attempts |-> 1].attempts # 0
        OBVIOUS
      <3> QED
        BY <3>1
    <2> QED
      BY <1>1, <2>2, <2>3, <2>5, <2>6, <2>7, RootsKept DEF IInv
  <1>10. CopiesMean' /\ NoneLost'
    <2>1. \A r \in Drains : Holds(r)' => Copies(drain[r].item)'
      BY <1>1, <1>3, HeldKept DEF Holds
    <2>2. /\ \A k \in Posts : Made(k)' => post'[k].payload \in Payloads
          /\ \A k \in Posts : message'[k].pc # "none" => Published(k)'
      BY <1>1 DEF IInv, CopiesMean, Made, Published
    <2>3. Grows
      BY <1>1 DEF Grows, Ordered
    <2> QED
      BY <1>1, <1>6, <1>9, <2>1, <2>2, <2>3, NoneLostKept DEF PostsKept, InQStash, CopiesMean
  <1>11. TypeOK'
    <2>1. left' \in [faults : Nat, losses : Nat, lapses : Nat, deaths : Nat, overlaps : Nat]
      BY <1>1, SpendType DEF IInv
    <2> QED
      BY <1>1, <1>3, <1>4, <1>5, <1>9, <2>1
         DEF IInv, TypeOK, CallType, Answers, RunType, Entries
  <1>12. OInv'
    BY <1>1, <1>5, OrdersExplained DEF api
  <1> QED
    BY <1>7, <1>8, <1>9, <1>10, <1>11, <1>12 DEF IInv

------------------------------------------------------------------------------
(***************************************************************************)
(* The specification.                                                      *)
(***************************************************************************)

LEMMA InitIInv == Init => IInv /\ OInv
  <1> SUFFICES ASSUME Init PROVE IInv /\ OInv
    OBVIOUS
  <1>1. NoCall \in CallType /\ NoCall.pc = "idle" /\ NoCall.caller = Nobody
    BY DEF NoCall, CallType
  <1>2. NoMessage \in MessageType /\ NoMessage.pc = "none"
    BY IntakeAssumption DEF NoMessage, MessageType
  <1>3. NoRun \in RunType /\ NoRun.pc = "idle"
    BY IntakeAssumption DEF NoRun, RunType
  <1>4. /\ pending \in Seq(EntryType) /\ processing \in Seq(EntryType)
        /\ Entries = {} /\ ToSet(pending) \cup ToSet(processing) = {}
    <2>1. ToSet(<<>>) = {} /\ <<>> \in Seq(EntryType)
      BY DEF ToSet
    <2> QED
      BY <2>1 DEF Init, Entries
  <1>5. left \in [faults : Nat, losses : Nat, lapses : Nat, deaths : Nat, overlaps : Nat]
    BY IntakeAssumption DEF Init
  <1>6. \A p \in Payloads : orders[p].plain = 0 /\ orders[p].flagged = 0 /\ ~Ordered(p)
    BY DEF Init, Ordered
  <1>7. TypeOK
    BY <1>1, <1>2, <1>3, <1>4, <1>5 DEF Init, TypeOK, CallType, RunType, MessageType
  <1>8. CallsMean /\ CallersWait
    BY <1>1, CallersDiffer DEF Init, CallsMean, CallMeans, CallersWait
  <1>9. AnswersMean /\ CopiesMean /\ DropsMean /\ NoneLost
    BY <1>2, <1>3, <1>4, CallersDiffer
       DEF Init, AnswersMean, CopiesMean, DropsMean, RunMeans, NoneLost, Made, Holds
  <1>10. OInv
    BY <1>1, <1>6 DEF Init, OInv, OrdersAged, InsertsAlone, InsertsExplained, SecondOrderExplained
  <1> QED
    BY <1>7, <1>8, <1>9, <1>10 DEF IInv

LEMMA NextIInv == IInv /\ OInv /\ [Next]_vars => IInv' /\ OInv'
  <1> SUFFICES ASSUME IInv, OInv, [Next]_vars PROVE IInv' /\ OInv'
    OBVIOUS
  <1>1. ASSUME NEW k \in Posts, NEW p \in Payloads, Submit(k, p) PROVE IInv' /\ OInv'
    BY <1>1, SubmitStep
  <1>2. ASSUME NEW k \in Posts, FormStep(k) PROVE IInv' /\ OInv'
    BY <1>2, ApiAnsweredStep, HandOver DEF FormStep
  <1>3. ASSUME NEW k \in Posts, QStashStep(k) PROVE IInv' /\ OInv'
    BY <1>3, DeliverStep, DeliveredStep DEF QStashStep
  <1>4. ASSUME NEW k \in Posts, NEW b \in BOOLEAN, QStashFails(k, b) \/ RedisFails(k, b)
        PROVE  IInv' /\ OInv'
    BY <1>4, HandOver
  <1>5. ASSUME NEW s \in Slots, CreateStep(s) \/ InsertFails(s) \/ Timeout(s)
        PROVE  IInv' /\ OInv'
    BY <1>5, CallEnds, LookStep, InsertStep, TimeoutStep DEF CreateStep
  <1>6. ASSUME NEW d \in Drains, DrainStep(d) \/ DrainDies(d) PROVE IInv' /\ OInv'
    BY <1>6, RunStep, ReclaimStep, TakeStep, AnsweredStep, UnholdStep, DrainDiesStep DEF DrainStep
  <1>7. ASSUME ApiDies \/ ApiReturns \/ \E p \in Payloads : TwoMinutesPass(p)
        PROVE  IInv' /\ OInv'
    BY <1>7, ApiDiesStep, TimeStep
  <1>8. CASE UNCHANGED vars
    <2>1. UNCHANGED <<mode, orders, recent, lapsed, overlapped, up, call, answer, post, message,
                      pending, processing, dead, logged, drain, left>>
      BY <1>8 DEF vars, api, redis
    <2>2. TypeOK' /\ CallsMean' /\ CallersWait' /\ AnswersMean'
      BY <2>1 DEF IInv, TypeOK, CallsMean, CallMeans, CallersWait, AnswersMean, Ordered
    <2>3. CopiesMean' /\ DropsMean' /\ NoneLost'
      BY <2>1, BuffersKept DEF Ordered, redis
    <2>4. OInv'
      BY <2>1, OrdersExplained DEF api
    <2> QED
      BY <2>2, <2>3, <2>4 DEF IInv
  <1> QED
    BY <1>1, <1>2, <1>3, <1>4, <1>5, <1>6, <1>7, <1>8 DEF Next

\* Every variable has its type, and an entry that waits in Redis has attempts left.
THEOREM IntakeTyped == Spec => []TypeOK
  <1>1. IInv => TypeOK
    BY DEF IInv
  <1> QED
    BY <1>1, InitIInv, NextIInv, PTL DEF Spec

\* What a customer was told has been received is an order, a dead letter or in a buffer,
\* unless QStash dropped a message that was published without a failure callback, for any
\* number of requests, calls, overlapping runs of the cron, faults and deaths.
THEOREM NothingLost == Spec => []NoneLost
  <1>1. IInv => NoneLost
    BY DEF IInv
  <1> QED
    BY <1>1, InitIInv, NextIInv, PTL DEF Spec

\* A second order of a payload has two calls that overlapped, or the two minutes and
\* the rules of the company, as its reason; with FLAG it carries the flag.
THEOREM SecondOrdersExplained == Spec => []SecondOrderExplained
  <1>1. OInv => SecondOrderExplained
    BY DEF OInv
  <1> QED
    BY <1>1, InitIInv, NextIInv, PTL DEF Spec
==============================================================================
