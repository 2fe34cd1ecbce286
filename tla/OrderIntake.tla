---------------------------- MODULE OrderIntake ----------------------------
(***************************************************************************)
(* From a sales form to an order: the edge worker, its two buffers (QStash *)
(* and a Redis list that a cron drains) and orders.create of the API.      *)
(*                                                                         *)
(* The worker answers the customer as soon as the API or a buffer has the  *)
(* submission.  A submission may reach orders.create several times: the    *)
(* caller gives up on a call that goes on, a buffer delivers it again, two *)
(* runs of the cron hold the same entry.  orders.create looks for an       *)
(* earlier order, then inserts.  Its session lock on the phone delays a    *)
(* call by one second at most and keeps none out, so it is not modelled.   *)
(***************************************************************************)
EXTENDS Naturals, SequencesExt

CONSTANTS
    Payloads,      \* what customers submit: one form, one phone, one product each
    Bad,           \* the payloads that orders.create rejects
    Posts,         \* POST /submit requests, one entry of a buffer each at most
    Slots,         \* bound: executions of orders.create at a time
    Drains,        \* bound: runs of the cron at a time
    Modes,         \* settings of intakeBlock.mode
    MaxAttempts,   \* REDIS_MAX_ATTEMPTS
    BatchSize,     \* REDIS_DRAIN_BATCH_SIZE
    Retries,       \* Upstash-Retries
    Callbacks,     \* is PUBLIC_WORKER_URL set when a message is published?
    Faults,        \* bound: failures of QStash (and of Redis after it), of the dead letters
                   \* and of an insertion
    Losses,        \* bound: calls given up, restarts of the API
    Lapses,        \* bound: orders that become older than two minutes
    MaxEntries,    \* bound: entries in Redis when a run begins
    Deaths,        \* bound: deaths of a run of the cron
    Overlaps,      \* bound: runs of the cron that begin before another has ended
    Nobody, NoItem

ASSUME IntakeAssumption ==
    /\ Bad \subseteq Payloads /\ Modes \subseteq {"OFF", "FLAG", "BLOCK"}
    /\ {MaxAttempts, BatchSize} \subseteq Nat \ {0}
    /\ Callbacks \subseteq BOOLEAN
    /\ {Retries, Faults, Losses, Lapses, MaxEntries, Deaths, Overlaps} \subseteq Nat

Callers == {"form", "qstash"} \X Posts \cup {"drain"} \X Drains

ASSUME NobodyAssumption == Nobody \notin Callers

VARIABLES
    mode,        \* DUPLICATE_RULES intakeBlock.mode of the company
    orders,      \* orders inserted for a payload: not flagged, flagged as duplicates
    recent,      \* payloads with an order of less than two minutes
    up,          \* the API is there
    call,        \* executions of orders.create
    answer,      \* what a caller has heard of its last call
    post,        \* requests of customers
    message,     \* QStash: the message of a request
    pending, processing,  \* Redis lists of entries
    dead,        \* payloads on the dead-letter list
    logged,      \* payloads that only the worker's log has
    drain,       \* runs of the cron
    lapsed,      \* history: payloads with an order that has become older than two minutes
    overlapped,  \* history: payloads two calls worked on at a time
    left         \* what is left of the bounds

api == <<mode, orders, recent, lapsed, overlapped>>
redis == <<pending, processing, dead, logged>>
vars == <<api, up, call, answer, post, message, redis, drain, left>>

Ordered(p) == orders[p].plain + orders[p].flagged > 0

NoCall == [pc |-> "idle", payload |-> Nobody, caller |-> Nobody, flag |-> FALSE]
NoMessage == [pc |-> "none", tries |-> 0, callback |-> FALSE]
NoRun == [pc |-> "idle", item |-> NoItem, rest |-> 0]

Init ==
    /\ mode \in Modes
    /\ orders = [p \in Payloads |-> [plain |-> 0, flagged |-> 0]]
    /\ recent = {} /\ lapsed = {} /\ overlapped = {}
    /\ up = TRUE
    /\ call = [s \in Slots |-> NoCall]
    /\ answer = [c \in Callers |-> "none"]
    /\ post = [k \in Posts |-> [pc |-> "new", payload |-> Nobody]]
    /\ message = [k \in Posts |-> NoMessage]
    /\ pending = <<>> /\ processing = <<>>
    /\ dead = {} /\ logged = {}
    /\ drain = [d \in Drains |-> NoRun]
    /\ left = [faults |-> Faults, losses |-> Losses, lapses |-> Lapses, deaths |-> Deaths,
               overlaps |-> Overlaps]

Spend(kind) == left[kind] > 0 /\ left' = [left EXCEPT ![kind] = @ - 1]

------------------------------------------------------------------------------
(***************************************************************************)
(* orders.create, from the form.                                           *)
(***************************************************************************)

\* fetch: a call starts, or the API is not there.  Slots are anonymous: any free one
\* will do.
Send(c, p) ==
    LET free == {s \in Slots : call[s].pc = "idle"}
        new == [NoCall EXCEPT !.pc = "check", !.payload = p, !.caller = c]
    IN \/ /\ up /\ free # {}
          /\ call' = [call EXCEPT ![CHOOSE s \in free : TRUE] = new]
          /\ answer' = [answer EXCEPT ![c] = "waiting"]
       \/ ~up /\ answer' = [answer EXCEPT ![c] = "failed"] /\ UNCHANGED call

\* The call of slot s ends with answer a, for whoever still waits for it.
Ends(s, a) ==
    /\ call' = [call EXCEPT ![s] = NoCall]
    /\ answer' = [c \in Callers |-> IF c = call[s].caller THEN a ELSE answer[c]]

\* The two minutes of the same form, then the fourteen days of the company's rules.
SameFormOnly(p) == p \in recent   \* mutant
Duplicate(p) == p \in recent \/ (mode = "BLOCK" /\ Ordered(p))

Reject(s) ==
    /\ call[s].pc = "check" /\ call[s].payload \in Bad
    /\ Ends(s, "rejected")
    /\ UNCHANGED <<api, up, post, message, redis, drain, left>>

\* The earlier order is returned, or the attempt is recorded as a duplicate.
Recognise(s) ==
    /\ call[s].pc = "check" /\ call[s].payload \notin Bad
    /\ Duplicate(call[s].payload)
    /\ Ends(s, "ok")
    /\ UNCHANGED <<api, up, post, message, redis, drain, left>>

FindNone(s) ==
    LET p == call[s].payload
    IN /\ call[s].pc = "check" /\ p \notin Bad /\ ~Duplicate(p)
       /\ call' = [call EXCEPT ![s].pc = "insert",
                               ![s].flag = (mode = "FLAG" /\ Ordered(p))]
       /\ overlapped' = overlapped \cup {q \in {p} : \E t \in Slots \ {s} :
                           call[t].pc = "insert" /\ call[t].payload = q}
       /\ UNCHANGED <<mode, orders, recent, lapsed, up, answer, post, message, redis, drain,
                      left>>

Insert(s) ==
    LET p == call[s].payload
    IN /\ call[s].pc = "insert"
       /\ orders' = IF call[s].flag THEN [orders EXCEPT ![p].flagged = @ + 1]
                    ELSE [orders EXCEPT ![p].plain = @ + 1]
       /\ recent' = recent \cup {p}
       /\ call' = [call EXCEPT ![s].pc = "respond"]
       /\ UNCHANGED <<mode, lapsed, overlapped, up, answer, post, message, redis, drain, left>>

InsertFails(s) ==
    /\ call[s].pc = "insert" /\ Spend("faults")
    /\ Ends(s, "failed")
    /\ UNCHANGED <<api, up, post, message, redis, drain>>

Respond(s) ==
    /\ call[s].pc = "respond"
    /\ Ends(s, "ok")
    /\ UNCHANGED <<api, up, post, message, redis, drain, left>>

\* AbortController: the caller stops waiting, the call does not stop.
Timeout(s) ==
    LET c == call[s].caller
    IN /\ call[s].pc # "idle" /\ c # Nobody /\ Spend("losses")
       /\ answer' = [answer EXCEPT ![c] = "failed"]
       /\ call' = [call EXCEPT ![s].caller = Nobody]
       /\ UNCHANGED <<api, up, post, message, redis, drain>>

ApiDies ==
    /\ up /\ Spend("losses")
    /\ up' = FALSE
    /\ call' = [s \in Slots |-> NoCall]
    /\ answer' = [c \in Callers |-> IF answer[c] = "waiting" THEN "failed" ELSE answer[c]]
    /\ UNCHANGED <<api, post, message, redis, drain>>

ApiReturns ==
    /\ ~up /\ up' = TRUE
    /\ UNCHANGED <<api, call, answer, post, message, redis, drain, left>>

TwoMinutesPass(p) ==
    /\ p \in recent /\ Spend("lapses")
    /\ recent' = recent \ {p}
    /\ lapsed' = lapsed \cup {p}
    /\ UNCHANGED <<mode, orders, overlapped, up, call, answer, post, message, redis, drain>>

CreateStep(s) == Reject(s) \/ Recognise(s) \/ FindNone(s) \/ Insert(s) \/ Respond(s)

------------------------------------------------------------------------------
(***************************************************************************)
(* The worker: POST /submit.                                               *)
(***************************************************************************)

Heard(c) == answer[c] \notin {"none", "waiting"}
Entry(k) == [id |-> k, payload |-> post[k].payload, attempts |-> 0, by |-> Nobody]

Submit(k, p) ==
    /\ post[k].pc = "new"
    /\ Send(<<"form", k>>, p)
    /\ post' = [post EXCEPT ![k].pc = "api", ![k].payload = p]
    /\ UNCHANGED <<api, up, message, redis, drain, left>>

\* A failure of the infrastructure goes to the buffers, a rejection to the customer.
ApiAnswered(k) ==
    LET a == answer[<<"form", k>>]
    IN /\ post[k].pc = "api" /\ Heard(<<"form", k>>)
       /\ post' = [post EXCEPT ![k].pc = CASE a = "ok" -> "success"
                                           [] a = "rejected" -> "refused"
                                           [] OTHER -> "qstash"]
       /\ answer' = [answer EXCEPT ![<<"form", k>>] = "none"]
       /\ UNCHANGED <<api, up, call, message, redis, drain, left>>

\* The failure callback is a header of the message, if the worker knows its own address.
Publish(k) ==
    \E b \in Callbacks : message' = [message EXCEPT ![k].pc = "due", ![k].callback = b]

ToQStash(k) ==
    /\ post[k].pc = "qstash"
    /\ post' = [post EXCEPT ![k].pc = "success"]
    /\ Publish(k)
    /\ UNCHANGED <<api, up, call, answer, redis, drain, left>>

\* An error says nothing about whether the message was published.
QStashFails(k, published) ==
    /\ post[k].pc = "qstash" /\ Spend("faults")
    /\ post' = [post EXCEPT ![k].pc = "redis"]
    /\ IF published THEN Publish(k) ELSE UNCHANGED message
    /\ UNCHANGED <<api, up, call, answer, redis, drain>>

ToRedis(k) ==
    /\ post[k].pc = "redis"
    /\ post' = [post EXCEPT ![k].pc = "success"]
    /\ pending' = Append(pending, Entry(k))
    /\ UNCHANGED <<api, up, call, answer, message, processing, dead, logged, drain, left>>

\* The customer reads that the order may still be processing, or is asked to try again.
RedisFails(k, pushed) ==
    /\ post[k].pc = "redis"
    /\ post' = [post EXCEPT ![k].pc = "unsure"]
    /\ pending' = IF pushed THEN Append(pending, Entry(k)) ELSE pending
    /\ UNCHANGED <<api, up, call, answer, message, processing, dead, logged, drain,
                   left>>

------------------------------------------------------------------------------
(***************************************************************************)
(* QStash: the message is delivered until orders.create accepts it, or the *)
(* retries run out; then it is handed back to /qstash/failed/order, if it  *)
(* was published with a failure callback.                                  *)
(***************************************************************************)

Deliver(k) ==
    /\ message[k].pc = "due"
    /\ Send(<<"qstash", k>>, post[k].payload)
    /\ message' = [message EXCEPT ![k].pc = "sent"]
    /\ UNCHANGED <<api, up, post, redis, drain, left>>

Delivered(k) ==
    /\ message[k].pc = "sent" /\ Heard(<<"qstash", k>>)
    /\ answer[<<"qstash", k>>] = "ok" \/ message[k].tries < Retries
    /\ message' = IF answer[<<"qstash", k>>] = "ok" THEN [message EXCEPT ![k] = NoMessage]
                  ELSE [message EXCEPT ![k].pc = "due", ![k].tries = @ + 1]
    /\ answer' = [answer EXCEPT ![<<"qstash", k>>] = "none"]
    /\ UNCHANGED <<api, up, call, post, redis, drain, left>>

\* handleQStashFailureCallback acknowledges whether or not Redis takes the payload.
CallBack(k) ==
    \/ dead' = dead \cup {post[k].payload} /\ UNCHANGED <<logged, left>>
    \/ Spend("faults") /\ logged' = logged \cup {post[k].payload} /\ UNCHANGED dead

\* Without a failure callback nothing is left of the payload.
Exhausted(k) ==
    /\ message[k].pc = "sent" /\ Heard(<<"qstash", k>>)
    /\ answer[<<"qstash", k>>] # "ok" /\ message[k].tries = Retries
    /\ answer' = [answer EXCEPT ![<<"qstash", k>>] = "none"]
    /\ IF message[k].callback
         THEN message' = [message EXCEPT ![k] = NoMessage] /\ CallBack(k)
         ELSE /\ message' = [message EXCEPT ![k].pc = "dropped"]
              /\ UNCHANGED <<dead, logged, left>>
    /\ UNCHANGED <<api, up, call, post, pending, processing, drain>>

------------------------------------------------------------------------------
(***************************************************************************)
(* The healer cron: drainRedisQueue.  Runs may overlap.                    *)
(***************************************************************************)

Run(d, pc) == drain[d].pc = pc

\* So are runs.
Tick(d) ==
    LET free == {r \in Drains : Run(r, "idle")}
    IN /\ up /\ free # {} /\ d = CHOOSE r \in free : TRUE
       /\ pending # <<>> \/ processing # <<>>   \* else it does nothing
       /\ Len(pending) + Len(processing) <= MaxEntries
       /\ IF free = Drains THEN UNCHANGED left ELSE Spend("overlaps")
       /\ drain' = [drain EXCEPT ![d] = [NoRun EXCEPT !.pc = "reclaim", !.rest = 4 * BatchSize]]
       /\ UNCHANGED <<api, up, call, answer, post, message, redis>>

\* reclaimProcessing: whatever is in flight, also what another run replays or has
\* come to the end of.
Reclaim(d) ==
    /\ Run(d, "reclaim") /\ processing # <<>> /\ drain[d].rest > 0
    /\ pending' = Append(pending, Head(processing))
    /\ processing' = Tail(processing)
    /\ drain' = [drain EXCEPT ![d].rest = @ - 1]
    /\ UNCHANGED <<api, up, call, answer, post, message, dead, logged, left>>

Reclaimed(d) ==
    /\ Run(d, "reclaim") /\ (processing = <<>> \/ drain[d].rest = 0)
    /\ drain' = [drain EXCEPT ![d].pc = "take", ![d].rest = BatchSize]
    /\ UNCHANGED <<api, up, call, answer, post, message, redis, left>>

\* LMOVE from pending to processing, then orders.create.
NotHeld(e) == processing   \* mutant: the LPOP of an earlier version
InFlight(e) == Append(processing, e)

Take(d) ==
    LET e == Head(pending)
    IN /\ Run(d, "take") /\ pending # <<>> /\ drain[d].rest > 0
       /\ pending' = Tail(pending)
       /\ processing' = InFlight(e)
       /\ Send(<<"drain", d>>, e.payload)
       /\ drain' = [drain EXCEPT ![d].pc = "wait", ![d].item = [e EXCEPT !.by = Nobody],
                                 ![d].rest = @ - 1]
       /\ UNCHANGED <<api, up, post, message, dead, logged, left>>

RunEnds(d) ==
    /\ Run(d, "take") /\ (pending = <<>> \/ drain[d].rest = 0)
    /\ drain' = [drain EXCEPT ![d] = NoRun]
    /\ UNCHANGED <<api, up, call, answer, post, message, redis, left>>

\* Any answer but ok counts as a failed attempt: the entry goes to the tail of
\* pending, or to the dead letters.
SameCount(e) == e   \* mutant
Counted(e) == [e EXCEPT !.attempts = @ + 1]
SpentLate(e) == e.attempts > MaxAttempts   \* mutant
Spent(e) == e.attempts >= MaxAttempts

Answered(d) ==
    LET e == [Counted(drain[d].item) EXCEPT !.by = d]
        ok == answer[<<"drain", d>>] = "ok"
    IN /\ Run(d, "wait") /\ Heard(<<"drain", d>>)
       /\ dead' = IF ~ok /\ Spent(e) THEN dead \cup {e.payload} ELSE dead
       /\ pending' = IF ~ok /\ ~Spent(e) THEN Append(pending, e) ELSE pending
       /\ drain' = [drain EXCEPT ![d].pc = "remove", ![d].item = e]
       /\ answer' = [answer EXCEPT ![<<"drain", d>>] = "none"]
       /\ UNCHANGED <<api, up, call, post, message, processing, logged, left>>

\* The entries of q when run d looks for none of them any more.
Forgotten(q, d) ==
    [i \in DOMAIN q |-> IF q[i].by = d THEN [q[i] EXCEPT !.by = Nobody] ELSE q[i]]

\* LREM of the entry as it has been counted, attempts and time: the one taken from
\* pending stays, and only the copy that has just been put back would match, had
\* another run taken it already.
Unhold(d) ==
    LET e == drain[d].item
    IN /\ Run(d, "remove")
       /\ processing' = Forgotten(IF Contains(processing, e) THEN RemoveFirst(processing, e)
                                                            ELSE processing, d)
       /\ pending' = Forgotten(pending, d)
       /\ drain' = [drain EXCEPT ![d].pc = "take", ![d].item = NoItem]
       /\ UNCHANGED <<api, up, call, answer, post, message, dead, logged, left>>

\* The worker dies, or Redis answers with an error.
DrainDies(d) ==
    /\ ~Run(d, "idle") /\ Spend("deaths")
    /\ drain' = [drain EXCEPT ![d] = NoRun]
    /\ answer' = [answer EXCEPT ![<<"drain", d>>] = "none"]
    /\ call' = [s \in Slots |-> IF call[s].caller = <<"drain", d>>
                                  THEN [call[s] EXCEPT !.caller = Nobody] ELSE call[s]]
    /\ pending' = Forgotten(pending, d) /\ processing' = Forgotten(processing, d)
    /\ UNCHANGED <<api, up, post, message, dead, logged>>

DrainStep(d) ==
    \/ Tick(d) \/ Reclaim(d) \/ Reclaimed(d) \/ Take(d) \/ RunEnds(d)
    \/ Answered(d) \/ Unhold(d)

------------------------------------------------------------------------------
FormStep(k) == ApiAnswered(k) \/ ToQStash(k) \/ ToRedis(k)
QStashStep(k) == Deliver(k) \/ Delivered(k) \/ Exhausted(k)

Next ==
    \/ \E k \in Posts :
         \/ \E p \in Payloads : Submit(k, p)
         \/ FormStep(k) \/ QStashStep(k)
         \/ \E b \in BOOLEAN : QStashFails(k, b) \/ RedisFails(k, b)
    \/ \E s \in Slots : CreateStep(s) \/ InsertFails(s) \/ Timeout(s)
    \/ \E d \in Drains : DrainStep(d) \/ DrainDies(d)
    \/ \E p \in Payloads : TwoMinutesPass(p)
    \/ ApiDies \/ ApiReturns

Spec == Init /\ [][Next]_vars

\* Something goes on as long as anything can: requests that were begun, calls,
\* messages, ticks of the cron, the restart of the API.  Nobody has to submit, give
\* up, fail or die.
Progress ==
    \/ \E k \in Posts : FormStep(k) \/ QStashStep(k)
    \/ \E s \in Slots : CreateStep(s)
    \/ \E d \in Drains : DrainStep(d)
    \/ ApiReturns

FairSpec == Spec /\ WF_vars(Progress)

------------------------------------------------------------------------------
\* "by" is the run that has counted the entry and is still to remove it.
EntryType == [id : Posts, payload : Payloads, attempts : Nat,
              by : Drains \cup {Nobody}]

\* Types; an entry that waits has attempts left.
TypeOK ==
    /\ mode \in Modes
    /\ orders \in [Payloads -> [plain : Nat, flagged : Nat]]
    /\ {recent, lapsed, overlapped, dead, logged} \subseteq SUBSET Payloads
    /\ up \in BOOLEAN
    /\ call \in [Slots -> [pc : {"idle", "check", "insert", "respond"},
                           payload : Payloads \cup {Nobody},
                           caller : Callers \cup {Nobody}, flag : BOOLEAN]]
    /\ answer \in [Callers -> {"none", "waiting", "ok", "rejected", "failed"}]
    /\ post \in [Posts -> [pc : {"new", "api", "qstash", "redis", "success", "refused",
                                 "unsure"},
                           payload : Payloads \cup {Nobody}]]
    /\ message \in [Posts -> [pc : {"none", "due", "sent", "dropped"}, tries : 0..Retries,
                              callback : BOOLEAN]]
    /\ pending \in Seq(EntryType) /\ processing \in Seq(EntryType)
    /\ \A e \in ToSet(pending) \cup ToSet(processing) : e.attempts < MaxAttempts
    /\ drain \in [Drains -> [pc : {"idle", "reclaim", "take", "wait", "remove"},
                             item : EntryType \cup {NoItem}, rest : 0..(4 * BatchSize)]]
    /\ left \in [faults : Nat, losses : Nat, lapses : Nat, deaths : Nat, overlaps : Nat]

Final(k) ==
    /\ post[k].pc # "new"
    /\ Ordered(post[k].payload) \/ post[k].payload \in dead \cup logged
InRedis(k) == \E e \in ToSet(pending) \cup ToSet(processing) : e.id = k
Buffered(k) == message[k].pc \in {"due", "sent"} \/ InRedis(k)
Dropped(k) == message[k].pc = "dropped"

\* A submission that the customer was told has been received is an order, a dead letter
\* or still in a buffer, whichever call, run or server dies in between; only a message
\* that was published without a failure callback is dropped when its retries run out.
NoneLost == \A k \in Posts :
    post[k].pc = "success" => Final(k) \/ Buffered(k) \/ Dropped(k)

\* A payload delivered again becomes a second order only in two calls that overlap,
\* or when the company has switched the rules off and two minutes have passed; with
\* FLAG, the second order carries the flag.
SecondOrderExplained == \A p \in Payloads \ overlapped :
    /\ orders[p].plain > 1 => mode = "OFF" /\ p \in lapsed
    /\ orders[p].flagged > 0 => mode = "FLAG" /\ p \in lapsed

\* What is in a buffer is served: an order or a dead letter comes of it, unless QStash
\* drops it.  The entry of Redis itself stays and is replayed by every later run.
EveryEntryServed == \A k \in Posts : Buffered(k) ~> Final(k) \/ Dropped(k)
==============================================================================
