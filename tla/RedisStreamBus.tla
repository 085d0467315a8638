--------------------------- MODULE RedisStreamBus ---------------------------
(***************************************************************************)
(* The durable path of a WhatsApp message in Redis mode:                   *)
(*   - the webhook (app/main.py) marks the provider message id in the      *)
(*     deduplication store and then publishes the event;                   *)
(*   - RedisStreamEventBus (app/infrastructure/event_bus.py) keeps the     *)
(*     events in a stream read by one consumer group;                      *)
(*   - each worker process (app/worker.py) claims idle pending entries     *)
(*     once, when it starts, and then reads new entries for ever; it       *)
(*     processes the entries of a batch one after the other, requeues a    *)
(*     failed one with attempt + 1 or puts it on the dead-letter queue,    *)
(*     and acknowledges the entry last.                                    *)
(*                                                                         *)
(* processor.execute is abstracted to its two outcomes, normal return and  *)
(* exception; MessageProcessing models what it does.                       *)
(*                                                                         *)
(* A stream entry is identified by its position in stream, which is never  *)
(* shortened: XADD's trimming moves the mark trimmed forward instead. The  *)
(* dead-letter stream is kept, and trimmed, the same way.                  *)
(* Entry ids only grow, and XREADGROUP and XAUTOCLAIM return entries in id *)
(* order, so the batch a worker still has to process is a set of which it  *)
(* always takes the smallest.                                              *)
(***************************************************************************)
EXTENDS Integers, Sequences, FiniteSets

CONSTANTS
    Messages,     \* (tenant, provider message id) pairs
    Workers,      \* worker processes, one consumer of the group each
    MaxRetries,   \* max_retries, MAX_EVENT_RETRIES in compose.yaml
    BatchSize,    \* count of XREADGROUP (10)
    ClaimCount,   \* count of XAUTOCLAIM (20)
    ScanLimit,    \* PEL entries one XAUTOCLAIM examines (10 * count in Redis 7)
    MaxLen,       \* maxlen of XADD to the stream (10_000)
    DlqMaxLen,    \* maxlen of XADD to the dead-letter stream (10_000)
    MaxCrashes,   \* bound: worker crashes in a behaviour
    MaxExpiries   \* bound: expirations of one message's deduplication key

ASSUME MaxRetriesAssumption == MaxRetries \in Nat
ASSUME PageAssumption ==
    /\ BatchSize \in Nat \ {0}
    /\ ClaimCount \in Nat \ {0}
    /\ ScanLimit \in Nat \ {0}
    /\ MaxLen \in Nat \ {0}
    /\ DlqMaxLen \in Nat \ {0}
ASSUME BoundAssumption == MaxCrashes \in Nat /\ MaxExpiries \in Nat

VARIABLES
    \* --- deduplication store and webhook requests
    dedupe,         \* messages whose deduplication key exists
    publishing,     \* messages a request has marked and not yet published
    accepted,       \* messages for which some request was answered 202
    \* --- Redis stream, consumer group and dead-letter stream
    stream,         \* every entry ever added: message and attempt number
    trimmed,        \* entries 1..trimmed were removed by XADD's maxlen
    lastDelivered,  \* the group's last-delivered id
    pending,        \* the group's pending entries list (PEL)
    idle,           \* pending entries not delivered for claim_idle_ms
    dlq,            \* every record ever added to the dead-letter stream
    dlqTrimmed,     \* records 1..dlqTrimmed were removed by XADD's maxlen
    \* --- worker processes
    pc,             \* where each worker is in consume_forever
    todo,           \* entries of its current batch it has not finished
    cursor,         \* start_id of its next XAUTOCLAIM page, 0 for "0-0"
    \* --- history
    acked,          \* entries some worker has acknowledged
    claimed,        \* entries some worker has obtained through XAUTOCLAIM
    completions,    \* normal returns of processor.execute, per message
    crashes,        \* worker crashes so far
    expiries        \* expirations of each message's deduplication key

webVars == <<dedupe, publishing, accepted>>
busVars == <<stream, trimmed, lastDelivered, pending, idle, dlq, dlqTrimmed>>
dlqVars == <<dlq, dlqTrimmed>>
workerVars == <<pc, todo, cursor>>
historyVars == <<acked, claimed, completions, crashes, expiries>>
vars == <<webVars, busVars, workerVars, historyVars>>

Entry == [msg : Messages, attempt : Nat]
Letter == [msg : Messages, attempts : Nat]
Ids == 1..Len(stream)
Letters == 1..Len(dlq)

TypeOK ==
    /\ dedupe \subseteq Messages
    /\ publishing \subseteq Messages
    /\ accepted \subseteq Messages
    /\ stream \in Seq(Entry)
    /\ trimmed \in 0..Len(stream)
    /\ lastDelivered \in 0..Len(stream)
    /\ pending \subseteq Ids
    /\ idle \subseteq pending
    /\ dlq \in Seq(Letter)
    /\ dlqTrimmed \in 0..Len(dlq)
    /\ pc \in [Workers -> {"down", "claim", "read", "entry", "failed", "ack"}]
    /\ todo \in [Workers -> SUBSET Ids]
    /\ cursor \in [Workers -> Nat]
    /\ acked \subseteq Ids
    /\ claimed \subseteq Ids
    /\ completions \in [Messages -> Nat]
    /\ crashes \in 0..MaxCrashes
    /\ expiries \in [Messages -> 0..MaxExpiries]

Init ==
    /\ dedupe = {}
    /\ publishing = {}
    /\ accepted = {}
    /\ stream = <<>>
    /\ trimmed = 0
    /\ lastDelivered = 0
    /\ pending = {}
    /\ idle = {}
    /\ dlq = <<>>
    /\ dlqTrimmed = 0
    /\ pc = [w \in Workers |-> "down"]
    /\ todo = [w \in Workers |-> {}]
    /\ cursor = [w \in Workers |-> 0]
    /\ acked = {}
    /\ claimed = {}
    /\ completions = [m \in Messages |-> 0]
    /\ crashes = 0
    /\ expiries = [m \in Messages |-> 0]

-----------------------------------------------------------------------------
(* XADD with an approximate maxlen: Redis may remove old entries as long as *)
(* maxlen of them remain, and removes them whether or not they were read.   *)

\* Mutant: one entry less than maxlen remains.
TrimsTooMuch(mark, maxlen, length) ==
    {t \in mark..length : t = mark \/ t + maxlen <= length + 1}

\* Where the mark of a stream may be once it has had that many entries.
Trims(mark, maxlen, length) ==
    {t \in mark..length : t = mark \/ t + maxlen <= length}

XAdd(m, attempt) ==
    /\ stream' = Append(stream, [msg |-> m, attempt |-> attempt])
    /\ trimmed' \in Trims(trimmed, MaxLen, Len(stream) + 1)

XAddDlq(m, attempts) ==
    /\ dlq' = Append(dlq, [msg |-> m, attempts |-> attempts])
    /\ dlqTrimmed' \in Trims(dlqTrimmed, DlqMaxLen, Len(dlq) + 1)

-----------------------------------------------------------------------------
(* The webhook.                                                             *)

\* Mutant: SET without NX, every request takes the message for a new one.
WebhookMarkAlways(m) ==
    /\ dedupe' = dedupe \union {m}
    /\ publishing' = publishing \union {m}
    /\ UNCHANGED <<accepted, busVars, workerVars, historyVars>>

\* mark_if_new created the key: this request goes on to publish.
WebhookMark(m) ==
    /\ m \notin dedupe
    /\ dedupe' = dedupe \union {m}
    /\ publishing' = publishing \union {m}
    /\ UNCHANGED <<accepted, busVars, workerVars, historyVars>>

\* mark_if_new found the key: answered 202 without publishing.
WebhookDuplicate(m) ==
    /\ m \in dedupe
    /\ accepted' = accepted \union {m}
    /\ UNCHANGED <<dedupe, publishing, busVars, workerVars, historyVars>>

\* event_bus.publish, then the 202 answer.
WebhookPublish(m) ==
    /\ m \in publishing
    /\ publishing' = publishing \ {m}
    /\ accepted' = accepted \union {m}
    /\ XAdd(m, 0)
    /\ UNCHANGED <<dedupe, lastDelivered, pending, idle, dlqVars,
                   workerVars, historyVars>>

\* The request dies between the two awaits: process stopped, request
\* cancelled, or XADD raised. The deduplication key stays.
WebhookFail(m) ==
    /\ m \in publishing
    /\ publishing' = publishing \ {m}
    /\ UNCHANGED <<dedupe, accepted, busVars, workerVars, historyVars>>

\* The key's 24 hours are over (no request is open for that long).
DedupeExpire(m) ==
    /\ m \in dedupe \ publishing
    /\ expiries[m] < MaxExpiries
    /\ dedupe' = dedupe \ {m}
    /\ expiries' = [expiries EXCEPT ![m] = @ + 1]
    /\ UNCHANGED <<publishing, accepted, busVars, workerVars,
                   acked, claimed, completions, crashes>>

-----------------------------------------------------------------------------
(* The workers.                                                             *)

\* The entry a worker is processing, the first of its batch.
IsCurrent(w, i) == i \in todo[w] /\ \A j \in todo[w] : i <= j

\* run_worker: _ensure_group, then _recover_pending's XPENDING, which skips
\* the recovery when nothing is pending.
Start(w) ==
    /\ pc[w] = "down"
    /\ pc' = [pc EXCEPT ![w] = IF pending = {} THEN "read" ELSE "claim"]
    /\ UNCHANGED <<webVars, busVars, todo, cursor, historyVars>>

\* One XAUTOCLAIM page. Redis walks the PEL upwards from the cursor until it
\* has examined ScanLimit entries or taken ClaimCount of them; it takes the
\* idle ones, and purges the ones that trimming removed from the stream.
Takes(i) == i \in idle \/ i <= trimmed

From(c) == {i \in pending : c <= i}

Scanned(c) ==
    {i \in From(c) :
        /\ Cardinality({j \in From(c) : j < i}) < ScanLimit
        /\ Cardinality({j \in From(c) : j < i /\ Takes(j)}) < ClaimCount}

Claimed(c) == {i \in Scanned(c) : i \in idle /\ i > trimmed}

Purged(c) == {i \in Scanned(c) : i <= trimmed}

\* The cursor XAUTOCLAIM returns: the next pending entry, "0-0" at the end.
NextCursor(c, next) ==
    LET rest == From(c) \ Scanned(c)
    IN  \/ rest = {} /\ next = 0
        \/ next \in rest /\ \A i \in rest : next <= i

\* The loop of _recover_pending ends on an empty page even if the cursor is
\* not at the end.
Claim(w) ==
    /\ pc[w] = "claim"
    /\ LET page == Claimed(cursor[w])
           gone == Purged(cursor[w])
       IN  /\ pending' = pending \ gone
           /\ idle' = idle \ (page \union gone)
           /\ claimed' = claimed \union page
           /\ todo' = [todo EXCEPT ![w] = page]
           /\ \/ /\ page = {}
                 /\ pc' = [pc EXCEPT ![w] = "read"]
                 /\ cursor' = [cursor EXCEPT ![w] = 0]
              \/ /\ page # {}
                 /\ pc' = [pc EXCEPT ![w] = "entry"]
                 /\ \E next \in {0} \union pending :
                        /\ NextCursor(cursor[w], next)
                        /\ cursor' = [cursor EXCEPT ![w] = next]
    /\ UNCHANGED <<webVars, stream, trimmed, lastDelivered, dlqVars,
                   acked, completions, crashes, expiries>>

\* Mutant: the group's position is not consulted, entries are read again.
ReadAfterTrimmed == trimmed

\* The id after which XREADGROUP ">" finds the next entry.
ReadAfter == IF lastDelivered < trimmed THEN trimmed ELSE lastDelivered

Batch == {i \in Ids : ReadAfter < i /\ i <= ReadAfter + BatchSize}

\* Mutant: NOACK, the entries read do not enter the pending entries list.
PendingNoAck(batch) == pending

\* XREADGROUP makes the entries it returns pending.
AddPending(batch) == pending \union batch

\* One XREADGROUP that returns entries (an empty answer changes nothing).
Read(w) ==
    /\ pc[w] = "read"
    /\ Batch # {}
    /\ todo' = [todo EXCEPT ![w] = Batch]
    /\ pending' = AddPending(Batch)
    /\ lastDelivered' \in Batch
    /\ \A i \in Batch : i <= lastDelivered'
    /\ pc' = [pc EXCEPT ![w] = "entry"]
    /\ UNCHANGED <<webVars, stream, trimmed, idle, dlqVars, cursor, historyVars>>

\* processor.execute returns.
ExecuteOk(w) ==
    /\ pc[w] = "entry"
    /\ \E i \in Ids :
        /\ IsCurrent(w, i)
        /\ completions' = [completions EXCEPT ![stream[i].msg] = @ + 1]
    /\ pc' = [pc EXCEPT ![w] = "ack"]
    /\ UNCHANGED <<webVars, busVars, todo, cursor,
                   acked, claimed, crashes, expiries>>

\* Mutant: a failed entry is acknowledged like a processed one.
ExecuteFailAcks(w) ==
    /\ pc[w] = "entry"
    /\ pc' = [pc EXCEPT ![w] = "ack"]
    /\ UNCHANGED <<webVars, busVars, todo, cursor, historyVars>>

\* processor.execute raises: _handle_failure sleeps its backoff.
ExecuteFail(w) ==
    /\ pc[w] = "entry"
    /\ pc' = [pc EXCEPT ![w] = "failed"]
    /\ UNCHANGED <<webVars, busVars, todo, cursor, historyVars>>

\* Mutant: the last retry is not made.
GivesUpEarly(attempt) == attempt + 1 >= MaxRetries

GivesUp(attempt) == attempt + 1 > MaxRetries

\* _handle_failure's XADD, to the dead-letter stream or back to the stream.
HandleFailure(w) ==
    /\ pc[w] = "failed"
    /\ \E i \in Ids :
        /\ IsCurrent(w, i)
        /\ LET m == stream[i].msg
               attempt == stream[i].attempt
           IN  \/ /\ GivesUp(attempt)
                  /\ XAddDlq(m, attempt + 1)
                  /\ UNCHANGED <<stream, trimmed>>
               \/ /\ ~GivesUp(attempt)
                  /\ XAdd(m, attempt + 1)
                  /\ UNCHANGED dlqVars
    /\ pc' = [pc EXCEPT ![w] = "ack"]
    /\ UNCHANGED <<webVars, lastDelivered, pending, idle, todo, cursor,
                   historyVars>>

\* Mutant: recovery ends after its first page.
FirstPageOnly(w, rest) == IF rest # {} THEN "entry" ELSE "read"

\* Where the loops go after an entry: the next entry, the next page, the
\* next read. Outside recovery the cursor is 0.
AfterEntry(w, rest) ==
    IF rest # {} THEN "entry" ELSE IF cursor[w] # 0 THEN "claim" ELSE "read"

\* Mutant: the whole batch is acknowledged with its first entry.
AckedBatch(w, i) == todo[w]

AckedBy(w, i) == {i}

\* XACK of the current entry, in _process_entry or at the end of
\* _handle_failure.
Ack(w) ==
    /\ pc[w] = "ack"
    /\ \E i \in Ids :
        /\ IsCurrent(w, i)
        /\ pending' = pending \ AckedBy(w, i)
        /\ idle' = idle \ AckedBy(w, i)
        /\ acked' = acked \union AckedBy(w, i)
        /\ todo' = [todo EXCEPT ![w] = @ \ {i}]
        /\ pc' = [pc EXCEPT ![w] = AfterEntry(w, todo[w] \ {i})]
    /\ UNCHANGED <<webVars, stream, trimmed, lastDelivered, dlqVars, cursor,
                   claimed, completions, crashes, expiries>>

\* The process dies, or a Redis error propagates out of consume_forever.
Crash(w) ==
    /\ pc[w] # "down"
    /\ crashes < MaxCrashes
    /\ crashes' = crashes + 1
    /\ pc' = [pc EXCEPT ![w] = "down"]
    /\ todo' = [todo EXCEPT ![w] = {}]
    /\ cursor' = [cursor EXCEPT ![w] = 0]
    /\ UNCHANGED <<webVars, busVars, acked, claimed, completions, expiries>>

\* claim_idle_ms pass since a pending entry was last delivered, whether its
\* worker is dead or only slow.
BecomeIdle(i) ==
    /\ idle' = idle \union {i}
    /\ UNCHANGED <<webVars, stream, trimmed, lastDelivered, pending, dlqVars,
                   workerVars, historyVars>>

TimePasses == \E i \in pending \ idle : BecomeIdle(i)

-----------------------------------------------------------------------------
WorkerStep(w) ==
    \/ Start(w)
    \/ Claim(w)
    \/ Read(w)
    \/ ExecuteOk(w)
    \/ ExecuteFail(w)
    \/ HandleFailure(w)
    \/ Ack(w)

WebStep(m) ==
    \/ WebhookMark(m)
    \/ WebhookDuplicate(m)
    \/ WebhookPublish(m)
    \/ WebhookFail(m)
    \/ DedupeExpire(m)

Next ==
    \/ \E m \in Messages : WebStep(m)
    \/ \E w \in Workers : WorkerStep(w) \/ Crash(w)
    \/ TimePasses

Spec == Init /\ [][Next]_vars

(* Fairness. Compose restarts a worker that died, and one that is up keeps  *)
(* running as long as its calls return: weak fairness of each worker's      *)
(* steps. The call of the model has a timeout; that Redis and PostgreSQL    *)
(* answer is an assumption, since their clients wait without one. Time      *)
(* passes. Nothing is assumed of the webhook, which only customers and the  *)
(* provider drive.                                                          *)
FairSpec ==
    /\ Spec
    /\ \A w \in Workers : WF_vars(WorkerStep(w))
    /\ WF_vars(TimePasses)
-----------------------------------------------------------------------------
(* Safety.                                                                  *)

Published(m) == \E i \in Ids : stream[i].msg = m

Completed(m) == completions[m] > 0

\* The message was put on the dead-letter stream, and is still there.
Buried(m) == \E k \in Letters : dlq[k].msg = m
Dead(m) == \E k \in Letters : k > dlqTrimmed /\ dlq[k].msg = m

\* An entry is held by a worker that has it in its batch, whether or not the
\* stream still has it.
Held(i) == \E w \in Workers : i \in todo[w]

\* An entry that will still be executed: it was not acknowledged, and it is in
\* the stream or in a worker's hands.
Owed(i) == i \notin acked /\ (i > trimmed \/ Held(i))

\* An entry that nobody will execute, pushed out by maxlen newer ones, and a
\* dead letter pushed out by maxlen newer ones.
EntryEvicted(i) ==
    /\ i \notin acked /\ ~Held(i)
    /\ i <= trimmed /\ i + MaxLen <= Len(stream)

LetterEvicted(k) == k <= dlqTrimmed /\ k + DlqMaxLen <= Len(dlq)

Evicted(m) ==
    \/ \E i \in Ids : stream[i].msg = m /\ EntryEvicted(i)
    \/ \E k \in Letters : dlq[k].msg = m /\ LetterEvicted(k)

\* No message disappears but for want of room: a published message was
\* completed, is on the dead-letter stream now, has an entry that will still
\* be executed, or had an entry or a dead letter pushed out by maxlen newer
\* ones. It is about _handle_failure requeueing before it acknowledges
\* (event_bus.py:211-223), acknowledgements of other copies of the message by
\* other workers, and the trimming of both streams, which removes unread and
\* pending entries and dead letters alike (event_bus.py:102, 198, 214).
NoSilentLoss ==
    \A m \in Messages : Published(m) =>
        \/ Completed(m)
        \/ Dead(m)
        \/ \E i \in Ids : stream[i].msg = m /\ Owed(i)
        \/ Evicted(m)

\* An entry that was not acknowledged can still reach a worker, which finds it
\* in the stream, unread or pending, unless maxlen newer entries were added
\* (event_bus.py:102, 122-131, 214).
UnackedIsReachable ==
    \A i \in Ids \ acked :
        \/ i > trimmed /\ (i > lastDelivered \/ i \in pending)
        \/ i + MaxLen <= Len(stream)

\* The dead-letter stream only receives messages that had every attempt, and
\* its records say so: attempts 0..MaxRetries of the message were all added
\* to the stream (event_bus.py:188-216).
DlqAfterAllAttempts ==
    \A k \in Letters :
        /\ dlq[k].attempts = MaxRetries + 1
        /\ \A n \in 0..MaxRetries : [msg |-> dlq[k].msg, attempt |-> n]
                                        \in {stream[i] : i \in Ids}

\* Two workers hold the same entry only if it went through XAUTOCLAIM: a
\* consumer group splits new entries (event_bus.py:122-131) and only the
\* recovery of a starting worker takes one away from a live owner.
SharedOnlyByClaim ==
    \A v, w \in Workers : v # w => (todo[v] \intersect todo[w]) \subseteq claimed

\* A message is completed twice only if one of its entries was claimed or its
\* deduplication key expired: no interleaving of the webhook, the batches and
\* the retries makes a second completion by itself.
CompletedAgainOnlyByClaim ==
    \A m \in Messages :
        completions[m] > 1 =>
            \/ expiries[m] > 0
            \/ \E i \in claimed : stream[i].msg = m

-----------------------------------------------------------------------------
(* What makes the safety properties inductive.                              *)

\* A message has had an outcome, whatever trimming did to it since.
Settled(m) == Completed(m) \/ Buried(m)

\* Before trimming is considered, a message without an outcome has an entry
\* that was not acknowledged.
UnsettledIsUnacked ==
    \A i \in Ids :
        \/ Settled(stream[i].msg)
        \/ \E j \in Ids \ acked : stream[j].msg = stream[i].msg

\* Each stream keeps at least its maxlen of entries when it is trimmed.
KeepsMaxLen ==
    /\ trimmed > 0 => trimmed + MaxLen <= Len(stream)
    /\ dlqTrimmed > 0 => dlqTrimmed + DlqMaxLen <= Len(dlq)

\* A copy of entry i with a later attempt is still to be acknowledged.
Superseded(i) ==
    \E j \in Ids \ acked :
        stream[j].msg = stream[i].msg /\ stream[j].attempt > stream[i].attempt

\* A worker about to acknowledge has given the message an outcome or put a
\* later attempt on the stream.
OutcomeBeforeAck ==
    \A w \in Workers : pc[w] = "ack" =>
        \A i \in Ids :
            IsCurrent(w, i) => Settled(stream[i].msg) \/ Superseded(i)

\* Every attempt of a message follows the attempts before it.
RetryChain ==
    \A i \in Ids :
        /\ stream[i].attempt <= MaxRetries
        /\ \A k \in 0..stream[i].attempt :
              [msg |-> stream[i].msg, attempt |-> k] \in {stream[j] : j \in Ids}

\* Only entries the group has delivered are pending or held by a worker, and
\* a worker that is about to fetch entries holds none.
BatchesWereDelivered ==
    /\ pending \subseteq 1..lastDelivered
    /\ \A w \in Workers :
        /\ todo[w] \subseteq 1..lastDelivered
        /\ pc[w] \in {"down", "claim", "read"} => todo[w] = {}

\* An entry that is still to be executed: nobody has read it, or a worker
\* holds it and is not yet done with it.
Awaits(i) ==
    \/ i > lastDelivered
    \/ \E w \in Workers : i \in todo[w] /\ ~(pc[w] = "ack" /\ IsCurrent(w, i))

\* No entry of the message was claimed, and its key has not expired.
Regular(m) == expiries[m] = 0 /\ \A i \in claimed : stream[i].msg # m

\* What makes CompletedAgainOnlyByClaim inductive: the webhook publishes such
\* a message once, at most one of its entries is still to be executed, and
\* none once it is completed.
OneChanceInv ==
    \A m \in Messages : Regular(m) =>
        /\ completions[m] <= 1
        /\ m \in publishing => m \in dedupe
        /\ m \notin dedupe \/ m \in publishing =>
              completions[m] = 0 /\ ~Published(m)
        /\ \A i \in Ids : stream[i].msg = m /\ Awaits(i) =>
              /\ completions[m] = 0
              /\ \A j \in Ids : stream[j].msg = m /\ Awaits(j) => j = i

\* The inductive invariant behind the safety properties, checked by TLC
\* before it is proved; each named part is about the code its comment names.
SafetyInv ==
    /\ TypeOK
    /\ NoSilentLoss
    /\ UnsettledIsUnacked
    /\ KeepsMaxLen
    /\ OutcomeBeforeAck
    /\ UnackedIsReachable
    /\ DlqAfterAllAttempts
    /\ RetryChain
    /\ SharedOnlyByClaim
    /\ BatchesWereDelivered
    /\ OneChanceInv

-----------------------------------------------------------------------------
(* The bus implements at-least-once delivery.                               *)

Delivery == INSTANCE EventDelivery WITH
    queued  <- {stream[i].msg : i \in {j \in Ids : Owed(j)}},
    done    <- {m \in Messages : Completed(m)},
    dead    <- {m \in Messages : Dead(m)},
    evicted <- {m \in Messages : Evicted(m)},
    full    <- Len(stream) > MaxLen \/ Len(dlq) > DlqMaxLen

\* Every step of the streams, the workers and the webhook is a step of
\* EventDelivery: the last entry of a message that will still be executed
\* goes away only when the message has its outcome, or with an eviction, and
\* evictions take a stream that was given more than its maxlen.
ImplementsEventDelivery == Delivery!Spec

-----------------------------------------------------------------------------
(* Liveness.                                                                *)

\* Entry i is held by no worker, has been idle for claim_idle_ms and is still
\* in the stream.
Abandoned(i) ==
    /\ i \in idle
    /\ i > trimmed
    /\ \A w \in Workers : i \notin todo[w]

\* "Los eventos abandonados por un worker son reclamados por otro tras
\* superar el tiempo de inactividad" (README.md:172): an abandoned entry does
\* not stay abandoned.
AbandonedIsReclaimed == \A i \in 1..MaxLen : Abandoned(i) ~> ~Abandoned(i)

\* What the code does guarantee as long as one XAUTOCLAIM examines the whole
\* pending list (ScanLimit): a worker whose recovery begins while an entry is
\* abandoned reclaims it, however many pages that takes, unless that worker
\* dies as well (event_bus.py:145-163).
RecoveryReclaims ==
    \A i \in 1..MaxLen, w \in Workers :
        Abandoned(i) /\ pc[w] = "claim" /\ cursor[w] = 0
            ~> ~Abandoned(i) \/ pc[w] = "down"

\* "El webhook responde 202 Accepted despues de publicar" (README.md:168): a
\* message for which a request was answered 202 has been published, or a
\* request is about to publish it.
AcceptedIsPublished == \A m \in accepted \ publishing : Published(m)
=============================================================================
