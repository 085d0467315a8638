-------------------------- MODULE CloudflareQueue --------------------------
(***************************************************************************)
(* The Cloudflare deployment's path of a WhatsApp message: the webhook     *)
(* (receiveWhatsappWebhook) puts every message of a payload on a queue,    *)
(* the queue hands batches to invocations of handleQueue, and each message *)
(* is recorded by its tenant's Durable Object (TenantWorkspace).           *)
(*                                                                         *)
(* ack() and retry() only note a decision, which the queue applies after   *)
(* the invocation has ended. An invocation that is killed loses its        *)
(* decisions. The queue is unordered, delivers at least once and may hand  *)
(* an entry to two invocations.                                            *)
(*                                                                         *)
(* handleQueue also drops events of another type or with a bad tenant id;  *)
(* the webhook, the only producer, builds none.                            *)
(***************************************************************************)
EXTENDS Integers, Sequences, FiniteSets

CONSTANTS
    Messages,    \* (tenant, provider message id) pairs
    Requests,    \* webhook calls of Meta, retries included
    Payloads,    \* what the requests may carry, as functions on Requests
    Consumers,   \* concurrent invocations of handleQueue
    BatchSize,   \* max_batch_size (10)
    MaxRetries   \* max_retries (3)

ASSUME PayloadsAssumption == Payloads \subseteq [Requests -> Seq(Messages)]
ASSUME QueueAssumption == BatchSize \in Nat \ {0} /\ MaxRetries \in Nat

VARIABLES
    carries,    \* the messages extracted from the payload of each request
    position,   \* messages of a request handed to the queue so far
    status,     \* of a request: open, answered with 200, or failed
    queue,      \* every entry ever sent
    attempts,   \* deliveries of each entry
    acked,      \* entries the queue removed as acknowledged
    dlq,        \* entries written to the dead-letter queue
    dropped,    \* dead-lettered entries the queue removed
    todo,       \* entries each invocation has still to process
    acks,       \* entries it has called ack() on
    retries,    \* entries it has called retry() on
    processed,  \* rows of processed_messages
    rows        \* rows of messages, whose primary key is the message's id

webVars == <<carries, position, status>>
queueVars == <<queue, attempts, acked, dlq, dropped>>
consumerVars == <<todo, acks, retries>>
tenantVars == <<processed, rows>>
vars == <<webVars, queueVars, consumerVars, tenantVars>>

Ids == 1..Len(queue)
Gone == acked \union dropped

TypeOK ==
    /\ carries \in Payloads
    /\ position \in [Requests -> Nat]
    /\ status \in [Requests -> {"open", "answered", "failed"}]
    /\ queue \in Seq(Messages)
    /\ attempts \in [Ids -> 0..MaxRetries + 1]
    /\ acked \subseteq Ids
    /\ dlq \subseteq Ids
    /\ dropped \subseteq dlq
    /\ todo \in [Consumers -> SUBSET Ids]
    /\ acks \in [Consumers -> SUBSET Ids]
    /\ retries \in [Consumers -> SUBSET Ids]
    /\ processed \subseteq Messages
    /\ rows \subseteq Messages

Init ==
    /\ carries \in Payloads
    /\ position = [r \in Requests |-> 0]
    /\ status = [r \in Requests |-> "open"]
    /\ queue = <<>>
    /\ attempts = <<>>
    /\ acked = {}
    /\ dlq = {}
    /\ dropped = {}
    /\ todo = [c \in Consumers |-> {}]
    /\ acks = [c \in Consumers |-> {}]
    /\ retries = [c \in Consumers |-> {}]
    /\ processed = {}
    /\ rows = {}

-----------------------------------------------------------------------------
(* The webhook.                                                             *)

\* sendBatch stores the messages of a slice one by one.
Send(r) ==
    /\ status[r] = "open"
    /\ position[r] < Len(carries[r])
    /\ position' = [position EXCEPT ![r] = @ + 1]
    /\ queue' = Append(queue, carries[r][position[r] + 1])
    /\ attempts' = Append(attempts, 0)
    /\ UNCHANGED <<carries, status, acked, dlq, dropped, consumerVars, tenantVars>>

\* Mutant: 200 is answered while the messages are still being sent.
AnswersEarly(r) == status[r] = "open"

MayAnswer(r) == status[r] = "open" /\ position[r] = Len(carries[r])

Answer(r) ==
    /\ MayAnswer(r)
    /\ status' = [status EXCEPT ![r] = "answered"]
    /\ UNCHANGED <<carries, position, queueVars, consumerVars, tenantVars>>

\* The signature, tenant or JSON check fails, sendBatch throws (having stored
\* a part of its slice or nothing), or the invocation is killed.
FailRequest(r) ==
    /\ status[r] = "open"
    /\ status' = [status EXCEPT ![r] = "failed"]
    /\ UNCHANGED <<carries, position, queueVars, consumerVars, tenantVars>>

-----------------------------------------------------------------------------
(* The queue and handleQueue.                                               *)

Idle(c) == todo[c] = {} /\ acks[c] = {} /\ retries[c] = {}

Deliverable == {i \in Ids \ (Gone \union dlq) : attempts[i] <= MaxRetries}

\* The queue starts an invocation with a batch.
Deliver(c) ==
    /\ Idle(c)
    /\ \E batch \in SUBSET Deliverable \ {{}} :
        /\ Cardinality(batch) <= BatchSize
        /\ todo' = [todo EXCEPT ![c] = batch]
        /\ attempts' = [i \in Ids |-> attempts[i] + IF i \in batch THEN 1 ELSE 0]
    /\ UNCHANGED <<webVars, queue, acked, dlq, dropped, acks, retries, tenantVars>>

\* Mutant: without the transaction, the mark may be stored and the message not.
MarksAlone(m) ==
    \/ m \in processed /\ UNCHANGED tenantVars
    \/ /\ m \notin processed \union rows
       /\ processed' = processed \union {m}
       /\ rows' \in {rows, rows \union {m}}

\* processMessage returns. Its one transaction in the Durable Object stores the
\* mark, and with a new mark the message; a row that is there already makes
\* the insert throw and takes the mark back.
ProcessMessage(m) ==
    \/ m \in processed /\ UNCHANGED tenantVars
    \/ /\ m \notin processed \union rows
       /\ processed' = processed \union {m}
       /\ rows' = rows \union {m}

\* Mutant: an entry whose processing threw is acknowledged too.
AckAnyway(c, i) ==
    /\ acks' = [acks EXCEPT ![c] = @ \union {i}]
    /\ UNCHANGED retries

Retry(c, i) ==
    /\ retries' = [retries EXCEPT ![c] = @ \union {i}]
    /\ UNCHANGED acks

\* processMessage returns, a duplicate or not.
Process(c, i) ==
    /\ i \in todo[c]
    /\ todo' = [todo EXCEPT ![c] = @ \ {i}]
    /\ ProcessMessage(queue[i])
    /\ acks' = [acks EXCEPT ![c] = @ \union {i}]
    /\ UNCHANGED <<webVars, queueVars, retries>>

\* processMessage throws: it did nothing or was rolled back, or its answer was
\* lost.
ProcessThrows(c, i) ==
    /\ i \in todo[c]
    /\ todo' = [todo EXCEPT ![c] = @ \ {i}]
    /\ ProcessMessage(queue[i]) \/ UNCHANGED tenantVars
    /\ Retry(c, i)
    /\ UNCHANGED <<webVars, queueVars>>

\* The invocation is killed: what it has not processed is retried, and what
\* it has acknowledged as well if the queue never learns of it.
Kill(c) ==
    /\ todo[c] # {}
    /\ \E lost \in {{}, acks[c]} :
        /\ acks' = [acks EXCEPT ![c] = @ \ lost]
        /\ retries' = [retries EXCEPT ![c] = @ \union todo[c] \union lost]
    /\ todo' = [todo EXCEPT ![c] = {}]
    /\ UNCHANGED <<webVars, queueVars, tenantVars>>

\* The queue applies the decisions of an ended invocation, entry by entry.
SettleAck(c, i) ==
    /\ todo[c] = {}
    /\ i \in acks[c]
    /\ acks' = [acks EXCEPT ![c] = @ \ {i}]
    /\ acked' = acked \union {i}
    /\ UNCHANGED <<webVars, queue, attempts, dlq, dropped, todo, retries, tenantVars>>

SettleRetry(c, i) ==
    /\ todo[c] = {}
    /\ i \in retries[c]
    /\ retries' = [retries EXCEPT ![c] = @ \ {i}]
    /\ dlq' = IF attempts[i] > MaxRetries /\ i \notin Gone
              THEN dlq \union {i} ELSE dlq
    /\ UNCHANGED <<webVars, queue, attempts, acked, dropped, todo, acks, tenantVars>>

\* A dead-lettered entry leaves the queue.
DropDead(i) ==
    /\ i \in dlq \ Gone
    /\ dropped' = dropped \union {i}
    /\ UNCHANGED <<webVars, queue, attempts, acked, dlq, consumerVars, tenantVars>>

-----------------------------------------------------------------------------
Consume(c) ==
    \/ Deliver(c)
    \/ \E i \in Ids :
        Process(c, i) \/ ProcessThrows(c, i) \/ SettleAck(c, i) \/ SettleRetry(c, i)

Next ==
    \/ \E r \in Requests : Send(r) \/ Answer(r) \/ FailRequest(r)
    \/ \E c \in Consumers : Consume(c) \/ Kill(c)
    \/ \E i \in Ids : DropDead(i)

Spec == Init /\ [][Next]_vars

(* Fairness. The platform delivers what is queued, runs invocations to      *)
(* their end or kills them, and removes what it has dead-lettered.          *)
FairSpec ==
    /\ Spec
    /\ \A c \in Consumers : WF_vars(Consume(c) \/ Kill(c))
    /\ WF_vars(\E i \in Ids : DropDead(i))

-----------------------------------------------------------------------------
(* Properties.                                                              *)

\* A message is marked as processed exactly when its row is stored, however
\* often it is sent, delivered, retried and cut short: a mark without the row
\* would turn every later delivery into a duplicate of a message that nobody
\* has, a row without the mark would fail them all (tenant-workspace.ts:89-111).
MarkedIsRecorded == processed = rows

\* An entry that leaves the queue by acknowledgement has been recorded
\* (index.ts:529-538).
AckedIsRecorded == \A i \in acked : queue[i] \in rows

\* What makes AckedIsRecorded inductive: ack() is called after processMessage.
AcksAreRecorded == \A c \in Consumers : \A i \in acks[c] : queue[i] \in rows

\* What makes AcceptedIsQueued inductive: what a request has handed over.
SentIsQueued ==
    \A r \in Requests :
        /\ position[r] <= Len(carries[r])
        /\ \A k \in 1..position[r] : \E i \in Ids : queue[i] = carries[r][k]

\* All of these with the types: the inductive invariant of the proofs.
QueueInv ==
    /\ TypeOK
    /\ MarkedIsRecorded
    /\ AckedIsRecorded
    /\ AcksAreRecorded
    /\ SentIsQueued

\* A payload is answered with 200 only when all its messages were queued
\* (index.ts:217-223); a request that fails half-way is not.
AcceptedIsQueued ==
    \A r \in Requests : status[r] = "answered" =>
        \A k \in DOMAIN carries[r] : \E i \in Ids : queue[i] = carries[r][k]

\* A queued message is recorded or dead-lettered in the end, also when
\* invocations are killed again and again: a killed delivery counts as one.
QueuedIsSettled ==
    \A m \in Messages :
        (\E i \in Ids : queue[i] = m) ~>
            (m \in rows \/ \E i \in dlq : queue[i] = m)

-----------------------------------------------------------------------------
(* The queue implements at-least-once delivery.                             *)

Delivery == INSTANCE EventDelivery WITH
    queued  <- {queue[i] : i \in Ids \ Gone},
    done    <- rows,
    dead    <- {queue[i] : i \in dlq},
    evicted <- {},
    full    <- FALSE

\* Each step of the webhook, the queue and the Durable Object is a step of
\* EventDelivery: a message's last entry leaves the queue only when the
\* message is recorded or dead-lettered.
ImplementsEventDelivery == Delivery!Spec
=============================================================================
