---------------------------- MODULE InMemoryBus ----------------------------
(***************************************************************************)
(* Memory mode: the API process runs the only worker as a task             *)
(* (main.lifespan), InMemoryEventBus is an asyncio queue, and the pipeline *)
(* itself deduplicates (DeduplicationHandler) before the opt-out handler.  *)
(* The webhook publishes every call; nothing survives the process.         *)
(***************************************************************************)
EXTENDS Integers, Sequences, Functions

CONSTANTS
    Messages,     \* messages of one tenant
    Phones,       \* customers' phones
    PhoneOf,      \* the sender of each message
    Commands,     \* the messages whose text is BAJA, STOP or CANCELAR
    MaxCalls      \* bound: webhook calls in a behaviour

ASSUME SenderAssumption ==
    PhoneOf \in [Messages -> Phones] /\ Commands \subseteq Messages
ASSUME CallsAssumption == MaxCalls \in Nat

VARIABLES
    queue,       \* the asyncio queue
    unfinished,  \* its count of unfinished tasks, what join() waits for
    seen,        \* InMemoryDeduplicationStore
    optOut,      \* InMemoryOptOutStore
    inbound,     \* inbound entries of the conversations
    outbound,    \* outbound entries, as the messages they reply to
    replies,     \* ConsoleChatGateway.sent, as the messages replied to
    pc,          \* where the worker is
    current,     \* the message it executes
    \* --- history
    calls,       \* the messages of all webhook calls, in order
    failed,      \* messages whose execution raised
    stopped      \* messages the opt-out handler stopped

storeVars == <<seen, optOut>>
chatVars == <<inbound, outbound, replies>>
vars == <<queue, unfinished, storeVars, chatVars, pc, current,
          calls, failed, stopped>>

TypeOK ==
    /\ queue \in Seq(Messages)
    /\ unfinished \in Nat
    /\ seen \subseteq Messages
    /\ optOut \subseteq Phones
    /\ inbound \in Seq(Messages)
    /\ outbound \in Seq(Messages)
    /\ replies \in Seq(Messages)
    /\ pc \in {"get", "dedupe", "optout", "record", "reply", "send", "done", "down"}
    /\ current \in Messages
    /\ calls \in Seq(Messages)
    /\ failed \subseteq Messages
    /\ stopped \subseteq Messages

Init ==
    /\ queue = <<>>
    /\ unfinished = 0
    /\ seen = {}
    /\ optOut = {}
    /\ inbound = <<>>
    /\ outbound = <<>>
    /\ replies = <<>>
    /\ pc = "get"
    /\ current \in Messages
    /\ calls = <<>>
    /\ failed = {}
    /\ stopped = {}

Enqueued(m) == Append(queue, m)

\* Mutant: the webhook marks the message as in Redis mode.
WebhookMarks(m) == seen \union {m}

\* With an embedded worker the webhook leaves deduplication to the pipeline.
SeenAfterCall(m) == seen

\* The webhook: publish, 202.
Webhook(m) ==
    /\ pc # "down"
    /\ Len(calls) < MaxCalls
    /\ calls' = Append(calls, m)
    /\ queue' = Enqueued(m)
    /\ unfinished' = unfinished + 1
    /\ seen' = SeenAfterCall(m)
    /\ UNCHANGED <<optOut, chatVars, pc, current, failed, stopped>>

\* queue.get, and SanitizationHandler.
Get ==
    /\ pc = "get"
    /\ queue # <<>>
    /\ current' = Head(queue)
    /\ queue' = Tail(queue)
    /\ pc' = "dedupe"
    /\ UNCHANGED <<unfinished, storeVars, chatVars, calls, failed, stopped>>

\* Mutant: the store does not remember the message.
RemembersNothing(m) == seen

Remembered(m) == seen \union {m}

\* DeduplicationHandler: the first execution of a message goes on.
Deduplicate ==
    /\ pc = "dedupe"
    /\ pc' = IF current \in seen THEN "done" ELSE "optout"
    /\ seen' = Remembered(current)
    /\ UNCHANGED <<queue, unfinished, optOut, chatVars, current,
                   calls, failed, stopped>>

\* Mutant: only the command itself is stopped.
StopsMessage(m) == m \in Commands

Stops(m) == PhoneOf[m] \in optOut

\* OptOutHandler.
CheckOptOut ==
    /\ pc = "optout"
    /\ \/ /\ current \in Commands
          /\ optOut' = optOut \union {PhoneOf[current]}
          /\ stopped' = stopped \union {current}
          /\ pc' = "done"
       \/ /\ current \notin Commands /\ Stops(current)
          /\ stopped' = stopped \union {current}
          /\ pc' = "done"
          /\ UNCHANGED optOut
       \/ /\ current \notin Commands /\ ~Stops(current)
          /\ pc' = "record"
          /\ UNCHANGED <<optOut, stopped>>
    /\ UNCHANGED <<queue, unfinished, seen, chatVars, current, calls, failed>>

\* record_incoming keeps one entry per message id.
RecordIncoming ==
    /\ pc = "record"
    /\ inbound' = IF current \in Range(inbound) THEN inbound
                  ELSE Append(inbound, current)
    /\ pc' = "reply"
    /\ UNCHANGED <<queue, unfinished, storeVars, outbound, replies, current,
                   calls, failed, stopped>>

\* The agent answers and record_outgoing keeps its reply.
RecordOutgoing ==
    /\ pc = "reply"
    /\ outbound' = Append(outbound, current)
    /\ pc' = "send"
    /\ UNCHANGED <<queue, unfinished, storeVars, inbound, replies, current,
                   calls, failed, stopped>>

\* chat.send.
Send ==
    /\ pc = "send"
    /\ replies' = Append(replies, current)
    /\ pc' = "done"
    /\ UNCHANGED <<queue, unfinished, storeVars, inbound, outbound, current,
                   calls, failed, stopped>>

\* Mutant: the loop executes a message again until it succeeds.
RetriesForever == "record"

AfterFailure == "done"

\* execute raises (database, unknown tenant, decryption, no services): the
\* loop logs it and forgets the message.
Fail ==
    /\ pc \in {"record", "reply", "send"}
    /\ failed' = failed \union {current}
    /\ pc' = AfterFailure
    /\ UNCHANGED <<queue, unfinished, storeVars, chatVars, current, calls, stopped>>

\* task_done.
Finish ==
    /\ pc = "done"
    /\ unfinished' = unfinished - 1
    /\ pc' = "get"
    /\ UNCHANGED <<queue, storeVars, chatVars, current, calls, failed, stopped>>

\* Mutant: task_done is called for a message the worker never took.
OneMore == 1

\* The messages the worker has taken and not counted as done.
InHand == IF pc \in {"get", "down"} THEN 0 ELSE 1

\* The lifespan ends and cancels the worker: the finally clause counts the
\* message it holds as done, the queued ones are gone.
Shutdown ==
    /\ pc # "down"
    /\ pc' = "down"
    /\ unfinished' = unfinished - InHand
    /\ UNCHANGED <<queue, storeVars, chatVars, current, calls, failed, stopped>>

-----------------------------------------------------------------------------
Work ==
    \/ Get
    \/ Deduplicate
    \/ CheckOptOut
    \/ RecordIncoming
    \/ RecordOutgoing
    \/ Send
    \/ Fail
    \/ Finish

Next == (\E m \in Messages : Webhook(m)) \/ Work \/ Shutdown

Spec == Init /\ [][Next]_vars

(* Fairness. The worker task is scheduled whenever it can run.              *)
FairSpec == Spec /\ WF_vars(Work)

-----------------------------------------------------------------------------
(* Properties.                                                              *)

\* The i-th element of a sequence is the first m in it.
IsFirst(s, i, m) == s[i] = m /\ \A j \in 1..i - 1 : s[j] # m

First(s, m) == CHOOSE i \in DOMAIN s : IsFirst(s, i, m)

\* The webhook call that first carried a message.
FirstCall(m) == First(calls, m)

\* One worker and one queue answer in the order of the first calls, each
\* message once, though webhook calls are repeated at any time
\* (event_bus.py:54-69, pipeline.py:31-34).
AnsweredInOrder ==
    \A i, j \in DOMAIN replies :
        i < j => FirstCall(replies[i]) < FirstCall(replies[j])

\* A message first received after a STOP of its phone is not answered, the
\* worker being alone (tests/test_chatbot.py:36, pipeline.py:43-49; two workers
\* on Redis may take the two messages in either order).
StopBlocksLaterMessages ==
    \A m \in Range(replies), c \in Commands \intersect Range(calls) :
        PhoneOf[c] = PhoneOf[m] => FirstCall(m) < FirstCall(c)

\* The worker holds a message it has not counted as done.
Holds(m) == pc \notin {"get", "down"} /\ current = m

\* A message that is no longer queued was answered, stopped, or lost to an
\* exception: the webhook and the pipeline never both take it for a duplicate
\* (main.py:499-507, event_bus.py:60-69).
LostOnlyByFailure ==
    pc # "down" =>
        \A m \in Range(calls) \ Range(queue) :
            m \in Range(replies) \union stopped \union failed \/ Holds(m)

\* What join() relies on: the count is the queued messages and the one in
\* hand, after exceptions and cancellation too (event_bus.py:69).
CountIsExact ==
    unfinished = Len(queue) + IF pc \in {"get", "down"} THEN 0 ELSE 1

\* The calls whose messages the worker has taken, and those it has looked up.
Taken == Len(calls) - Len(queue)
LookedUp == IF pc = "dedupe" THEN Taken - 1 ELSE Taken

\* The queue holds the messages of the calls not yet taken, in their order;
\* the message in hand is that of the last call taken, and what the pipeline
\* has seen are those it has looked up.
CallsInOrder ==
    /\ Taken >= 0
    /\ \A k \in DOMAIN queue : queue[k] = calls[Taken + k]
    /\ pc \notin {"get", "down"} => Taken > 0 /\ current = calls[Taken]
    /\ pc # "down" => seen = {calls[i] : i \in 1..LookedUp}
    /\ pc \in {"optout", "record", "reply", "send"} =>
          \A i \in 1..Taken - 1 : calls[i] # current

\* No call up to the i-th carries a command of the sender of m.
NoCommand(m, i) ==
    \A k \in 1..i : calls[k] \in Commands => PhoneOf[calls[k]] # PhoneOf[m]

\* The commands looked up have opted their senders out, which a message that
\* goes on has passed.
CommandsAreObeyed ==
    /\ pc # "down" =>
          \A k \in 1..(IF pc \in {"dedupe", "optout"} THEN Taken - 1 ELSE Taken) :
              calls[k] \in Commands => PhoneOf[calls[k]] \in optOut
    /\ pc \in {"record", "reply", "send"} => NoCommand(current, Taken)

\* Replies come from calls before the one in hand, each after the other's and
\* before any command of their sender.
RepliesInOrder ==
    /\ \A m \in Range(calls) : \E i \in DOMAIN calls : IsFirst(calls, i, m)
    /\ \A i \in DOMAIN replies :
          /\ replies[i] \in Range(calls)
          /\ FirstCall(replies[i]) <= Taken
          /\ pc \in {"dedupe", "optout", "record", "reply", "send"} =>
                FirstCall(replies[i]) < Taken
          /\ NoCommand(replies[i], FirstCall(replies[i]))
    /\ AnsweredInOrder

\* What was seen has an outcome, unless it is in hand and on its way.
SeenIsSettled ==
    pc # "down" =>
        \A m \in seen :
            \/ m \in Range(replies) \union stopped \union failed
            \/ pc \in {"optout", "record", "reply", "send"} /\ current = m

\* The inductive invariant of the proofs: the types, the count, and what the
\* order of calls makes of the replies.
MemoryInv ==
    /\ TypeOK
    /\ CountIsExact
    /\ CallsInOrder
    /\ CommandsAreObeyed
    /\ RepliesInOrder
    /\ SeenIsSettled

\* The queue drains while the process lives: one bad message stops nothing
\* (event_bus.py:62-69).
QueueDrains == unfinished > 0 ~> (unfinished = 0 \/ pc = "down")
=============================================================================
