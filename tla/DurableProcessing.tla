------------------------- MODULE DurableProcessing -------------------------
(***************************************************************************)
(* The webhook, the Redis stream and the workers (RedisStreamBus) with     *)
(* what a worker does to the database while it processes an entry          *)
(* (MessageProcessing) in the place of the bus's two abstract outcomes:    *)
(* _process_entry awaits processor.execute, so the bus stands still at its *)
(* entry while the execution goes through its statements, acknowledges     *)
(* when execute returns, and counts an attempt when it raises. A process   *)
(* that dies takes the entry's execution and its open transaction along.   *)
(***************************************************************************)
EXTENDS RedisStreamBus

CONSTANTS
    Phones, PhoneOf, Commands, MaxRuns   \* see MessageProcessing

\* What MessageProcessing assumes of its constants.
ASSUME ProcessingAssumption ==
    /\ PhoneOf \in [Messages -> Phones]
    /\ Commands \subseteq Messages
    /\ MaxRuns \in Nat
    /\ IsFiniteSet(Workers)

VARIABLES
    optOut, customers, openConvs, inbound, outbound, sent,   \* stores
    step,       \* MessageProcessing's pc: the statement a worker is at
    current, phase, newCustomer, newConv, duplicate,         \* executions
    runs, afterOptOut,                                       \* history
    failures    \* history: messages one execution of which failed without a
                \* duplicate key, and without the death of the process

procVars == <<optOut, customers, openConvs, inbound, outbound, sent, step,
              current, phase, newCustomer, newConv, duplicate, runs, afterOptOut>>
allVars == <<vars, procVars, failures>>

\* What the processing side knows of the bus: the messages it has.
P == INSTANCE MessageProcessing WITH
    received <- {stream[i].msg : i \in Ids},
    pc       <- step

Start0 == Init /\ P!Init /\ failures = {}

-----------------------------------------------------------------------------
\* The webhook. Publishing a message for the first time is its reception.
Publish(m) ==
    /\ WebhookPublish(m)
    /\ IF Published(m) THEN UNCHANGED procVars ELSE P!Receive(m)

Request(m) ==
    /\ \/ WebhookMark(m)
       \/ WebhookDuplicate(m)
       \/ WebhookFail(m)
       \/ DedupeExpire(m)
    /\ UNCHANGED procVars

\* _process_entry calls execute with the event of its entry.
BeginExecution(w) ==
    /\ pc[w] = "entry"
    /\ step[w] = "idle"
    /\ UNCHANGED vars
    /\ \E i \in Ids : IsCurrent(w, i) /\ P!Begin(w, stream[i].msg)

\* A statement of an execution that goes on.
Continue(w) ==
    /\ UNCHANGED vars
    /\ P!Execute(w)
    /\ step'[w] # "idle"

\* execute returns: the message was a command, its sender is opted out, or
\* the reply was sent.
Return(w) ==
    /\ ExecuteOk(w)
    /\ P!CheckOptOut(w) \/ P!Send(w)
    /\ step'[w] = "idle"

\* Mutant: a duplicate key is taken for a message already processed.
SwallowsConflict(w) == ExecuteOk(w) /\ P!Conflict(w)

\* A unique key violated by a race leaves execute as an exception.
RaiseConflict(w) == ExecuteFail(w) /\ P!Conflict(w)

\* Any other exception.
RaiseError(w) ==
    /\ ExecuteFail(w)
    /\ P!Fail(w)
    /\ failures' = failures \union {current[w]}

\* The rest of the bus's loop.
BusStep(w) ==
    /\ \/ Start(w)
       \/ Claim(w)
       \/ Read(w)
       \/ HandleFailure(w)
       \/ Ack(w)
    /\ UNCHANGED procVars

\* The process dies, and PostgreSQL rolls its transaction back.
Die(w) ==
    /\ Crash(w)
    /\ IF step[w] = "idle" THEN UNCHANGED procVars ELSE P!Fail(w)

\* claim_idle_ms pass for an entry.
Wait == TimePasses /\ UNCHANGED procVars

Work(w) ==
    /\ \/ BeginExecution(w)
       \/ Continue(w)
       \/ Return(w)
       \/ RaiseConflict(w)
       \/ BusStep(w)
    /\ UNCHANGED failures

Serve ==
    \/ \E m \in Messages : (Publish(m) \/ Request(m)) /\ UNCHANGED failures
    \/ \E w \in Workers : Work(w)
    \/ \E w \in Workers : RaiseError(w)
    \/ \E w \in Workers : Die(w) /\ UNCHANGED failures
    \/ Wait /\ UNCHANGED failures

ServeSpec == Start0 /\ [][Serve]_allVars

(* Fairness of the workers alone: one that is up keeps running, one that    *)
(* died is restarted, and PostgreSQL and Redis answer (see RedisStreamBus).  *)
(* Nothing makes an execution fail, and claim_idle_ms need not ever pass.   *)
WorkersAreFair == \A w \in Workers : WF_allVars(Work(w))

FairServeSpec == ServeSpec /\ WorkersAreFair

-----------------------------------------------------------------------------
(* Properties.                                                              *)

Answered(m) == sent[m] > 0 /\ outbound[m] > 0 /\ inbound[m] > 0

\* What the customer is owed was done: a command has opted its sender out,
\* any other message was recorded and answered, or its sender is opted out.
Honoured(m) ==
    IF m \in Commands
    THEN PhoneOf[m] \in optOut
    ELSE Answered(m) \/ PhoneOf[m] \in optOut

\* End to end, a published message is honoured, on the dead-letter stream, has
\* an entry that will still be executed, or was pushed out of a stream by
\* maxlen newer entries: no crash between the commits, the send, the requeue
\* and the acknowledgement loses a message or acknowledges one that was only
\* half processed (event_bus.py:165-190, services.py:52-111).
NoMessageIsDropped ==
    \A m \in Messages :
        Published(m) => \/ Honoured(m)
                        \/ Dead(m)
                        \/ \E i \in Ids : stream[i].msg = m /\ Owed(i)
                        \/ Evicted(m)

DeliveredAgain(m) ==
    expiries[m] > 0 \/ \E i \in claimed : stream[i].msg = m

\* Attempts count executions: an entry's attempt number never exceeds the
\* executions that began before it, a dead-lettered message had all of its
\* executions, and it gets more than those only through a claim or an expired
\* key. In particular the executions a crash cuts short, which count as no
\* attempt (event_bus.py:169-177), come back through claims alone.
AttemptsAreExecutions ==
    /\ \A i \in Ids : stream[i].attempt <= runs[stream[i].msg]
    /\ \A m \in Messages :
        /\ Buried(m) => runs[m] > MaxRetries
        /\ runs[m] > MaxRetries + 1 => DeliveredAgain(m)

\* Two messages of a new customer race for the customer's row, and the loser
\* raises (repositories.py:410-413). That alone never uses its attempts up:
\* a message that was not delivered again dies only if something else failed.
RacesNeverKill ==
    \A m \in Messages : Buried(m) => m \in failures \/ DeliveredAgain(m)

\* An entry of the message is in no worker's hands and was not acknowledged:
\* its worker died, and only a later recovery delivers it again.
LeftPending(m) == \E i \in pending : stream[i].msg = m /\ ~Held(i)

\* A published message is eventually honoured or dead, whatever executions,
\* conflicts and crashes of others go on beside it, unless its own worker died
\* or a stream had no room for it: no wait for a transaction that another
\* worker has open, or has lost with its process, blocks it, nor does a
\* duplicate key, a retry or a batch (repositories.py:410-413,
\* event_bus.py:114-137, worker.py:33-41).
PublishedIsHonoured ==
    \A m \in Messages :
        Published(m) ~> Honoured(m) \/ Buried(m) \/ LeftPending(m) \/ Evicted(m)
=============================================================================
