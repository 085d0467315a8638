------------------------- MODULE MessageProcessing -------------------------
(***************************************************************************)
(* What a worker does with one message, ProcessIncomingMessage.execute in  *)
(* Redis + PostgreSQL mode: the opt-out handler, the transaction that      *)
(* records the inbound message, the agent, the transaction that records    *)
(* the reply, and the reply itself.                                        *)
(*                                                                         *)
(* The bus delivers at least once (EventDelivery): any received message    *)
(* may be executed again, by any worker, also while another execution of   *)
(* it is still running.                                                    *)
(*                                                                         *)
(* Transactions run at PostgreSQL's READ COMMITTED level. A statement sees *)
(* what is committed and what its own transaction wrote; inserting a key   *)
(* another open transaction has inserted waits for that transaction, and   *)
(* fails if it committed. Rows are counted, not named.                     *)
(***************************************************************************)
EXTENDS Integers, FiniteSets

CONSTANTS
    Workers,
    Messages,   \* messages of one tenant
    Phones,     \* customers' phones
    PhoneOf,    \* the sender of each message
    Commands,   \* the messages whose text is BAJA, STOP or CANCELAR
    MaxRuns     \* bound: executions of one message in a behaviour

ASSUME PhoneAssumption ==
    PhoneOf \in [Messages -> Phones] /\ Commands \subseteq Messages
ASSUME RunsAssumption == MaxRuns \in Nat
ASSUME WorkersAssumption == IsFiniteSet(Workers)

VARIABLES
    received,      \* messages the bus has
    optOut,        \* phones in RedisOptOutStore
    \* --- committed rows
    customers,     \* customers rows of a phone
    openConvs,     \* conversations rows of a phone with status OPEN
    inbound,       \* messages rows with the provider id of a message
    outbound,      \* messages rows that reply to a message
    sent,          \* replies handed to the chat gateway, per message
    \* --- executions
    pc,            \* the statement each worker is about to execute
    current,       \* the message it executes
    phase,         \* record_incoming's transaction or record_outgoing's
    newCustomer,   \* its open transaction has inserted the customer
    newConv,       \* its open transaction has inserted a conversation
    duplicate,     \* its open transaction has found the message's row
    \* --- history
    runs,          \* executions begun, per message
    afterOptOut    \* messages received when the phone was in optOut

dbVars == <<customers, openConvs, inbound, outbound>>
txVars == <<newCustomer, newConv, duplicate>>
historyVars == <<runs, afterOptOut>>
vars == <<received, optOut, dbVars, sent, pc, current, phase, txVars, historyVars>>

Points == {"idle", "optout", "customer", "insert", "conversation",
           "duplicate", "commit", "agent", "send"}

TypeOK ==
    /\ received \subseteq Messages
    /\ optOut \subseteq Phones
    /\ customers \in [Phones -> Nat]
    /\ openConvs \in [Phones -> Nat]
    /\ inbound \in [Messages -> Nat]
    /\ outbound \in [Messages -> Nat]
    /\ sent \in [Messages -> Nat]
    /\ pc \in [Workers -> Points]
    /\ current \in [Workers -> Messages]
    /\ phase \in [Workers -> {"incoming", "outgoing"}]
    /\ newCustomer \in [Workers -> BOOLEAN]
    /\ newConv \in [Workers -> BOOLEAN]
    /\ duplicate \in [Workers -> BOOLEAN]
    /\ runs \in [Messages -> 0..MaxRuns]
    /\ afterOptOut \subseteq received

Init ==
    /\ received = {}
    /\ optOut = {}
    /\ customers = [p \in Phones |-> 0]
    /\ openConvs = [p \in Phones |-> 0]
    /\ inbound = [m \in Messages |-> 0]
    /\ outbound = [m \in Messages |-> 0]
    /\ sent = [m \in Messages |-> 0]
    /\ pc = [w \in Workers |-> "idle"]
    /\ \E m \in Messages : current = [w \in Workers |-> m]
    /\ phase = [w \in Workers |-> "incoming"]
    /\ newCustomer = [w \in Workers |-> FALSE]
    /\ newConv = [w \in Workers |-> FALSE]
    /\ duplicate = [w \in Workers |-> FALSE]
    /\ runs = [m \in Messages |-> 0]
    /\ afterOptOut = {}

Phone(w) == PhoneOf[current[w]]

\* Commit and rollback both end the transaction and release its locks.
EndTransaction(w) ==
    /\ newCustomer' = [newCustomer EXCEPT ![w] = FALSE]
    /\ newConv' = [newConv EXCEPT ![w] = FALSE]
    /\ duplicate' = [duplicate EXCEPT ![w] = FALSE]

Goto(w, point) == pc' = [pc EXCEPT ![w] = point]

-----------------------------------------------------------------------------
\* The webhook publishes a message.
Receive(m) ==
    /\ m \notin received
    /\ received' = received \union {m}
    /\ afterOptOut' = IF PhoneOf[m] \in optOut
                      THEN afterOptOut \union {m} ELSE afterOptOut
    /\ UNCHANGED <<optOut, dbVars, sent, pc, current, phase, txVars, runs>>

\* The bus hands a message to a worker; SanitizationHandler normalises it.
Begin(w, m) ==
    /\ pc[w] = "idle"
    /\ m \in received
    /\ runs[m] < MaxRuns
    /\ runs' = [runs EXCEPT ![m] = @ + 1]
    /\ current' = [current EXCEPT ![w] = m]
    /\ Goto(w, "optout")
    /\ UNCHANGED <<received, optOut, dbVars, sent, phase, txVars, afterOptOut>>

\* Mutant: the opt-out of a command is stored but not looked up.
IgnoresOptOut(p) == FALSE

IsOptedOut(p) == p \in optOut

OptOut(w) == optOut' = optOut \union {Phone(w)}

\* OptOutHandler: a command opts its sender out, any other message is
\* stopped if its sender is opted out.
CheckOptOut(w) ==
    /\ pc[w] = "optout"
    /\ \/ /\ current[w] \in Commands
          /\ OptOut(w)
          /\ Goto(w, "idle")
          /\ UNCHANGED phase
       \/ /\ current[w] \notin Commands
          /\ IsOptedOut(Phone(w))
          /\ Goto(w, "idle")
          /\ UNCHANGED <<optOut, phase>>
       \/ /\ current[w] \notin Commands
          /\ ~IsOptedOut(Phone(w))
          /\ Goto(w, "customer")
          /\ phase' = [phase EXCEPT ![w] = "incoming"]
          /\ UNCHANGED optOut
    /\ UNCHANGED <<received, dbVars, sent, current, txVars, historyVars>>

\* _get_or_create_conversation: the customer's row.
SelectCustomer(w) ==
    /\ pc[w] = "customer"
    /\ Goto(w, IF customers[Phone(w)] = 0 THEN "insert" ELSE "conversation")
    /\ UNCHANGED <<received, optOut, dbVars, sent, current, phase, txVars,
                   historyVars>>

\* Mutant: without uq_customers_tenant_phone the insert never fails.
NoCustomerKey(w) == FALSE

\* uq_customers_tenant_phone: the phone's row was committed meanwhile.
CustomerConflict(w) == customers[Phone(w)] > 0

\* Another open transaction has inserted the same phone.
WaitsForCustomer(w) ==
    \E v \in Workers \ {w} : newCustomer[v] /\ Phone(v) = Phone(w)

\* The flush of the new customer; see Conflict for the duplicate key.
InsertCustomer(w) ==
    /\ pc[w] = "insert"
    /\ ~WaitsForCustomer(w)
    /\ ~CustomerConflict(w)
    /\ newCustomer' = [newCustomer EXCEPT ![w] = TRUE]
    /\ Goto(w, "conversation")
    /\ UNCHANGED <<received, optOut, dbVars, sent, current, phase, newConv,
                   duplicate, historyVars>>

\* The customer's open conversation; a customer inserted by this very
\* transaction has none.
SelectConversation(w) ==
    /\ pc[w] = "conversation"
    /\ newConv' = [newConv EXCEPT ![w] =
                      newCustomer[w] \/ openConvs[Phone(w)] = 0]
    /\ Goto(w, IF phase[w] = "incoming" THEN "duplicate" ELSE "commit")
    /\ UNCHANGED <<received, optOut, dbVars, sent, current, phase, newCustomer,
                   duplicate, historyVars>>

\* record_incoming looks for a row with the message's provider id.
SelectDuplicate(w) ==
    /\ pc[w] = "duplicate"
    /\ duplicate' = [duplicate EXCEPT ![w] = inbound[current[w]] > 0]
    /\ Goto(w, "commit")
    /\ UNCHANGED <<received, optOut, dbVars, sent, current, phase, newCustomer,
                   newConv, historyVars>>

\* Mutant: without uq_messages_provider_id the flush never fails.
NoMessageKey(w) == FALSE

\* uq_messages_provider_id: another execution committed the row after
\* record_incoming looked for it.
MessageConflict(w) ==
    phase[w] = "incoming" /\ ~duplicate[w] /\ inbound[current[w]] > 0

CommitCustomer(w) ==
    /\ customers' = [customers EXCEPT ![Phone(w)] =
                        @ + (IF newCustomer[w] THEN 1 ELSE 0)]
    /\ openConvs' = [openConvs EXCEPT ![Phone(w)] =
                        @ + (IF newConv[w] THEN 1 ELSE 0)]

\* The commit of record_incoming's transaction; then the agent is created.
CommitIncoming(w) ==
    /\ pc[w] = "commit"
    /\ phase[w] = "incoming"
    /\ ~MessageConflict(w)
    /\ CommitCustomer(w)
    /\ inbound' = [inbound EXCEPT ![current[w]] =
                      @ + (IF duplicate[w] THEN 0 ELSE 1)]
    /\ EndTransaction(w)
    /\ Goto(w, "agent")
    /\ UNCHANGED <<received, optOut, outbound, sent, current, phase, historyVars>>

\* ChatbotAgentFactory.create, the classifier and the strategy answer; an
\* exception in any of them is a Fail step.
ComposeReply(w) ==
    /\ pc[w] = "agent"
    /\ phase' = [phase EXCEPT ![w] = "outgoing"]
    /\ Goto(w, "customer")
    /\ UNCHANGED <<received, optOut, dbVars, sent, current, txVars, historyVars>>

\* The commit of record_outgoing's transaction.
CommitOutgoing(w) ==
    /\ pc[w] = "commit"
    /\ phase[w] = "outgoing"
    /\ CommitCustomer(w)
    /\ outbound' = [outbound EXCEPT ![current[w]] = @ + 1]
    /\ EndTransaction(w)
    /\ Goto(w, "send")
    /\ UNCHANGED <<received, optOut, inbound, sent, current, phase, historyVars>>

\* Mutant: the reply is sent before it is recorded.
SendsFirst(w) == pc[w] = "agent"

MaySend(w) == pc[w] = "send"

\* chat.send, and execute returns.
Send(w) ==
    /\ MaySend(w)
    /\ sent' = [sent EXCEPT ![current[w]] = @ + 1]
    /\ Goto(w, "idle")
    /\ UNCHANGED <<received, optOut, dbVars, current, phase, txVars, historyVars>>

\* Mutant: the session of a failed execution is never rolled back.
LeavesTransactionOpen(w) == UNCHANGED txVars

RollBack(w) == EndTransaction(w)

Abort(w) ==
    /\ RollBack(w)
    /\ Goto(w, "idle")
    /\ UNCHANGED <<received, optOut, dbVars, sent, current, phase, historyVars>>

\* A flush violates a unique key: IntegrityError leaves execute.
Conflict(w) ==
    /\ \/ pc[w] = "insert" /\ ~WaitsForCustomer(w) /\ CustomerConflict(w)
       \/ pc[w] = "commit" /\ MessageConflict(w)
    /\ Abort(w)

\* Any other exception (database, decryption, tenant, strategy), or the death
\* of the process. The bus will deliver the message again.
Fail(w) ==
    /\ pc[w] # "idle"
    /\ Abort(w)

-----------------------------------------------------------------------------
Execute(w) ==
    \/ CheckOptOut(w)
    \/ SelectCustomer(w)
    \/ InsertCustomer(w)
    \/ SelectConversation(w)
    \/ SelectDuplicate(w)
    \/ CommitIncoming(w)
    \/ ComposeReply(w)
    \/ CommitOutgoing(w)
    \/ Send(w)
    \/ Conflict(w)

Next ==
    \/ \E m \in Messages : Receive(m)
    \/ \E w \in Workers, m \in Messages : Begin(w, m)
    \/ \E w \in Workers : Execute(w) \/ Fail(w)

Spec == Init /\ [][Next]_vars

(* Fairness. A running execution goes on: its awaits return. It may fail,   *)
(* but nothing makes it fail; the provider and the bus owe nothing.         *)
FairSpec == Spec /\ \A w \in Workers : WF_vars(Execute(w))

-----------------------------------------------------------------------------
(* Properties.                                                              *)

\* A phone has at most one open conversation, though nothing in the schema
\* says so and every execution selects before it inserts
\* (repositories.py:402-434): the customer's unique key decides, because a
\* customer and its first conversation are committed together.
OneOpenConversation ==
    \A p \in Phones : openConvs[p] = customers[p] /\ customers[p] <= 1

\* A message has at most one inbound row, however often and concurrently it
\* is executed (repositories.py:314-330).
InboundOnce == \A m \in Messages : inbound[m] <= 1

\* A reply that was sent has its own row, and rows of replies belong to a
\* recorded message (services.py:110, 55-56).
RepliesAreRecorded ==
    \A m \in Messages :
        /\ sent[m] <= outbound[m]
        /\ outbound[m] > 0 => inbound[m] > 0 /\ openConvs[PhoneOf[m]] > 0

InTransaction == {"conversation", "duplicate", "commit"}

\* What makes OneOpenConversation inductive: an open transaction that has
\* inserted its customer is the only one, nobody has committed that customer,
\* and it inserts the conversation too; one that found its customer finds the
\* conversation as well.
CustomerInv ==
    /\ OneOpenConversation
    /\ \A w \in Workers :
        /\ newCustomer[w] => pc[w] \in InTransaction /\ customers[Phone(w)] = 0
        /\ newConv[w] => newCustomer[w]
        /\ pc[w] \in {"duplicate", "commit"} /\ newCustomer[w] => newConv[w]
        /\ pc[w] \in InTransaction /\ ~newCustomer[w] => customers[Phone(w)] = 1
    /\ \A v, w \in Workers :
        v # w /\ newCustomer[v] /\ newCustomer[w] => Phone(v) # Phone(w)

\* Once the opt-out is stored, messages received later are neither recorded
\* nor answered (pipeline.py:43-49), whatever else is running.
OptOutIsFinal ==
    \A m \in afterOptOut : sent[m] = 0 /\ inbound[m] = 0

\* What makes OptOutIsFinal inductive: no execution of such a message is past
\* the opt-out handler.
OptOutInv ==
    /\ OptOutIsFinal
    /\ \A m \in afterOptOut : PhoneOf[m] \in optOut
    /\ \A m \in Messages \ received : sent[m] = 0 /\ inbound[m] = 0
    /\ \A w \in Workers :
        /\ pc[w] # "idle" => current[w] \in received
        /\ pc[w] \notin {"idle", "optout"} => current[w] \notin afterOptOut

\* Executions that have recorded a reply to m and not yet sent it.
Sending(m) == {w \in Workers : pc[w] = "send" /\ current[w] = m}

\* The message of an execution that is past record_incoming is recorded.
PastIncoming(w) ==
    \/ pc[w] \in {"agent", "send"}
    \/ pc[w] \in {"customer", "insert"} \union InTransaction /\ phase[w] = "outgoing"

\* What makes InboundOnce and RepliesAreRecorded inductive: who has found the
\* row of its message, or gone past the transaction that makes it, is right,
\* and a reply about to be sent has a row that is not that of another.
RecordedInv ==
    /\ InboundOnce
    /\ RepliesAreRecorded
    /\ \A w \in Workers :
        /\ duplicate[w] => pc[w] = "commit" /\ inbound[current[w]] > 0
        /\ PastIncoming(w) => inbound[current[w]] > 0
    /\ \A m \in Messages : sent[m] + Cardinality(Sending(m)) <= outbound[m]

\* The inductive invariant of the proofs, checked by TLC before it is proved.
ProcessingInv == TypeOK /\ CustomerInv /\ OptOutInv /\ RecordedInv

\* Every execution ends: no transaction waits for ever for another's insert
\* (repositories.py:410-413).
ExecutionsEnd == \A w \in Workers : pc[w] # "idle" ~> pc[w] = "idle"

\* "test_duplicate_message_is_not_sent_twice" (tests/test_chatbot.py:26): a
\* message executed twice is answered once.
AnsweredOnce == \A m \in Messages : sent[m] <= 1
=============================================================================
