---------------------- MODULE MessageProcessingProofs ----------------------
(***************************************************************************)
(* Theorems about MessageProcessing for any finite number of workers and   *)
(* any messages, phones and executions.                                    *)
(***************************************************************************)
EXTENDS MessageProcessing, FiniteSetTheorems, TLAPS

\* Every step keeps the types.
LEMMA TypePreserved ==
    ASSUME TypeOK, [Next]_vars
    PROVE  TypeOK'
PROOF
<1>1. ASSUME NEW m \in Messages, Receive(m) PROVE TypeOK'
  BY <1>1 DEF Receive, TypeOK, dbVars, txVars
<1>2. ASSUME NEW w \in Workers, NEW m \in Messages, Begin(w, m) PROVE TypeOK'
  BY <1>2, RunsAssumption DEF Begin, TypeOK, Goto, Points, dbVars, txVars
<1>3. ASSUME NEW w \in Workers, CheckOptOut(w) PROVE TypeOK'
  <2>1. Phone(w) \in Phones
    BY PhoneAssumption DEF TypeOK, Phone
  <2>2. pc' \in [Workers -> Points] /\ optOut' \subseteq Phones
    BY <1>3, <2>1 DEF CheckOptOut, OptOut, TypeOK, Goto, Points
  <2>3. phase' \in [Workers -> {"incoming", "outgoing"}]
    BY <1>3 DEF CheckOptOut, TypeOK
  <2> QED
    BY <1>3, <2>2, <2>3 DEF CheckOptOut, TypeOK, dbVars, txVars, historyVars
<1>4. ASSUME NEW w \in Workers, SelectCustomer(w) PROVE TypeOK'
  BY <1>4 DEF SelectCustomer, TypeOK, Goto, Points, dbVars, txVars, historyVars
<1>5. ASSUME NEW w \in Workers, InsertCustomer(w) PROVE TypeOK'
  BY <1>5 DEF InsertCustomer, TypeOK, Goto, Points, dbVars, historyVars
<1>6. ASSUME NEW w \in Workers, SelectConversation(w) PROVE TypeOK'
  BY <1>6 DEF SelectConversation, TypeOK, Goto, Points, dbVars, historyVars
<1>7. ASSUME NEW w \in Workers, SelectDuplicate(w) PROVE TypeOK'
  BY <1>7 DEF SelectDuplicate, TypeOK, Goto, Points, dbVars, historyVars
<1>8. ASSUME NEW w \in Workers, CommitCustomer(w), TypeOK
      PROVE  customers' \in [Phones -> Nat] /\ openConvs' \in [Phones -> Nat]
  <2> DEFINE c == IF newCustomer[w] THEN 1 ELSE 0
             o == IF newConv[w] THEN 1 ELSE 0
             p == Phone(w)
  <2>1. c \in Nat /\ o \in Nat /\ p \in Phones
    BY PhoneAssumption DEF TypeOK, Phone
  <2>2. /\ customers' = [customers EXCEPT ![p] = @ + c]
        /\ openConvs' = [openConvs EXCEPT ![p] = @ + o]
    BY <1>8 DEF CommitCustomer
  <2> HIDE DEF c, o, p
  <2> QED
    BY <2>1, <2>2 DEF TypeOK
<1>9. ASSUME NEW w \in Workers, CommitIncoming(w) PROVE TypeOK'
  <2>1. inbound' \in [Messages -> Nat]
    BY <1>9 DEF CommitIncoming, TypeOK
  <2> QED
    BY <1>8, <1>9, <2>1
    DEF CommitIncoming, TypeOK, Goto, Points, EndTransaction, historyVars
<1>10. ASSUME NEW w \in Workers, ComposeReply(w) PROVE TypeOK'
  BY <1>10 DEF ComposeReply, TypeOK, Goto, Points, dbVars, txVars, historyVars
<1>11. ASSUME NEW w \in Workers, CommitOutgoing(w) PROVE TypeOK'
  BY <1>8, <1>11
  DEF CommitOutgoing, TypeOK, Goto, Points, EndTransaction, historyVars
<1>12. ASSUME NEW w \in Workers, Send(w) PROVE TypeOK'
  BY <1>12 DEF Send, MaySend, TypeOK, Goto, Points, dbVars, txVars, historyVars
<1>13. ASSUME NEW w \in Workers, Conflict(w) \/ Fail(w) PROVE TypeOK'
  BY <1>13
  DEF Conflict, Fail, Abort, RollBack, EndTransaction, TypeOK, Goto, Points,
      dbVars, historyVars
<1>14. ASSUME UNCHANGED vars PROVE TypeOK'
  BY <1>14 DEF vars, TypeOK, dbVars, txVars, historyVars
<1> QED
  BY <1>1, <1>2, <1>3, <1>4, <1>5, <1>6, <1>7, <1>9, <1>10, <1>11, <1>12,
     <1>13, <1>14
  DEF Next, Execute

\* Type correctness of message processing.
THEOREM TypeCorrect == Spec => []TypeOK
PROOF
<1>1. Init => TypeOK
  BY RunsAssumption DEF Init, TypeOK, Points
<1>2. TypeOK /\ [Next]_vars => TypeOK'
  BY TypePreserved
<1> QED
  BY <1>1, <1>2, PTL DEF Spec

-----------------------------------------------------------------------------
(* One open conversation per customer.                                      *)

\* The part of CustomerInv about one worker, and about two.
WorkerInv(w) ==
    /\ newCustomer[w] => pc[w] \in InTransaction /\ customers[Phone(w)] = 0
    /\ newConv[w] => newCustomer[w]
    /\ pc[w] \in {"duplicate", "commit"} /\ newCustomer[w] => newConv[w]
    /\ pc[w] \in InTransaction /\ ~newCustomer[w] => customers[Phone(w)] = 1

Apart(v, w) ==
    v # w /\ newCustomer[v] /\ newCustomer[w] => Phone(v) # Phone(w)

\* A step that commits nothing, keeps the other workers as they are and at
\* most opens or closes this worker's transaction.
LEMMA LocalStep ==
    ASSUME TypeOK, CustomerInv, NEW w \in Workers,
           UNCHANGED <<customers, openConvs>>,
           \A v \in Workers \ {w} :
              /\ pc'[v] = pc[v] /\ current'[v] = current[v]
              /\ newCustomer'[v] = newCustomer[v] /\ newConv'[v] = newConv[v],
           WorkerInv(w)',
           \A v \in Workers \ {w} : Apart(v, w)'
    PROVE  CustomerInv'
PROOF
<1>1. OneOpenConversation'
  BY DEF CustomerInv, OneOpenConversation
<1>2. \A v \in Workers : WorkerInv(v)'
  BY DEF CustomerInv, WorkerInv, Phone
<1>3. \A v, u \in Workers : Apart(v, u)'
  BY DEF CustomerInv, Apart, Phone
<1> QED
  BY <1>1, <1>2, <1>3 DEF CustomerInv, WorkerInv, Apart

\* A commit of either transaction keeps customers and conversations equal.
LEMMA CommitStep ==
    ASSUME TypeOK, CustomerInv, NEW w \in Workers,
           pc[w] = "commit", CommitCustomer(w), EndTransaction(w),
           current' = current,
           NEW point \in Points \ InTransaction, Goto(w, point)
    PROVE  CustomerInv'
PROOF
<1> DEFINE p == Phone(w)
<1>1. p \in Phones
  BY PhoneAssumption DEF TypeOK, Phone
<1>2. newConv[w] = newCustomer[w]
  BY DEF CustomerInv, InTransaction, TypeOK
<1>3. /\ customers[p] = openConvs[p] /\ customers[p] <= 1
      /\ newCustomer[w] => customers[p] = 0
      /\ customers[p] \in Nat
  BY <1>1 DEF CustomerInv, OneOpenConversation, TypeOK
<1>4. /\ customers'[p] = customers[p] + (IF newCustomer[w] THEN 1 ELSE 0)
      /\ openConvs'[p] = openConvs[p] + (IF newConv[w] THEN 1 ELSE 0)
      /\ \A q \in Phones \ {p} :
            customers'[q] = customers[q] /\ openConvs'[q] = openConvs[q]
  BY <1>1 DEF CommitCustomer, TypeOK
<1>5. OneOpenConversation'
  BY <1>2, <1>3, <1>4 DEF CustomerInv, OneOpenConversation
<1>6. /\ ~newCustomer'[w] /\ ~newConv'[w] /\ pc'[w] \notin InTransaction
      /\ \A v \in Workers \ {w} :
            /\ pc'[v] = pc[v]
            /\ newCustomer'[v] = newCustomer[v] /\ newConv'[v] = newConv[v]
      /\ \A v \in Workers : Phone(v)' = Phone(v)
  BY DEF EndTransaction, Goto, TypeOK, Phone
<1>7. ASSUME NEW v \in Workers PROVE WorkerInv(v)'
  <2>1. CASE v = w
    BY <1>6, <2>1 DEF WorkerInv, InTransaction
  <2>2. CASE v # w
    <3>1. Phone(v) \in Phones
      BY PhoneAssumption DEF TypeOK, Phone
    <3>2. WorkerInv(v)
      BY DEF CustomerInv, WorkerInv
    <3>3. newCustomer[v] => customers'[Phone(v)] = 0
      <4>1. newCustomer[v] /\ newCustomer[w] => Phone(v) # p
        BY <2>2 DEF CustomerInv
      <4> QED
        BY <1>3, <1>4, <3>1, <3>2, <4>1 DEF WorkerInv
    <3>4. customers[Phone(v)] = 1 => customers'[Phone(v)] = 1
      BY <1>3, <1>4, <3>1
    <3> QED
      BY <1>6, <2>2, <3>2, <3>3, <3>4 DEF WorkerInv
  <2> QED BY <2>1, <2>2
<1>8. \A v, u \in Workers : Apart(v, u)'
  BY <1>6 DEF CustomerInv, Apart
<1> QED
  BY <1>5, <1>7, <1>8 DEF CustomerInv, WorkerInv, Apart

\* A transaction inserts a customer only if it found none, and the unique key
\* lets one of them commit.
LEMMA CustomerStep ==
    ASSUME TypeOK, CustomerInv, [Next]_vars
    PROVE  CustomerInv'
PROOF
<1>1. ASSUME NEW w \in Workers PROVE WorkerInv(w) /\ Phone(w) \in Phones
  BY PhoneAssumption DEF CustomerInv, WorkerInv, TypeOK, Phone
<1>2. ASSUME NEW m \in Messages, Receive(m) PROVE CustomerInv'
  BY <1>2 DEF Receive, CustomerInv, OneOpenConversation, Phone, dbVars, txVars
<1>3. ASSUME NEW w \in Workers, NEW m \in Messages, Begin(w, m) PROVE CustomerInv'
  <2>1. ~newCustomer[w] /\ ~newConv[w]
    BY <1>1, <1>3 DEF Begin, WorkerInv, InTransaction
  <2> QED
    BY <1>3, <2>1, LocalStep
    DEF Begin, Goto, TypeOK, WorkerInv, Apart, InTransaction, dbVars, txVars
<1>4. ASSUME NEW w \in Workers, CheckOptOut(w) PROVE CustomerInv'
  <2>1. ~newCustomer[w] /\ ~newConv[w]
    BY <1>1, <1>4 DEF CheckOptOut, WorkerInv, InTransaction
  <2>2. pc'[w] \in {"idle", "customer"} /\ \A v \in Workers \ {w} : pc'[v] = pc[v]
    BY <1>4 DEF CheckOptOut, Goto, TypeOK
  <2> QED
    BY <1>4, <2>1, <2>2, LocalStep
    DEF CheckOptOut, WorkerInv, Apart, InTransaction, dbVars, txVars
<1>5. ASSUME NEW w \in Workers, SelectCustomer(w) PROVE CustomerInv'
  <2>1. ~newCustomer[w] /\ ~newConv[w]
    BY <1>1, <1>5 DEF SelectCustomer, WorkerInv, InTransaction
  <2>2. customers[Phone(w)] = 0 \/ customers[Phone(w)] = 1
    BY <1>1 DEF CustomerInv, OneOpenConversation, TypeOK
  <2> QED
    BY <1>5, <2>1, <2>2, LocalStep
    DEF SelectCustomer, Goto, TypeOK, WorkerInv, Apart, InTransaction, Phone,
        dbVars, txVars
<1>6. ASSUME NEW w \in Workers, InsertCustomer(w) PROVE CustomerInv'
  <2>1. ~newConv[w]
    BY <1>1, <1>6 DEF InsertCustomer, WorkerInv, InTransaction
  <2>2. customers[Phone(w)] = 0
    BY <1>1, <1>6 DEF InsertCustomer, CustomerConflict, TypeOK
  <2>3. \A v \in Workers \ {w} : newCustomer[v] => Phone(v) # Phone(w)
    BY <1>6 DEF InsertCustomer, WaitsForCustomer
  <2>4. /\ newConv' = newConv /\ customers' = customers
        /\ openConvs' = openConvs /\ current' = current
        /\ newCustomer'[w] /\ pc'[w] = "conversation"
        /\ \A v \in Workers \ {w} :
              pc'[v] = pc[v] /\ newCustomer'[v] = newCustomer[v]
    BY <1>6 DEF InsertCustomer, Goto, TypeOK, dbVars
  <2>5. WorkerInv(w)'
    BY <2>1, <2>2, <2>4 DEF WorkerInv, InTransaction, Phone
  <2>6. \A v \in Workers \ {w} : Apart(v, w)'
    BY <2>3, <2>4 DEF Apart, Phone
  <2> QED
    BY <2>4, <2>5, <2>6, LocalStep
<1>7. ASSUME NEW w \in Workers, SelectConversation(w) PROVE CustomerInv'
  <2>1. openConvs[Phone(w)] = customers[Phone(w)]
    BY <1>1 DEF CustomerInv, OneOpenConversation
  <2>2. newConv'[w] = newCustomer[w]
    BY <1>1, <1>7, <2>1
    DEF SelectConversation, WorkerInv, InTransaction, TypeOK
  <2>3. \A v \in Workers \ {w} : Apart(v, w)
    BY DEF CustomerInv, Apart
  <2>4. /\ newCustomer' = newCustomer /\ customers' = customers
        /\ openConvs' = openConvs /\ current' = current
        /\ pc'[w] \in {"duplicate", "commit"}
        /\ \A v \in Workers \ {w} : pc'[v] = pc[v] /\ newConv'[v] = newConv[v]
    BY <1>7 DEF SelectConversation, Goto, TypeOK, dbVars
  <2>5. newCustomer[w] => customers[Phone(w)] = 0
    BY <1>1 DEF WorkerInv
  <2>6. ~newCustomer[w] => customers[Phone(w)] = 1
    BY <1>1, <1>7 DEF SelectConversation, WorkerInv, InTransaction
  <2>7. WorkerInv(w)'
    BY <2>2, <2>4, <2>5, <2>6 DEF WorkerInv, InTransaction, Phone
  <2>8. \A v \in Workers \ {w} : Apart(v, w)'
    BY <2>3, <2>4 DEF Apart, Phone
  <2> QED
    BY <2>4, <2>7, <2>8, LocalStep
<1>8. ASSUME NEW w \in Workers, SelectDuplicate(w) PROVE CustomerInv'
  <2>1. newCustomer[w] => newConv[w]
    BY <1>1, <1>8 DEF SelectDuplicate, WorkerInv
  <2>2. \A v \in Workers \ {w} : Apart(v, w)
    BY DEF CustomerInv, Apart
  <2> QED
    BY <1>1, <1>8, <2>1, <2>2, LocalStep
    DEF SelectDuplicate, Goto, TypeOK, WorkerInv, Apart, InTransaction, Phone,
        dbVars
<1>9. ASSUME NEW w \in Workers, CommitIncoming(w) \/ CommitOutgoing(w)
      PROVE  CustomerInv'
  BY <1>9, CommitStep DEF CommitIncoming, CommitOutgoing, Points, InTransaction
<1>10. ASSUME NEW w \in Workers, ComposeReply(w) \/ Send(w) PROVE CustomerInv'
  <2>1. ~newCustomer[w] /\ ~newConv[w]
    BY <1>1, <1>10 DEF ComposeReply, Send, MaySend, WorkerInv, InTransaction
  <2>2. /\ pc'[w] \in {"idle", "customer"}
        /\ \A v \in Workers \ {w} : pc'[v] = pc[v]
    BY <1>10 DEF ComposeReply, Send, Goto, TypeOK
  <2> QED
    BY <1>10, <2>1, <2>2, LocalStep
    DEF ComposeReply, Send, WorkerInv, Apart, InTransaction, dbVars, txVars
<1>11. ASSUME NEW w \in Workers, Conflict(w) \/ Fail(w) PROVE CustomerInv'
  BY <1>11, LocalStep
  DEF Conflict, Fail, Abort, RollBack, EndTransaction, Goto, TypeOK, WorkerInv,
      Apart, InTransaction, dbVars
<1>12. ASSUME UNCHANGED vars PROVE CustomerInv'
  BY <1>12 DEF vars, CustomerInv, OneOpenConversation, Phone, dbVars, txVars
<1> QED
  BY <1>2, <1>3, <1>4, <1>5, <1>6, <1>7, <1>8, <1>9, <1>10, <1>11, <1>12
  DEF Next, Execute

\* Two workers never open two conversations for one customer, for any number
\* of workers, messages and repeated executions.
THEOREM OneConversationPerCustomer == Spec => []OneOpenConversation
PROOF
<1>1. Init => CustomerInv
  BY DEF Init, CustomerInv, OneOpenConversation, InTransaction
<1>2. TypeOK /\ CustomerInv /\ [Next]_vars => CustomerInv'
  BY CustomerStep
<1>3. CustomerInv => OneOpenConversation
  BY DEF CustomerInv
<1> QED
  BY <1>1, <1>2, <1>3, TypeCorrect, PTL DEF Spec

-----------------------------------------------------------------------------
(* A stored opt-out is final.                                               *)

\* The opt-out check comes first and reads what is committed.
LEMMA OptOutStep ==
    ASSUME TypeOK, OptOutInv, [Next]_vars
    PROVE  OptOutInv'
PROOF
<1>1. /\ \A m \in afterOptOut : sent[m] = 0 /\ inbound[m] = 0
                                /\ PhoneOf[m] \in optOut
      /\ \A w \in Workers :
            /\ pc[w] # "idle" => current[w] \in received
            /\ pc[w] \notin {"idle", "optout"} => current[w] \notin afterOptOut
      /\ afterOptOut \subseteq received /\ received \subseteq Messages
      /\ DOMAIN pc = Workers /\ DOMAIN current = Workers
  BY DEF OptOutInv, OptOutIsFinal, TypeOK
<1>2. ASSUME NEW m \in Messages, Receive(m) PROVE OptOutInv'
  <2>1. \/ afterOptOut' = afterOptOut
        \/ afterOptOut' = afterOptOut \union {m} /\ PhoneOf[m] \in optOut
    <3>1. afterOptOut' = IF PhoneOf[m] \in optOut
                         THEN afterOptOut \union {m} ELSE afterOptOut
      BY <1>2 DEF Receive
    <3>2. CASE PhoneOf[m] \in optOut
      BY <3>1, <3>2
    <3>3. CASE PhoneOf[m] \notin optOut
      BY <3>1, <3>3
    <3> QED
      BY <3>2, <3>3
  <2>2. sent[m] = 0 /\ inbound[m] = 0
    BY <1>2 DEF Receive, OptOutInv
  <2> QED
    BY <1>1, <1>2, <2>1, <2>2 DEF Receive, OptOutInv, OptOutIsFinal, dbVars
<1>3. ASSUME NEW w \in Workers, NEW m \in Messages, Begin(w, m) PROVE OptOutInv'
  BY <1>1, <1>3 DEF Begin, Goto, OptOutInv, OptOutIsFinal, dbVars
<1>4. ASSUME NEW w \in Workers, CheckOptOut(w) PROVE OptOutInv'
  <2>1. /\ afterOptOut' = afterOptOut /\ received' = received
        /\ sent' = sent /\ inbound' = inbound /\ current' = current
        /\ optOut \subseteq optOut'
        /\ \A v \in Workers \ {w} : pc'[v] = pc[v]
        /\ pc[w] = "optout"
    BY <1>1, <1>4 DEF CheckOptOut, OptOut, Goto, dbVars, historyVars
  <2>2. \/ pc'[w] = "idle"
        \/ pc'[w] = "customer" /\ Phone(w) \notin optOut
    BY <1>1, <1>4 DEF CheckOptOut, IsOptedOut, Goto
  <2>3. pc'[w] # "idle" => current[w] \notin afterOptOut
    BY <1>1, <2>2 DEF Phone
  <2> QED
    BY <1>1, <2>1, <2>3 DEF OptOutInv, OptOutIsFinal
<1>5. ASSUME NEW w \in Workers, pc[w] \notin {"idle", "optout"},
             afterOptOut' = afterOptOut, received' = received,
             optOut' = optOut, current' = current,
             \A v \in Workers \ {w} : pc'[v] = pc[v],
             \A m \in Messages \ {current[w]} :
                sent'[m] = sent[m] /\ inbound'[m] = inbound[m]
      PROVE  OptOutInv'
  <2>1. current[w] \notin afterOptOut /\ current[w] \in received
    BY <1>1, <1>5
  <2>2. \A m \in afterOptOut : m \in Messages \ {current[w]}
    BY <1>1, <2>1
  <2> QED
    BY <1>1, <1>5, <2>1, <2>2 DEF OptOutInv, OptOutIsFinal
<1>6. ASSUME NEW w \in Workers,
             \/ SelectCustomer(w) \/ InsertCustomer(w) \/ SelectConversation(w)
             \/ SelectDuplicate(w) \/ ComposeReply(w)
      PROVE  OptOutInv'
  BY <1>1, <1>5, <1>6
  DEF SelectCustomer, InsertCustomer, SelectConversation, SelectDuplicate,
      ComposeReply, Goto, dbVars, historyVars
<1>7. ASSUME NEW w \in Workers,
             CommitIncoming(w) \/ CommitOutgoing(w) \/ Send(w)
      PROVE  OptOutInv'
  <2>1. \A m \in Messages \ {current[w]} :
           sent'[m] = sent[m] /\ inbound'[m] = inbound[m]
    BY <1>7 DEF CommitIncoming, CommitOutgoing, Send, TypeOK, dbVars
  <2> QED
    BY <1>1, <1>5, <1>7, <2>1
    DEF CommitIncoming, CommitOutgoing, Send, MaySend, Goto, historyVars
<1>8. ASSUME NEW w \in Workers, Conflict(w) \/ Fail(w) PROVE OptOutInv'
  BY <1>1, <1>8
  DEF Conflict, Fail, Abort, Goto, OptOutInv, OptOutIsFinal, dbVars, historyVars
<1>9. ASSUME UNCHANGED vars PROVE OptOutInv'
  BY <1>9 DEF vars, OptOutInv, OptOutIsFinal, dbVars, historyVars
<1> QED
  BY <1>2, <1>3, <1>4, <1>6, <1>7, <1>8, <1>9 DEF Next, Execute

\* A message received after its sender's opt-out was stored is neither
\* recorded nor answered, whatever else is being executed.
THEOREM StoredOptOutIsFinal == Spec => []OptOutIsFinal
PROOF
<1>1. Init => OptOutInv
  BY DEF Init, OptOutInv, OptOutIsFinal
<1>2. TypeOK /\ OptOutInv /\ [Next]_vars => OptOutInv'
  BY OptOutStep
<1>3. OptOutInv => OptOutIsFinal
  BY DEF OptOutInv
<1> QED
  BY <1>1, <1>2, <1>3, TypeCorrect, PTL DEF Spec

-----------------------------------------------------------------------------
(* One inbound row per message, and a recorded row for every reply.         *)

\* The part of RecordedInv about one worker.
RecordedBy(w) ==
    /\ duplicate[w] => pc[w] = "commit" /\ inbound[current[w]] > 0
    /\ PastIncoming(w) => inbound[current[w]] > 0

\* The workers about to send are finitely many.
LEMMA SendingFinite ==
    ASSUME NEW m
    PROVE  IsFiniteSet(Sending(m)) /\ Cardinality(Sending(m)) \in Nat
PROOF
<1>1. Sending(m) \in SUBSET Workers
  BY DEF Sending
<1> QED
  BY <1>1, WorkersAssumption, FS_Subset, FS_CardinalityType

\* A step of one worker that records and sends nothing.
LEMMA RecordedLocal ==
    ASSUME TypeOK, RecordedInv, NEW w \in Workers,
           UNCHANGED <<openConvs, inbound, outbound, sent>>,
           \A v \in Workers \ {w} :
              /\ pc'[v] = pc[v] /\ current'[v] = current[v]
              /\ phase'[v] = phase[v] /\ duplicate'[v] = duplicate[v],
           pc'[w] # "send",
           RecordedBy(w)'
    PROVE  RecordedInv'
PROOF
<1>1. InboundOnce' /\ RepliesAreRecorded'
  BY DEF RecordedInv, InboundOnce, RepliesAreRecorded
<1>2. ASSUME NEW v \in Workers PROVE RecordedBy(v)'
  BY <1>2 DEF RecordedInv, RecordedBy, PastIncoming
<1>3. ASSUME NEW m \in Messages
      PROVE  sent'[m] + Cardinality(Sending(m))' <= outbound'[m]
  <2>1. Sending(m)' \in SUBSET Sending(m)
    BY DEF Sending
  <2>2. Cardinality(Sending(m)') <= Cardinality(Sending(m))
    BY <2>1, SendingFinite, FS_Subset
  <2>3. IsFiniteSet(Sending(m)') /\ Cardinality(Sending(m)') \in Nat
    BY <2>1, SendingFinite, FS_Subset, FS_CardinalityType
  <2>4. sent[m] \in Nat /\ outbound[m] \in Nat
    BY DEF TypeOK
  <2>5. sent[m] + Cardinality(Sending(m)) <= outbound[m]
    BY DEF RecordedInv
  <2> QED
    BY <2>2, <2>3, <2>4, <2>5, SendingFinite
<1> QED
  BY <1>1, <1>2, <1>3 DEF RecordedInv, RecordedBy

\* The commit of record_incoming: the row was looked for, and the unique key
\* lets it in only if nobody else has made it.
LEMMA RecordedIncoming ==
    ASSUME TypeOK, CustomerInv, RecordedInv, NEW w \in Workers, CommitIncoming(w)
    PROVE  RecordedInv'
PROOF
<1> DEFINE m == current[w]
<1>1. /\ m \in Messages /\ inbound[m] \in Nat
      /\ pc[w] = "commit" /\ phase[w] = "incoming"
  BY DEF CommitIncoming, TypeOK
<1>2. /\ inbound'[m] = inbound[m] + (IF duplicate[w] THEN 0 ELSE 1)
      /\ \A n \in Messages \ {m} : inbound'[n] = inbound[n]
      /\ duplicate[w] \/ ~(inbound[m] > 0)
      /\ duplicate[w] => inbound[m] > 0
      /\ inbound[m] <= 1
  BY <1>1
  DEF CommitIncoming, MessageConflict, TypeOK, RecordedInv, InboundOnce
<1>3. inbound'[m] = 1 /\ \A n \in Messages : inbound'[n] >= inbound[n]
  <2>1. \A n \in Messages : inbound[n] \in Nat
    BY DEF TypeOK
  <2> QED
    BY <1>1, <1>2, <2>1
<1>4. /\ sent' = sent /\ outbound' = outbound /\ current' = current
      /\ phase' = phase /\ pc'[w] = "agent" /\ ~duplicate'[w]
      /\ \A v \in Workers \ {w} :
            pc'[v] = pc[v] /\ duplicate'[v] = duplicate[v]
  BY DEF CommitIncoming, EndTransaction, Goto, TypeOK
<1>5. \A p \in Phones : openConvs'[p] >= openConvs[p]
  <2> DEFINE d == IF newConv[w] THEN 1 ELSE 0
             q == Phone(w)
  <2>1. d \in Nat /\ openConvs' = [openConvs EXCEPT ![q] = @ + d]
    BY DEF CommitIncoming, CommitCustomer
  <2> HIDE DEF d, q
  <2> QED
    BY <2>1 DEF TypeOK
<1>6. InboundOnce'
  BY <1>2, <1>3 DEF RecordedInv, InboundOnce
<1>7. RepliesAreRecorded'
  <2>1. \A n \in Messages :
           /\ PhoneOf[n] \in Phones
           /\ openConvs[PhoneOf[n]] \in Nat /\ openConvs'[PhoneOf[n]] \in Nat
           /\ inbound[n] \in Nat /\ inbound'[n] \in Nat
    <3>1. TypeOK'
      BY TypePreserved DEF Next, Execute
    <3> QED
      BY <3>1, PhoneAssumption DEF TypeOK
  <2> QED
    BY <1>3, <1>4, <1>5, <2>1 DEF RecordedInv, RepliesAreRecorded
<1>8. ASSUME NEW v \in Workers PROVE RecordedBy(v)'
  <2>1. current[v] \in Messages /\ inbound[current[v]] \in Nat
        /\ inbound'[current[v]] \in Nat
    <3>1. TypeOK'
      BY TypePreserved DEF Next, Execute
    <3> QED
      BY <3>1 DEF TypeOK
  <2>2. CASE v = w
    BY <1>3, <1>4, <2>2 DEF RecordedBy
  <2>3. CASE v # w
    BY <1>3, <1>4, <2>1, <2>3
    DEF RecordedInv, RecordedBy, PastIncoming
  <2> QED BY <2>2, <2>3
<1>9. ASSUME NEW n \in Messages
      PROVE  sent'[n] + Cardinality(Sending(n))' <= outbound'[n]
  <2>1. Sending(n)' = Sending(n)
    BY <1>1, <1>4 DEF Sending
  <2> QED
    BY <1>4, <2>1 DEF RecordedInv
<1> QED
  BY <1>6, <1>7, <1>8, <1>9 DEF RecordedInv, RecordedBy

\* The commit of record_outgoing: one more row, and one more about to send.
LEMMA RecordedOutgoing ==
    ASSUME TypeOK, CustomerInv, RecordedInv, NEW w \in Workers, CommitOutgoing(w)
    PROVE  RecordedInv'
PROOF
<1> DEFINE m == current[w]
<1>1. /\ m \in Messages /\ PhoneOf[m] \in Phones
      /\ pc[w] = "commit" /\ phase[w] = "outgoing"
  BY PhoneAssumption DEF CommitOutgoing, TypeOK
<1>2. /\ outbound'[m] = outbound[m] + 1
      /\ \A n \in Messages \ {m} : outbound'[n] = outbound[n]
      /\ sent' = sent /\ inbound' = inbound /\ current' = current
      /\ phase' = phase /\ pc'[w] = "send" /\ ~duplicate'[w]
      /\ \A v \in Workers \ {w} :
            pc'[v] = pc[v] /\ duplicate'[v] = duplicate[v]
  BY <1>1 DEF CommitOutgoing, EndTransaction, Goto, TypeOK
<1>3. TypeOK'
  BY TypePreserved DEF Next, Execute
<1>4. inbound[m] > 0
  BY <1>1 DEF RecordedInv, PastIncoming, InTransaction
<1>5. /\ openConvs'[PhoneOf[m]] > 0
      /\ \A p \in Phones : openConvs'[p] >= openConvs[p]
  <2> DEFINE d == IF newConv[w] THEN 1 ELSE 0
             q == PhoneOf[m]
  <2>1. d \in Nat /\ openConvs' = [openConvs EXCEPT ![q] = @ + d]
    BY DEF CommitOutgoing, CommitCustomer, Phone
  <2>2. openConvs[q] > 0 \/ d = 1
    BY <1>1 DEF CustomerInv, OneOpenConversation, InTransaction, Phone, TypeOK
  <2>3. q \in Phones
    BY <1>1
  <2> HIDE DEF d, q
  <2>4. openConvs'[q] > 0 /\ \A p \in Phones : openConvs'[p] >= openConvs[p]
    BY <2>1, <2>2, <2>3 DEF TypeOK
  <2> QED
    BY <2>4 DEF q
<1>6. InboundOnce'
  BY <1>2 DEF RecordedInv, InboundOnce
<1>7. ASSUME NEW n \in Messages
      PROVE  /\ sent'[n] <= outbound'[n]
             /\ outbound'[n] > 0 => inbound'[n] > 0 /\ openConvs'[PhoneOf[n]] > 0
  <2>1. /\ sent[n] \in Nat /\ outbound[n] \in Nat /\ PhoneOf[n] \in Phones
        /\ openConvs[PhoneOf[n]] \in Nat /\ openConvs'[PhoneOf[n]] \in Nat
    BY <1>3, PhoneAssumption DEF TypeOK
  <2>2. /\ sent[n] <= outbound[n]
        /\ outbound[n] > 0 => inbound[n] > 0 /\ openConvs[PhoneOf[n]] > 0
    BY DEF RecordedInv, RepliesAreRecorded
  <2>3. CASE n = m
    BY <1>2, <1>4, <1>5, <2>1, <2>2, <2>3
  <2>4. CASE n # m
    BY <1>2, <1>5, <2>1, <2>2, <2>4
  <2> QED BY <2>3, <2>4
<1>8. ASSUME NEW v \in Workers PROVE RecordedBy(v)'
  <2>1. CASE v = w
    BY <1>2, <1>4, <2>1 DEF RecordedBy
  <2>2. CASE v # w
    BY <1>2, <2>2 DEF RecordedInv, RecordedBy, PastIncoming
  <2> QED BY <2>1, <2>2
<1>9. ASSUME NEW n \in Messages
      PROVE  sent'[n] + Cardinality(Sending(n))' <= outbound'[n]
  <2>1. /\ sent[n] \in Nat /\ outbound[n] \in Nat
        /\ sent[n] + Cardinality(Sending(n)) <= outbound[n]
    BY DEF TypeOK, RecordedInv
  <2>2. CASE n = m
    <3>1. Sending(n)' = Sending(n) \union {w} /\ w \notin Sending(n)
      BY <1>1, <1>2, <2>2 DEF Sending
    <3>2. Cardinality(Sending(n)') = Cardinality(Sending(n)) + 1
      BY <3>1, SendingFinite, FS_AddElement
    <3> QED
      BY <1>2, <2>1, <2>2, <3>2, SendingFinite
  <2>3. CASE n # m
    <3>1. Sending(n)' = Sending(n)
      BY <1>2, <2>3 DEF Sending
    <3> QED
      BY <1>2, <2>1, <2>3, <3>1
  <2> QED BY <2>2, <2>3
<1> QED
  BY <1>6, <1>7, <1>8, <1>9 DEF RecordedInv, RepliesAreRecorded, RecordedBy

\* A reply that is sent is one fewer about to be.
LEMMA RecordedSend ==
    ASSUME TypeOK, RecordedInv, NEW w \in Workers, Send(w)
    PROVE  RecordedInv'
PROOF
<1> DEFINE m == current[w]
<1>1. /\ m \in Messages /\ pc[w] = "send"
      /\ sent'[m] = sent[m] + 1
      /\ \A n \in Messages \ {m} : sent'[n] = sent[n]
      /\ UNCHANGED <<openConvs, inbound, outbound, current, phase, duplicate>>
      /\ pc'[w] = "idle" /\ \A v \in Workers \ {w} : pc'[v] = pc[v]
  BY DEF Send, MaySend, Goto, TypeOK, dbVars, txVars
<1>2. ASSUME NEW n \in Messages
      PROVE  sent'[n] + Cardinality(Sending(n))' <= outbound'[n]
  <2>1. /\ sent[n] \in Nat /\ outbound[n] \in Nat
        /\ sent[n] + Cardinality(Sending(n)) <= outbound[n]
    BY DEF TypeOK, RecordedInv
  <2>2. CASE n = m
    <3>1. Sending(n)' = Sending(n) \ {w} /\ w \in Sending(n)
      BY <1>1, <2>2 DEF Sending
    <3>2. Cardinality(Sending(n)') = Cardinality(Sending(n)) - 1
      BY <3>1, SendingFinite, FS_RemoveElement
    <3> QED
      BY <1>1, <2>1, <2>2, <3>2, SendingFinite
  <2>3. CASE n # m
    <3>1. Sending(n)' = Sending(n)
      BY <1>1, <2>3 DEF Sending
    <3> QED
      BY <1>1, <2>1, <2>3, <3>1
  <2> QED BY <2>2, <2>3
<1>3. ASSUME NEW n \in Messages PROVE sent'[n] <= outbound'[n]
  <2>1. Cardinality(Sending(n)') \in Nat
    <3>1. Sending(n)' \in SUBSET Workers
      BY DEF Sending
    <3> QED
      BY <3>1, WorkersAssumption, FS_Subset, FS_CardinalityType
  <2>2. sent'[n] \in Nat /\ outbound'[n] \in Nat
    BY <1>1 DEF TypeOK
  <2> QED
    BY <1>2, <2>1, <2>2
<1>4. InboundOnce' /\ RepliesAreRecorded'
  BY <1>1, <1>3 DEF RecordedInv, InboundOnce, RepliesAreRecorded
<1>5. ASSUME NEW v \in Workers PROVE RecordedBy(v)'
  BY <1>1 DEF RecordedInv, RecordedBy, PastIncoming, InTransaction
<1> QED
  BY <1>2, <1>4, <1>5 DEF RecordedInv, RecordedBy

\* A reply is committed before it is sent, and its message before the reply.
LEMMA RecordedStep ==
    ASSUME TypeOK, CustomerInv, RecordedInv, [Next]_vars
    PROVE  RecordedInv'
PROOF
<1>1. ASSUME NEW w \in Workers PROVE RecordedBy(w)
  BY DEF RecordedInv, RecordedBy
<1>2. ASSUME NEW m \in Messages, Receive(m) PROVE RecordedInv'
  BY <1>2
  DEF Receive, RecordedInv, InboundOnce, RepliesAreRecorded, PastIncoming,
      Sending, dbVars, txVars
<1>3. ASSUME NEW w \in Workers, NEW m \in Messages, Begin(w, m) PROVE RecordedInv'
  <2>1. ~duplicate[w]
    BY <1>1, <1>3 DEF Begin, RecordedBy
  <2> QED
    BY <1>3, <2>1, RecordedLocal
    DEF Begin, Goto, TypeOK, RecordedBy, PastIncoming, InTransaction, dbVars, txVars
<1>4. ASSUME NEW w \in Workers, CheckOptOut(w) PROVE RecordedInv'
  <2>1. ~duplicate[w]
    BY <1>1, <1>4 DEF CheckOptOut, RecordedBy
  <2>2. /\ \/ pc'[w] = "idle"
           \/ pc'[w] = "customer" /\ phase'[w] = "incoming"
        /\ \A v \in Workers \ {w} : pc'[v] = pc[v] /\ phase'[v] = phase[v]
    BY <1>4 DEF CheckOptOut, Goto, TypeOK
  <2> QED
    BY <1>4, <2>1, <2>2, RecordedLocal
    DEF CheckOptOut, RecordedBy, PastIncoming, InTransaction, dbVars, txVars
<1>5. ASSUME NEW w \in Workers,
             SelectCustomer(w) \/ InsertCustomer(w) \/ SelectConversation(w)
      PROVE  RecordedInv'
  <2>1. ~duplicate[w]
    BY <1>1, <1>5
    DEF SelectCustomer, InsertCustomer, SelectConversation, RecordedBy
  <2>2. /\ UNCHANGED <<openConvs, inbound, outbound, sent, current, phase, duplicate>>
        /\ pc[w] \in {"customer", "insert", "conversation"}
        /\ pc'[w] \in {"insert", "conversation", "duplicate", "commit"}
        /\ \A v \in Workers \ {w} : pc'[v] = pc[v]
    BY <1>5
    DEF SelectCustomer, InsertCustomer, SelectConversation, Goto, TypeOK,
        dbVars, txVars
  <2>3. RecordedBy(w)'
    BY <1>1, <2>1, <2>2 DEF RecordedBy, PastIncoming, InTransaction
  <2> QED
    BY <2>2, <2>3, RecordedLocal
<1>6. ASSUME NEW w \in Workers, SelectDuplicate(w) PROVE RecordedInv'
  <2>1. /\ UNCHANGED <<openConvs, inbound, outbound, sent, current, phase>>
        /\ pc[w] = "duplicate" /\ pc'[w] = "commit"
        /\ duplicate'[w] = (inbound[current[w]] > 0)
        /\ \A v \in Workers \ {w} :
              pc'[v] = pc[v] /\ duplicate'[v] = duplicate[v]
    BY <1>6 DEF SelectDuplicate, Goto, TypeOK, dbVars
  <2>2. RecordedBy(w)'
    BY <1>1, <2>1 DEF RecordedBy, PastIncoming, InTransaction
  <2> QED
    BY <2>1, <2>2, RecordedLocal
<1>7. ASSUME NEW w \in Workers, ComposeReply(w) PROVE RecordedInv'
  <2>1. /\ UNCHANGED <<openConvs, inbound, outbound, sent, current, duplicate>>
        /\ pc[w] = "agent" /\ pc'[w] = "customer"
        /\ \A v \in Workers \ {w} : pc'[v] = pc[v] /\ phase'[v] = phase[v]
    BY <1>7 DEF ComposeReply, Goto, TypeOK, dbVars, txVars
  <2>2. RecordedBy(w)'
    BY <1>1, <2>1 DEF RecordedBy, PastIncoming
  <2> QED
    BY <2>1, <2>2, RecordedLocal
<1>8. ASSUME NEW w \in Workers, Conflict(w) \/ Fail(w) PROVE RecordedInv'
  <2>1. /\ UNCHANGED <<openConvs, inbound, outbound, sent, current, phase>>
        /\ pc'[w] = "idle" /\ ~duplicate'[w]
        /\ \A v \in Workers \ {w} :
              pc'[v] = pc[v] /\ duplicate'[v] = duplicate[v]
    BY <1>8
    DEF Conflict, Fail, Abort, RollBack, EndTransaction, Goto, TypeOK, dbVars
  <2>2. RecordedBy(w)'
    BY <2>1 DEF RecordedBy, PastIncoming, InTransaction
  <2> QED
    BY <2>1, <2>2, RecordedLocal
<1>9. ASSUME UNCHANGED vars PROVE RecordedInv'
  BY <1>9
  DEF vars, RecordedInv, InboundOnce, RepliesAreRecorded, PastIncoming,
      Sending, dbVars, txVars
<1> QED
  BY <1>2, <1>3, <1>4, <1>5, <1>6, <1>7, <1>8, <1>9, RecordedIncoming,
     RecordedOutgoing, RecordedSend
  DEF Next, Execute

\* Initially nothing is recorded or sent.
LEMMA RecordedInit == Init => RecordedInv
PROOF
<1> SUFFICES ASSUME Init PROVE RecordedInv
  OBVIOUS
<1>1. \A m \in Messages : Sending(m) = {}
  BY DEF Init, Sending
<1>2. \A m \in Messages : Cardinality(Sending(m)) = 0
  BY <1>1, FS_EmptySet
<1>3. \A m \in Messages : sent[m] + Cardinality(Sending(m)) <= outbound[m]
  BY <1>2 DEF Init
<1> QED
  BY <1>3
  DEF Init, RecordedInv, InboundOnce, RepliesAreRecorded, PastIncoming,
      InTransaction

\* A message has one inbound row at most, whatever number of workers executes
\* it at once and again.
THEOREM InboundRowIsUnique == Spec => []InboundOnce
PROOF
<1>1. Init => CustomerInv
  BY DEF Init, CustomerInv, OneOpenConversation, InTransaction
<1>2. TypeOK /\ CustomerInv /\ [Next]_vars => CustomerInv'
  BY CustomerStep
<1>3. TypeOK /\ CustomerInv /\ RecordedInv /\ [Next]_vars => RecordedInv'
  BY RecordedStep
<1>4. RecordedInv => InboundOnce
  BY DEF RecordedInv
<1> QED
  BY <1>1, <1>2, <1>3, <1>4, RecordedInit, TypeCorrect, PTL DEF Spec

\* A reply reaches the customer only after a row of its own was committed, in
\* the open conversation of a message that is recorded itself.
THEOREM SentIsRecorded == Spec => []RepliesAreRecorded
PROOF
<1>1. Init => CustomerInv
  BY DEF Init, CustomerInv, OneOpenConversation, InTransaction
<1>2. TypeOK /\ CustomerInv /\ [Next]_vars => CustomerInv'
  BY CustomerStep
<1>3. TypeOK /\ CustomerInv /\ RecordedInv /\ [Next]_vars => RecordedInv'
  BY RecordedStep
<1>4. RecordedInv => RepliesAreRecorded
  BY DEF RecordedInv
<1> QED
  BY <1>1, <1>2, <1>3, <1>4, RecordedInit, TypeCorrect, PTL DEF Spec

\* The four invariants together, as TLC checks them: they are inductive.
THEOREM ProcessingInvariant == Spec => []ProcessingInv
PROOF
<1>1. Init => ProcessingInv
  <2>1. Init => TypeOK
    BY RunsAssumption DEF Init, TypeOK, Points
  <2>2. Init => CustomerInv /\ OptOutInv
    BY DEF Init, CustomerInv, OneOpenConversation, InTransaction,
           OptOutInv, OptOutIsFinal
  <2> QED
    BY <2>1, <2>2, RecordedInit DEF ProcessingInv
<1>2. ProcessingInv /\ [Next]_vars => ProcessingInv'
  BY TypePreserved, CustomerStep, OptOutStep, RecordedStep DEF ProcessingInv
<1> QED
  BY <1>1, <1>2, PTL DEF Spec
-----------------------------------------------------------------------------
\* Nothing that was done for a message or its sender is undone, and a message
\* is executed once more by Begin alone.
LEMMA NothingIsUndone ==
    ASSUME TypeOK, [Next]_vars
    PROVE  /\ optOut \subseteq optOut'
           /\ \A m \in Messages : /\ sent[m] <= sent'[m]
                                 /\ outbound[m] <= outbound'[m]
                                 /\ inbound[m] <= inbound'[m]
                                 /\ runs[m] <= runs'[m]
           /\ \A p \in Phones : customers[p] <= customers'[p]
PROOF
<1> DEFINE Kept == /\ optOut \subseteq optOut'
                   /\ \A m \in Messages : /\ sent[m] <= sent'[m]
                                         /\ outbound[m] <= outbound'[m]
                                         /\ inbound[m] <= inbound'[m]
                                         /\ runs[m] <= runs'[m]
                   /\ \A p \in Phones : customers[p] <= customers'[p]
<1>1. ASSUME UNCHANGED <<optOut, customers, inbound, outbound, sent, runs>>
      PROVE  Kept
  BY <1>1 DEF TypeOK
<1>2. ASSUME NEW m \in Messages, Receive(m) PROVE Kept
  BY <1>1, <1>2 DEF Receive, dbVars
<1>3. ASSUME NEW w \in Workers, NEW m \in Messages, Begin(w, m) PROVE Kept
  BY <1>3 DEF Begin, dbVars, TypeOK
<1>4. ASSUME NEW w \in Workers, CheckOptOut(w) PROVE Kept
  BY <1>4 DEF CheckOptOut, OptOut, dbVars, historyVars, TypeOK
<1>5. ASSUME NEW w \in Workers, CommitCustomer(w), NEW p \in Phones
      PROVE  customers[p] <= customers'[p]
  <2> DEFINE c == IF newCustomer[w] THEN 1 ELSE 0
  <2>1. c \in Nat /\ customers' = [customers EXCEPT ![Phone(w)] = @ + c]
    BY <1>5 DEF CommitCustomer
  <2> HIDE DEF c
  <2> QED
    BY <2>1 DEF TypeOK
<1>6. ASSUME NEW w \in Workers, CommitIncoming(w) PROVE Kept
  <2>1. \A m \in Messages : inbound[m] <= inbound'[m]
    BY <1>6 DEF CommitIncoming, TypeOK
  <2> QED
    BY <1>5, <1>6, <2>1 DEF CommitIncoming, historyVars, TypeOK
<1>7. ASSUME NEW w \in Workers, CommitOutgoing(w) PROVE Kept
  BY <1>5, <1>7 DEF CommitOutgoing, historyVars, TypeOK
<1>8. ASSUME NEW w \in Workers, Send(w) PROVE Kept
  BY <1>8 DEF Send, dbVars, historyVars, TypeOK
<1>9. ASSUME NEW w \in Workers,
             \/ SelectCustomer(w) \/ InsertCustomer(w) \/ SelectConversation(w)
             \/ SelectDuplicate(w) \/ ComposeReply(w) \/ Conflict(w) \/ Fail(w)
      PROVE  Kept
  BY <1>1, <1>9
  DEF SelectCustomer, InsertCustomer, SelectConversation, SelectDuplicate,
      ComposeReply, Conflict, Fail, Abort, dbVars, historyVars
<1>10. ASSUME UNCHANGED vars PROVE Kept
  BY <1>1, <1>10 DEF vars, dbVars, historyVars
<1> QED
  BY <1>2, <1>3, <1>4, <1>6, <1>7, <1>8, <1>9, <1>10 DEF Next, Execute
=============================================================================
