------------------------ MODULE CloudflareQueueProofs ------------------------
(***************************************************************************)
(* Theorems about CloudflareQueue for any number of messages, requests and *)
(* invocations, any payloads, batch size and retry limit.                  *)
(***************************************************************************)
EXTENDS CloudflareQueue, TLAPS

\* What a request carries is a sequence of messages.
LEMMA CarriesType ==
    ASSUME TypeOK, NEW r \in Requests
    PROVE  /\ carries[r] \in Seq(Messages)
           /\ Len(carries[r]) \in Nat
           /\ DOMAIN carries[r] = 1..Len(carries[r])
           /\ \A k \in 1..Len(carries[r]) : carries[r][k] \in Messages
PROOF
<1>1. carries \in [Requests -> Seq(Messages)]
  BY PayloadsAssumption DEF TypeOK
<1>2. carries[r] \in Seq(Messages)
  BY <1>1
<1> QED
  BY <1>2

\* What Send does to the queue: one more entry, the others unchanged.
LEMMA SendAppends ==
    ASSUME TypeOK, NEW r \in Requests, Send(r)
    PROVE  /\ position[r] + 1 \in 1..Len(carries[r])
           /\ queue' \in Seq(Messages)
           /\ Len(queue) \in Nat
           /\ Len(queue') = Len(queue) + 1
           /\ Ids' = Ids \union {Len(queue) + 1}
           /\ \A i \in Ids : queue'[i] = queue[i]
           /\ queue'[Len(queue) + 1] = carries[r][position[r] + 1]
           /\ attempts' \in [Ids' -> 0..MaxRetries + 1]
PROOF
<1> DEFINE m == carries[r][position[r] + 1]
           n == MaxRetries + 1
<1>1. position[r] + 1 \in 1..Len(carries[r]) /\ m \in Messages
  BY CarriesType DEF Send, TypeOK
<1>2. queue \in Seq(Messages) /\ queue' = Append(queue, m)
  BY DEF Send, TypeOK
<1>3. n \in Nat /\ attempts \in [1..Len(queue) -> 0..n]
  BY QueueAssumption DEF TypeOK, Ids
<1>4. attempts' = Append(attempts, 0)
  BY DEF Send
<1> HIDE DEF m, n
<1>5. /\ queue' \in Seq(Messages)
      /\ Len(queue) \in Nat
      /\ Len(queue') = Len(queue) + 1
      /\ \A i \in 1..Len(queue) : queue'[i] = queue[i]
      /\ queue'[Len(queue) + 1] = m
  BY <1>1, <1>2
<1>6. Ids' = Ids \union {Len(queue) + 1}
  BY <1>5 DEF Ids
<1>7. attempts' \in [1..Len(queue) + 1 -> 0..n]
  <2> DEFINE l == Len(queue)
             T == 0..n
  <2>1. l \in Nat /\ 0 \in T /\ attempts \in [1..l -> T]
    BY <1>3, <1>5
  <2> HIDE DEF l, T
  <2>2. attempts \in Seq(T)
    BY <2>1
  <2>3. Len(attempts) = l
    BY <2>1, <2>2
  <2>4. Append(attempts, 0) \in Seq(T) /\ Len(Append(attempts, 0)) = l + 1
    BY <2>1, <2>2, <2>3
  <2>5. ASSUME NEW q \in Seq(T) PROVE q \in [1..Len(q) -> T]
    OBVIOUS
  <2>6. Append(attempts, 0) \in [1..Len(Append(attempts, 0)) -> T]
    BY <2>4, <2>5
  <2>7. Append(attempts, 0) \in [1..l + 1 -> T]
    BY <2>4, <2>6
  <2> QED
    BY <1>4, <2>7 DEF l, T
<1> QED
  BY <1>1, <1>5, <1>6, <1>7 DEF Ids, m, n

\* processMessage keeps the types and what was recorded.
LEMMA RecordKeepsTypes ==
    ASSUME TypeOK, NEW m \in Messages, ProcessMessage(m) \/ UNCHANGED tenantVars
    PROVE  /\ processed' \subseteq Messages
           /\ rows \subseteq rows'
           /\ rows' \subseteq Messages
           /\ MarkedIsRecorded => MarkedIsRecorded'
BY DEF ProcessMessage, tenantVars, TypeOK, MarkedIsRecorded

\* Every step keeps the types.
LEMMA TypePreserved ==
    ASSUME TypeOK, [Next]_vars
    PROVE  TypeOK'
PROOF
<1>1. ASSUME NEW r \in Requests, Send(r) PROVE TypeOK'
  <2>1. /\ queue' \in Seq(Messages) /\ Ids \subseteq Ids'
        /\ attempts' \in [Ids' -> 0..MaxRetries + 1]
    BY <1>1, SendAppends
  <2>2. position' \in [Requests -> Nat]
    BY <1>1 DEF Send, TypeOK
  <2>3. ASSUME NEW S, S \subseteq Ids PROVE S \subseteq Ids'
    BY <2>1, <2>3
  <2>4. ASSUME NEW f, f \in [Consumers -> SUBSET Ids]
        PROVE  f \in [Consumers -> SUBSET Ids']
    BY <2>1, <2>4
  <2>5. UNCHANGED <<carries, status, acked, dlq, dropped, todo, acks, retries,
                    processed, rows>>
    BY <1>1 DEF Send, consumerVars, tenantVars
  <2>6. acked' \subseteq Ids' /\ dlq' \subseteq Ids'
    BY <2>1, <2>5 DEF TypeOK
  <2>7. /\ todo' \in [Consumers -> SUBSET Ids']
        /\ acks' \in [Consumers -> SUBSET Ids']
        /\ retries' \in [Consumers -> SUBSET Ids']
    BY <2>4, <2>5 DEF TypeOK
  <2> QED
    BY <2>1, <2>2, <2>5, <2>6, <2>7 DEF TypeOK
<1>2. ASSUME NEW r \in Requests, Answer(r) \/ FailRequest(r) PROVE TypeOK'
  BY <1>2
  DEF Answer, FailRequest, TypeOK, Ids, queueVars, consumerVars, tenantVars
<1>3. ASSUME NEW c \in Consumers, Deliver(c) PROVE TypeOK'
  <2>1. PICK batch \in SUBSET Deliverable :
           /\ todo' = [todo EXCEPT ![c] = batch]
           /\ attempts' = [i \in Ids |-> attempts[i] + IF i \in batch THEN 1 ELSE 0]
    BY <1>3 DEF Deliver
  <2>2. \A i \in Ids : attempts[i] + (IF i \in batch THEN 1 ELSE 0) \in 0..MaxRetries + 1
    BY <2>1, QueueAssumption DEF Deliverable, TypeOK
  <2>3. batch \subseteq Ids
    BY <2>1 DEF Deliverable
  <2> QED
    BY <1>3, <2>1, <2>2, <2>3 DEF Deliver, TypeOK, Ids, webVars, tenantVars
<1>4. ASSUME NEW c \in Consumers, NEW i \in Ids, Process(c, i) \/ ProcessThrows(c, i)
      PROVE  TypeOK'
  <2>1. queue[i] \in Messages
    BY DEF TypeOK, Ids
  <2>2. processed' \subseteq Messages /\ rows' \subseteq Messages
    BY <1>4, <2>1, RecordKeepsTypes DEF Process, ProcessThrows
  <2>3. UNCHANGED <<webVars, queueVars>> /\ Ids' = Ids
    BY <1>4 DEF Process, ProcessThrows, Ids, queueVars
  <2>4. /\ todo' \in [Consumers -> SUBSET Ids]
        /\ acks' \in [Consumers -> SUBSET Ids]
        /\ retries' \in [Consumers -> SUBSET Ids]
    <3> DEFINE I == Ids
    <3>1. /\ i \in I /\ todo \in [Consumers -> SUBSET I]
          /\ acks \in [Consumers -> SUBSET I] /\ retries \in [Consumers -> SUBSET I]
      BY DEF TypeOK
    <3> HIDE DEF I
    <3>2. CASE Process(c, i)
      BY <3>1, <3>2 DEF Process, I
    <3>3. CASE ProcessThrows(c, i)
      BY <3>1, <3>3 DEF ProcessThrows, Retry, I
    <3> QED
      BY <1>4, <3>2, <3>3
  <2>5. UNCHANGED <<carries, position, status, queue, attempts, acked, dlq, dropped>>
    BY <2>3 DEF webVars, queueVars
  <2> QED
    BY <2>2, <2>3, <2>4, <2>5 DEF TypeOK
<1>5. ASSUME NEW c \in Consumers, Kill(c) PROVE TypeOK'
  BY <1>5, SMTT(20) DEF Kill, TypeOK, Ids, webVars, queueVars, tenantVars
<1>6. ASSUME NEW c \in Consumers, NEW i \in Ids, SettleAck(c, i) PROVE TypeOK'
  BY <1>6 DEF SettleAck, TypeOK, Ids, webVars, tenantVars
<1>7. ASSUME NEW c \in Consumers, NEW i \in Ids, SettleRetry(c, i) PROVE TypeOK'
  BY <1>7 DEF SettleRetry, TypeOK, Ids, webVars, tenantVars
<1>8. ASSUME NEW i \in Ids, DropDead(i) PROVE TypeOK'
  BY <1>8 DEF DropDead, TypeOK, Ids, webVars, consumerVars, tenantVars
<1>9. ASSUME UNCHANGED vars PROVE TypeOK'
  BY <1>9 DEF vars, TypeOK, Ids, webVars, queueVars, consumerVars, tenantVars
<1> QED
  BY <1>1, <1>2, <1>3, <1>4, <1>5, <1>6, <1>7, <1>8, <1>9 DEF Next, Consume

\* The initial states have the types.
LEMMA TypeInit == Init => TypeOK
PROOF
<1> SUFFICES ASSUME Init PROVE TypeOK
  OBVIOUS
<1>1. queue \in Seq(Messages) /\ Ids = {} /\ attempts \in [Ids -> 0..MaxRetries + 1]
  BY DEF Init, Ids
<1> QED
  BY <1>1 DEF Init, TypeOK

\* Type correctness of the Cloudflare queue.
THEOREM TypeCorrect == Spec => []TypeOK
PROOF
<1>1. TypeOK /\ [Next]_vars => TypeOK'
  BY TypePreserved
<1> QED
  BY <1>1, TypeInit, PTL DEF Spec

-----------------------------------------------------------------------------
(* What is recorded, acknowledged and accepted.                             *)

\* Entries and the record only grow.
LEMMA Monotone ==
    ASSUME TypeOK, [Next]_vars
    PROVE  /\ Ids \subseteq Ids'
           /\ \A i \in Ids : queue'[i] = queue[i]
           /\ rows \subseteq rows'
           /\ MarkedIsRecorded => MarkedIsRecorded'
PROOF
<1>1. ASSUME NEW r \in Requests, Send(r)
      PROVE  Ids \subseteq Ids' /\ \A i \in Ids : queue'[i] = queue[i]
  BY <1>1, SendAppends
<1>2. ASSUME NEW c \in Consumers, NEW i \in Ids, Process(c, i) \/ ProcessThrows(c, i)
      PROVE  rows \subseteq rows' /\ (MarkedIsRecorded => MarkedIsRecorded')
  <2>1. queue[i] \in Messages
    BY DEF TypeOK, Ids
  <2> QED
    BY <1>2, <2>1, RecordKeepsTypes DEF Process, ProcessThrows
<1>3. ASSUME UNCHANGED tenantVars
      PROVE  rows \subseteq rows' /\ (MarkedIsRecorded => MarkedIsRecorded')
  BY <1>3 DEF tenantVars, MarkedIsRecorded
<1>4. ASSUME queue' = queue
      PROVE  Ids \subseteq Ids' /\ \A i \in Ids : queue'[i] = queue[i]
  BY <1>4 DEF Ids
<1>5. CASE \E r \in Requests : Send(r)
  BY <1>1, <1>3, <1>5 DEF Send
<1>6. CASE \E c \in Consumers, i \in Ids : Process(c, i) \/ ProcessThrows(c, i)
  BY <1>2, <1>4, <1>6 DEF Process, ProcessThrows, queueVars
<1>7. CASE /\ \A r \in Requests : ~Send(r)
           /\ \A c \in Consumers, i \in Ids : ~Process(c, i) /\ ~ProcessThrows(c, i)
  <2>1. queue' = queue /\ UNCHANGED tenantVars
    BY <1>7
    DEF Next, Consume, Answer, FailRequest, Deliver, SettleAck, SettleRetry,
        Kill, DropDead, vars, queueVars
  <2> QED
    BY <1>3, <1>4, <2>1
<1> QED
  BY <1>5, <1>6, <1>7

\* What is acknowledged has been recorded; an invocation acknowledges what
\* processMessage has returned for.
LEMMA AcksStep ==
    ASSUME TypeOK, MarkedIsRecorded, AckedIsRecorded, AcksAreRecorded, [Next]_vars
    PROVE  AckedIsRecorded' /\ AcksAreRecorded'
PROOF
<1>1. /\ Ids \subseteq Ids' /\ \A i \in Ids : queue'[i] = queue[i]
      /\ rows \subseteq rows'
  BY Monotone
<1>2. /\ acked \subseteq Ids /\ \A c \in Consumers : acks[c] \subseteq Ids
      /\ \A i \in acked : queue[i] \in rows
      /\ \A c \in Consumers : \A i \in acks[c] : queue[i] \in rows
  BY DEF TypeOK, AckedIsRecorded, AcksAreRecorded
<1>3. ASSUME \A i \in acked' \ acked : i \in Ids /\ queue[i] \in rows,
             \A c \in Consumers : \A i \in acks'[c] \ acks[c] :
                 i \in Ids /\ queue[i] \in rows'
      PROVE  AckedIsRecorded' /\ AcksAreRecorded'
  BY <1>1, <1>2, <1>3 DEF AckedIsRecorded, AcksAreRecorded
<1>4. ASSUME NEW c \in Consumers, NEW i \in Ids, Process(c, i)
      PROVE  AckedIsRecorded' /\ AcksAreRecorded'
  <2>1. acked' = acked /\ queue[i] \in rows'
    BY <1>4 DEF Process, ProcessMessage, MarkedIsRecorded, queueVars, tenantVars
  <2>2. \A d \in Consumers : acks'[d] \ acks[d] \subseteq {i}
    BY <1>4 DEF Process, TypeOK
  <2> QED
    BY <1>3, <2>1, <2>2
<1>5. ASSUME NEW c \in Consumers, NEW i \in Ids, SettleAck(c, i)
      PROVE  AckedIsRecorded' /\ AcksAreRecorded'
  <2>1. acked' \ acked \subseteq {i} /\ queue[i] \in rows
    BY <1>2, <1>5 DEF SettleAck
  <2>2. \A d \in Consumers : acks'[d] \subseteq acks[d]
    BY <1>5 DEF SettleAck, TypeOK
  <2> QED
    BY <1>3, <2>1, <2>2
<1>6. ASSUME NEW c \in Consumers, Kill(c)
      PROVE  AckedIsRecorded' /\ AcksAreRecorded'
  <2>1. \A d \in Consumers : acks'[d] \subseteq acks[d]
    BY <1>6 DEF Kill, TypeOK
  <2> QED
    BY <1>3, <1>6, <2>1 DEF Kill, queueVars
<1>7. ASSUME acked' = acked, acks' = acks
      PROVE  AckedIsRecorded' /\ AcksAreRecorded'
  BY <1>3, <1>7
<1> QED
  BY <1>4, <1>5, <1>6, <1>7
  DEF Next, Consume, Send, Answer, FailRequest, Deliver, ProcessThrows, Retry,
      SettleRetry, DropDead, vars, webVars, queueVars, consumerVars

\* What a request has handed over is in the queue.
LEMMA SentStep ==
    ASSUME TypeOK, SentIsQueued, [Next]_vars
    PROVE  SentIsQueued'
PROOF
<1>1. Ids \subseteq Ids' /\ \A i \in Ids : queue'[i] = queue[i]
  BY Monotone
<1>2. carries' = carries
  BY DEF Next, Consume, Send, Answer, FailRequest, Deliver, Process,
         ProcessThrows, SettleAck, SettleRetry, Kill, DropDead, vars, webVars
<1>3. ASSUME NEW q \in Requests
      PROVE  /\ position[q] \in Nat /\ Len(carries[q]) \in Nat
             /\ position[q] <= Len(carries[q])
             /\ \A k \in 1..position[q] : \E i \in Ids' : queue'[i] = carries[q][k]
  <2>1. position[q] \in Nat /\ Len(carries[q]) \in Nat
    BY CarriesType DEF TypeOK
  <2> QED
    BY <1>1, <2>1 DEF SentIsQueued
<1>4. CASE position' = position
  BY <1>2, <1>3, <1>4 DEF SentIsQueued
<1>5. ASSUME NEW r \in Requests, Send(r) PROVE SentIsQueued'
  <2>1. /\ position[r] + 1 \in 1..Len(carries[r])
        /\ Len(queue) + 1 \in Ids'
        /\ queue'[Len(queue) + 1] = carries[r][position[r] + 1]
    BY <1>5, SendAppends
  <2>2. /\ position'[r] = position[r] + 1
        /\ \A q \in Requests \ {r} : position'[q] = position[q]
    BY <1>5 DEF Send, TypeOK
  <2>3. ASSUME NEW q \in Requests
        PROVE  /\ position'[q] <= Len(carries[q])
               /\ \A k \in 1..position'[q] : \E i \in Ids' : queue'[i] = carries[q][k]
    <3>1. CASE q = r
      <4>1. ASSUME NEW k \in 1..position[r] + 1
            PROVE  \E i \in Ids' : queue'[i] = carries[r][k]
        <5>1. CASE k = position[r] + 1
          BY <2>1, <5>1
        <5>2. CASE k # position[r] + 1
          <6>1. k \in 1..position[r]
            BY <1>3, <5>2
          <6> QED BY <1>3, <6>1
        <5> QED BY <5>1, <5>2
      <4> QED
        BY <1>3, <2>1, <2>2, <3>1, <4>1
    <3>2. CASE q # r
      BY <1>3, <2>2, <3>2
    <3> QED BY <3>1, <3>2
  <2> QED
    BY <1>2, <2>3 DEF SentIsQueued
<1> QED
  BY <1>4, <1>5
  DEF Next, Consume, Answer, FailRequest, Deliver, Process, ProcessThrows,
      SettleAck, SettleRetry, Kill, DropDead, vars, webVars

\* The queue is empty at the start.
LEMMA QueueInit == Init => QueueInv
PROOF
<1> SUFFICES ASSUME Init PROVE QueueInv
  OBVIOUS
<1>1. TypeOK
  BY TypeInit
<1>2. SentIsQueued
  BY <1>1, CarriesType DEF Init, SentIsQueued
<1>3. MarkedIsRecorded /\ AckedIsRecorded /\ AcksAreRecorded
  BY DEF Init, MarkedIsRecorded, AckedIsRecorded, AcksAreRecorded
<1> QED
  BY <1>1, <1>2, <1>3 DEF QueueInv

\* Every step keeps the invariant of the queue.
LEMMA QueueStep ==
    ASSUME QueueInv, [Next]_vars
    PROVE  QueueInv'
PROOF
  BY TypePreserved, Monotone, AcksStep, SentStep DEF QueueInv

\* A message is recorded once however often it is delivered, and what the
\* queue removes as acknowledged has been recorded, for any interleaving of
\* invocations that are killed or have their answers lost.
THEOREM QueueInvariant == Spec => []QueueInv
PROOF
  BY QueueInit, QueueStep, PTL DEF Spec

\* A request is answered 200 only when it has handed over its last message.
LEMMA AcceptedStep ==
    ASSUME QueueInv, AcceptedIsQueued, [Next]_vars
    PROVE  AcceptedIsQueued'
PROOF
<1>1. /\ TypeOK /\ SentIsQueued
      /\ Ids \subseteq Ids' /\ \A i \in Ids : queue'[i] = queue[i]
  BY Monotone DEF QueueInv
<1>2. carries' = carries
  BY DEF Next, Consume, Send, Answer, FailRequest, Deliver, Process,
         ProcessThrows, SettleAck, SettleRetry, Kill, DropDead, vars, webVars
<1>3. ASSUME NEW q \in Requests, status'[q] = "answered", status[q] # "answered"
      PROVE  position[q] = Len(carries[q])
  BY <1>1, <1>3
  DEF TypeOK, Next, Consume, Send, Answer, MayAnswer, FailRequest, Deliver,
      Process, ProcessThrows, SettleAck, SettleRetry, Kill, DropDead, vars, webVars
<1>4. ASSUME NEW q \in Requests, status'[q] = "answered",
             NEW k \in DOMAIN carries[q]
      PROVE  \E i \in Ids' : queue'[i] = carries[q][k]
  <2>1. \E i \in Ids : queue[i] = carries[q][k]
    <3>1. CASE status[q] = "answered"
      BY <1>4, <3>1 DEF AcceptedIsQueued
    <3>2. CASE status[q] # "answered"
      <4>1. k \in 1..position[q]
        BY <1>1, <1>3, <1>4, <3>2, CarriesType
      <4> QED
        BY <1>1, <4>1 DEF SentIsQueued
    <3> QED BY <3>1, <3>2
  <2> QED
    BY <1>1, <2>1
<1> QED
  BY <1>2, <1>4 DEF AcceptedIsQueued

\* Meta is answered 200 only for a payload whose messages are all queued.
THEOREM AcceptedAreQueued == Spec => []AcceptedIsQueued
PROOF
<1>1. Init => AcceptedIsQueued
  BY DEF Init, AcceptedIsQueued
<1>2. QueueInv /\ AcceptedIsQueued /\ [Next]_vars => AcceptedIsQueued'
  BY AcceptedStep
<1> QED
  BY <1>1, <1>2, QueueInvariant, PTL DEF Spec

-----------------------------------------------------------------------------
(* The refinement of EventDelivery.                                         *)

queuedBar == {queue[i] : i \in Ids \ Gone}
deadBar == {queue[i] : i \in dlq}

\* The message of any entry is queued, or has an outcome.
LEMMA EntryKnown ==
    ASSUME QueueInv, NEW i \in Ids
    PROVE  queue[i] \in Messages /\ queue[i] \in queuedBar \union rows \union deadBar
PROOF
<1>1. queue[i] \in Messages
  BY DEF QueueInv, TypeOK, Ids
<1>2. CASE i \notin Gone
  BY <1>1, <1>2 DEF queuedBar
<1>3. CASE i \in acked
  BY <1>1, <1>3 DEF QueueInv, AckedIsRecorded
<1>4. CASE i \in dropped
  BY <1>1, <1>4 DEF QueueInv, TypeOK, deadBar
<1> QED
  BY <1>1, <1>2, <1>3, <1>4 DEF Gone

\* Send publishes.
LEMMA SendImplements ==
    ASSUME QueueInv, NEW r \in Requests, Send(r)
    PROVE  \E m \in Messages :
              /\ queuedBar' = queuedBar \union {m}
              /\ rows' = rows /\ deadBar' = deadBar
PROOF
<1> DEFINE m == carries[r][position[r] + 1]
           n == Len(queue) + 1
<1>0. TypeOK
  BY DEF QueueInv
<1>1. /\ m \in Messages /\ Ids' = Ids \union {n} /\ n \notin Ids
      /\ \A i \in Ids : queue'[i] = queue[i]
      /\ queue'[n] = m
  BY <1>0, SendAppends, CarriesType DEF Ids
<1>2. /\ acked' = acked /\ dropped' = dropped /\ dlq' = dlq
      /\ rows' = rows
      /\ acked \subseteq Ids /\ dlq \subseteq Ids /\ dropped \subseteq Ids
  BY <1>0 DEF Send, tenantVars, TypeOK
<1> HIDE DEF m, n
<1>3. queuedBar' = queuedBar \union {m}
  BY <1>1, <1>2 DEF queuedBar, Gone
<1>4. deadBar' = deadBar
  BY <1>1, <1>2 DEF deadBar
<1> QED
  BY <1>1, <1>2, <1>3, <1>4

\* processMessage completes, or its invocation is told that it failed.
LEMMA ProcessImplements ==
    ASSUME QueueInv, NEW c \in Consumers, NEW i \in Ids,
           Process(c, i) \/ ProcessThrows(c, i)
    PROVE  /\ queuedBar' = queuedBar /\ deadBar' = deadBar
           /\ rows' = rows \union {queue[i]} \/ rows' = rows
PROOF
  BY DEF Process, ProcessThrows, ProcessMessage, queuedBar, deadBar, Gone, Ids,
         queueVars, tenantVars

\* An entry leaves the queue when its message has an outcome: the queue
\* forgets the message if that was its last entry.
LEMMA LeaveImplements ==
    ASSUME QueueInv, NEW i \in Ids, Gone' = Gone \union {i},
           queue[i] \in rows \union deadBar,
           queue' = queue, dlq' = dlq, rows' = rows
    PROVE  /\ rows' = rows /\ deadBar' = deadBar
           /\ \/ queuedBar' = queuedBar
              \/ queue[i] \in queuedBar /\ queuedBar' = queuedBar \ {queue[i]}
PROOF
<1>1. deadBar' = deadBar /\ Ids' = Ids /\ rows' = rows
  BY DEF deadBar, Ids
<1> HIDE DEF Gone
<1>2. queuedBar' = {queue[j] : j \in Ids \ (Gone \union {i})}
  BY <1>1 DEF queuedBar
<1>3. CASE \E j \in Ids \ (Gone \union {i}) : queue[j] = queue[i]
  BY <1>1, <1>2, <1>3 DEF queuedBar
<1>4. CASE i \in Gone
  BY <1>1, <1>2, <1>4 DEF queuedBar
<1>5. CASE i \notin Gone /\ \A j \in Ids \ (Gone \union {i}) : queue[j] # queue[i]
  BY <1>1, <1>2, <1>5 DEF queuedBar
<1> QED
  BY <1>1, <1>3, <1>4, <1>5

\* An exhausted entry that is still in the queue is dead-lettered.
LEMMA RetryImplements ==
    ASSUME QueueInv, NEW c \in Consumers, NEW i \in Ids, SettleRetry(c, i)
    PROVE  /\ queuedBar' = queuedBar /\ rows' = rows
           /\ deadBar' = deadBar \/ deadBar' = deadBar \union {queue[i]}
PROOF
<1>1. /\ queue' = queue /\ acked' = acked /\ dropped' = dropped
      /\ rows' = rows /\ dlq' \in {dlq, dlq \union {i}}
  BY DEF SettleRetry, tenantVars
<1> QED
  BY <1>1 DEF queuedBar, deadBar, Gone, Ids

\* Every step of the queue is one of EventDelivery or a stutter.
LEMMA DeliveryStep ==
    ASSUME QueueInv, [Next]_vars
    PROVE  \/ \E m \in Messages :
                \/ queuedBar' = queuedBar \union {m}
                   /\ rows' = rows /\ deadBar' = deadBar
                \/ m \in queuedBar \union rows \union deadBar
                   /\ rows' = rows \union {m}
                   /\ queuedBar' = queuedBar /\ deadBar' = deadBar
                \/ m \in queuedBar \union rows \union deadBar
                   /\ deadBar' = deadBar \union {m}
                   /\ queuedBar' = queuedBar /\ rows' = rows
                \/ m \in queuedBar /\ m \in rows \union deadBar
                   /\ queuedBar' = queuedBar \ {m}
                   /\ rows' = rows /\ deadBar' = deadBar
           \/ queuedBar' = queuedBar /\ rows' = rows /\ deadBar' = deadBar
PROOF
<1>1. CASE \E r \in Requests : Send(r)
  BY <1>1, SendImplements
<1>2. ASSUME NEW c \in Consumers, NEW i \in Ids, Process(c, i) \/ ProcessThrows(c, i)
      PROVE  \/ queue[i] \in Messages
                /\ queue[i] \in queuedBar \union rows \union deadBar
                /\ rows' = rows \union {queue[i]}
                /\ queuedBar' = queuedBar /\ deadBar' = deadBar
             \/ queuedBar' = queuedBar /\ rows' = rows /\ deadBar' = deadBar
  BY <1>2, ProcessImplements, EntryKnown
<1>3. ASSUME NEW c \in Consumers, NEW i \in Ids, SettleAck(c, i)
      PROVE  \/ queue[i] \in Messages
                /\ queue[i] \in queuedBar /\ queue[i] \in rows \union deadBar
                /\ queuedBar' = queuedBar \ {queue[i]}
                /\ rows' = rows /\ deadBar' = deadBar
             \/ queuedBar' = queuedBar /\ rows' = rows /\ deadBar' = deadBar
  <2>1. queue[i] \in rows
    BY <1>3 DEF SettleAck, QueueInv, AcksAreRecorded
  <2>2. Gone' = Gone \union {i} /\ queue' = queue /\ dlq' = dlq /\ rows' = rows
    BY <1>3 DEF SettleAck, Gone, tenantVars
  <2> QED
    BY <2>1, <2>2, LeaveImplements, EntryKnown
<1>4. ASSUME NEW c \in Consumers, NEW i \in Ids, SettleRetry(c, i)
      PROVE  \/ queue[i] \in Messages
                /\ queue[i] \in queuedBar \union rows \union deadBar
                /\ deadBar' = deadBar \union {queue[i]}
                /\ queuedBar' = queuedBar /\ rows' = rows
             \/ queuedBar' = queuedBar /\ rows' = rows /\ deadBar' = deadBar
  BY <1>4, RetryImplements, EntryKnown
<1>5. ASSUME NEW i \in Ids, DropDead(i)
      PROVE  \/ queue[i] \in Messages
                /\ queue[i] \in queuedBar /\ queue[i] \in rows \union deadBar
                /\ queuedBar' = queuedBar \ {queue[i]}
                /\ rows' = rows /\ deadBar' = deadBar
             \/ queuedBar' = queuedBar /\ rows' = rows /\ deadBar' = deadBar
  <2>1. queue[i] \in deadBar
    BY <1>5 DEF DropDead, deadBar
  <2>2. Gone' = Gone \union {i} /\ queue' = queue /\ dlq' = dlq /\ rows' = rows
    BY <1>5 DEF DropDead, Gone, tenantVars
  <2> QED
    BY <2>1, <2>2, LeaveImplements, EntryKnown
<1>6. ASSUME UNCHANGED <<queue, acked, dlq, dropped, rows>>
      PROVE  queuedBar' = queuedBar /\ rows' = rows /\ deadBar' = deadBar
  BY <1>6 DEF queuedBar, deadBar, Gone, Ids
<1>7. CASE \/ \E r \in Requests : Answer(r) \/ FailRequest(r)
           \/ \E c \in Consumers : Deliver(c) \/ Kill(c)
           \/ UNCHANGED vars
  <2>1. UNCHANGED <<queue, acked, dlq, dropped, rows>>
    BY <1>7
    DEF Answer, FailRequest, Deliver, Kill, vars, queueVars, tenantVars
  <2> QED
    BY <1>6, <2>1
<1>8. QueueInv /\ [Next]_vars
  OBVIOUS
<1>9. CASE \E c \in Consumers, i \in Ids :
              Process(c, i) \/ ProcessThrows(c, i) \/ SettleAck(c, i) \/ SettleRetry(c, i)
  BY <1>2, <1>3, <1>4, <1>9
<1>10. CASE \E i \in Ids : DropDead(i)
  BY <1>5, <1>10
<1> QED
  BY <1>1, <1>7, <1>8, <1>9, <1>10 DEF Next, Consume

\* The webhook, the queue with its batches, retries and dead letters, and the
\* Durable Object implement at-least-once delivery: a message leaves the queue
\* only when it is recorded or dead-lettered.
THEOREM QueueImplementsDelivery == Spec => ImplementsEventDelivery
PROOF
<1>1. Init => Delivery!Init
  BY DEF Init, Delivery!Init, Ids
<1>2. QueueInv /\ [Next]_vars => [Delivery!Next]_(Delivery!vars)
  <2> SUFFICES ASSUME QueueInv, [Next]_vars
               PROVE  Delivery!Next \/ UNCHANGED Delivery!vars
    OBVIOUS
  <2>1. ASSUME NEW m \in Messages,
               queuedBar' = queuedBar \union {m},
               rows' = rows, deadBar' = deadBar
        PROVE  Delivery!Publish(m)
    BY <2>1 DEF Delivery!Publish, Delivery!Evicts, queuedBar, deadBar
  <2>2. ASSUME NEW m \in Messages, m \in queuedBar \union rows \union deadBar,
               rows' = rows \union {m},
               queuedBar' = queuedBar, deadBar' = deadBar
        PROVE  Delivery!Complete(m)
    BY <2>2 DEF Delivery!Complete, Delivery!Known, queuedBar, deadBar
  <2>3. ASSUME NEW m \in Messages, m \in queuedBar \union rows \union deadBar,
               deadBar' = deadBar \union {m},
               queuedBar' = queuedBar, rows' = rows
        PROVE  Delivery!Bury(m)
    BY <2>3 DEF Delivery!Bury, Delivery!Evicts, Delivery!Known, queuedBar, deadBar
  <2>4. ASSUME NEW m \in Messages, m \in queuedBar, m \in rows \union deadBar,
               queuedBar' = queuedBar \ {m},
               rows' = rows, deadBar' = deadBar
        PROVE  Delivery!Forget(m)
    BY <2>4 DEF Delivery!Forget, queuedBar, deadBar
  <2>5. ASSUME queuedBar' = queuedBar, rows' = rows, deadBar' = deadBar
        PROVE  UNCHANGED Delivery!vars
    BY <2>5 DEF Delivery!vars, queuedBar, deadBar
  <2> QED
    BY <2>1, <2>2, <2>3, <2>4, <2>5, DeliveryStep DEF Delivery!Next
<1> QED
  BY <1>1, <1>2, QueueInvariant, PTL
  DEF Spec, Delivery!Spec, ImplementsEventDelivery
=============================================================================
