-------------------------- MODULE InMemoryBusProofs --------------------------
(***************************************************************************)
(* Theorems about InMemoryBus for any number of messages, phones, commands *)
(* and webhook calls.                                                      *)
(***************************************************************************)
EXTENDS InMemoryBus, SequenceTheorems, TLAPS

AtWork == {"optout", "record", "reply", "send"}

-----------------------------------------------------------------------------
(* Sequences.                                                               *)

\* First finds what IsFirst describes.
LEMMA FirstIs ==
    ASSUME NEW s, NEW n \in Nat, DOMAIN s = 1..n, NEW m, NEW i \in 1..n,
           IsFirst(s, i, m)
    PROVE  First(s, m) = i
PROOF
<1>1. ASSUME NEW j \in 1..n, IsFirst(s, j, m) PROVE j = i
  <2>1. CASE j < i
    BY <1>1, <2>1 DEF IsFirst
  <2>2. CASE i < j
    BY <1>1, <2>2 DEF IsFirst
  <2> QED BY <2>1, <2>2
<1>2. \A j \in DOMAIN s : IsFirst(s, j, m) => j = i
  BY <1>1
<1>3. i \in DOMAIN s /\ IsFirst(s, i, m)
  OBVIOUS
<1> HIDE DEF IsFirst
<1> QED
  BY <1>2, <1>3 DEF First

\* What Append does, position by position and to the range.
LEMMA AppendFacts ==
    ASSUME NEW S, NEW s \in Seq(S), NEW e \in S
    PROVE  /\ Append(s, e) \in Seq(S)
           /\ Len(s) \in Nat /\ DOMAIN s = 1..Len(s)
           /\ Len(Append(s, e)) = Len(s) + 1
           /\ DOMAIN Append(s, e) = 1..Len(s) + 1
           /\ \A i \in 1..Len(s) : Append(s, e)[i] = s[i]
           /\ Append(s, e)[Len(s) + 1] = e
           /\ Range(Append(s, e)) = Range(s) \union {e}
PROOF
<1>1. /\ Append(s, e) \in Seq(S)
      /\ Len(s) \in Nat /\ DOMAIN s = 1..Len(s)
      /\ Len(Append(s, e)) = Len(s) + 1
      /\ DOMAIN Append(s, e) = 1..Len(s) + 1
      /\ \A i \in 1..Len(s) : Append(s, e)[i] = s[i]
      /\ Append(s, e)[Len(s) + 1] = e
  OBVIOUS
<1>2. Range(Append(s, e)) = Range(s) \union {e}
  <2>1. ASSUME NEW x PROVE x \in Range(Append(s, e)) <=> x \in Range(s) \union {e}
    <3>1. ASSUME NEW i \in 1..Len(s) + 1
          PROVE  Append(s, e)[i] \in Range(s) \union {e}
      BY <1>1 DEF Range
    <3>2. ASSUME NEW i \in 1..Len(s) PROVE s[i] \in Range(Append(s, e))
      <4>1. i \in 1..Len(s) + 1 /\ Append(s, e)[i] = s[i]
        BY <1>1
      <4> QED BY <1>1, <4>1 DEF Range
    <3>3. e \in Range(Append(s, e))
      <4>1. Len(s) + 1 \in 1..Len(s) + 1
        BY <1>1
      <4> QED BY <1>1, <4>1 DEF Range
    <3> QED
      BY <1>1, <3>1, <3>2, <3>3 DEF Range
  <2> QED BY <2>1
<1> QED
  BY <1>1, <1>2

\* The domains of the sequences.
LEMMA Domains ==
    ASSUME TypeOK
    PROVE  /\ Len(queue) \in Nat /\ DOMAIN queue = 1..Len(queue)
           /\ Len(calls) \in Nat /\ DOMAIN calls = 1..Len(calls)
           /\ Len(replies) \in Nat /\ DOMAIN replies = 1..Len(replies)
PROOF
  BY DEF TypeOK

-----------------------------------------------------------------------------
(* Types and the count.                                                     *)

\* put counts a message up and task_done, in the finally of the loop, down.
LEMMA CountStep ==
    ASSUME TypeOK, CountIsExact, [Next]_vars
    PROVE  TypeOK' /\ CountIsExact'
PROOF
<1>1. Len(queue) \in Nat
  BY Domains
<1>2. ASSUME NEW m \in Messages, Webhook(m) PROVE TypeOK' /\ CountIsExact'
  <2>1. /\ queue' \in Seq(Messages) /\ Len(queue') = Len(queue) + 1
        /\ calls' \in Seq(Messages)
    BY <1>2, AppendFacts DEF Webhook, Enqueued, TypeOK
  <2> QED
    BY <1>1, <1>2, <2>1
    DEF Webhook, SeenAfterCall, TypeOK, CountIsExact, chatVars
<1>3. CASE Get
  <2>1. /\ queue' \in Seq(Messages) /\ Len(queue') = Len(queue) - 1
        /\ current' \in Messages
    BY <1>3, HeadTailProperties DEF Get, TypeOK
  <2> QED
    BY <1>1, <1>3, <2>1 DEF Get, TypeOK, CountIsExact, storeVars, chatVars
<1>4. CASE Deduplicate
  BY <1>1, <1>4 DEF Deduplicate, Remembered, TypeOK, CountIsExact, chatVars
<1>5. CASE CheckOptOut
  <2>1. PhoneOf[current] \in Phones
    BY SenderAssumption DEF TypeOK
  <2>2. /\ optOut' \subseteq Phones /\ stopped' \subseteq Messages
        /\ pc' \in {"record", "done"}
    BY <1>5, <2>1 DEF CheckOptOut, TypeOK
  <2> QED
    BY <1>1, <1>5, <2>2 DEF CheckOptOut, TypeOK, CountIsExact, chatVars
<1>6. CASE RecordIncoming
  <2>1. inbound' \in Seq(Messages)
    BY <1>6, AppendFacts DEF RecordIncoming, TypeOK
  <2> QED
    BY <1>1, <1>6, <2>1 DEF RecordIncoming, TypeOK, CountIsExact, storeVars
<1>7. CASE RecordOutgoing
  <2>1. outbound' \in Seq(Messages)
    BY <1>7, AppendFacts DEF RecordOutgoing, TypeOK
  <2> QED
    BY <1>1, <1>7, <2>1 DEF RecordOutgoing, TypeOK, CountIsExact, storeVars
<1>8. CASE Send
  <2>1. replies' \in Seq(Messages)
    BY <1>8, AppendFacts DEF Send, TypeOK
  <2> QED
    BY <1>1, <1>8, <2>1 DEF Send, TypeOK, CountIsExact, storeVars
<1>9. CASE Fail
  BY <1>1, <1>9
  DEF Fail, AfterFailure, TypeOK, CountIsExact, storeVars, chatVars
<1>10. CASE Finish
  BY <1>1, <1>10 DEF Finish, TypeOK, CountIsExact, storeVars, chatVars
<1>11. CASE Shutdown
  BY <1>1, <1>11 DEF Shutdown, InHand, TypeOK, CountIsExact, storeVars, chatVars
<1>12. CASE UNCHANGED vars
  BY <1>12 DEF vars, TypeOK, CountIsExact, storeVars, chatVars
<1> QED
  BY <1>2, <1>3, <1>4, <1>5, <1>6, <1>7, <1>8, <1>9, <1>10, <1>11, <1>12
  DEF Next, Work

-----------------------------------------------------------------------------
(* The order of the calls.                                                  *)

\* A webhook call adds a call that is not taken, and the first calls of the
\* messages there are stay what they were.
LEMMA CallAdds ==
    ASSUME TypeOK, NEW m \in Messages, Webhook(m)
    PROVE  /\ Len(queue') = Len(queue) + 1 /\ Len(calls') = Len(calls) + 1
           /\ Taken' = Taken
           /\ DOMAIN calls' = 1..Len(calls) + 1
           /\ DOMAIN queue' = 1..Len(queue) + 1
           /\ \A i \in 1..Len(calls) : calls'[i] = calls[i]
           /\ \A i \in 1..Len(queue) : queue'[i] = queue[i]
           /\ calls'[Len(calls) + 1] = m /\ queue'[Len(queue) + 1] = m
           /\ Range(calls') = Range(calls) \union {m}
           /\ \A x : \A i \in 1..Len(calls) :
                 IsFirst(calls, i, x) =>
                    IsFirst(calls', i, x) /\ FirstCall(x)' = FirstCall(x)
           /\ UNCHANGED <<seen, optOut, replies, pc, current, failed, stopped>>
PROOF
<1>1. calls \in Seq(Messages) /\ calls' = Append(calls, m)
  BY DEF Webhook, TypeOK
<1>2. queue \in Seq(Messages) /\ queue' = Append(queue, m)
  BY DEF Webhook, Enqueued, TypeOK
<1>3. /\ Len(calls) \in Nat /\ DOMAIN calls = 1..Len(calls)
      /\ Len(calls') = Len(calls) + 1 /\ DOMAIN calls' = 1..Len(calls) + 1
      /\ \A i \in 1..Len(calls) : calls'[i] = calls[i]
      /\ calls'[Len(calls) + 1] = m
      /\ Range(calls') = Range(calls) \union {m}
  BY <1>1, AppendFacts
<1>4. /\ Len(queue) \in Nat /\ Len(queue') = Len(queue) + 1
      /\ DOMAIN queue' = 1..Len(queue) + 1
      /\ \A i \in 1..Len(queue) : queue'[i] = queue[i]
      /\ queue'[Len(queue) + 1] = m
  BY <1>2, AppendFacts
<1>5. Taken' = Taken
  BY <1>3, <1>4 DEF Taken
<1>6. ASSUME NEW i \in 1..Len(calls), NEW x, IsFirst(calls, i, x)
      PROVE  IsFirst(calls', i, x) /\ FirstCall(x)' = FirstCall(x)
  <2>1. IsFirst(calls', i, x)
    BY <1>3, <1>6 DEF IsFirst
  <2>2. First(calls, x) = i
    BY <1>3, <1>6, FirstIs
  <2>3. i \in 1..Len(calls) + 1 /\ Len(calls) + 1 \in Nat
    BY <1>3
  <2>4. First(calls', x) = i
    BY <1>3, <2>1, <2>3, FirstIs
  <2> QED
    BY <2>1, <2>2, <2>4 DEF FirstCall
<1>7. UNCHANGED <<seen, optOut, replies, pc, current, failed, stopped>>
  BY DEF Webhook, SeenAfterCall, chatVars
<1> QED
  BY <1>3, <1>4, <1>5, <1>6, <1>7

\* The worker takes the next call.
LEMMA GetTakes ==
    ASSUME TypeOK, CallsInOrder, Get
    PROVE  /\ Taken \in Nat /\ Taken' = Taken + 1
           /\ DOMAIN queue' = 1..Len(queue) - 1
           /\ \A k \in 1..Len(queue) - 1 : queue'[k] = calls[Taken + 1 + k]
           /\ current' = calls[Taken + 1]
           /\ pc = "get" /\ pc' = "dedupe"
           /\ UNCHANGED <<seen, optOut, replies, calls, failed, stopped>>
PROOF
<1>1. queue \in Seq(Messages) /\ queue # <<>> /\ queue' = Tail(queue)
  BY DEF Get, TypeOK
<1>2. /\ Len(queue) \in Nat \ {0} /\ Len(queue') = Len(queue) - 1
      /\ DOMAIN queue = 1..Len(queue) /\ DOMAIN queue' = 1..Len(queue) - 1
      /\ \A k \in 1..Len(queue) - 1 : queue'[k] = queue[k + 1]
      /\ Head(queue) = queue[1]
  BY <1>1, HeadTailProperties, EmptySeq
<1>3. Len(calls) \in Nat
  BY Domains
<1>4. calls' = calls /\ current' = Head(queue)
  BY DEF Get
<1>5. Taken \in Nat /\ Taken' = Taken + 1
  BY <1>2, <1>3, <1>4 DEF Taken, CallsInOrder
<1>6. \A k \in 1..Len(queue) : queue[k] = calls[Taken + k]
  BY <1>2 DEF CallsInOrder
<1>7. \A k \in 1..Len(queue) - 1 : queue'[k] = calls[Taken + 1 + k]
  <2> TAKE k \in 1..Len(queue) - 1
  <2>1. k + 1 \in 1..Len(queue) /\ Taken + (k + 1) = Taken + 1 + k
    BY <1>2, <1>5
  <2> QED
    BY <1>2, <1>6, <2>1
<1>8. current' = calls[Taken + 1]
  BY <1>2, <1>4, <1>6
<1> QED
  BY <1>2, <1>5, <1>7, <1>8 DEF Get, storeVars, chatVars

\* The other steps take nothing.
LEMMA OthersTakeNothing ==
    ASSUME [Next]_vars, ~Get, \A m \in Messages : ~Webhook(m)
    PROVE  UNCHANGED <<calls, queue, current>> /\ Taken' = Taken
PROOF
<1>1. UNCHANGED <<calls, queue, current>>
  BY DEF Next, Work, Deduplicate, CheckOptOut, RecordIncoming, RecordOutgoing,
         Send, Fail, Finish, Shutdown, vars
<1> QED
  BY <1>1 DEF Taken

\* The queue is first in, first out.
LEMMA CallsStep ==
    ASSUME TypeOK, CallsInOrder, [Next]_vars
    PROVE  CallsInOrder'
PROOF
<1>1. /\ Len(queue) \in Nat /\ DOMAIN queue = 1..Len(queue)
      /\ Len(calls) \in Nat /\ DOMAIN calls = 1..Len(calls)
      /\ Taken \in Nat /\ Taken + Len(queue) = Len(calls)
  BY Domains DEF Taken, CallsInOrder
<1>2. ASSUME NEW m \in Messages, Webhook(m) PROVE CallsInOrder'
  <2>1. /\ Taken' = Taken /\ LookedUp' = LookedUp
        /\ UNCHANGED <<seen, pc, current>>
        /\ \A i \in 1..Taken : calls'[i] = calls[i]
    BY <1>1, <1>2, CallAdds DEF LookedUp
  <2>2. \A k \in 1..Len(queue) + 1 : queue'[k] = calls'[Taken + k]
    <3> TAKE k \in 1..Len(queue) + 1
    <3>1. CASE k = Len(queue) + 1
      <4>1. Taken + k = Len(calls) + 1
        BY <1>1, <3>1
      <4> QED
        BY <1>2, <3>1, <4>1, CallAdds
    <3>2. CASE k # Len(queue) + 1
      <4>1. k \in 1..Len(queue) /\ Taken + k \in 1..Len(calls)
        BY <1>1, <3>2
      <4> QED
        BY <1>1, <1>2, <4>1, CallAdds DEF CallsInOrder
    <3> QED BY <3>1, <3>2
  <2>3. \A k \in DOMAIN queue' : queue'[k] = calls'[Taken' + k]
    BY <1>2, <2>1, <2>2, CallAdds
  <2>4. LookedUp \in Int /\ LookedUp <= Taken
    BY <1>1 DEF LookedUp
  <2>5. {calls'[i] : i \in 1..LookedUp} = {calls[i] : i \in 1..LookedUp}
    <3>1. \A i \in 1..LookedUp : i \in 1..Taken
      BY <1>1, <2>4
    <3> QED
      BY <2>1, <3>1
  <2>6. \A i \in 1..Taken - 1 : i \in 1..Taken
    BY <1>1
  <2>7. Taken > 0 => calls'[Taken] = calls[Taken]
    BY <1>1, <2>1
  <2> QED
    BY <1>1, <2>1, <2>3, <2>5, <2>6, <2>7 DEF CallsInOrder
<1>3. CASE Get
  <2>1. /\ Taken' = Taken + 1 /\ pc' = "dedupe" /\ pc = "get"
        /\ current' = calls'[Taken'] /\ calls' = calls /\ seen' = seen
        /\ \A k \in DOMAIN queue' : queue'[k] = calls'[Taken' + k]
    BY <1>3, GetTakes
  <2>2. LookedUp' = LookedUp /\ Taken' > 0 /\ Taken' >= 0
    BY <1>1, <2>1 DEF LookedUp
  <2> QED
    BY <2>1, <2>2 DEF CallsInOrder
<1>4. CASE ~Get /\ \A m \in Messages : ~Webhook(m)
  <2>1. UNCHANGED <<calls, queue, current>> /\ Taken' = Taken
    BY <1>4, OthersTakeNothing
  <2>2. CASE Deduplicate
    <3>1. /\ pc = "dedupe" /\ seen' = seen \union {current}
          /\ Taken > 0 /\ current = calls[Taken]
          /\ seen = {calls[i] : i \in 1..Taken - 1}
          /\ \/ pc' = "done"
             \/ pc' = "optout" /\ current \notin seen
      BY <2>2 DEF Deduplicate, Remembered, CallsInOrder, LookedUp
    <3>2. 1..Taken = (1..Taken - 1) \union {Taken}
      BY <1>1, <3>1
    <3>3. seen' = {calls[i] : i \in 1..Taken}
      BY <3>1, <3>2
    <3>4. LookedUp' = Taken
      BY <2>1, <3>1 DEF LookedUp
    <3>5. pc' = "optout" => \A i \in 1..Taken - 1 : calls[i] # current
      BY <3>1
    <3> QED
      BY <2>1, <3>1, <3>3, <3>4, <3>5 DEF CallsInOrder
  <2>3. CASE ~Deduplicate
    <3>1. /\ seen' = seen
          /\ \/ pc' = pc
             \/ pc \in AtWork /\ pc' \in AtWork \union {"done"}
             \/ pc = "done" /\ pc' = "get"
             \/ pc' = "down"
      BY <1>4, <2>3
      DEF AtWork, Next, Work, CheckOptOut, RecordIncoming, RecordOutgoing, Send,
          Fail, AfterFailure, Finish, Shutdown, vars, storeVars
    <3>2. pc' # "down" => LookedUp' = LookedUp
      BY <2>1, <3>1 DEF LookedUp, AtWork
    <3> QED
      BY <2>1, <3>1, <3>2 DEF CallsInOrder, AtWork
  <2> QED BY <2>2, <2>3
<1> QED
  BY <1>2, <1>3, <1>4

-----------------------------------------------------------------------------
(* Commands.                                                                *)

\* A command that was taken before is stored before the next message is taken.
LEMMA CommandsStep ==
    ASSUME TypeOK, CallsInOrder, CommandsAreObeyed, [Next]_vars
    PROVE  CommandsAreObeyed'
PROOF
<1>1. /\ Taken \in Nat /\ Len(calls) \in Nat /\ Taken <= Len(calls)
  BY Domains DEF Taken, CallsInOrder
<1>2. ASSUME NEW m \in Messages, Webhook(m) PROVE CommandsAreObeyed'
  <2>1. /\ Taken' = Taken /\ UNCHANGED <<optOut, pc, current>>
        /\ \A i \in 1..Taken : calls'[i] = calls[i]
    BY <1>1, <1>2, CallAdds
  <2>2. \A i \in 1..Taken - 1 : i \in 1..Taken
    BY <1>1
  <2> QED
    BY <2>1, <2>2 DEF CommandsAreObeyed, NoCommand
<1>3. CASE Get
  <2>1. /\ Taken' = Taken + 1 /\ pc = "get" /\ pc' = "dedupe"
        /\ UNCHANGED <<calls, optOut>>
    BY <1>3, GetTakes
  <2>2. Taken' - 1 = Taken
    BY <1>1, <2>1
  <2> QED
    BY <2>1, <2>2 DEF CommandsAreObeyed
<1>4. CASE ~Get /\ \A m \in Messages : ~Webhook(m)
  <2>1. UNCHANGED <<calls, queue, current>> /\ Taken' = Taken
    BY <1>4, OthersTakeNothing
  <2>2. CASE Deduplicate
    <3>1. /\ pc = "dedupe" /\ optOut' = optOut
          /\ Taken > 0 /\ current = calls[Taken]
          /\ seen = {calls[i] : i \in 1..Taken - 1}
          /\ pc' = "optout" \/ (pc' = "done" /\ current \in seen)
          /\ \A k \in 1..Taken - 1 :
                calls[k] \in Commands => PhoneOf[calls[k]] \in optOut
      BY <2>2 DEF Deduplicate, CallsInOrder, LookedUp, CommandsAreObeyed
    <3>2. CASE pc' = "optout"
      BY <2>1, <3>1, <3>2 DEF CommandsAreObeyed
    <3>3. CASE pc' = "done" /\ current \in seen
      <4>1. ASSUME NEW k \in 1..Taken, calls[k] \in Commands
            PROVE  PhoneOf[calls[k]] \in optOut
        <5>1. PICK i \in 1..Taken - 1 : calls[i] = current
          BY <3>1, <3>3
        <5>2. k \in 1..Taken - 1 \/ calls[k] = calls[i]
          BY <1>1, <3>1, <5>1
        <5> QED
          BY <3>1, <4>1, <5>1, <5>2
      <4> QED
        BY <2>1, <3>1, <3>3, <4>1 DEF CommandsAreObeyed
    <3> QED BY <3>1, <3>2, <3>3
  <2>3. CASE CheckOptOut
    <3>1. /\ pc = "optout" /\ Taken > 0 /\ current = calls[Taken]
          /\ \A k \in 1..Taken - 1 :
                calls[k] \in Commands => PhoneOf[calls[k]] \in optOut
          /\ optOut \subseteq optOut'
          /\ current \in Commands => PhoneOf[current] \in optOut'
          /\ \/ pc' = "done"
             \/ pc' = "record" /\ current \notin Commands
                /\ PhoneOf[current] \notin optOut
      BY <2>3 DEF CheckOptOut, Stops, CallsInOrder, CommandsAreObeyed
    <3>2. ASSUME NEW k \in 1..Taken PROVE k \in 1..Taken - 1 \/ k = Taken
      BY <1>1
    <3>3. \A k \in 1..Taken : calls[k] \in Commands => PhoneOf[calls[k]] \in optOut'
      BY <3>1, <3>2
    <3>4. pc' = "record" => NoCommand(current, Taken)
      BY <3>1, <3>2 DEF NoCommand
    <3>5. NoCommand(current, Taken)' <=> NoCommand(current, Taken)
      BY <2>1 DEF NoCommand
    <3> QED
      BY <2>1, <3>1, <3>3, <3>4, <3>5 DEF CommandsAreObeyed
  <2>4. CASE ~Deduplicate /\ ~CheckOptOut
    <3>1. /\ optOut' = optOut
          /\ \/ pc' = pc
             \/ pc \in {"record", "reply", "send"}
                /\ pc' \in {"reply", "send", "done"}
             \/ pc = "done" /\ pc' = "get"
             \/ pc' = "down"
      BY <1>4, <2>4
      DEF Next, Work, RecordIncoming, RecordOutgoing, Send, Fail, AfterFailure,
          Finish, Shutdown, vars, storeVars
    <3>2. NoCommand(current, Taken)' <=> NoCommand(current, Taken)
      BY <2>1 DEF NoCommand
    <3> QED
      BY <2>1, <3>1, <3>2 DEF CommandsAreObeyed
  <2> QED BY <2>2, <2>3, <2>4
<1> QED
  BY <1>2, <1>3, <1>4

-----------------------------------------------------------------------------
(* Replies.                                                                 *)

\* A reply is of the message in the worker's hands, which comes after those
\* answered before.
LEMMA RepliesStep ==
    ASSUME TypeOK, CallsInOrder, CommandsAreObeyed, RepliesInOrder, [Next]_vars
    PROVE  RepliesInOrder'
PROOF
<1>1. /\ Taken \in Nat /\ Taken <= Len(calls)
      /\ Len(calls) \in Nat /\ DOMAIN calls = 1..Len(calls)
      /\ Len(replies) \in Nat /\ DOMAIN replies = 1..Len(replies)
  BY Domains DEF Taken, CallsInOrder
<1>2. ASSUME NEW i \in DOMAIN replies
      PROVE  \E k \in 1..Len(calls) :
                IsFirst(calls, k, replies[i]) /\ FirstCall(replies[i]) = k
  <2>1. PICK k \in 1..Len(calls) : IsFirst(calls, k, replies[i])
    BY <1>1 DEF RepliesInOrder
  <2> QED
    BY <1>1, <2>1, FirstIs DEF FirstCall
<1>3. ASSUME NEW m \in Messages, Webhook(m) PROVE RepliesInOrder'
  <2>1. /\ Taken' = Taken /\ UNCHANGED <<replies, pc>>
        /\ DOMAIN calls' = 1..Len(calls) + 1
        /\ \A i \in 1..Len(calls) : calls'[i] = calls[i]
        /\ calls'[Len(calls) + 1] = m
        /\ Range(calls') = Range(calls) \union {m}
        /\ \A x : \A i \in 1..Len(calls) : IsFirst(calls, i, x) =>
              IsFirst(calls', i, x) /\ FirstCall(x)' = FirstCall(x)
    BY <1>3, CallAdds
  <2>2. ASSUME NEW x \in Range(calls')
        PROVE  \E i \in DOMAIN calls' : IsFirst(calls', i, x)
    <3>1. CASE x \in Range(calls)
      <4>1. PICK i \in 1..Len(calls) : IsFirst(calls, i, x)
        BY <1>1, <3>1 DEF RepliesInOrder
      <4>2. i \in 1..Len(calls) + 1
        BY <1>1
      <4> QED
        BY <2>1, <4>1, <4>2
    <3>2. CASE x \notin Range(calls)
      <4>1. x = m /\ \A j \in 1..Len(calls) : calls[j] # m
        BY <1>1, <2>1, <2>2, <3>2 DEF Range
      <4>2. /\ Len(calls) + 1 \in 1..Len(calls) + 1
            /\ (Len(calls) + 1) - 1 = Len(calls)
        BY <1>1
      <4>3. IsFirst(calls', Len(calls) + 1, x)
        BY <2>1, <4>1, <4>2 DEF IsFirst
      <4> QED
        BY <2>1, <4>2, <4>3
    <3> QED BY <3>1, <3>2
  <2>3. \A i \in DOMAIN replies : FirstCall(replies[i])' = FirstCall(replies[i])
    BY <1>2, <2>1
  <2>4. ASSUME NEW i \in DOMAIN replies
        PROVE  NoCommand(replies[i], FirstCall(replies[i]))'
    <3>1. PICK k \in 1..Len(calls) : FirstCall(replies[i]) = k
      BY <1>2
    <3>2. \A j \in 1..k : j \in 1..Len(calls)
      BY <1>1
    <3>3. NoCommand(replies[i], k)
      BY <3>1 DEF RepliesInOrder
    <3>4. FirstCall(replies[i])' = k /\ replies' = replies
      BY <2>1, <2>3, <3>1
    <3> QED
      BY <2>1, <3>2, <3>3, <3>4 DEF NoCommand
  <2>5. AnsweredInOrder'
    BY <2>1, <2>3 DEF RepliesInOrder, AnsweredInOrder
  <2> QED
    BY <2>1, <2>2, <2>3, <2>4, <2>5 DEF RepliesInOrder
<1>4. CASE Get
  <2>1. /\ Taken' = Taken + 1 /\ pc = "get" /\ UNCHANGED <<calls, replies>>
    BY <1>4, GetTakes
  <2>2. \A i \in DOMAIN replies :
           FirstCall(replies[i])' <= Taken' /\ FirstCall(replies[i])' < Taken'
    <3>1. \A i \in DOMAIN replies :
             FirstCall(replies[i]) \in Nat /\ FirstCall(replies[i]) <= Taken
      BY <1>1, <1>2 DEF RepliesInOrder
    <3>2. \A i \in DOMAIN replies : FirstCall(replies[i])' = FirstCall(replies[i])
      BY <2>1 DEF FirstCall
    <3> QED
      BY <1>1, <2>1, <3>1, <3>2
  <2>3. \A i \in DOMAIN replies :
           NoCommand(replies[i], FirstCall(replies[i]))'
    BY <2>1 DEF RepliesInOrder, NoCommand, FirstCall
  <2> QED
    BY <2>1, <2>2, <2>3 DEF RepliesInOrder, AnsweredInOrder, FirstCall
<1>5. CASE Send
  <2>1. /\ UNCHANGED <<calls, queue, current>> /\ Taken' = Taken
        /\ pc = "send" /\ pc' = "done" /\ replies' = Append(replies, current)
    BY <1>5 DEF Send, Taken
  <2>2. Taken \in 1..Len(calls) /\ IsFirst(calls, Taken, current)
    BY <1>1, <2>1 DEF CallsInOrder, IsFirst
  <2>3. FirstCall(current) = Taken /\ NoCommand(current, Taken)
    BY <1>1, <2>1, <2>2, FirstIs DEF FirstCall, CommandsAreObeyed
  <2> DEFINE n == Len(replies)
  <2>4. /\ DOMAIN replies' = 1..n + 1 /\ replies'[n + 1] = current
        /\ \A i \in 1..n : replies'[i] = replies[i]
    BY <2>1, AppendFacts DEF TypeOK
  <2>5. \A x : FirstCall(x)' = FirstCall(x)
    BY <2>1 DEF FirstCall
  <2>6. \A i \in 1..n : FirstCall(replies[i]) \in Nat /\ FirstCall(replies[i]) < Taken
    BY <1>1, <1>2, <2>1 DEF RepliesInOrder
  <2>7. current \in Range(calls)
    BY <1>1, <2>2 DEF Range, IsFirst
  <2>8. ASSUME NEW i \in 1..n + 1
        PROVE  /\ replies'[i] \in Range(calls)
               /\ FirstCall(replies'[i]) <= Taken
               /\ NoCommand(replies'[i], FirstCall(replies'[i]))
    <3>1. CASE i = n + 1
      BY <1>1, <2>3, <2>4, <2>7, <3>1
    <3>2. CASE i # n + 1
      <4>1. i \in 1..n
        BY <1>1, <3>2
      <4> QED
        BY <1>1, <2>4, <2>6, <4>1 DEF RepliesInOrder
    <3> QED BY <3>1, <3>2
  <2>9. ASSUME NEW i \in 1..n + 1, NEW j \in 1..n + 1, i < j
        PROVE  FirstCall(replies'[i]) < FirstCall(replies'[j])
    <3>1. i \in 1..n
      BY <1>1, <2>9
    <3>2. CASE j = n + 1
      BY <2>3, <2>4, <2>6, <3>1, <3>2
    <3>3. CASE j # n + 1
      <4>1. j \in 1..n
        BY <1>1, <3>3
      <4> QED
        BY <1>1, <2>4, <2>9, <3>1, <4>1 DEF RepliesInOrder, AnsweredInOrder
    <3> QED BY <3>2, <3>3
  <2>10. \A x, i : NoCommand(x, i)' <=> NoCommand(x, i)
    BY <2>1 DEF NoCommand
  <2>11. AnsweredInOrder'
    BY <2>4, <2>5, <2>9 DEF AnsweredInOrder
  <2>12. \A i \in 1..n + 1 : NoCommand(replies[i], FirstCall(replies[i]))'
    BY <2>5, <2>8, <2>1 DEF NoCommand
  <2> QED
    BY <2>1, <2>4, <2>5, <2>8, <2>11, <2>12 DEF RepliesInOrder
<1>6. CASE ~Get /\ ~Send /\ \A m \in Messages : ~Webhook(m)
  <2>1. UNCHANGED <<calls, queue, current>> /\ Taken' = Taken
    BY <1>6, OthersTakeNothing
  <2>2. /\ replies' = replies
        /\ pc' \in {"dedupe"} \union AtWork => pc \in {"dedupe"} \union AtWork
    BY <1>6
    DEF AtWork, Next, Work, Deduplicate, CheckOptOut, RecordIncoming,
        RecordOutgoing, Fail, AfterFailure, Finish, Shutdown, vars, chatVars
  <2>3. \A x : FirstCall(x)' = FirstCall(x)
    BY <2>1 DEF FirstCall
  <2>4. \A i \in DOMAIN replies : NoCommand(replies[i], FirstCall(replies[i]))'
    BY <2>1, <2>2 DEF RepliesInOrder, NoCommand, FirstCall
  <2> QED
    BY <2>1, <2>2, <2>3, <2>4 DEF RepliesInOrder, AnsweredInOrder, AtWork
<1> QED
  BY <1>3, <1>4, <1>5, <1>6

-----------------------------------------------------------------------------
(* Outcomes.                                                                *)

\* A message leaves the worker's hands answered, blocked or failed.
LEMMA SettledStep ==
    ASSUME TypeOK, SeenIsSettled, [Next]_vars
    PROVE  SeenIsSettled'
PROOF
<1> DEFINE out == Range(replies) \union stopped \union failed
<1>1. CASE Send
  <2>1. out' = out \union {current}
    BY <1>1, AppendFacts DEF Send, TypeOK
  <2> QED
    BY <1>1, <2>1 DEF Send, SeenIsSettled, storeVars
<1>2. CASE ~Send
  <2>1. out \subseteq out'
    BY <1>2
    DEF Next, Work, Webhook, Get, Deduplicate, CheckOptOut, RecordIncoming,
        RecordOutgoing, Fail, Finish, Shutdown, vars, chatVars
  <2>2. CASE Deduplicate
    BY <2>1, <2>2 DEF Deduplicate, Remembered, SeenIsSettled
  <2>3. CASE CheckOptOut \/ Fail
    <3>1. pc' = "record" \/ current \in out'
      BY <2>3 DEF CheckOptOut, Fail
    <3>2. seen' = seen /\ current' = current
      BY <2>3 DEF CheckOptOut, Fail, storeVars
    <3>3. pc # "down"
      BY <2>3 DEF CheckOptOut, Fail
    <3> HIDE DEF out
    <3> QED
      BY <2>1, <3>1, <3>2, <3>3 DEF SeenIsSettled, out
  <2>4. CASE ~Deduplicate /\ ~CheckOptOut /\ ~Fail
    <3>1. /\ seen' = seen
          /\ pc' = "down" \/ pc # "down"
          /\ pc \in AtWork => current' = current /\ pc' \in AtWork \union {"down"}
      BY <1>2, <2>4
      DEF AtWork, Next, Work, Webhook, SeenAfterCall, Get, RecordIncoming,
          RecordOutgoing, Finish, Shutdown, vars, storeVars
    <3> QED
      BY <2>1, <3>1 DEF SeenIsSettled, AtWork
  <2> QED BY <2>2, <2>3, <2>4
<1> QED BY <1>1, <1>2

-----------------------------------------------------------------------------
LEMMA MemoryInit == Init => MemoryInv
PROOF
<1> SUFFICES ASSUME Init PROVE MemoryInv
  OBVIOUS
<1>1. TypeOK /\ CountIsExact
  BY DEF Init, TypeOK, CountIsExact
<1>2. Taken = 0 /\ LookedUp = 0
  BY DEF Init, Taken, LookedUp
<1>3. CallsInOrder /\ CommandsAreObeyed /\ SeenIsSettled
  BY <1>2 DEF Init, CallsInOrder, CommandsAreObeyed, SeenIsSettled
<1>4. RepliesInOrder
  BY DEF Init, RepliesInOrder, AnsweredInOrder, Range
<1> QED
  BY <1>1, <1>3, <1>4 DEF MemoryInv

\* Every step keeps the invariant of memory mode.
LEMMA MemoryStep ==
    ASSUME MemoryInv, [Next]_vars
    PROVE  MemoryInv'
PROOF
  BY CountStep, CallsStep, CommandsStep, RepliesStep, SettledStep DEF MemoryInv

\* Memory mode's bookkeeping is exact for any calls, failures and shutdown: the
\* count that join() waits for, the messages seen, and where each reply is from.
THEOREM MemoryInvariant == Spec => []MemoryInv
PROOF
  BY MemoryInit, MemoryStep, PTL DEF Spec

\* One worker on one queue answers in the order of first calls, each message
\* once, however often the provider repeats them.
THEOREM RepliesKeepOrder == Spec => []AnsweredInOrder
PROOF
<1>1. MemoryInv => AnsweredInOrder
  BY DEF MemoryInv, RepliesInOrder
<1> QED
  BY <1>1, MemoryInvariant, PTL

\* Nothing that is first received after a STOP of its sender is answered.
THEOREM StopIsObeyed == Spec => []StopBlocksLaterMessages
PROOF
<1>1. ASSUME MemoryInv PROVE StopBlocksLaterMessages
  <2> SUFFICES ASSUME NEW i \in DOMAIN replies,
                      NEW c \in Commands \intersect Range(calls),
                      PhoneOf[c] = PhoneOf[replies[i]]
               PROVE  FirstCall(replies[i]) < FirstCall(c)
    BY DEF StopBlocksLaterMessages, Range
  <2>1. Len(calls) \in Nat /\ DOMAIN calls = 1..Len(calls)
    BY <1>1, Domains DEF MemoryInv
  <2>2. PICK k \in 1..Len(calls) : IsFirst(calls, k, c)
    BY <1>1, <2>1 DEF MemoryInv, RepliesInOrder
  <2>3. PICK p \in 1..Len(calls) : IsFirst(calls, p, replies[i])
    BY <1>1, <2>1 DEF MemoryInv, RepliesInOrder
  <2>4. FirstCall(c) = k /\ FirstCall(replies[i]) = p
    BY <2>1, <2>2, <2>3, FirstIs DEF FirstCall
  <2>5. NoCommand(replies[i], p)
    BY <1>1, <2>4 DEF MemoryInv, RepliesInOrder
  <2>6. k \notin 1..p
    BY <2>2, <2>5 DEF NoCommand, IsFirst
  <2> QED
    BY <2>1, <2>4, <2>6
<1> QED
  BY <1>1, MemoryInvariant, PTL

\* A message that left the queue was answered, stopped or lost to an exception,
\* or is in the worker's hands: it is never taken for a duplicate by mistake.
THEOREM OnlyFailureLoses == Spec => []LostOnlyByFailure
PROOF
<1>1. ASSUME MemoryInv PROVE LostOnlyByFailure
  <2> SUFFICES ASSUME pc # "down", NEW i \in DOMAIN calls,
                      calls[i] \notin Range(queue)
               PROVE  \/ calls[i] \in Range(replies) \union stopped \union failed
                      \/ Holds(calls[i])
    BY DEF LostOnlyByFailure, Range
  <2>1. /\ Len(queue) \in Nat /\ DOMAIN queue = 1..Len(queue)
        /\ Len(calls) \in Nat /\ DOMAIN calls = 1..Len(calls)
        /\ Taken \in Nat /\ Taken + Len(queue) = Len(calls)
    BY <1>1, Domains DEF MemoryInv, CallsInOrder, Taken
  <2>2. i <= Taken
    <3> SUFFICES ASSUME ~(i <= Taken) PROVE FALSE
      OBVIOUS
    <3>1. i - Taken \in 1..Len(queue) /\ Taken + (i - Taken) = i
      BY <2>1
    <3>2. queue[i - Taken] = calls[i]
      BY <1>1, <2>1, <3>1 DEF MemoryInv, CallsInOrder
    <3> QED
      BY <2>1, <3>1, <3>2 DEF Range
  <2>3. CASE pc = "dedupe" /\ i = Taken
    BY <1>1, <2>3 DEF MemoryInv, CallsInOrder, Holds
  <2>4. CASE pc # "dedupe" \/ i # Taken
    <3>1. i \in 1..LookedUp
      BY <2>1, <2>2, <2>4 DEF LookedUp
    <3>2. calls[i] \in seen
      BY <1>1, <3>1 DEF MemoryInv, CallsInOrder
    <3> QED
      BY <1>1, <3>2 DEF MemoryInv, SeenIsSettled, Holds
  <2> QED BY <2>3, <2>4
<1> QED
  BY <1>1, MemoryInvariant, PTL
=============================================================================
