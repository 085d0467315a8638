------------------------ MODULE RedisStreamBusProofs ------------------------
(***************************************************************************)
(* Theorems about RedisStreamBus for any number of messages and workers,   *)
(* any retry limit, page sizes, stream length and number of crashes.       *)
(***************************************************************************)
EXTENDS RedisStreamBus, TLAPS

\* A segment of the positions that grows has grown in length.
LEMMA IntervalGrows ==
    ASSUME NEW a \in Nat, NEW b \in Nat, 1..a \subseteq 1..b
    PROVE  a <= b
PROOF
<1>1. CASE a = 0
  BY <1>1
<1>2. CASE a # 0
  <2>1. a \in 1..a
    BY <1>2
  <2> QED
    BY <2>1
<1> QED
  BY <1>1, <1>2

\* What XADD does to the stream: one more entry, the others unchanged.
LEMMA XAddExtends ==
    ASSUME TypeOK, NEW m \in Messages, NEW k \in Nat, XAdd(m, k)
    PROVE  /\ stream' \in Seq(Entry)
           /\ Len(stream) \in Nat
           /\ Len(stream') = Len(stream) + 1
           /\ Ids' = Ids \union {Len(stream) + 1}
           /\ \A i \in Ids : stream'[i] = stream[i]
           /\ stream'[Len(stream) + 1] = [msg |-> m, attempt |-> k]
           /\ trimmed' \in 0..Len(stream')
           /\ trimmed <= trimmed'
           /\ trimmed' = trimmed \/ trimmed' + MaxLen <= Len(stream')
           /\ 0..Len(stream) \subseteq 0..Len(stream')
           /\ Ids \subseteq Ids'
PROOF
<1> DEFINE e == [msg |-> m, attempt |-> k]
<1>1. stream \in Seq(Entry) /\ e \in Entry
  BY DEF TypeOK, Entry
<1>2. stream' = Append(stream, e)
  BY DEF XAdd
<1> HIDE DEF e
<1>3. /\ stream' \in Seq(Entry)
      /\ Len(stream') = Len(stream) + 1
      /\ \A i \in 1..Len(stream) : stream'[i] = stream[i]
      /\ stream'[Len(stream) + 1] = e
  BY <1>1, <1>2
<1>4. Len(stream) \in Nat
  BY <1>1
<1>5. Ids' = Ids \union {Len(stream) + 1}
  BY <1>3, <1>4 DEF Ids
<1>6. /\ trimmed' \in 0..Len(stream') /\ trimmed <= trimmed'
      /\ trimmed' = trimmed \/ trimmed' + MaxLen <= Len(stream')
  BY <1>3, <1>4 DEF XAdd, Trims, TypeOK, Ids
<1>7. 0..Len(stream) \subseteq 0..Len(stream')
  BY <1>3, <1>4
<1> QED
  BY <1>3, <1>4, <1>5, <1>6, <1>7 DEF Ids, e

\* What XADD does to the dead-letter stream.
LEMMA XAddDlqExtends ==
    ASSUME TypeOK, NEW m \in Messages, NEW k \in Nat, XAddDlq(m, k)
    PROVE  /\ dlq' \in Seq(Letter)
           /\ Len(dlq) \in Nat
           /\ Len(dlq') = Len(dlq) + 1
           /\ Letters' = Letters \union {Len(dlq) + 1}
           /\ \A i \in Letters : dlq'[i] = dlq[i]
           /\ dlq'[Len(dlq) + 1] = [msg |-> m, attempts |-> k]
           /\ dlqTrimmed' \in 0..Len(dlq')
           /\ dlqTrimmed <= dlqTrimmed'
           /\ dlqTrimmed' = dlqTrimmed \/ dlqTrimmed' + DlqMaxLen <= Len(dlq')
PROOF
<1> DEFINE r == [msg |-> m, attempts |-> k]
<1>1. dlq \in Seq(Letter) /\ r \in Letter
  BY DEF TypeOK, Letter
<1>2. dlq' = Append(dlq, r)
  BY DEF XAddDlq
<1> HIDE DEF r
<1>3. /\ dlq' \in Seq(Letter)
      /\ Len(dlq') = Len(dlq) + 1
      /\ \A i \in 1..Len(dlq) : dlq'[i] = dlq[i]
      /\ dlq'[Len(dlq) + 1] = r
  BY <1>1, <1>2
<1>4. Len(dlq) \in Nat
  BY <1>1
<1>5. Letters' = Letters \union {Len(dlq) + 1}
  BY <1>3, <1>4 DEF Letters
<1>6. /\ dlqTrimmed' \in 0..Len(dlq') /\ dlqTrimmed <= dlqTrimmed'
      /\ dlqTrimmed' = dlqTrimmed \/ dlqTrimmed' + DlqMaxLen <= Len(dlq')
  BY <1>3, <1>4 DEF XAddDlq, Trims, TypeOK
<1> QED
  BY <1>3, <1>4, <1>5, <1>6 DEF Letters, r

\* Every entry of the stream has a message and an attempt number.
LEMMA EntryFields ==
    ASSUME TypeOK, NEW i \in Ids
    PROVE  stream[i].msg \in Messages /\ stream[i].attempt \in Nat
PROOF
<1>1. stream \in Seq(Entry) /\ i \in 1..Len(stream)
  BY DEF TypeOK, Ids
<1>2. stream[i] \in Entry
  BY <1>1
<1> QED
  BY <1>2 DEF Entry

-----------------------------------------------------------------------------
\* Every step keeps the types.
LEMMA TypePreserved ==
    ASSUME TypeOK, [Next]_vars
    PROVE  TypeOK'
PROOF
<1>1. ASSUME NEW m \in Messages, WebStep(m) PROVE TypeOK'
  <2>1. CASE WebhookPublish(m)
    <3>1. XAdd(m, 0) BY <2>1 DEF WebhookPublish
    <3>2. /\ stream' \in Seq(Entry)
          /\ Ids \subseteq Ids'
          /\ trimmed' \in 0..Len(stream')
          /\ 0..Len(stream) \subseteq 0..Len(stream')
      BY <3>1, XAddExtends
    <3>3. lastDelivered' \in 0..Len(stream')
      BY <2>1, <3>2 DEF WebhookPublish, TypeOK
    <3>4. todo' \in [Workers -> SUBSET Ids']
      BY <2>1, <3>2 DEF WebhookPublish, TypeOK, workerVars
    <3>5. pending' \subseteq Ids' /\ acked' \subseteq Ids' /\ claimed' \subseteq Ids'
      BY <2>1, <3>2 DEF WebhookPublish, TypeOK, historyVars
    <3> QED
      BY <2>1, <3>2, <3>3, <3>4, <3>5
      DEF WebhookPublish, TypeOK, dlqVars, workerVars, historyVars
  <2>2. CASE DedupeExpire(m)
    BY <2>2, BoundAssumption, SMTT(20)
    DEF DedupeExpire, TypeOK, Ids, busVars, workerVars
  <2>3. CASE WebhookMark(m) \/ WebhookDuplicate(m) \/ WebhookFail(m)
    BY <2>3 DEF WebhookMark, WebhookDuplicate, WebhookFail, TypeOK, Ids,
                busVars, workerVars, historyVars
  <2> QED BY <1>1, <2>1, <2>2, <2>3 DEF WebStep
<1>2. ASSUME NEW w \in Workers, Start(w) PROVE TypeOK'
  BY <1>2 DEF Start, TypeOK, Ids, webVars, busVars, historyVars
<1>3. ASSUME NEW w \in Workers, Claim(w) PROVE TypeOK'
  <2> DEFINE page == Claimed(cursor[w])
             gone == Purged(cursor[w])
  <2>1. page \subseteq pending /\ page \intersect gone = {}
    <3>1. Scanned(cursor[w]) \subseteq pending
      BY DEF Scanned, From
    <3>2. \A i \in pending : i \in Int /\ trimmed \in Int
      BY DEF TypeOK, Ids
    <3> QED
      BY <3>1, <3>2 DEF Claimed, Purged
  <2>2. /\ pending' = pending \ gone
        /\ idle' = idle \ (page \union gone)
        /\ claimed' = claimed \union page
        /\ todo' = [todo EXCEPT ![w] = page]
    BY <1>3 DEF Claim
  <2>3. pc' \in [Workers -> {"down", "claim", "read", "entry", "failed", "ack"}]
    BY <1>3 DEF Claim, TypeOK
  <2>4. cursor' \in [Workers -> Nat]
    BY <1>3 DEF Claim, TypeOK, Ids
  <2> HIDE DEF page, gone
  <2> QED
    BY <1>3, <2>1, <2>2, <2>3, <2>4 DEF Claim, TypeOK, Ids, webVars, dlqVars
<1>4. ASSUME NEW w \in Workers, Read(w) PROVE TypeOK'
  <2>1. Batch \subseteq Ids BY DEF Batch
  <2>2. lastDelivered' \in 0..Len(stream')
    BY <1>4, <2>1 DEF Read, TypeOK, Ids
  <2>3. pc' \in [Workers -> {"down", "claim", "read", "entry", "failed", "ack"}]
    BY <1>4 DEF Read, TypeOK
  <2>4. todo' \in [Workers -> SUBSET Ids] /\ pending' \subseteq Ids
    BY <1>4, <2>1 DEF Read, AddPending, TypeOK
  <2> QED
    BY <1>4, <2>2, <2>3, <2>4
    DEF Read, AddPending, TypeOK, Ids, webVars, dlqVars, historyVars
<1>5. ASSUME NEW w \in Workers, ExecuteOk(w) PROVE TypeOK'
  <2>1. PICK i \in Ids :
           completions' = [completions EXCEPT ![stream[i].msg] = @ + 1]
    BY <1>5 DEF ExecuteOk
  <2>2. completions' \in [Messages -> Nat]
    BY <2>1, EntryFields, SMTT(20) DEF TypeOK
  <2>3. pc' \in [Workers -> {"down", "claim", "read", "entry", "failed", "ack"}]
    BY <1>5 DEF ExecuteOk, TypeOK
  <2> QED
    BY <1>5, <2>2, <2>3 DEF ExecuteOk, TypeOK, Ids, webVars, busVars
<1>6. ASSUME NEW w \in Workers, ExecuteFail(w) PROVE TypeOK'
  BY <1>6 DEF ExecuteFail, TypeOK, Ids, webVars, busVars, historyVars
<1>7. ASSUME NEW w \in Workers, HandleFailure(w) PROVE TypeOK'
  <2>1. PICK i \in Ids :
           \/ /\ XAddDlq(stream[i].msg, stream[i].attempt + 1)
              /\ UNCHANGED <<stream, trimmed>>
           \/ /\ XAdd(stream[i].msg, stream[i].attempt + 1)
              /\ UNCHANGED dlqVars
    BY <1>7 DEF HandleFailure
  <2>2. stream[i].msg \in Messages /\ stream[i].attempt + 1 \in Nat
    BY EntryFields
  <2>3. pc' \in [Workers -> {"down", "claim", "read", "entry", "failed", "ack"}]
    BY <1>7 DEF HandleFailure, TypeOK
  <2>4. /\ stream' \in Seq(Entry)
        /\ Ids \subseteq Ids'
        /\ trimmed' \in 0..Len(stream')
        /\ 0..Len(stream) \subseteq 0..Len(stream')
    <3>1. CASE XAdd(stream[i].msg, stream[i].attempt + 1)
      BY <2>2, <3>1, XAddExtends
    <3>2. CASE UNCHANGED <<stream, trimmed>>
      BY <3>2 DEF TypeOK, Ids
    <3> QED BY <2>1, <3>1, <3>2
  <2>5. dlq' \in Seq(Letter) /\ dlqTrimmed' \in 0..Len(dlq')
    <3>1. CASE XAddDlq(stream[i].msg, stream[i].attempt + 1)
      BY <2>2, <3>1, XAddDlqExtends
    <3>2. CASE UNCHANGED dlqVars
      BY <3>2 DEF TypeOK, dlqVars
    <3> QED BY <2>1, <3>1, <3>2
  <2>6. /\ UNCHANGED <<dedupe, publishing, accepted, lastDelivered, pending, idle,
                       todo, cursor, acked, claimed, completions, crashes, expiries>>
    BY <1>7 DEF HandleFailure, webVars, historyVars
  <2>7. lastDelivered' \in 0..Len(stream')
    BY <2>4, <2>6 DEF TypeOK
  <2>8. todo' \in [Workers -> SUBSET Ids']
    BY <2>4, <2>6 DEF TypeOK
  <2>9. pending' \subseteq Ids' /\ acked' \subseteq Ids' /\ claimed' \subseteq Ids'
    BY <2>4, <2>6 DEF TypeOK
  <2> QED
    BY <2>3, <2>4, <2>5, <2>6, <2>7, <2>8, <2>9 DEF TypeOK
<1>8. ASSUME NEW w \in Workers, Ack(w) PROVE TypeOK'
  <2>1. pc' \in [Workers -> {"down", "claim", "read", "entry", "failed", "ack"}]
    BY <1>8 DEF Ack, AfterEntry, TypeOK
  <2> QED
    BY <1>8, <2>1, SMTT(30) DEF Ack, AckedBy, TypeOK, Ids, webVars, dlqVars
<1>9. ASSUME NEW w \in Workers, Crash(w) PROVE TypeOK'
  BY <1>9, BoundAssumption DEF Crash, TypeOK, Ids, webVars, busVars
<1>10. ASSUME TimePasses PROVE TypeOK'
  BY <1>10 DEF TimePasses, BecomeIdle, TypeOK, Ids, webVars, dlqVars,
               workerVars, historyVars
<1>11. ASSUME UNCHANGED vars PROVE TypeOK'
  BY <1>11 DEF vars, TypeOK, Ids, webVars, busVars, workerVars, historyVars
<1> QED
  BY <1>1, <1>2, <1>3, <1>4, <1>5, <1>6, <1>7, <1>8, <1>9, <1>10, <1>11
  DEF Next, WorkerStep

\* Type correctness of the bus, its workers and the webhook.
THEOREM TypeCorrect == Spec => []TypeOK
PROOF
<1>1. Init => TypeOK
  BY MaxRetriesAssumption, BoundAssumption DEF Init, TypeOK, Ids, Entry
<1>2. TypeOK /\ [Next]_vars => TypeOK'
  BY TypePreserved
<1> QED
  BY <1>1, <1>2, PTL DEF Spec

-----------------------------------------------------------------------------
(* Facts about any step.                                                    *)

\* A step leaves the stream alone or appends one entry.
LEMMA StreamStep ==
    ASSUME TypeOK, [Next]_vars
    PROVE  \/ stream' = stream /\ trimmed' = trimmed
           \/ \E m \in Messages, k \in Nat : XAdd(m, k)
PROOF
<1>1. ASSUME NEW m \in Messages, WebStep(m)
      PROVE  \/ stream' = stream /\ trimmed' = trimmed
             \/ \E n \in Messages, k \in Nat : XAdd(n, k)
  <2>1. CASE WebhookPublish(m)
    BY <2>1 DEF WebhookPublish
  <2>2. CASE ~WebhookPublish(m)
    BY <1>1, <2>2
    DEF WebStep, WebhookMark, WebhookDuplicate, WebhookFail, DedupeExpire,
        busVars
  <2> QED BY <2>1, <2>2
<1>2. ASSUME NEW w \in Workers, HandleFailure(w)
      PROVE  \/ stream' = stream /\ trimmed' = trimmed
             \/ \E n \in Messages, k \in Nat : XAdd(n, k)
  <2>1. PICK i \in Ids :
           \/ stream' = stream /\ trimmed' = trimmed
           \/ XAdd(stream[i].msg, stream[i].attempt + 1)
    BY <1>2 DEF HandleFailure
  <2>2. stream[i].msg \in Messages /\ stream[i].attempt + 1 \in Nat
    BY EntryFields
  <2> QED BY <2>1, <2>2
<1>3. ASSUME NEW w \in Workers, WorkerStep(w) \/ Crash(w), ~HandleFailure(w)
      PROVE  stream' = stream /\ trimmed' = trimmed
  BY <1>3
  DEF WorkerStep, Start, Claim, Read, ExecuteOk, ExecuteFail, Ack, Crash, busVars
<1>4. ASSUME TimePasses PROVE stream' = stream /\ trimmed' = trimmed
  BY <1>4 DEF TimePasses, BecomeIdle
<1>5. ASSUME UNCHANGED vars PROVE stream' = stream /\ trimmed' = trimmed
  BY <1>5 DEF vars, busVars
<1> QED
  BY <1>1, <1>2, <1>3, <1>4, <1>5 DEF Next

\* The entries of the stream never change, and trimming only advances.
LEMMA StreamGrows ==
    ASSUME TypeOK, [Next]_vars
    PROVE  /\ Ids \subseteq Ids'
           /\ \A i \in Ids : stream'[i] = stream[i]
           /\ trimmed <= trimmed'
           /\ trimmed \in Nat /\ trimmed' \in Nat
PROOF
<1>1. trimmed \in Nat
  BY DEF TypeOK
<1>2. CASE stream' = stream /\ trimmed' = trimmed
  BY <1>1, <1>2 DEF Ids
<1>3. CASE \E m \in Messages, k \in Nat : XAdd(m, k)
  <2>1. PICK m \in Messages, k \in Nat : XAdd(m, k)
    BY <1>3
  <2>2. /\ Ids \subseteq Ids'
        /\ \A i \in Ids : stream'[i] = stream[i]
        /\ trimmed <= trimmed'
        /\ trimmed' \in 0..Len(stream')
    BY <2>1, XAddExtends
  <2> QED
    BY <1>1, <2>2
<1> QED
  BY <1>2, <1>3, StreamStep

\* A step leaves the dead-letter stream alone or appends one record.
LEMMA DlqStep ==
    ASSUME TypeOK, [Next]_vars
    PROVE  \/ UNCHANGED dlqVars
           \/ \E m \in Messages, k \in Nat : XAddDlq(m, k)
PROOF
<1>1. ASSUME NEW m \in Messages, WebStep(m) PROVE UNCHANGED dlqVars
  BY <1>1
  DEF WebStep, WebhookMark, WebhookDuplicate, WebhookPublish, WebhookFail,
      DedupeExpire, busVars, dlqVars
<1>2. ASSUME NEW w \in Workers, HandleFailure(w)
      PROVE  \/ UNCHANGED dlqVars
             \/ \E m \in Messages, k \in Nat : XAddDlq(m, k)
  <2>1. PICK i \in Ids :
           \/ UNCHANGED dlqVars
           \/ XAddDlq(stream[i].msg, stream[i].attempt + 1)
    BY <1>2 DEF HandleFailure
  <2>2. stream[i].msg \in Messages /\ stream[i].attempt + 1 \in Nat
    BY EntryFields
  <2> QED BY <2>1, <2>2
<1>3. ASSUME NEW w \in Workers, WorkerStep(w) \/ Crash(w), ~HandleFailure(w)
      PROVE  UNCHANGED dlqVars
  BY <1>3
  DEF WorkerStep, Start, Claim, Read, ExecuteOk, ExecuteFail, Ack, Crash,
      busVars, dlqVars
<1>4. ASSUME TimePasses \/ UNCHANGED vars PROVE UNCHANGED dlqVars
  BY <1>4 DEF TimePasses, BecomeIdle, vars, busVars, dlqVars
<1> QED
  BY <1>1, <1>2, <1>3, <1>4 DEF Next

\* Dead letters never change, and trimming only advances.
LEMMA DlqGrows ==
    ASSUME TypeOK, [Next]_vars
    PROVE  /\ Letters \subseteq Letters'
           /\ \A k \in Letters : dlq'[k] = dlq[k]
           /\ dlqTrimmed <= dlqTrimmed'
PROOF
<1>1. CASE UNCHANGED dlqVars
  BY <1>1 DEF Letters, dlqVars, TypeOK
<1>2. CASE \E m \in Messages, k \in Nat : XAddDlq(m, k)
  BY <1>2, XAddDlqExtends
<1> QED
  BY <1>1, <1>2, DlqStep

\* Trimming leaves maxlen entries in each stream.
LEMMA KeepsMaxLenStep ==
    ASSUME TypeOK, KeepsMaxLen, [Next]_vars
    PROVE  KeepsMaxLen'
PROOF
<1>1. /\ trimmed \in Nat /\ Len(stream) \in Nat
      /\ dlqTrimmed \in Nat /\ Len(dlq) \in Nat
  BY DEF TypeOK
<1>2. MaxLen \in Nat /\ DlqMaxLen \in Nat
  BY PageAssumption
<1>3. trimmed' > 0 => trimmed' + MaxLen <= Len(stream')
  <2>1. CASE stream' = stream /\ trimmed' = trimmed
    BY <2>1 DEF KeepsMaxLen
  <2>2. ASSUME NEW m \in Messages, NEW k \in Nat, XAdd(m, k)
        PROVE  trimmed' > 0 => trimmed' + MaxLen <= Len(stream')
    <3>1. /\ Len(stream') = Len(stream) + 1
          /\ trimmed' = trimmed \/ trimmed' + MaxLen <= Len(stream')
      BY <2>2, XAddExtends
    <3> QED
      BY <1>1, <1>2, <3>1 DEF KeepsMaxLen
  <2> QED
    BY <2>1, <2>2, StreamStep
<1>4. dlqTrimmed' > 0 => dlqTrimmed' + DlqMaxLen <= Len(dlq')
  <2>1. CASE UNCHANGED dlqVars
    BY <2>1 DEF KeepsMaxLen, dlqVars
  <2>2. ASSUME NEW m \in Messages, NEW k \in Nat, XAddDlq(m, k)
        PROVE  dlqTrimmed' > 0 => dlqTrimmed' + DlqMaxLen <= Len(dlq')
    <3>1. /\ Len(dlq') = Len(dlq) + 1
          /\ dlqTrimmed' = dlqTrimmed \/ dlqTrimmed' + DlqMaxLen <= Len(dlq')
      BY <2>2, XAddDlqExtends
    <3> QED
      BY <1>1, <1>2, <3>1 DEF KeepsMaxLen
  <2> QED
    BY <2>1, <2>2, DlqStep
<1> QED
  BY <1>3, <1>4 DEF KeepsMaxLen

\* A message that has had an outcome keeps it.
LEMMA SettledStays ==
    ASSUME TypeOK, [Next]_vars, NEW m \in Messages, Settled(m)
    PROVE  Settled(m)'
PROOF
<1>1. \A n \in Messages : completions[n] > 0 => completions'[n] > 0
  <2>1. ASSUME NEW n \in Messages, WebStep(n) PROVE completions' = completions
    BY <2>1
    DEF WebStep, WebhookMark, WebhookDuplicate, WebhookPublish, WebhookFail,
        DedupeExpire, historyVars
  <2>2. ASSUME NEW w \in Workers, ExecuteOk(w)
        PROVE  \A n \in Messages : completions[n] > 0 => completions'[n] > 0
    <3>1. PICK i \in Ids :
             completions' = [completions EXCEPT ![stream[i].msg] = @ + 1]
      BY <2>2 DEF ExecuteOk
    <3>2. completions \in [Messages -> Nat]
      BY DEF TypeOK
    <3> QED
      BY <3>1, <3>2
  <2>3. ASSUME NEW w \in Workers, WorkerStep(w) \/ Crash(w), ~ExecuteOk(w)
        PROVE  completions' = completions
    BY <2>3 DEF WorkerStep, Start, Claim, Read, ExecuteFail, HandleFailure, Ack,
                Crash, historyVars
  <2>4. ASSUME TimePasses \/ UNCHANGED vars PROVE completions' = completions
    BY <2>4 DEF TimePasses, BecomeIdle, vars, historyVars
  <2> QED
    BY <2>1, <2>2, <2>3, <2>4 DEF Next
<1>2. Buried(m) => Buried(m)'
  BY DlqGrows DEF Buried
<1> QED
  BY <1>1, <1>2 DEF Settled, Completed

-----------------------------------------------------------------------------
(* Unacknowledged entries stay reachable.                                   *)

\* Reading, claiming and acknowledging keep unacknowledged entries unread or
\* pending, and trimming leaves those that maxlen newer ones do not follow.
LEMMA ReachableStep ==
    ASSUME TypeOK, KeepsMaxLen, UnackedIsReachable, [Next]_vars
    PROVE  UnackedIsReachable'
PROOF
<1> SUFFICES ASSUME NEW i \in Ids', i \notin acked',
                    ~(i + MaxLen <= Len(stream'))
             PROVE  i > trimmed' /\ (i > lastDelivered' \/ i \in pending')
  BY DEF UnackedIsReachable
<1>1. /\ trimmed <= trimmed'
      /\ trimmed \in Nat /\ trimmed' \in Nat
      /\ lastDelivered \in Nat
      /\ i \in Nat \ {0}
      /\ MaxLen \in Nat
      /\ Len(stream) \in Nat /\ Len(stream') \in Nat
      /\ Len(stream) <= Len(stream')
  <2>1. TypeOK'
    BY TypePreserved
  <2>2. lastDelivered \in Nat /\ MaxLen \in Nat /\ Len(stream) \in Nat
    BY PageAssumption DEF TypeOK
  <2>3. i \in Nat \ {0} /\ Len(stream') \in Nat
    BY <2>1, SMTT(30) DEF TypeOK, Ids
  <2>4. Len(stream) <= Len(stream')
    BY <2>2, <2>3, StreamGrows, IntervalGrows DEF Ids
  <2> QED
    BY <2>2, <2>3, <2>4, StreamGrows
<1>2. i > trimmed'
  BY <1>1, KeepsMaxLenStep DEF KeepsMaxLen
<1>3. i \in Ids => i \in acked \/ i > lastDelivered \/ i \in pending
  BY <1>1 DEF UnackedIsReachable
<1>4. i \notin Ids => i > lastDelivered
  BY <1>1 DEF Ids, TypeOK
<1> SUFFICES i > lastDelivered' \/ i \in pending'
  BY <1>2
<1>5. CASE acked' = acked /\ lastDelivered' = lastDelivered /\ pending' = pending
  BY <1>3, <1>4, <1>5
<1>6. ASSUME NEW w \in Workers, Claim(w)
      PROVE  i > lastDelivered' \/ i \in pending'
  <2>1. /\ pending' = pending \ Purged(cursor[w])
        /\ acked' = acked
        /\ lastDelivered' = lastDelivered
        /\ trimmed' = trimmed
    BY <1>6 DEF Claim
  <2>2. \A j \in Purged(cursor[w]) : j <= trimmed
    BY DEF Purged
  <2> QED
    BY <1>1, <1>2, <1>3, <1>4, <2>1, <2>2
<1>7. ASSUME NEW w \in Workers, Read(w)
      PROVE  i > lastDelivered' \/ i \in pending'
  <2>1. /\ pending' = pending \union Batch
        /\ acked' = acked
        /\ stream' = stream
        /\ lastDelivered' \in Batch
        /\ trimmed' = trimmed
    BY <1>7 DEF Read, AddPending, historyVars
  <2>2. i \in Ids
    BY <2>1 DEF Ids
  <2>3. CASE i > lastDelivered /\ i <= lastDelivered'
    <3>1. lastDelivered' <= ReadAfter + BatchSize
      BY <2>1 DEF Batch
    <3>2. i <= ReadAfter + BatchSize
      BY <1>1, <2>1, <2>3, <3>1, PageAssumption DEF Batch, ReadAfter, Ids
    <3>3. i > ReadAfter
      BY <1>1, <1>2, <2>1, <2>3 DEF ReadAfter
    <3> QED
      BY <2>1, <2>2, <3>2, <3>3 DEF Batch
  <2>4. lastDelivered' \in Nat
    BY <2>1 DEF Batch, Ids
  <2> QED
    BY <1>1, <1>3, <2>1, <2>2, <2>3, <2>4
<1>8. ASSUME NEW w \in Workers, Ack(w)
      PROVE  i > lastDelivered' \/ i \in pending'
  <2>1. PICK k \in Ids : pending' = pending \ {k} /\ acked' = acked \union {k}
    BY <1>8 DEF Ack, AckedBy
  <2>2. lastDelivered' = lastDelivered
    BY <1>8 DEF Ack
  <2> QED
    BY <1>3, <1>4, <2>1, <2>2
<1>9. ASSUME NEW w \in Workers, WorkerStep(w) \/ Crash(w),
             ~Claim(w), ~Read(w), ~Ack(w)
      PROVE  acked' = acked /\ lastDelivered' = lastDelivered /\ pending' = pending
  BY <1>9
  DEF WorkerStep, Start, ExecuteOk, ExecuteFail, HandleFailure, Crash,
      busVars, historyVars
<1>10. ASSUME NEW m \in Messages, WebStep(m)
       PROVE  acked' = acked /\ lastDelivered' = lastDelivered /\ pending' = pending
  BY <1>10
  DEF WebStep, WebhookMark, WebhookDuplicate, WebhookPublish, WebhookFail,
      DedupeExpire, busVars, historyVars
<1>11. ASSUME TimePasses \/ UNCHANGED vars
       PROVE  acked' = acked /\ lastDelivered' = lastDelivered /\ pending' = pending
  BY <1>11 DEF TimePasses, BecomeIdle, vars, busVars, historyVars
<1> QED
  BY <1>5, <1>6, <1>7, <1>8, <1>9, <1>10, <1>11 DEF Next

\* An entry that was not acknowledged is in the stream, unread or pending,
\* until maxlen newer entries follow it, however many workers read, claim,
\* crash and acknowledge.
THEOREM UnackedStaysReachable == Spec => []UnackedIsReachable
PROOF
<1>1. Init => KeepsMaxLen /\ UnackedIsReachable
  BY DEF Init, KeepsMaxLen, UnackedIsReachable, Ids
<1>2. TypeOK /\ KeepsMaxLen /\ [Next]_vars => KeepsMaxLen'
  BY KeepsMaxLenStep
<1>3. TypeOK /\ KeepsMaxLen /\ UnackedIsReachable /\ [Next]_vars
         => UnackedIsReachable'
  BY ReachableStep
<1> QED
  BY <1>1, <1>2, <1>3, TypeCorrect, PTL DEF Spec

-----------------------------------------------------------------------------
(* No published message disappears.                                         *)

NoLossInv == UnsettledIsUnacked /\ OutcomeBeforeAck

\* The steps other than Ack acknowledge nothing.
LEMMA AckedOnlyByAck ==
    ASSUME [Next]_vars
    PROVE  acked' = acked \/ \E w \in Workers : Ack(w)
PROOF
<1>1. ASSUME NEW m \in Messages, WebStep(m) PROVE acked' = acked
  BY <1>1
  DEF WebStep, WebhookMark, WebhookDuplicate, WebhookPublish, WebhookFail,
      DedupeExpire, historyVars
<1>2. ASSUME NEW w \in Workers, WorkerStep(w) \/ Crash(w), ~Ack(w)
      PROVE  acked' = acked
  BY <1>2
  DEF WorkerStep, Start, Claim, Read, ExecuteOk, ExecuteFail, HandleFailure,
      Crash, historyVars
<1>3. ASSUME TimePasses \/ UNCHANGED vars PROVE acked' = acked
  BY <1>3 DEF TimePasses, BecomeIdle, vars, historyVars
<1> QED
  BY <1>1, <1>2, <1>3 DEF Next

\* The entry a worker is processing is unique.
LEMMA CurrentIsUnique ==
    ASSUME NEW w \in Workers, NEW i \in Ids, NEW k \in Ids,
           IsCurrent(w, i), IsCurrent(w, k)
    PROVE  i = k
BY DEF IsCurrent, Ids

\* A message that XADD appends has an unacknowledged entry.
LEMMA NewEntryIsUnacked ==
    ASSUME TypeOK, NEW m \in Messages, NEW k \in Nat, XAdd(m, k), acked' = acked
    PROVE  /\ Len(stream) + 1 \in Ids' \ acked'
           /\ stream'[Len(stream) + 1] = [msg |-> m, attempt |-> k]
PROOF
<1>1. /\ Len(stream) \in Nat
      /\ Ids' = Ids \union {Len(stream) + 1}
      /\ stream'[Len(stream) + 1] = [msg |-> m, attempt |-> k]
  BY XAddExtends
<1>2. acked \subseteq 1..Len(stream)
  BY DEF TypeOK, Ids
<1> QED
  BY <1>1, <1>2

\* The outcome that allows an entry to be acknowledged does not go away.
LEMMA OutcomeStays ==
    ASSUME TypeOK, NoLossInv, [Next]_vars, NEW i \in Ids,
           Settled(stream[i].msg) \/ Superseded(i)
    PROVE  /\ i \in Ids'
           /\ Settled(stream[i].msg)' \/ Superseded(i)'
PROOF
<1>1. /\ i \in Ids' /\ Ids \subseteq Ids'
      /\ \A j \in Ids : stream'[j] = stream[j]
  BY StreamGrows
<1>2. \A j \in Ids : stream[j].msg \in Messages /\ stream[j].attempt \in Nat
  BY EntryFields
<1>3. \A j \in Ids : Settled(stream[j].msg) => Settled(stream[j].msg)'
  <2> SUFFICES ASSUME NEW j \in Ids, Settled(stream[j].msg)
               PROVE  Settled(stream[j].msg)'
    OBVIOUS
  <2> DEFINE m == stream[j].msg
  <2>1. m \in Messages /\ stream'[j].msg = m
    BY <1>1, <1>2
  <2>2. completions'[m] > 0 \/ \E k \in Letters' : dlq'[k].msg = m
    BY <2>1, SettledStays DEF Settled, Completed, Buried
  <2> QED
    BY <2>1, <2>2 DEF Settled, Completed, Buried
<1>4. CASE Settled(stream[i].msg)
  BY <1>1, <1>3, <1>4
<1>5. CASE Superseded(i)
  <2>1. PICK j \in Ids \ acked : /\ stream[j].msg = stream[i].msg
                                 /\ stream[j].attempt > stream[i].attempt
    BY <1>5 DEF Superseded
  <2>2. CASE acked' = acked
    BY <1>1, <2>1, <2>2 DEF Superseded
  <2>3. ASSUME NEW w \in Workers, Ack(w)
        PROVE  Settled(stream[i].msg)' \/ Superseded(i)'
    <3>1. PICK k \in Ids : IsCurrent(w, k) /\ acked' = acked \union {k}
      BY <2>3 DEF Ack, AckedBy
    <3>2. Settled(stream[k].msg) \/ Superseded(k)
      BY <2>3, <3>1 DEF NoLossInv, OutcomeBeforeAck, Ack
    <3>3. CASE j # k
      BY <1>1, <2>1, <3>1, <3>3 DEF Superseded
    <3>4. CASE j = k /\ Settled(stream[k].msg)
      <4>1. Settled(stream[k].msg)'
        BY <1>3, <3>4
      <4> QED
        BY <1>1, <2>1, <3>4, <4>1
    <3>5. CASE j = k /\ Superseded(k)
      <4>1. PICK n \in Ids \ acked : /\ stream[n].msg = stream[k].msg
                                     /\ stream[n].attempt > stream[k].attempt
        BY <3>5 DEF Superseded
      <4>2. n # k /\ stream[n].attempt > stream[i].attempt
        BY <1>2, <2>1, <3>5, <4>1
      <4>3. n \in Ids' \ acked'
        BY <1>1, <3>1, <4>1, <4>2
      <4> QED
        BY <1>1, <2>1, <3>5, <4>1, <4>2, <4>3 DEF Superseded
    <3> QED
      BY <3>2, <3>3, <3>4, <3>5
  <2> QED
    BY <1>1, <2>2, <2>3, AckedOnlyByAck
<1> QED
  BY <1>4, <1>5

\* How a worker comes to be about to acknowledge.
LEMMA AboutToAck ==
    ASSUME TypeOK, [Next]_vars, NEW v \in Workers, pc'[v] = "ack"
    PROVE  \/ pc[v] = "ack" /\ todo'[v] = todo[v]
           \/ ExecuteOk(v)
           \/ HandleFailure(v)
PROOF
<1>1. pc \in [Workers -> {"down", "claim", "read", "entry", "failed", "ack"}]
      /\ DOMAIN todo = Workers
  BY DEF TypeOK
<1>2. ASSUME NEW w \in Workers, w # v, WorkerStep(w) \/ Crash(w)
      PROVE  pc'[v] = pc[v] /\ todo'[v] = todo[v]
  <2>1. CASE Start(w) BY <1>1, <1>2, <2>1 DEF Start
  <2>2. CASE Claim(w) BY <1>1, <1>2, <2>2 DEF Claim
  <2>3. CASE Read(w) BY <1>1, <1>2, <2>3 DEF Read
  <2>4. CASE ExecuteOk(w) BY <1>1, <1>2, <2>4 DEF ExecuteOk
  <2>5. CASE ExecuteFail(w) BY <1>1, <1>2, <2>5 DEF ExecuteFail, workerVars
  <2>6. CASE HandleFailure(w) BY <1>1, <1>2, <2>6 DEF HandleFailure
  <2>7. CASE Ack(w) BY <1>1, <1>2, <2>7 DEF Ack
  <2>8. CASE Crash(w) BY <1>1, <1>2, <2>8 DEF Crash
  <2> QED
    BY <1>2, <2>1, <2>2, <2>3, <2>4, <2>5, <2>6, <2>7, <2>8 DEF WorkerStep
<1>3. ASSUME WorkerStep(v) \/ Crash(v), ~ExecuteOk(v), ~HandleFailure(v)
      PROVE  FALSE
  <2>1. CASE Start(v) BY <1>1, <2>1 DEF Start
  <2>2. CASE Claim(v) BY <1>1, <2>2 DEF Claim
  <2>3. CASE Read(v) BY <1>1, <2>3 DEF Read
  <2>5. CASE ExecuteFail(v) BY <1>1, <2>5 DEF ExecuteFail
  <2>7. CASE Ack(v) BY <1>1, <2>7 DEF Ack, AfterEntry
  <2>8. CASE Crash(v) BY <1>1, <2>8 DEF Crash
  <2> QED
    BY <1>3, <2>1, <2>2, <2>3, <2>5, <2>7, <2>8 DEF WorkerStep
<1>4. ASSUME NEW m \in Messages, WebStep(m)
      PROVE  pc'[v] = pc[v] /\ todo'[v] = todo[v]
  BY <1>4
  DEF WebStep, WebhookMark, WebhookDuplicate, WebhookPublish, WebhookFail,
      DedupeExpire, workerVars
<1>5. ASSUME TimePasses \/ UNCHANGED vars
      PROVE  pc'[v] = pc[v] /\ todo'[v] = todo[v]
  BY <1>5 DEF TimePasses, BecomeIdle, vars, workerVars
<1> QED
  BY <1>2, <1>3, <1>4, <1>5 DEF Next

\* An entry is acknowledged only after its outcome, so that no message is left
\* without one.
LEMMA NoLossStep ==
    ASSUME TypeOK, NoLossInv, [Next]_vars
    PROVE  NoLossInv'
PROOF
<1>1. TypeOK'
  BY TypePreserved
<1>2. /\ Ids \subseteq Ids'
      /\ \A j \in Ids : stream'[j] = stream[j]
  BY StreamGrows
<1>3. \A j \in Ids : stream[j].msg \in Messages /\ stream[j].attempt \in Nat
  BY EntryFields
<1>4. UnsettledIsUnacked'
  <2> SUFFICES ASSUME NEW i \in Ids'
               PROVE  \/ Settled(stream[i].msg)'
                      \/ \E j \in Ids' \ acked' : stream'[j].msg = stream'[i].msg
    BY DEF UnsettledIsUnacked
  <2>1. CASE i \in Ids
    <3>1. CASE Settled(stream[i].msg) \/ Superseded(i)
      <4>1. Settled(stream[i].msg)' \/ Superseded(i)'
        BY <2>1, <3>1, OutcomeStays
      <4> QED
        BY <4>1 DEF Superseded
    <3>2. CASE ~Settled(stream[i].msg)
      <4>1. PICK j \in Ids \ acked : stream[j].msg = stream[i].msg
        BY <2>1, <3>2 DEF NoLossInv, UnsettledIsUnacked
      <4>2. CASE j \notin acked'
        BY <1>2, <2>1, <4>1, <4>2
      <4>3. CASE j \in acked'
        <5>1. PICK w \in Workers : Ack(w)
          BY <4>1, <4>3, AckedOnlyByAck
        <5>2. IsCurrent(w, j)
          BY <4>1, <4>3, <5>1 DEF Ack, AckedBy
        <5>3. Settled(stream[j].msg) \/ Superseded(j)
          BY <4>1, <5>1, <5>2 DEF NoLossInv, OutcomeBeforeAck, Ack
        <5>4. Settled(stream[j].msg)' \/ Superseded(j)'
          BY <4>1, <5>3, OutcomeStays
        <5>5. stream'[j].msg = stream'[i].msg
          BY <1>2, <2>1, <4>1
        <5> QED
          BY <5>4, <5>5 DEF Superseded
      <4> QED BY <4>2, <4>3
    <3> QED BY <3>1, <3>2
  <2>2. CASE i \notin Ids
    <3>1. PICK m \in Messages, k \in Nat : XAdd(m, k)
      BY <2>2, StreamStep DEF Ids
    <3>2. Ids' = Ids \union {Len(stream) + 1}
      BY <3>1, XAddExtends
    <3>3. acked' \subseteq Ids
      <4>1. acked \subseteq Ids
        BY DEF TypeOK
      <4> QED
        BY <4>1, AckedOnlyByAck DEF Ack, AckedBy
    <3> QED
      BY <2>2, <3>3
  <2> QED
    BY <2>1, <2>2
<1>5. OutcomeBeforeAck'
  <2> SUFFICES ASSUME NEW v \in Workers, pc'[v] = "ack",
                      NEW i \in Ids', IsCurrent(v, i)'
               PROVE  Settled(stream[i].msg)' \/ Superseded(i)'
    BY DEF OutcomeBeforeAck
  <2>1. CASE pc[v] = "ack" /\ todo'[v] = todo[v]
    <3>1. i \in Ids /\ IsCurrent(v, i)
      BY <2>1 DEF IsCurrent, TypeOK
    <3>2. Settled(stream[i].msg) \/ Superseded(i)
      BY <2>1, <3>1 DEF NoLossInv, OutcomeBeforeAck
    <3> QED
      BY <3>1, <3>2, OutcomeStays
  <2>2. CASE ExecuteOk(v)
    <3>1. PICK k \in Ids :
             /\ IsCurrent(v, k)
             /\ completions' = [completions EXCEPT ![stream[k].msg] = @ + 1]
      BY <2>2 DEF ExecuteOk
    <3>2. i \in Ids /\ IsCurrent(v, i)
      BY <2>2 DEF ExecuteOk, IsCurrent, TypeOK
    <3>3. i = k
      BY <3>1, <3>2, CurrentIsUnique
    <3>4. stream[k].msg \in Messages /\ completions \in [Messages -> Nat]
      BY <1>3 DEF TypeOK
    <3>5. completions'[stream[k].msg] > 0
      BY <3>1, <3>4
    <3> QED
      BY <1>2, <3>2, <3>3, <3>5 DEF Settled, Completed
  <2>3. CASE HandleFailure(v)
    <3>1. PICK k \in Ids :
             /\ IsCurrent(v, k)
             /\ \/ XAddDlq(stream[k].msg, stream[k].attempt + 1)
                \/ XAdd(stream[k].msg, stream[k].attempt + 1)
      BY <2>3 DEF HandleFailure
    <3>2. i \in Ids /\ IsCurrent(v, i)
      BY <2>3 DEF HandleFailure, IsCurrent, TypeOK
    <3>3. i = k
      BY <3>1, <3>2, CurrentIsUnique
    <3>4. CASE XAddDlq(stream[k].msg, stream[k].attempt + 1)
      <4> DEFINE n == Len(dlq) + 1
      <4>1. stream[k].msg \in Messages /\ stream[k].attempt + 1 \in Nat
        BY <1>3
      <4>2. /\ Letters' = Letters \union {n}
            /\ dlq'[n] = [msg |-> stream[k].msg, attempts |-> stream[k].attempt + 1]
        BY <3>4, <4>1, XAddDlqExtends
      <4>3. n \in Letters' /\ dlq'[n].msg = stream[k].msg
        BY <4>2
      <4>4. stream'[i].msg = stream[k].msg
        BY <1>2, <3>2, <3>3
      <4> HIDE DEF n
      <4> QED
        BY <4>3, <4>4 DEF Settled, Buried
    <3>5. CASE XAdd(stream[k].msg, stream[k].attempt + 1)
      <4>1. acked' = acked
        BY <2>3 DEF HandleFailure, historyVars
      <4>2. stream[k].msg \in Messages /\ stream[k].attempt + 1 \in Nat
        BY <1>3
      <4>3. /\ Len(stream) + 1 \in Ids' \ acked'
            /\ stream'[Len(stream) + 1] = [msg |-> stream[k].msg,
                                           attempt |-> stream[k].attempt + 1]
        BY <3>5, <4>1, <4>2, NewEntryIsUnacked
      <4> QED
        BY <1>2, <1>3, <3>3, <4>3 DEF Superseded
    <3> QED
      BY <3>1, <3>4, <3>5
  <2> QED
    BY <2>1, <2>2, <2>3, AboutToAck
<1> QED
  BY <1>4, <1>5 DEF NoLossInv

\* What trimming may have done to a message in the meantime: one that has an
\* outcome or an unacknowledged entry is in sight, or was pushed out.
LEMMA NothingGoesUnseen ==
    ASSUME TypeOK, KeepsMaxLen, UnsettledIsUnacked
    PROVE  NoSilentLoss
PROOF
<1> SUFFICES ASSUME NEW i \in Ids
             PROVE  \/ Completed(stream[i].msg)
                    \/ Dead(stream[i].msg)
                    \/ \E j \in Ids : stream[j].msg = stream[i].msg /\ Owed(j)
                    \/ Evicted(stream[i].msg)
  BY DEF NoSilentLoss, Published
<1>1. CASE Buried(stream[i].msg)
  <2>1. PICK k \in Letters : dlq[k].msg = stream[i].msg
    BY <1>1 DEF Buried
  <2>2. CASE k > dlqTrimmed
    BY <2>1, <2>2 DEF Dead
  <2>3. CASE ~(k > dlqTrimmed)
    <3>1. k \in Nat \ {0} /\ dlqTrimmed \in Nat /\ Len(dlq) \in Nat
          /\ DlqMaxLen \in Nat
      BY PageAssumption DEF Letters, TypeOK
    <3>2. k <= dlqTrimmed /\ k + DlqMaxLen <= Len(dlq)
      BY <2>3, <3>1 DEF KeepsMaxLen
    <3> QED
      BY <2>1, <3>2 DEF Evicted, LetterEvicted
  <2> QED BY <2>2, <2>3
<1>2. ASSUME NEW j \in Ids \ acked, stream[j].msg = stream[i].msg, ~Owed(j)
      PROVE  Evicted(stream[i].msg)
  <2>1. j \in Nat \ {0} /\ trimmed \in Nat /\ Len(stream) \in Nat
        /\ MaxLen \in Nat
    BY PageAssumption DEF Ids, TypeOK
  <2>2. ~Held(j) /\ ~(j > trimmed)
    BY <1>2 DEF Owed
  <2>3. j <= trimmed /\ j + MaxLen <= Len(stream)
    BY <2>1, <2>2 DEF KeepsMaxLen
  <2> QED
    BY <1>2, <2>2, <2>3 DEF Evicted, EntryEvicted
<1> QED
  BY <1>1, <1>2 DEF UnsettledIsUnacked, Settled

\* A published message was completed, is on the dead-letter stream, will be
\* executed, or was pushed out of a stream by maxlen newer entries, for any
\* number of workers, crashes, claims and retries and any two maxlens.
THEOREM NothingLost == Spec => []NoSilentLoss
PROOF
<1>1. Init => NoLossInv /\ KeepsMaxLen
  BY DEF Init, NoLossInv, UnsettledIsUnacked, OutcomeBeforeAck, KeepsMaxLen, Ids
<1>2. TypeOK /\ NoLossInv /\ [Next]_vars => NoLossInv'
  BY NoLossStep
<1>3. TypeOK /\ KeepsMaxLen /\ [Next]_vars => KeepsMaxLen'
  BY KeepsMaxLenStep
<1>4. TypeOK /\ KeepsMaxLen /\ NoLossInv => NoSilentLoss
  BY NothingGoesUnseen DEF NoLossInv
<1> QED
  BY <1>1, <1>2, <1>3, <1>4, TypeCorrect, PTL DEF Spec

-----------------------------------------------------------------------------
(* The dead-letter stream receives messages that had every attempt.         *)

AttemptsInv == RetryChain /\ DlqAfterAllAttempts

\* The set of entries of the stream only grows.
LEMMA RangeGrows ==
    ASSUME TypeOK, [Next]_vars
    PROVE  {stream[i] : i \in Ids} \subseteq {stream'[i] : i \in Ids'}
BY StreamGrows

\* A step that adds an entry to the stream either publishes attempt 0 or
\* requeues the next attempt of an entry, within MaxRetries.
LEMMA EntryStep ==
    ASSUME TypeOK, AttemptsInv, [Next]_vars,
           NEW m \in Messages, NEW k \in Nat, XAdd(m, k)
    PROVE  /\ k <= MaxRetries
           /\ \A n \in 0..k : \/ n = k
                              \/ [msg |-> m, attempt |-> n] \in {stream[i] : i \in Ids}
PROOF
<1>1. stream'[Len(stream) + 1] = [msg |-> m, attempt |-> k]
      /\ Len(stream') = Len(stream) + 1 /\ Len(stream) \in Nat
  BY XAddExtends
<1>2. stream' # stream
  BY <1>1
<1>3. ASSUME NEW n \in Messages, WebStep(n)
      PROVE  m = n /\ k = 0
  <2>1. WebhookPublish(n)
    BY <1>2, <1>3
    DEF WebStep, WebhookMark, WebhookDuplicate, WebhookFail, DedupeExpire, busVars
  <2>2. XAdd(n, 0)
    BY <2>1 DEF WebhookPublish
  <2>3. stream'[Len(stream) + 1] = [msg |-> n, attempt |-> 0]
    BY <2>2, XAddExtends
  <2> QED
    BY <1>1, <2>3
<1>4. ASSUME NEW w \in Workers, WorkerStep(w) \/ Crash(w)
      PROVE  \E i \in Ids : /\ m = stream[i].msg
                            /\ k = stream[i].attempt + 1
                            /\ ~GivesUp(stream[i].attempt)
  <2>1. HandleFailure(w)
    BY <1>2, <1>4
    DEF WorkerStep, Start, Claim, Read, ExecuteOk, ExecuteFail, Ack, Crash, busVars
  <2>2. PICK i \in Ids : /\ ~GivesUp(stream[i].attempt)
                         /\ XAdd(stream[i].msg, stream[i].attempt + 1)
    BY <1>2, <2>1 DEF HandleFailure
  <2>3. stream[i].msg \in Messages /\ stream[i].attempt + 1 \in Nat
    BY EntryFields
  <2>4. stream'[Len(stream) + 1] = [msg |-> stream[i].msg,
                                    attempt |-> stream[i].attempt + 1]
    BY <2>2, <2>3, XAddExtends
  <2> QED
    BY <1>1, <2>2, <2>4
<1>5. ASSUME TimePasses \/ UNCHANGED vars PROVE FALSE
  BY <1>2, <1>5 DEF TimePasses, BecomeIdle, vars, busVars
<1>6. CASE k = 0
  BY <1>6, MaxRetriesAssumption
<1>7. CASE \E i \in Ids : /\ m = stream[i].msg
                          /\ k = stream[i].attempt + 1
                          /\ ~GivesUp(stream[i].attempt)
  <2>1. PICK i \in Ids : /\ m = stream[i].msg
                         /\ k = stream[i].attempt + 1
                         /\ ~GivesUp(stream[i].attempt)
    BY <1>7
  <2>2. stream[i].attempt \in Nat
    BY EntryFields
  <2>3. k <= MaxRetries
    BY <2>1, <2>2, MaxRetriesAssumption DEF GivesUp
  <2>4. \A n \in 0..stream[i].attempt :
           [msg |-> stream[i].msg, attempt |-> n] \in {stream[j] : j \in Ids}
    BY DEF AttemptsInv, RetryChain
  <2>5. \A n \in 0..k : n = k \/ n \in 0..stream[i].attempt
    BY <2>1, <2>2
  <2> QED
    BY <2>1, <2>3, <2>4, <2>5
<1> QED
  BY <1>3, <1>4, <1>5, <1>6, <1>7 DEF Next

\* A requeued entry carries the next attempt number of one that failed.
LEMMA AttemptsStep ==
    ASSUME TypeOK, AttemptsInv, [Next]_vars
    PROVE  AttemptsInv'
PROOF
<1> DEFINE R == {stream[i] : i \in Ids}
<1>1. R \subseteq R'
  BY RangeGrows
<1>2. \A i \in Ids : stream'[i] = stream[i]
  BY StreamGrows
<1>3. RetryChain'
  <2> SUFFICES ASSUME NEW i \in Ids'
               PROVE  /\ stream'[i].attempt <= MaxRetries
                      /\ \A n \in 0..stream'[i].attempt :
                            [msg |-> stream'[i].msg, attempt |-> n] \in R'
    BY DEF RetryChain
  <2>1. CASE i \in Ids
    BY <1>1, <1>2, <2>1 DEF AttemptsInv, RetryChain
  <2>2. CASE i \notin Ids
    <3>1. PICK m \in Messages, k \in Nat : XAdd(m, k)
      BY <2>2, StreamStep DEF Ids
    <3>2. /\ Ids' = Ids \union {Len(stream) + 1}
          /\ stream'[Len(stream) + 1] = [msg |-> m, attempt |-> k]
      BY <3>1, XAddExtends
    <3>3. i = Len(stream) + 1
      BY <2>2, <3>2
    <3>4. stream'[i] = [msg |-> m, attempt |-> k] /\ stream'[i] \in R'
      BY <3>2, <3>3
    <3>5. /\ k <= MaxRetries
          /\ \A n \in 0..k : n = k \/ [msg |-> m, attempt |-> n] \in R
      BY <3>1, EntryStep
    <3> QED
      BY <1>1, <3>4, <3>5
  <2> QED
    BY <2>1, <2>2
<1>4. DlqAfterAllAttempts'
  <2> SUFFICES ASSUME NEW d \in Letters'
               PROVE  /\ dlq'[d].attempts = MaxRetries + 1
                      /\ \A n \in 0..MaxRetries :
                            [msg |-> dlq'[d].msg, attempt |-> n] \in R'
    BY DEF DlqAfterAllAttempts
  <2>1. CASE d \in Letters
    <3>1. dlq'[d] = dlq[d]
      BY <2>1, DlqGrows
    <3> QED
      BY <1>1, <2>1, <3>1 DEF AttemptsInv, DlqAfterAllAttempts
  <2>2. ASSUME NEW w \in Workers, HandleFailure(w), d \notin Letters
        PROVE  /\ dlq'[d].attempts = MaxRetries + 1
               /\ \A n \in 0..MaxRetries : [msg |-> dlq'[d].msg, attempt |-> n] \in R'
    <3>1. PICK i \in Ids : \/ UNCHANGED dlqVars
                           \/ /\ GivesUp(stream[i].attempt)
                              /\ XAddDlq(stream[i].msg, stream[i].attempt + 1)
      BY <2>2 DEF HandleFailure
    <3>2. ~UNCHANGED dlqVars
      BY <2>2 DEF dlqVars, Letters
    <3>3. stream[i].attempt \in Nat /\ stream[i].attempt <= MaxRetries
          /\ stream[i].msg \in Messages
      BY EntryFields DEF AttemptsInv, RetryChain
    <3>4. stream[i].attempt = MaxRetries
      BY <3>1, <3>2, <3>3, MaxRetriesAssumption DEF GivesUp
    <3>5. /\ Letters' = Letters \union {Len(dlq) + 1}
          /\ dlq'[Len(dlq) + 1] = [msg |-> stream[i].msg,
                                   attempts |-> stream[i].attempt + 1]
      BY <3>1, <3>2, <3>3, XAddDlqExtends
    <3>6. dlq'[d] = [msg |-> stream[i].msg, attempts |-> MaxRetries + 1]
      BY <2>2, <3>4, <3>5
    <3>7. \A n \in 0..MaxRetries : [msg |-> stream[i].msg, attempt |-> n] \in R
      BY <3>4 DEF AttemptsInv, RetryChain
    <3> QED
      BY <1>1, <3>6, <3>7
  <2>3. Letters' = Letters \/ \E w \in Workers : HandleFailure(w)
    <3>1. ASSUME NEW m \in Messages, WebStep(m) PROVE dlq' = dlq
      BY <3>1 DEF WebStep, WebhookMark, WebhookDuplicate, WebhookPublish,
                  WebhookFail, DedupeExpire, busVars, dlqVars
    <3>2. ASSUME NEW w \in Workers, WorkerStep(w) \/ Crash(w), ~HandleFailure(w)
          PROVE  dlq' = dlq
      BY <3>2 DEF WorkerStep, Start, Claim, Read, ExecuteOk, ExecuteFail, Ack,
                  Crash, busVars, dlqVars
    <3>3. ASSUME TimePasses \/ UNCHANGED vars PROVE dlq' = dlq
      BY <3>3 DEF TimePasses, BecomeIdle, vars, busVars, dlqVars
    <3> QED
      BY <3>1, <3>2, <3>3 DEF Next, Letters
  <2> QED
    BY <2>1, <2>2, <2>3
<1> QED
  BY <1>3, <1>4 DEF AttemptsInv

\* A dead-lettered message had attempts 0 to MaxRetries, whatever MaxRetries
\* is and however its copies were claimed and retried by several workers.
THEOREM DeadLettersHadAllAttempts == Spec => []DlqAfterAllAttempts
PROOF
<1>1. Init => AttemptsInv
  BY DEF Init, AttemptsInv, RetryChain, DlqAfterAllAttempts, Ids, Letters
<1>2. TypeOK /\ AttemptsInv /\ [Next]_vars => AttemptsInv'
  BY AttemptsStep
<1>3. AttemptsInv => DlqAfterAllAttempts
  BY DEF AttemptsInv
<1> QED
  BY <1>1, <1>2, <1>3, TypeCorrect, PTL DEF Spec

-----------------------------------------------------------------------------
(* Only a claim puts an entry in the hands of two workers.                  *)

SharingInv == SharedOnlyByClaim /\ BatchesWereDelivered

\* A read hands out entries nobody has; only a claim hands out one twice.
LEMMA SharingStep ==
    ASSUME TypeOK, SharingInv, [Next]_vars
    PROVE  SharingInv'
PROOF
<1>1. /\ DOMAIN todo = Workers
      /\ \A v \in Workers : todo[v] \subseteq 1..lastDelivered
      /\ pending \subseteq 1..lastDelivered
      /\ \A v, u \in Workers : v # u => (todo[v] \intersect todo[u]) \subseteq claimed
      /\ \A v \in Workers : pc[v] \in {"down", "claim", "read"} => todo[v] = {}
      /\ lastDelivered \in Nat /\ trimmed \in Nat
  BY DEF TypeOK, SharingInv, SharedOnlyByClaim, BatchesWereDelivered
<1> DEFINE SameBatches ==
             /\ todo' = todo /\ pending' \subseteq pending
             /\ lastDelivered' = lastDelivered /\ claimed' = claimed
             /\ \A v \in Workers : pc'[v] \in {"down", "claim", "read"}
                                      => pc[v] \in {"down", "claim", "read"}
<1>2. CASE SameBatches
  BY <1>1, <1>2 DEF SharingInv, SharedOnlyByClaim, BatchesWereDelivered
<1> HIDE DEF SameBatches
<1>3. ASSUME NEW w \in Workers, Claim(w) PROVE SharingInv'
  <2> DEFINE page == Claimed(cursor[w])
  <2>1. /\ todo' = [todo EXCEPT ![w] = page]
        /\ claimed' = claimed \union page
        /\ pending' \subseteq pending
        /\ lastDelivered' = lastDelivered
        /\ pc'[w] \in {"down", "claim", "read"} => page = {}
        /\ \A v \in Workers \ {w} : pc'[v] = pc[v]
    BY <1>3 DEF Claim, TypeOK
  <2>2. page \subseteq pending
    BY DEF Claimed, Scanned, From
  <2> HIDE DEF page
  <2>3. \A v \in Workers : todo'[v] = IF v = w THEN page ELSE todo[v]
    BY <1>1, <2>1
  <2>4. BatchesWereDelivered'
    BY <1>1, <2>1, <2>2, <2>3 DEF BatchesWereDelivered
  <2>5. SharedOnlyByClaim'
    BY <1>1, <2>1, <2>3 DEF SharedOnlyByClaim
  <2> QED
    BY <2>4, <2>5 DEF SharingInv
<1>4. ASSUME NEW w \in Workers, Read(w) PROVE SharingInv'
  <2>1. /\ todo' = [todo EXCEPT ![w] = Batch]
        /\ pending' = pending \union Batch
        /\ lastDelivered' \in Batch
        /\ \A i \in Batch : i <= lastDelivered'
        /\ claimed' = claimed
        /\ \A v \in Workers \ {w} : pc'[v] = pc[v]
        /\ pc'[w] = "entry"
    BY <1>4 DEF Read, AddPending, historyVars, TypeOK
  <2>2. \A i \in Batch : i \in Nat /\ lastDelivered < i /\ 1 <= i
    BY <1>1 DEF Batch, ReadAfter, Ids
  <2>3. lastDelivered' \in Nat /\ Batch \subseteq 1..lastDelivered'
        /\ 1..lastDelivered \subseteq 1..lastDelivered'
    BY <1>1, <2>1, <2>2
  <2>4. Batch \intersect 1..lastDelivered = {}
    BY <1>1, <2>2
  <2>5. \A v \in Workers : todo'[v] = IF v = w THEN Batch ELSE todo[v]
    BY <1>1, <2>1
  <2>6. BatchesWereDelivered'
    BY <1>1, <2>1, <2>3, <2>5 DEF BatchesWereDelivered
  <2>7. SharedOnlyByClaim'
    <3> SUFFICES ASSUME NEW v \in Workers, NEW u \in Workers, v # u,
                        NEW i \in todo'[v], i \in todo'[u]
                 PROVE  i \in claimed
      BY <2>1 DEF SharedOnlyByClaim
    <3> QED
      BY <1>1, <2>4, <2>5
  <2> QED
    BY <2>6, <2>7 DEF SharingInv
<1>5. ASSUME NEW w \in Workers, Ack(w) \/ Crash(w) PROVE SharingInv'
  <2>1. PICK S : S \subseteq todo[w] /\ todo' = [todo EXCEPT ![w] = S]
    BY <1>5 DEF Ack, Crash
  <2>2. /\ claimed' = claimed /\ pending' \subseteq pending
        /\ lastDelivered' = lastDelivered
    BY <1>5 DEF Ack, AckedBy, Crash, busVars
  <2>3. \A v \in Workers : todo'[v] \subseteq todo[v]
    BY <1>1, <2>1
  <2>4. pc'[w] \in {"down", "claim", "read"} => todo'[w] = {}
    <3>1. CASE Crash(w)
      BY <1>1, <3>1 DEF Crash
    <3>2. CASE Ack(w)
      <4>1. PICK i \in Ids : /\ todo' = [todo EXCEPT ![w] = @ \ {i}]
                             /\ pc' = [pc EXCEPT ![w] =
                                          AfterEntry(w, todo[w] \ {i})]
        BY <3>2 DEF Ack
      <4>2. todo'[w] = todo[w] \ {i} /\ pc'[w] = AfterEntry(w, todo'[w])
        BY <1>1, <4>1 DEF TypeOK
      <4> QED
        BY <4>2 DEF AfterEntry
    <3> QED BY <1>5, <3>1, <3>2
  <2>5. \A v \in Workers \ {w} : pc'[v] = pc[v]
    BY <1>5 DEF Ack, Crash, TypeOK
  <2> QED
    BY <1>1, <2>2, <2>3, <2>4, <2>5
    DEF SharingInv, SharedOnlyByClaim, BatchesWereDelivered
<1>6. ASSUME NEW w \in Workers, WorkerStep(w), ~Claim(w), ~Read(w), ~Ack(w)
      PROVE  SameBatches
  <2>1. /\ todo' = todo /\ pending' \subseteq pending
        /\ lastDelivered' = lastDelivered /\ claimed' = claimed
    BY <1>6
    DEF WorkerStep, Start, ExecuteOk, ExecuteFail, HandleFailure, busVars,
        historyVars
  <2>2. /\ \A v \in Workers \ {w} : pc'[v] = pc[v]
        /\ pc[w] = "down" \/ pc'[w] \in {"entry", "failed", "ack"}
    BY <1>6 DEF WorkerStep, Start, ExecuteOk, ExecuteFail, HandleFailure, TypeOK
  <2> QED
    BY <2>1, <2>2 DEF SameBatches
<1>7. ASSUME NEW m \in Messages, WebStep(m) PROVE SameBatches
  BY <1>7
  DEF WebStep, WebhookMark, WebhookDuplicate, WebhookPublish, WebhookFail,
      DedupeExpire, busVars, workerVars, historyVars, SameBatches
<1>8. ASSUME TimePasses \/ UNCHANGED vars PROVE SameBatches
  BY <1>8 DEF TimePasses, BecomeIdle, vars, busVars, workerVars, historyVars,
              SameBatches
<1> QED
  BY <1>2, <1>3, <1>4, <1>5, <1>6, <1>7, <1>8 DEF Next

\* A consumer group gives an entry to one worker; only XAUTOCLAIM, run by a
\* worker that starts, can put it in the hands of a second one.
THEOREM SharingNeedsAClaim == Spec => []SharedOnlyByClaim
PROOF
<1>1. Init => SharingInv
  BY DEF Init, SharingInv, SharedOnlyByClaim, BatchesWereDelivered
<1>2. TypeOK /\ SharingInv /\ [Next]_vars => SharingInv'
  BY SharingStep
<1>3. SharingInv => SharedOnlyByClaim
  BY DEF SharingInv
<1> QED
  BY <1>1, <1>2, <1>3, TypeCorrect, PTL DEF Spec

-----------------------------------------------------------------------------
(* A message is completed again only after a claim or an expiry.            *)

\* What the entries of a regular message, m, are.
OneChance(m) ==
    /\ completions[m] <= 1
    /\ m \in publishing => m \in dedupe
    /\ m \notin dedupe \/ m \in publishing => completions[m] = 0 /\ ~Published(m)
    /\ \A i \in Ids : stream[i].msg = m /\ Awaits(i) =>
          /\ completions[m] = 0
          /\ \A j \in Ids : stream[j].msg = m /\ Awaits(j) => j = i

\* A step that puts no entry up for execution, adds none and completes none.
LEMMA ChanceStays ==
    ASSUME TypeOK, OneChanceInv,
           UNCHANGED <<dedupe, publishing, stream, completions, expiries>>,
           claimed \subseteq claimed',
           \A i \in Ids : Regular(stream[i].msg)' /\ Awaits(i)' => Awaits(i)
    PROVE  OneChanceInv'
PROOF
<1> SUFFICES ASSUME NEW m \in Messages, Regular(m)' PROVE OneChance(m)'
  BY DEF OneChanceInv, OneChance
<1>1. OneChance(m)
  BY DEF OneChanceInv, OneChance, Regular
<1>2. Ids' = Ids /\ (Published(m)' <=> Published(m))
  BY DEF Ids, Published
<1>3. \A i \in Ids : stream[i].msg = m /\ Awaits(i)' => Awaits(i)
  OBVIOUS
<1> QED
  BY <1>1, <1>2, <1>3 DEF OneChance

\* XADD's entry, in terms of messages alone.
LEMMA EntryAdded ==
    ASSUME TypeOK, NEW m \in Messages, NEW k \in Nat, XAdd(m, k)
    PROVE  \E n : /\ Ids' = Ids \union {n} /\ n \notin Ids
                  /\ \A i \in Ids : stream'[i] = stream[i]
                  /\ stream'[n].msg = m
PROOF
<1> DEFINE n == Len(stream) + 1
<1>1. /\ Len(stream) \in Nat
      /\ Ids' = Ids \union {n}
      /\ \A i \in Ids : stream'[i] = stream[i]
      /\ stream'[n] = [msg |-> m, attempt |-> k]
  BY XAddExtends
<1>2. n \notin Ids
  BY <1>1 DEF Ids
<1> HIDE DEF n
<1>3. stream'[n].msg = m
  BY <1>1
<1> QED
  BY <1>1, <1>2, <1>3

\* XADD puts one entry up for execution; any other that still waits did.
LEMMA ChanceAdds ==
    ASSUME TypeOK, OneChanceInv, NEW m \in Messages, NEW k \in Nat, XAdd(m, k),
           Regular(m) => completions[m] = 0 /\ m \in dedupe,
           dedupe' = dedupe, publishing' = publishing \ {m},
           UNCHANGED <<completions, expiries, claimed, lastDelivered>>,
           \A i \in Ids : Awaits(i)' => Awaits(i),
           Regular(m) => \A i \in Ids : stream[i].msg = m => ~Awaits(i)'
    PROVE  OneChanceInv'
PROOF
<1>1. PICK n : /\ Ids' = Ids \union {n} /\ n \notin Ids
               /\ \A i \in Ids : stream'[i] = stream[i]
               /\ stream'[n].msg = m
  BY EntryAdded
<1>2. ASSUME NEW q \in Messages, Regular(q)' PROVE Regular(q) /\ OneChance(q)
  <2>1. \A i \in claimed : i \in Ids
    BY DEF TypeOK
  <2>2. Regular(q)
    BY <1>1, <1>2, <2>1 DEF Regular
  <2> QED
    BY <2>2 DEF OneChanceInv, OneChance
<1>3. ASSUME NEW q \in Messages, Regular(q)' PROVE OneChance(q)'
  <2>1. CASE q = m
    <3>1. \A i \in Ids' : stream'[i].msg = m /\ Awaits(i)' => i = n
      BY <1>1, <1>2, <1>3, <2>1
    <3> QED
      BY <1>2, <1>3, <2>1, <3>1 DEF OneChance
  <2>2. CASE q # m
    <3>1. \A i \in Ids' : stream'[i].msg = q => i \in Ids /\ stream[i].msg = q
      BY <1>1, <2>2
    <3>2. Published(q)' => Published(q)
      BY <3>1 DEF Published
    <3> QED
      BY <1>1, <1>2, <1>3, <2>2, <3>1, <3>2 DEF OneChance
  <2> QED BY <2>1, <2>2
<1> QED
  BY <1>3 DEF OneChanceInv, OneChance

\* What a step of the webhook does.
LEMMA ChanceWeb ==
    ASSUME TypeOK, SharingInv, OneChanceInv, NEW m \in Messages, WebStep(m)
    PROVE  OneChanceInv'
PROOF
<1>1. UNCHANGED <<lastDelivered, workerVars, claimed, completions>>
  BY DEF WebStep, WebhookMark, WebhookDuplicate, WebhookPublish, WebhookFail,
         DedupeExpire, busVars, historyVars
<1>2. \A i : Awaits(i)' <=> Awaits(i)
  BY <1>1 DEF Awaits, IsCurrent, workerVars
<1>3. CASE WebhookPublish(m)
  <2>1. Regular(m) => completions[m] = 0 /\ m \in dedupe /\ ~Published(m)
    BY <1>3 DEF WebhookPublish, OneChanceInv
  <2>2. XAdd(m, 0) /\ publishing' = publishing \ {m} /\ dedupe' = dedupe
        /\ expiries' = expiries
    BY <1>3 DEF WebhookPublish, historyVars
  <2>3. Regular(m) => \A i \in Ids : stream[i].msg # m
    BY <2>1 DEF Published
  <2> QED
    BY <1>1, <1>2, <2>1, <2>2, <2>3, ChanceAdds
<1>4. ASSUME stream' = stream PROVE \A q : Published(q)' <=> Published(q)
  BY <1>4 DEF Published, Ids
<1>5. CASE ~WebhookPublish(m)
  <2>1. /\ stream' = stream
        /\ \A q \in Messages : expiries'[q] = expiries[q] \/ q = m
    BY <1>5
    DEF WebStep, WebhookMark, WebhookDuplicate, WebhookFail, DedupeExpire,
        busVars, historyVars, TypeOK
  <2>2. /\ DedupeExpire(m) => expiries'[m] # 0
        /\ ~DedupeExpire(m) => expiries' = expiries
    BY <1>5
    DEF WebStep, WebhookMark, WebhookDuplicate, WebhookFail, DedupeExpire,
        historyVars, TypeOK
  <2>3. ASSUME NEW q \in Messages, Regular(q)' PROVE OneChance(q)
    BY <1>1, <2>1, <2>2, <2>3 DEF Regular, OneChanceInv, OneChance
  <2>4. ASSUME NEW q \in Messages, Regular(q)'
        PROVE  \/ q \in dedupe' /\ q \in dedupe
                  /\ (q \in publishing' => q \in publishing)
               \/ q \notin dedupe' /\ q \notin dedupe
                  /\ (q \in publishing' => q \in publishing)
               \/ q \in dedupe' /\ q \notin dedupe
    <3>1. ~(DedupeExpire(m) /\ q = m)
      BY <2>2, <2>4 DEF Regular
    <3> QED
      BY <1>5, <3>1
      DEF WebStep, WebhookMark, WebhookDuplicate, WebhookFail, DedupeExpire, webVars
  <2>5. ASSUME NEW q \in Messages, Regular(q)' PROVE OneChance(q)'
    <3>1. Ids' = Ids /\ (Published(q)' <=> Published(q))
      BY <1>4, <2>1 DEF Ids
    <3> QED
      BY <1>1, <1>2, <2>1, <2>3, <2>4, <2>5, <3>1 DEF OneChance
  <2> QED
    BY <2>5 DEF OneChanceInv, OneChance
<1> QED
  BY <1>3, <1>5

\* The entry that a worker is done with does not wait, if it was not claimed.
LEMMA DoneIsDone ==
    ASSUME TypeOK, SharingInv, NEW w \in Workers, NEW i \in Ids, IsCurrent(w, i),
           i \notin claimed,
           todo' = todo, lastDelivered' = lastDelivered, pc'[w] = "ack"
    PROVE  ~Awaits(i)'
PROOF
<1>1. ~(i > lastDelivered)
  BY DEF IsCurrent, SharingInv, BatchesWereDelivered, TypeOK
<1>2. \A v \in Workers \ {w} : i \notin todo[v]
  BY DEF IsCurrent, SharingInv, SharedOnlyByClaim
<1>3. IsCurrent(w, i)'
  BY DEF IsCurrent
<1> QED
  BY <1>1, <1>2, <1>3 DEF Awaits

\* A step that changes one worker's point alone, and not from "ack".
LEMMA WaitersStay ==
    ASSUME TypeOK, NEW w \in Workers, pc[w] # "ack", todo' = todo,
           lastDelivered' = lastDelivered,
           \A v \in Workers \ {w} : pc'[v] = pc[v]
    PROVE  \A i : Awaits(i)' => Awaits(i)
PROOF
  BY DEF Awaits, IsCurrent

\* A completion, a requeue or a burial uses up the one entry of a regular message
\* that could still be completed.
LEMMA ChanceExecute ==
    ASSUME TypeOK, SharingInv, OneChanceInv, NEW w \in Workers,
           ExecuteOk(w) \/ HandleFailure(w)
    PROVE  OneChanceInv'
PROOF
<1>1. PICK i \in Ids :
         /\ IsCurrent(w, i)
         /\ \/ /\ ExecuteOk(w)
               /\ completions' = [completions EXCEPT ![stream[i].msg] = @ + 1]
            \/ /\ HandleFailure(w) /\ GivesUp(stream[i].attempt)
               /\ stream' = stream
            \/ /\ HandleFailure(w)
               /\ XAdd(stream[i].msg, stream[i].attempt + 1)
  BY DEF ExecuteOk, HandleFailure
<1> DEFINE m == stream[i].msg
<1>2. m \in Messages /\ stream[i].attempt + 1 \in Nat
  BY EntryFields
<1>3. /\ UNCHANGED <<dedupe, publishing, expiries, claimed, lastDelivered, todo>>
      /\ pc[w] # "ack" /\ pc'[w] = "ack"
      /\ \A v \in Workers \ {w} : pc'[v] = pc[v]
  BY DEF ExecuteOk, HandleFailure, webVars, busVars, historyVars, TypeOK
<1>4. \A k : Awaits(k)' => Awaits(k)
  BY <1>3, WaitersStay
<1>5. Awaits(i)
  BY <1>1, <1>3 DEF Awaits, IsCurrent
<1>6. Regular(m) => ~Awaits(i)'
  BY <1>1, <1>3, DoneIsDone DEF Regular
<1>7. Regular(m) =>
         /\ OneChance(m)
         /\ completions[m] = 0 /\ m \in dedupe /\ m \notin publishing
         /\ \A k \in Ids : stream[k].msg = m => ~Awaits(k)'
  <2> SUFFICES ASSUME Regular(m)
               PROVE  /\ OneChance(m)
                      /\ completions[m] = 0 /\ m \in dedupe /\ m \notin publishing
                      /\ \A k \in Ids : stream[k].msg = m => ~Awaits(k)'
    OBVIOUS
  <2>1. OneChance(m)
    BY <1>2 DEF OneChanceInv, OneChance
  <2>2. Published(m)
    BY DEF Published
  <2> QED
    BY <1>4, <1>5, <1>6, <2>1, <2>2 DEF OneChance
<1>8. CASE ExecuteOk(w) /\ completions' = [completions EXCEPT ![m] = @ + 1]
  <2>1. stream' = stream /\ Ids' = Ids
    BY <1>8 DEF ExecuteOk, busVars, Ids
  <2>2. ASSUME NEW q \in Messages, Regular(q)' PROVE OneChance(q)'
    <3>1. Regular(q) /\ OneChance(q) /\ (Published(q)' <=> Published(q))
      BY <1>3, <2>1, <2>2 DEF Regular, OneChanceInv, OneChance, Published, Ids
    <3>2. CASE q = m
      <4>1. completions'[m] = 1
        BY <1>2, <1>7, <1>8, <3>1, <3>2 DEF TypeOK
      <4> QED
        BY <1>3, <1>7, <2>1, <3>1, <3>2, <4>1 DEF OneChance
    <3>3. CASE q # m
      <4>1. completions'[q] = completions[q]
        BY <1>2, <1>8, <3>3 DEF TypeOK
      <4> QED
        BY <1>3, <1>4, <2>1, <3>1, <4>1 DEF OneChance
    <3> QED BY <3>2, <3>3
  <2> QED
    BY <2>2 DEF OneChanceInv, OneChance
<1>9. CASE HandleFailure(w) /\ stream' = stream
  BY <1>3, <1>4, <1>9, ChanceStays DEF HandleFailure, historyVars
<1>10. CASE HandleFailure(w) /\ XAdd(m, stream[i].attempt + 1)
  <2>1. completions' = completions
    BY <1>10 DEF HandleFailure, historyVars
  <2>2. ASSUME Regular(m) PROVE publishing = publishing \ {m}
    BY <1>7, <2>2
  <2>3. CASE Regular(m)
    BY <1>2, <1>3, <1>4, <1>7, <1>10, <2>1, <2>2, <2>3, ChanceAdds
  <2>4. CASE ~Regular(m)
    <3>1. PICK n : /\ Ids' = Ids \union {n} /\ n \notin Ids
                   /\ \A k \in Ids : stream'[k] = stream[k]
                   /\ stream'[n].msg = m
      BY <1>2, <1>10, EntryAdded
    <3> HIDE DEF m
    <3>2. ASSUME NEW q \in Messages, Regular(q)' PROVE OneChance(q)'
      <4>1. Regular(q) /\ OneChance(q)
        <5>1. \A k \in claimed : k \in Ids
          BY DEF TypeOK
        <5>2. Regular(q)
          BY <1>3, <3>1, <3>2, <5>1 DEF Regular
        <5> QED
          BY <5>2 DEF OneChanceInv, OneChance
      <4>2. q # m
        BY <2>4, <4>1
      <4>3. \A k \in Ids' : stream'[k].msg = q => k \in Ids /\ stream[k].msg = q
        BY <3>1, <4>2
      <4>4. Published(q)' => Published(q)
        BY <4>3 DEF Published
      <4> QED
        BY <1>3, <1>4, <2>1, <4>1, <4>3, <4>4 DEF OneChance
    <3> QED
      BY <3>2 DEF OneChanceInv, OneChance
  <2> QED BY <2>3, <2>4
<1> QED
  BY <1>1, <1>8, <1>9, <1>10

\* An entry of a regular message that waits to be executed after a step did
\* so before it, or is new.
LEMMA AwaitsStep ==
    ASSUME TypeOK, [Next]_vars, NEW i \in Ids, Regular(stream[i].msg)',
           Awaits(i)', claimed \subseteq claimed', stream'[i] = stream[i]
    PROVE  Awaits(i)
PROOF
<1>1. ASSUME NEW w \in Workers, Claim(w) PROVE Awaits(i)
  <2> DEFINE page == Claimed(cursor[w])
  <2>1. /\ todo' = [todo EXCEPT ![w] = page]
        /\ claimed' = claimed \union page
        /\ UNCHANGED <<stream, lastDelivered>>
        /\ \A v \in Workers \ {w} : pc'[v] = pc[v]
    BY <1>1 DEF Claim, TypeOK
  <2> HIDE DEF page
  <2>2. \A v \in Workers : todo'[v] = IF v = w THEN page ELSE todo[v]
    BY <2>1 DEF TypeOK
  <2>3. i \notin page
    BY <2>1 DEF Regular
  <2> QED
    BY <2>1, <2>2, <2>3 DEF Awaits, IsCurrent
<1>2. ASSUME NEW w \in Workers, Read(w) PROVE Awaits(i)
  <2>1. /\ todo' = [todo EXCEPT ![w] = Batch]
        /\ lastDelivered' \in Batch
        /\ \A v \in Workers \ {w} : pc'[v] = pc[v]
    BY <1>2 DEF Read, TypeOK
  <2>2. lastDelivered \in Nat /\ \A j \in Batch : j \in Nat /\ j > lastDelivered
    BY DEF Batch, ReadAfter, Ids, TypeOK
  <2>3. \A v \in Workers : todo'[v] = IF v = w THEN Batch ELSE todo[v]
    BY <2>1 DEF TypeOK
  <2>4. CASE i > lastDelivered'
    <3>1. i \in Nat /\ lastDelivered' \in Nat /\ lastDelivered' > lastDelivered
      BY <2>1, <2>2 DEF Ids
    <3> QED
      BY <2>2, <2>4, <3>1 DEF Awaits
  <2>5. CASE i \in Batch
    BY <2>2, <2>5 DEF Awaits
  <2>6. CASE ~(i > lastDelivered') /\ i \notin Batch
    BY <2>1, <2>3, <2>6 DEF Awaits, IsCurrent
  <2> QED
    BY <2>4, <2>5, <2>6
<1>3. ASSUME NEW w \in Workers, Ack(w) PROVE Awaits(i)
  <2>1. PICK k \in Ids : IsCurrent(w, k) /\ todo' = [todo EXCEPT ![w] = @ \ {k}]
    BY <1>3 DEF Ack
  <2>2. /\ lastDelivered' = lastDelivered
        /\ \A v \in Workers \ {w} : pc'[v] = pc[v]
    BY <1>3 DEF Ack, TypeOK
  <2>3. \A v \in Workers : todo'[v] = IF v = w THEN todo[w] \ {k} ELSE todo[v]
    BY <2>1 DEF TypeOK
  <2>4. CASE i \in todo[w] \ {k}
    <3>1. ~IsCurrent(w, i)
      BY <2>1, <2>4, CurrentIsUnique
    <3> QED
      BY <2>4, <3>1 DEF Awaits
  <2>5. CASE i \notin todo[w] \ {k}
    BY <2>2, <2>3, <2>5 DEF Awaits, IsCurrent
  <2> QED
    BY <2>4, <2>5
<1>4. ASSUME NEW w \in Workers, Crash(w) PROVE Awaits(i)
  <2>1. /\ lastDelivered' = lastDelivered
        /\ todo' = [todo EXCEPT ![w] = {}]
        /\ \A v \in Workers \ {w} : pc'[v] = pc[v]
    BY <1>4 DEF Crash, busVars, TypeOK
  <2>2. \A v \in Workers : todo'[v] = IF v = w THEN {} ELSE todo[v]
    BY <2>1 DEF TypeOK
  <2> QED
    BY <2>1, <2>2 DEF Awaits, IsCurrent
<1>5. ASSUME NEW w \in Workers,
             Start(w) \/ ExecuteOk(w) \/ ExecuteFail(w) \/ HandleFailure(w)
      PROVE  Awaits(i)
  <2>1. /\ UNCHANGED <<lastDelivered, todo>>
        /\ pc[w] # "ack" /\ \A v \in Workers \ {w} : pc'[v] = pc[v]
    BY <1>5 DEF Start, ExecuteOk, ExecuteFail, HandleFailure, busVars, TypeOK
  <2> QED
    BY <2>1, WaitersStay
<1>6. ASSUME UNCHANGED <<lastDelivered, todo, pc>> PROVE Awaits(i)
  BY <1>6 DEF Awaits, IsCurrent
<1>7. ASSUME NEW m \in Messages, WebStep(m) PROVE Awaits(i)
  BY <1>6, <1>7
  DEF WebStep, WebhookMark, WebhookDuplicate, WebhookPublish, WebhookFail,
      DedupeExpire, busVars, workerVars
<1>8. ASSUME TimePasses \/ UNCHANGED vars PROVE Awaits(i)
  BY <1>6, <1>8 DEF TimePasses, BecomeIdle, vars, busVars, workerVars
<1> QED
  BY <1>1, <1>2, <1>3, <1>4, <1>5, <1>7, <1>8 DEF Next, WorkerStep

\* Every step keeps the one chance of a regular message.
LEMMA OneChanceStep ==
    ASSUME TypeOK, SharingInv, OneChanceInv, [Next]_vars
    PROVE  OneChanceInv'
PROOF
<1>1. ASSUME UNCHANGED <<dedupe, publishing, stream, completions, expiries>>,
             claimed \subseteq claimed'
      PROVE  OneChanceInv'
  BY <1>1, AwaitsStep, ChanceStays
<1>2. ASSUME NEW w \in Workers,
             \/ Start(w) \/ Claim(w) \/ Read(w) \/ ExecuteFail(w)
             \/ Ack(w) \/ Crash(w)
      PROVE  OneChanceInv'
  BY <1>1, <1>2
  DEF Start, Claim, Read, ExecuteFail, Ack, Crash, webVars, busVars, historyVars
<1>3. ASSUME TimePasses \/ UNCHANGED vars PROVE OneChanceInv'
  BY <1>1, <1>3
  DEF TimePasses, BecomeIdle, vars, webVars, busVars, historyVars
<1> QED
  BY <1>2, <1>3, ChanceWeb, ChanceExecute DEF Next, WorkerStep

\* Initially no message has an entry.
LEMMA OneChanceInit == Init => OneChanceInv
PROOF
  BY DEF Init, OneChanceInv, Published, Ids

\* Neither the webhook nor the batches, retries and crashes complete a message
\* twice: that takes a claim of one of its entries or the expiry of its key.
THEOREM SecondCompletionNeedsAClaim == Spec => []CompletedAgainOnlyByClaim
PROOF
<1>1. Init => SharingInv
  BY DEF Init, SharingInv, SharedOnlyByClaim, BatchesWereDelivered
<1>2. TypeOK /\ SharingInv /\ [Next]_vars => SharingInv'
  BY SharingStep
<1>3. TypeOK /\ SharingInv /\ OneChanceInv /\ [Next]_vars => OneChanceInv'
  BY OneChanceStep
<1>4. TypeOK /\ OneChanceInv => CompletedAgainOnlyByClaim
  <2> SUFFICES ASSUME TypeOK, OneChanceInv, NEW m \in Messages,
                      completions[m] > 1, ~(expiries[m] > 0)
               PROVE  \E i \in claimed : stream[i].msg = m
    BY DEF CompletedAgainOnlyByClaim
  <2>1. completions[m] \in Nat /\ expiries[m] \in 0..MaxExpiries
    BY DEF TypeOK
  <2>2. ~Regular(m)
    BY <2>1 DEF OneChanceInv
  <2>3. expiries[m] = 0
    BY <2>1, BoundAssumption
  <2> QED
    BY <2>2, <2>3 DEF Regular
<1> QED
  BY <1>1, <1>2, <1>3, <1>4, OneChanceInit, TypeCorrect, PTL DEF Spec

\* The parts of SafetyInv that are inductive together; NoSilentLoss follows
\* from them.
CoreInv ==
    /\ TypeOK
    /\ KeepsMaxLen
    /\ NoLossInv
    /\ UnackedIsReachable
    /\ AttemptsInv
    /\ SharingInv
    /\ OneChanceInv

\* The invariant that TLC checks, as one: types, no silent loss, room kept by
\* trimming, reachability, retry chains, sharing and one chance of completion.
THEOREM BusInvariant == Spec => []SafetyInv
PROOF
<1>1. Init => CoreInv
  <2>1. Init => TypeOK
    BY MaxRetriesAssumption, BoundAssumption
    DEF Init, TypeOK, Ids, Entry, Letters, Letter
  <2>2. Init => NoLossInv /\ KeepsMaxLen /\ UnackedIsReachable
    BY DEF Init, NoLossInv, UnsettledIsUnacked, KeepsMaxLen, OutcomeBeforeAck,
           UnackedIsReachable, Ids
  <2>3. Init => AttemptsInv
    BY DEF Init, AttemptsInv, DlqAfterAllAttempts, RetryChain, Ids, Letters
  <2>4. Init => SharingInv
    BY DEF Init, SharingInv, SharedOnlyByClaim, BatchesWereDelivered
  <2> QED
    BY <2>1, <2>2, <2>3, <2>4, OneChanceInit DEF CoreInv
<1>2. CoreInv /\ [Next]_vars => CoreInv'
  BY TypePreserved, KeepsMaxLenStep, NoLossStep, ReachableStep, AttemptsStep,
     SharingStep, OneChanceStep
  DEF CoreInv
<1>3. CoreInv => SafetyInv
  BY NothingGoesUnseen DEF CoreInv, SafetyInv, NoLossInv, AttemptsInv, SharingInv
<1> QED
  BY <1>1, <1>2, <1>3, PTL DEF Spec

-----------------------------------------------------------------------------
(* The bus implements EventDelivery.                                        *)

queuedBar == {stream[i].msg : i \in {j \in Ids : Owed(j)}}
doneBar == {m \in Messages : Completed(m)}
deadBar == {m \in Messages : Dead(m)}
evictedBar == {m \in Messages : Evicted(m)}
fullBar == Len(stream) > MaxLen \/ Len(dlq) > DlqMaxLen

\* What the steps need to know of the state before and after them.
DeliveryInv == TypeOK /\ KeepsMaxLen /\ NoSilentLoss /\ BatchesWereDelivered

\* What a step leaves evicted was removed from a stream given more than its
\* maxlen.
LEMMA EvictedIsFull ==
    ASSUME TypeOK', evictedBar' # {}
    PROVE  fullBar'
PROOF
<1>1. PICK m \in Messages : Evicted(m)'
  BY DEF evictedBar
<1>2. \/ \E i \in Ids' : i + MaxLen <= Len(stream')
      \/ \E k \in Letters' : k + DlqMaxLen <= Len(dlq')
  BY <1>1 DEF Evicted, EntryEvicted, LetterEvicted
<1>3. /\ Len(stream') \in Nat /\ Len(dlq') \in Nat
      /\ MaxLen \in Nat \ {0} /\ DlqMaxLen \in Nat \ {0}
      /\ \A i \in Ids' : i \in Nat \ {0}
      /\ \A k \in Letters' : k \in Nat \ {0}
  BY PageAssumption DEF TypeOK, Ids, Letters
<1> QED
  BY <1>2, <1>3 DEF fullBar

\* Streams only grow: one that was given more than its maxlen stays so.
LEMMA FullStays ==
    ASSUME TypeOK, TypeOK', [Next]_vars, fullBar
    PROVE  fullBar'
PROOF
<1>1. Ids \subseteq Ids' /\ Letters \subseteq Letters'
  BY StreamGrows, DlqGrows
<1>2. /\ Len(stream) \in Nat /\ Len(stream') \in Nat
      /\ Len(dlq) \in Nat /\ Len(dlq') \in Nat
      /\ MaxLen \in Nat /\ DlqMaxLen \in Nat
  BY PageAssumption DEF TypeOK
<1>3. Len(stream) <= Len(stream') /\ Len(dlq) <= Len(dlq')
  <2>1. Len(stream) <= Len(stream')
    BY <1>1, <1>2, IntervalGrows DEF Ids
  <2>2. Len(dlq) <= Len(dlq')
    BY <1>1, <1>2, IntervalGrows DEF Letters
  <2> QED
    BY <2>1, <2>2
<1> QED
  BY <1>2, <1>3 DEF fullBar

\* An entry ceases to be owed when it is acknowledged or evicted.
LEMMA OwedGoes ==
    ASSUME TypeOK, TypeOK', KeepsMaxLen', [Next]_vars,
           NEW i \in Ids, Owed(i), ~Owed(i)'
    PROVE  i \in acked' \/ EntryEvicted(i)'
PROOF
<1>1. i \in Ids'
  BY StreamGrows
<1>2. i \in Nat \ {0} /\ trimmed' \in Nat /\ MaxLen \in Nat /\ Len(stream') \in Nat
  BY PageAssumption, SMTT(30) DEF Ids, TypeOK
<1>3. CASE i \notin acked'
  <2>1. ~Held(i)' /\ ~(i > trimmed')
    BY <1>3 DEF Owed
  <2>2. i <= trimmed' /\ i + MaxLen <= Len(stream')
    BY <1>2, <2>1 DEF KeepsMaxLen
  <2> QED
    BY <1>3, <2>1, <2>2 DEF EntryEvicted
<1> QED BY <1>3

\* Only what was owed is evicted from the stream.
LEMMA EntryEvictionComes ==
    ASSUME TypeOK, TypeOK', KeepsMaxLen, [Next]_vars, acked \subseteq acked',
           NEW i \in Ids', EntryEvicted(i)'
    PROVE  i \in Ids /\ (Owed(i) \/ EntryEvicted(i))
PROOF
<1>1. /\ Len(stream) \in Nat /\ Len(stream') \in Nat /\ trimmed \in Nat
      /\ MaxLen \in Nat \ {0} /\ i \in Nat \ {0}
  BY PageAssumption, SMTT(30) DEF Ids, TypeOK
<1>2. Len(stream') <= Len(stream) + 1
  <2>1. ASSUME NEW m \in Messages, NEW k \in Nat, XAdd(m, k)
        PROVE  Len(stream') = Len(stream) + 1
    BY <2>1, XAddExtends
  <2> QED
    BY <1>1, <2>1, StreamStep
<1>3. i \in Ids
  BY <1>1, <1>2 DEF EntryEvicted, Ids
<1>4. i \notin acked
  BY DEF EntryEvicted
<1>5. CASE ~Owed(i)
  <2>1. ~Held(i) /\ i <= trimmed
    BY <1>1, <1>4, <1>5 DEF Owed
  <2>2. i + MaxLen <= Len(stream)
    BY <1>1, <2>1 DEF KeepsMaxLen
  <2> QED
    BY <1>3, <1>4, <2>1, <2>2 DEF EntryEvicted
<1> QED
  BY <1>3, <1>5

\* Only dead letters are evicted from the dead-letter stream.
LEMMA LetterEvictionComes ==
    ASSUME TypeOK, TypeOK', KeepsMaxLen, [Next]_vars,
           NEW k \in Letters', LetterEvicted(k)'
    PROVE  k \in Letters /\ (k > dlqTrimmed \/ LetterEvicted(k))
PROOF
<1>1. /\ Len(dlq) \in Nat /\ Len(dlq') \in Nat /\ dlqTrimmed \in Nat
      /\ DlqMaxLen \in Nat \ {0} /\ k \in Nat \ {0}
  BY PageAssumption, SMTT(30) DEF Letters, TypeOK
<1>2. Len(dlq') <= Len(dlq) + 1
  <2>1. CASE UNCHANGED dlqVars
    BY <1>1, <2>1 DEF dlqVars
  <2>2. ASSUME NEW m \in Messages, NEW n \in Nat, XAddDlq(m, n)
        PROVE  Len(dlq') = Len(dlq) + 1
    BY <2>2, XAddDlqExtends
  <2> QED
    BY <1>1, <2>1, <2>2, DlqStep
<1>3. k \in Letters
  BY <1>1, <1>2 DEF LetterEvicted, Letters
<1>4. CASE ~(k > dlqTrimmed)
  <2>1. k <= dlqTrimmed /\ k + DlqMaxLen <= Len(dlq)
    BY <1>1, <1>4 DEF KeepsMaxLen
  <2> QED
    BY <1>3, <2>1 DEF LetterEvicted
<1> QED
  BY <1>3, <1>4

\* What was evicted stays so: no worker fetches an entry that was trimmed.
LEMMA EvictedGrows ==
    ASSUME TypeOK, TypeOK', [Next]_vars,
           \A i \in Ids : EntryEvicted(i) => i \notin acked' /\ ~Held(i)'
    PROVE  evictedBar \subseteq evictedBar'
PROOF
<1> SUFFICES ASSUME NEW m \in Messages, Evicted(m) PROVE Evicted(m)'
  BY DEF evictedBar
<1>1. /\ Ids \subseteq Ids' /\ \A i \in Ids : stream'[i] = stream[i]
      /\ Letters \subseteq Letters' /\ \A k \in Letters : dlq'[k] = dlq[k]
      /\ trimmed <= trimmed' /\ dlqTrimmed <= dlqTrimmed'
  BY StreamGrows, DlqGrows
<1>2. /\ Len(stream) \in Nat /\ Len(stream') \in Nat
      /\ Len(dlq) \in Nat /\ Len(dlq') \in Nat
      /\ trimmed \in Nat /\ trimmed' \in Nat
      /\ dlqTrimmed \in Nat /\ dlqTrimmed' \in Nat
      /\ MaxLen \in Nat /\ DlqMaxLen \in Nat
  BY PageAssumption, SMTT(30) DEF TypeOK
<1>3. Len(stream) <= Len(stream') /\ Len(dlq) <= Len(dlq')
  <2>1. Len(stream) <= Len(stream')
    BY <1>1, <1>2, IntervalGrows DEF Ids
  <2>2. Len(dlq) <= Len(dlq')
    BY <1>1, <1>2, IntervalGrows DEF Letters
  <2> QED
    BY <2>1, <2>2
<1>4. CASE \E i \in Ids : stream[i].msg = m /\ EntryEvicted(i)
  <2>1. PICK i \in Ids : stream[i].msg = m /\ EntryEvicted(i)
    BY <1>4
  <2>2. i \in Nat /\ i <= trimmed' /\ i + MaxLen <= Len(stream')
    BY <1>1, <1>2, <1>3, <2>1 DEF EntryEvicted, Ids
  <2>3. EntryEvicted(i)'
    BY <2>1, <2>2 DEF EntryEvicted
  <2> QED
    BY <1>1, <2>1, <2>3 DEF Evicted
<1>5. CASE \E k \in Letters : dlq[k].msg = m /\ LetterEvicted(k)
  <2>1. PICK k \in Letters : dlq[k].msg = m /\ LetterEvicted(k)
    BY <1>5
  <2>2. k \in Nat /\ k <= dlqTrimmed' /\ k + DlqMaxLen <= Len(dlq')
    BY <1>1, <1>2, <1>3, <2>1 DEF LetterEvicted, Letters
  <2>3. LetterEvicted(k)'
    BY <2>2 DEF LetterEvicted
  <2> QED
    BY <1>1, <2>1, <2>3 DEF Evicted
<1> QED
  BY <1>4, <1>5 DEF Evicted

\* What a step evicts was queued, or dead if a dead letter was added.
LEMMA EvictedComes ==
    ASSUME TypeOK, TypeOK', KeepsMaxLen, [Next]_vars, acked \subseteq acked'
    PROVE  /\ evictedBar' \subseteq evictedBar \union queuedBar \union deadBar
           /\ dlqVars' = dlqVars => evictedBar' \subseteq evictedBar \union queuedBar
           /\ UNCHANGED <<stream, trimmed, acked, todo>>
                 => evictedBar' \subseteq evictedBar \union deadBar
PROOF
<1> SUFFICES ASSUME NEW m \in Messages, Evicted(m)', ~Evicted(m)
             PROVE  /\ m \in queuedBar \union deadBar
                    /\ dlqVars' = dlqVars => m \in queuedBar
                    /\ UNCHANGED <<stream, trimmed, acked, todo>> => m \in deadBar
  BY DEF evictedBar
<1>1. /\ Ids \subseteq Ids' /\ \A i \in Ids : stream'[i] = stream[i]
      /\ Letters \subseteq Letters' /\ \A k \in Letters : dlq'[k] = dlq[k]
  BY StreamGrows, DlqGrows
<1>2. CASE \E i \in Ids' : stream'[i].msg = m /\ EntryEvicted(i)'
  <2>1. PICK i \in Ids' : stream'[i].msg = m /\ EntryEvicted(i)'
    BY <1>2
  <2>2. i \in Ids /\ (Owed(i) \/ EntryEvicted(i))
    BY <2>1, EntryEvictionComes
  <2>3. stream[i].msg = m
    BY <1>1, <2>1, <2>2
  <2>4. Owed(i)
    BY <2>2, <2>3 DEF Evicted
  <2>5. m \in queuedBar
    BY <2>2, <2>3, <2>4 DEF queuedBar
  <2>6. ~UNCHANGED <<stream, trimmed, acked, todo>>
    <3>1. ~EntryEvicted(i)
      BY <2>2, <2>3 DEF Evicted
    <3> QED
      BY <2>1, <3>1 DEF EntryEvicted, Held
  <2> QED
    BY <2>5, <2>6
<1>3. CASE \E k \in Letters' : dlq'[k].msg = m /\ LetterEvicted(k)'
  <2>1. PICK k \in Letters' : dlq'[k].msg = m /\ LetterEvicted(k)'
    BY <1>3
  <2>2. k \in Letters /\ (k > dlqTrimmed \/ LetterEvicted(k))
    BY <2>1, LetterEvictionComes
  <2>3. dlq[k].msg = m
    BY <1>1, <2>1, <2>2
  <2>4. ~LetterEvicted(k)
    BY <2>2, <2>3 DEF Evicted
  <2>5. m \in deadBar
    BY <2>2, <2>3, <2>4 DEF deadBar, Dead
  <2>6. dlqVars' # dlqVars
    BY <2>1, <2>4 DEF LetterEvicted, dlqVars
  <2> QED
    BY <2>5, <2>6
<1> QED
  BY <1>2, <1>3 DEF Evicted

\* XADD to the stream makes its message owed; trimming may evict others.
LEMMA XAddPublishes ==
    ASSUME TypeOK, TypeOK', KeepsMaxLen, KeepsMaxLen', [Next]_vars,
           NEW m \in Messages, NEW k \in Nat, XAdd(m, k),
           UNCHANGED <<acked, todo, dlqVars>>
    PROVE  /\ m \in queuedBar'
           /\ queuedBar' \subseteq queuedBar \union {m}
           /\ queuedBar \ queuedBar' \subseteq evictedBar'
           /\ evictedBar \subseteq evictedBar'
           /\ evictedBar' \subseteq evictedBar \union queuedBar
           /\ deadBar' = deadBar
PROOF
<1>0. PICK n : n = Len(stream) + 1
  OBVIOUS
<1>1. /\ Len(stream) \in Nat /\ Len(stream') = n
      /\ Ids' = Ids \union {n}
      /\ \A i \in Ids : stream'[i] = stream[i]
      /\ stream'[n] = [msg |-> m, attempt |-> k]
      /\ trimmed <= trimmed'
      /\ trimmed' = trimmed \/ trimmed' + MaxLen <= n
  BY <1>0, XAddExtends
<1>2. /\ trimmed \in Nat /\ trimmed <= Len(stream) /\ trimmed' \in Nat
      /\ MaxLen \in Nat \ {0}
  BY PageAssumption DEF TypeOK
<1>3. n \notin acked /\ n > trimmed'
  <2>1. n > trimmed'
    BY <1>0, <1>1, <1>2
  <2>2. acked \subseteq 1..Len(stream)
    BY DEF TypeOK, Ids
  <2> QED
    BY <1>0, <1>1, <2>1, <2>2
<1>4. /\ acked' = acked /\ todo' = todo
      /\ \A i : Held(i)' <=> Held(i)
  BY DEF Held
<1>5. n \in Ids' /\ Owed(n)' /\ stream'[n].msg = m
  BY <1>1, <1>3, <1>4 DEF Owed
<1>6. m \in queuedBar'
  BY <1>5 DEF queuedBar
<1>7. queuedBar' \subseteq queuedBar \union {m}
  <2> SUFFICES ASSUME NEW i \in Ids', Owed(i)', stream'[i].msg # m
               PROVE  stream'[i].msg \in queuedBar
    BY DEF queuedBar
  <2>1. i \in Ids /\ stream'[i] = stream[i]
    BY <1>1, <1>5
  <2>2. i \in Nat
    BY <2>1 DEF Ids
  <2>3. Owed(i)
    BY <1>1, <1>2, <1>4, <2>2 DEF Owed
  <2> QED
    BY <2>1, <2>3 DEF queuedBar
<1>8. queuedBar \ queuedBar' \subseteq evictedBar'
  <2> SUFFICES ASSUME NEW i \in Ids, Owed(i), stream[i].msg \notin queuedBar'
               PROVE  stream[i].msg \in evictedBar'
    BY DEF queuedBar
  <2>1. stream'[i] = stream[i] /\ i \in Ids' /\ stream[i].msg \in Messages
    BY <1>1, EntryFields
  <2>2. ~Owed(i)'
    BY <2>1 DEF queuedBar
  <2>3. EntryEvicted(i)'
    BY <2>2, OwedGoes DEF Owed
  <2> QED
    BY <2>1, <2>3 DEF evictedBar, Evicted
<1>9. \A i \in Ids : EntryEvicted(i) => i \notin acked' /\ ~Held(i)'
  BY <1>4 DEF EntryEvicted
<1>10. /\ evictedBar \subseteq evictedBar'
       /\ evictedBar' \subseteq evictedBar \union queuedBar
  BY <1>9, EvictedGrows, EvictedComes
<1>11. deadBar' = deadBar
  BY DEF deadBar, Dead, Letters, dlqVars
<1> QED
  BY <1>6, <1>7, <1>8, <1>10, <1>11

\* XADD to the dead-letter stream buries its message; trimming may evict
\* other dead letters.
LEMMA XAddDlqBuries ==
    ASSUME TypeOK, TypeOK', KeepsMaxLen, KeepsMaxLen', [Next]_vars,
           NEW m \in Messages, NEW n \in Nat, XAddDlq(m, n),
           UNCHANGED <<stream, trimmed, acked, todo>>
    PROVE  /\ m \in deadBar'
           /\ deadBar' \subseteq deadBar \union {m}
           /\ deadBar \ deadBar' \subseteq evictedBar'
           /\ evictedBar \subseteq evictedBar'
           /\ evictedBar' \subseteq evictedBar \union deadBar
           /\ queuedBar' = queuedBar
PROOF
<1> DEFINE l == Len(dlq) + 1
<1>1. /\ Len(dlq) \in Nat /\ Len(dlq') = l
      /\ Letters' = Letters \union {l}
      /\ \A k \in Letters : dlq'[k] = dlq[k]
      /\ dlq'[l] = [msg |-> m, attempts |-> n]
      /\ dlqTrimmed <= dlqTrimmed'
      /\ dlqTrimmed' = dlqTrimmed \/ dlqTrimmed' + DlqMaxLen <= l
  BY XAddDlqExtends
<1>2. /\ dlqTrimmed \in Nat /\ dlqTrimmed <= Len(dlq) /\ dlqTrimmed' \in Nat
      /\ DlqMaxLen \in Nat \ {0} /\ Len(dlq') \in Nat
  BY PageAssumption DEF TypeOK
<1>3. l > dlqTrimmed'
  BY <1>1, <1>2
<1>4. l \in Letters' /\ dlq'[l].msg = m
  BY <1>1
<1> HIDE DEF l
<1>5. m \in deadBar'
  BY <1>3, <1>4 DEF deadBar, Dead
<1>6. deadBar' \subseteq deadBar \union {m}
  <2> SUFFICES ASSUME NEW q \in Messages, NEW k \in Letters', k > dlqTrimmed',
                      dlq'[k].msg = q, q # m
               PROVE  Dead(q)
    BY DEF deadBar, Dead
  <2>1. k \in Letters /\ dlq'[k] = dlq[k]
    BY <1>1, <1>4
  <2>2. k > dlqTrimmed
    BY <1>1, <1>2, <2>1 DEF Letters
  <2> QED
    BY <2>1, <2>2 DEF Dead
<1>7. deadBar \ deadBar' \subseteq evictedBar'
  <2> SUFFICES ASSUME NEW q \in Messages, NEW k \in Letters, dlq[k].msg = q,
                      ~Dead(q)'
               PROVE  Evicted(q)'
    BY DEF deadBar, Dead, evictedBar
  <2>1. k \in Letters' /\ dlq'[k].msg = q /\ k \in Nat \ {0}
    BY <1>1 DEF Letters
  <2>2. ~(k > dlqTrimmed')
    BY <2>1 DEF Dead
  <2>3. k <= dlqTrimmed' /\ k + DlqMaxLen <= Len(dlq')
    BY <1>2, <2>1, <2>2 DEF KeepsMaxLen
  <2> QED
    BY <2>1, <2>3 DEF Evicted, LetterEvicted
<1>8. \A i \in Ids : EntryEvicted(i) => i \notin acked' /\ ~Held(i)'
  BY DEF EntryEvicted, Held
<1>9. /\ evictedBar \subseteq evictedBar'
      /\ evictedBar' \subseteq evictedBar \union deadBar
  BY <1>8, EvictedGrows, EvictedComes
<1>10. queuedBar' = queuedBar
  BY DEF queuedBar, Owed, Held, Ids
<1> QED
  BY <1>5, <1>6, <1>7, <1>9, <1>10

\* A published message is known to EventDelivery.
LEMMA PublishedIsKnown ==
    ASSUME TypeOK, NoSilentLoss, NEW i \in Ids
    PROVE  stream[i].msg \in queuedBar \union doneBar \union deadBar \union evictedBar
PROOF
<1>1. stream[i].msg \in Messages
  BY EntryFields
<1>2. \/ Completed(stream[i].msg)
      \/ Dead(stream[i].msg)
      \/ \E j \in Ids : stream[j].msg = stream[i].msg /\ Owed(j)
      \/ Evicted(stream[i].msg)
  BY <1>1 DEF NoSilentLoss, Published
<1>3. CASE \E j \in Ids : stream[j].msg = stream[i].msg /\ Owed(j)
  BY <1>3 DEF queuedBar
<1> QED
  BY <1>1, <1>2, <1>3 DEF doneBar, deadBar, evictedBar

\* A normal return completes the message of the entry.
LEMMA ExecuteOkCompletes ==
    ASSUME TypeOK, NoSilentLoss, NEW w \in Workers, ExecuteOk(w)
    PROVE  \E m \in Messages :
              /\ m \in queuedBar \union doneBar \union deadBar \union evictedBar
              /\ doneBar' = doneBar \union {m}
              /\ UNCHANGED <<queuedBar, deadBar, evictedBar, fullBar>>
PROOF
<1>1. PICK i \in Ids :
         completions' = [completions EXCEPT ![stream[i].msg] = @ + 1]
  BY DEF ExecuteOk
<1>2. stream[i].msg \in Messages /\ completions \in [Messages -> Nat]
  BY EntryFields DEF TypeOK
<1>3. doneBar' = doneBar \union {stream[i].msg}
  BY <1>1, <1>2 DEF doneBar, Completed
<1>4. UNCHANGED <<stream, trimmed, dlq, dlqTrimmed, todo, acked>>
  BY DEF ExecuteOk, busVars
<1>5. UNCHANGED <<queuedBar, deadBar, evictedBar, fullBar>>
  BY <1>4 DEF queuedBar, deadBar, evictedBar, fullBar, Owed, Held, Dead, Evicted,
              EntryEvicted, LetterEvicted, Ids, Letters
<1> QED
  BY <1>2, <1>3, <1>5, PublishedIsKnown

\* An acknowledgement leaves what is owed unchanged, or takes away a message
\* that has its outcome or was evicted.
LEMMA AckForgets ==
    ASSUME TypeOK, TypeOK', NoSilentLoss', NEW w \in Workers, Ack(w)
    PROVE  /\ UNCHANGED <<doneBar, deadBar, evictedBar, fullBar>>
           /\ \/ queuedBar' = queuedBar
              \/ \E m \in Messages :
                    /\ m \in queuedBar
                    /\ m \in doneBar \union deadBar \union evictedBar
                    /\ queuedBar' = queuedBar \ {m}
PROOF
<1>1. PICK i \in Ids : /\ IsCurrent(w, i)
                       /\ acked' = acked \union {i}
                       /\ todo' = [todo EXCEPT ![w] = @ \ {i}]
  BY DEF Ack, AckedBy
<1>2. UNCHANGED <<stream, trimmed, dlq, dlqTrimmed, completions>>
  BY DEF Ack, dlqVars
<1>3. \A v \in Workers : todo'[v] = IF v = w THEN todo[w] \ {i} ELSE todo[v]
  BY <1>1 DEF TypeOK
<1>4. Ids' = Ids /\ Letters' = Letters
  BY <1>2 DEF Ids, Letters
<1>5. \A j : j # i => (Held(j)' <=> Held(j))
  BY <1>3 DEF Held
<1>6. \A j \in Ids : EntryEvicted(j)' <=> EntryEvicted(j)
  <2>1. ~EntryEvicted(i) /\ ~EntryEvicted(i)'
    BY <1>1 DEF EntryEvicted, Held, IsCurrent
  <2>2. ASSUME NEW j \in Ids, j # i
        PROVE  EntryEvicted(j)' <=> EntryEvicted(j)
    BY <1>1, <1>2, <1>5, <2>2 DEF EntryEvicted
  <2> QED
    BY <2>1, <2>2
<1>7. UNCHANGED <<doneBar, deadBar, fullBar>>
  BY <1>2, <1>4 DEF doneBar, deadBar, fullBar, Completed, Dead
<1>8. evictedBar' = evictedBar
  <2>1. \A k \in Letters : LetterEvicted(k)' <=> LetterEvicted(k)
    BY <1>2 DEF LetterEvicted
  <2> QED
    BY <1>2, <1>4, <1>6, <2>1 DEF evictedBar, Evicted
<1>9. \A j \in Ids : j # i => (Owed(j)' <=> Owed(j))
  BY <1>1, <1>2, <1>5 DEF Owed
<1>10. ~Owed(i)'
  BY <1>1 DEF Owed
<1>11. stream[i].msg \in Messages
  BY EntryFields
<1>12. queuedBar' \subseteq queuedBar
  BY <1>2, <1>4, <1>9, <1>10 DEF queuedBar
<1>13. \A m \in queuedBar : m # stream[i].msg => m \in queuedBar'
  BY <1>2, <1>4, <1>9 DEF queuedBar
<1>14. CASE stream[i].msg \in queuedBar' \/ stream[i].msg \notin queuedBar
  BY <1>7, <1>8, <1>12, <1>13, <1>14
<1>15. CASE stream[i].msg \notin queuedBar' /\ stream[i].msg \in queuedBar
  <2>1. Published(stream[i].msg)'
    BY <1>2, <1>4 DEF Published
  <2>2. \/ Completed(stream[i].msg)'
        \/ Dead(stream[i].msg)'
        \/ \E j \in Ids' : stream'[j].msg = stream'[i].msg /\ Owed(j)'
        \/ Evicted(stream[i].msg)'
    BY <1>2, <1>11, <2>1 DEF NoSilentLoss
  <2>3. ~ \E j \in Ids' : stream'[j].msg = stream'[i].msg /\ Owed(j)'
    BY <1>2, <1>15 DEF queuedBar
  <2>4. stream[i].msg \in doneBar' \union deadBar' \union evictedBar'
    BY <1>2, <1>11, <2>2, <2>3 DEF doneBar, deadBar, evictedBar
  <2>5. queuedBar' = queuedBar \ {stream[i].msg}
    BY <1>12, <1>13, <1>15
  <2> QED
    BY <1>7, <1>8, <1>11, <1>15, <2>4, <2>5
<1> QED
  BY <1>14, <1>15

\* A worker that fetches entries holds none before, and none that was trimmed
\* afterwards, so that what is owed and what is evicted stay the same.
LEMMA FetchKeeps ==
    ASSUME TypeOK, BatchesWereDelivered, NEW w \in Workers, Claim(w) \/ Read(w)
    PROVE  UNCHANGED <<queuedBar, doneBar, deadBar, evictedBar, fullBar>>
PROOF
<1>1. PICK S : /\ todo' = [todo EXCEPT ![w] = S]
               /\ \A i \in S : i > trimmed
  <2>1. CASE Claim(w)
    BY <2>1 DEF Claim, Claimed
  <2>2. CASE Read(w)
    <3>1. trimmed \in Nat /\ lastDelivered \in Nat
      BY DEF TypeOK
    <3>2. \A i \in Batch : i > trimmed
      BY <3>1 DEF Batch, ReadAfter, Ids
    <3> QED
      BY <2>2, <3>2 DEF Read
  <2> QED BY <2>1, <2>2
<1>2. todo[w] = {}
  BY DEF BatchesWereDelivered, Claim, Read
<1>3. UNCHANGED <<stream, trimmed, dlq, dlqTrimmed, acked, completions>>
  BY DEF Claim, Read, dlqVars, historyVars
<1>4. \A v \in Workers : todo'[v] = IF v = w THEN S ELSE todo[v]
  BY <1>1 DEF TypeOK
<1>5. trimmed \in Nat
  BY DEF TypeOK
<1>6. \A i \in Ids : i <= trimmed => (Held(i)' <=> Held(i))
  BY <1>1, <1>2, <1>4, <1>5 DEF Held, Ids
<1>7. Ids' = Ids /\ Letters' = Letters
  BY <1>3 DEF Ids, Letters
<1>8. \A i \in Ids : Owed(i)' <=> Owed(i)
  BY <1>3, <1>5, <1>6 DEF Owed, Ids
<1>9. \A i \in Ids : EntryEvicted(i)' <=> EntryEvicted(i)
  BY <1>3, <1>6 DEF EntryEvicted
<1>10. \A k \in Letters : LetterEvicted(k)' <=> LetterEvicted(k)
  BY <1>3 DEF LetterEvicted
<1>11. queuedBar' = queuedBar
  BY <1>3, <1>7, <1>8 DEF queuedBar
<1>12. evictedBar' = evictedBar
  BY <1>3, <1>7, <1>9, <1>10 DEF evictedBar, Evicted
<1>13. UNCHANGED <<doneBar, deadBar, fullBar>>
  BY <1>3, <1>7 DEF doneBar, deadBar, fullBar, Completed, Dead
<1> QED
  BY <1>11, <1>12, <1>13

\* A worker that dies may have held the last copies of trimmed entries.
LEMMA CrashEvicts ==
    ASSUME TypeOK, TypeOK', KeepsMaxLen, KeepsMaxLen', [Next]_vars,
           NEW w \in Workers, Crash(w)
    PROVE  /\ UNCHANGED <<doneBar, deadBar, fullBar>>
           /\ queuedBar' \subseteq queuedBar
           /\ queuedBar \ queuedBar' \subseteq evictedBar'
           /\ evictedBar \subseteq evictedBar'
           /\ evictedBar' \subseteq evictedBar \union queuedBar
PROOF
<1>1. /\ UNCHANGED <<stream, trimmed, dlq, dlqTrimmed, acked, completions>>
      /\ dlqVars' = dlqVars
  BY DEF Crash, busVars, dlqVars
<1>2. \A v \in Workers : todo'[v] \subseteq todo[v]
  BY DEF Crash, TypeOK
<1>3. Ids' = Ids /\ Letters' = Letters
  BY <1>1 DEF Ids, Letters
<1>4. \A i : Held(i)' => Held(i)
  BY <1>2 DEF Held
<1>5. UNCHANGED <<doneBar, deadBar, fullBar>>
  BY <1>1, <1>3 DEF doneBar, deadBar, fullBar, Completed, Dead
<1>6. queuedBar' \subseteq queuedBar
  BY <1>1, <1>3, <1>4 DEF queuedBar, Owed
<1>7. queuedBar \ queuedBar' \subseteq evictedBar'
  <2> SUFFICES ASSUME NEW i \in Ids, Owed(i), stream[i].msg \notin queuedBar'
               PROVE  stream[i].msg \in evictedBar'
    BY DEF queuedBar
  <2>1. stream[i].msg \in Messages
    BY EntryFields
  <2>2. ~Owed(i)'
    BY <1>1, <1>3 DEF queuedBar
  <2>3. EntryEvicted(i)'
    BY <1>1, <2>2, OwedGoes DEF Owed
  <2> QED
    BY <1>1, <1>3, <2>1, <2>3 DEF evictedBar, Evicted
<1>8. \A i \in Ids : EntryEvicted(i) => i \notin acked' /\ ~Held(i)'
  BY <1>1, <1>4 DEF EntryEvicted
<1>9. evictedBar \subseteq evictedBar'
  BY <1>8, EvictedGrows
<1>10. evictedBar' \subseteq evictedBar \union queuedBar
  BY <1>1, EvictedComes
<1> QED
  BY <1>5, <1>6, <1>7, <1>9, <1>10

\* The other steps change nothing that EventDelivery sees.
LEMMA OtherStepsStutter ==
    ASSUME [Next]_vars,
           \A m \in Messages : ~WebhookPublish(m),
           \A w \in Workers : /\ ~Claim(w) /\ ~Read(w) /\ ~ExecuteOk(w)
                              /\ ~HandleFailure(w) /\ ~Ack(w) /\ ~Crash(w)
    PROVE  UNCHANGED <<queuedBar, doneBar, deadBar, evictedBar, fullBar>>
PROOF
<1>1. ASSUME NEW m \in Messages, WebStep(m)
      PROVE  UNCHANGED <<stream, trimmed, dlq, dlqTrimmed, todo, acked, completions>>
  BY <1>1 DEF WebStep, WebhookMark, WebhookDuplicate, WebhookFail, DedupeExpire,
              busVars, workerVars, historyVars
<1>2. ASSUME NEW w \in Workers, WorkerStep(w) \/ Crash(w)
      PROVE  UNCHANGED <<stream, trimmed, dlq, dlqTrimmed, todo, acked, completions>>
  BY <1>2 DEF WorkerStep, Start, ExecuteFail, busVars, historyVars
<1>3. ASSUME TimePasses \/ UNCHANGED vars
      PROVE  UNCHANGED <<stream, trimmed, dlq, dlqTrimmed, todo, acked, completions>>
  BY <1>3 DEF TimePasses, BecomeIdle, vars, busVars, dlqVars, workerVars,
              historyVars
<1>4. UNCHANGED <<stream, trimmed, dlq, dlqTrimmed, todo, acked, completions>>
  BY <1>1, <1>2, <1>3 DEF Next
<1> QED
  BY <1>4 DEF queuedBar, doneBar, deadBar, evictedBar, fullBar, Owed, Held,
              Completed, Dead, Evicted, EntryEvicted, LetterEvicted, Ids, Letters

-----------------------------------------------------------------------------
\* The actions of EventDelivery, in terms of the mapping.
DeliveryPublishes(m) ==
    /\ fullBar => fullBar'
    /\ evictedBar' # evictedBar => fullBar'
    /\ evictedBar \subseteq evictedBar'
    /\ evictedBar' \subseteq evictedBar \union queuedBar
    /\ queuedBar' \subseteq queuedBar \union {m}
    /\ m \in queuedBar'
    /\ queuedBar \ queuedBar' \subseteq evictedBar'
    /\ UNCHANGED <<doneBar, deadBar>>

DeliveryBuries(m) ==
    /\ m \in queuedBar \union doneBar \union deadBar \union evictedBar
    /\ fullBar => fullBar'
    /\ evictedBar' # evictedBar => fullBar'
    /\ evictedBar \subseteq evictedBar'
    /\ evictedBar' \subseteq evictedBar \union deadBar
    /\ deadBar' \subseteq deadBar \union {m}
    /\ m \in deadBar'
    /\ deadBar \ deadBar' \subseteq evictedBar'
    /\ UNCHANGED <<queuedBar, doneBar>>

\* A failed execution publishes the message again or buries it.
LEMMA HandleFailureImplements ==
    ASSUME DeliveryInv, DeliveryInv', [Next]_vars,
           NEW w \in Workers, HandleFailure(w)
    PROVE  \E m \in Messages : DeliveryPublishes(m) \/ DeliveryBuries(m)
PROOF
<1>1. /\ TypeOK /\ KeepsMaxLen /\ NoSilentLoss
      /\ TypeOK' /\ KeepsMaxLen'
  BY DEF DeliveryInv
<1>2. PICK i \in Ids :
         \/ /\ XAddDlq(stream[i].msg, stream[i].attempt + 1)
            /\ UNCHANGED <<stream, trimmed>>
         \/ /\ XAdd(stream[i].msg, stream[i].attempt + 1)
            /\ UNCHANGED dlqVars
  BY DEF HandleFailure
<1>3. PICK m \in Messages, n \in Nat :
         /\ m = stream[i].msg /\ n = stream[i].attempt + 1
  BY <1>1, EntryFields
<1>4. UNCHANGED <<acked, todo, completions>>
  BY DEF HandleFailure, historyVars
<1>5. fullBar => fullBar'
  BY <1>1, FullStays
<1>6. doneBar' = doneBar
  BY <1>4 DEF doneBar, Completed
<1>7. CASE XAdd(m, n) /\ UNCHANGED dlqVars
  <2>1. UNCHANGED <<acked, todo, dlqVars>>
    BY <1>4, <1>7
  <2>2. /\ m \in queuedBar'
        /\ queuedBar' \subseteq queuedBar \union {m}
        /\ queuedBar \ queuedBar' \subseteq evictedBar'
        /\ evictedBar \subseteq evictedBar'
        /\ evictedBar' \subseteq evictedBar \union queuedBar
        /\ deadBar' = deadBar
    BY <1>1, <1>7, <2>1, XAddPublishes
  <2>3. evictedBar' # evictedBar => evictedBar' # {}
    BY <2>2
  <2>4. evictedBar' # evictedBar => fullBar'
    BY <1>1, <2>3, EvictedIsFull
  <2> QED
    BY <1>5, <1>6, <2>2, <2>4 DEF DeliveryPublishes
<1>8. CASE XAddDlq(m, n) /\ UNCHANGED <<stream, trimmed>>
  <2>1. UNCHANGED <<stream, trimmed, acked, todo>>
    BY <1>4, <1>8
  <2>2. /\ m \in deadBar'
        /\ deadBar' \subseteq deadBar \union {m}
        /\ deadBar \ deadBar' \subseteq evictedBar'
        /\ evictedBar \subseteq evictedBar'
        /\ evictedBar' \subseteq evictedBar \union deadBar
        /\ queuedBar' = queuedBar
    BY <1>1, <1>8, <2>1, XAddDlqBuries
  <2>3. evictedBar' # evictedBar => evictedBar' # {}
    BY <2>2
  <2>4. evictedBar' # evictedBar => fullBar'
    BY <1>1, <2>3, EvictedIsFull
  <2>5. m \in queuedBar \union doneBar \union deadBar \union evictedBar
    BY <1>1, <1>3, PublishedIsKnown
  <2> QED
    BY <1>5, <1>6, <2>2, <2>4, <2>5 DEF DeliveryBuries
<1> QED
  BY <1>2, <1>3, <1>7, <1>8

\* The webhook's publication.
LEMMA WebhookPublishImplements ==
    ASSUME DeliveryInv, DeliveryInv', [Next]_vars,
           NEW m \in Messages, WebhookPublish(m)
    PROVE  DeliveryPublishes(m)
PROOF
<1>1. /\ TypeOK /\ KeepsMaxLen
      /\ TypeOK' /\ KeepsMaxLen'
  BY DEF DeliveryInv
<1>2. XAdd(m, 0) /\ UNCHANGED <<acked, todo, dlqVars, completions>>
  BY DEF WebhookPublish, workerVars, historyVars
<1>3. 0 \in Nat /\ UNCHANGED <<acked, todo, dlqVars>>
  BY <1>2
<1>4. /\ m \in queuedBar'
      /\ queuedBar' \subseteq queuedBar \union {m}
      /\ queuedBar \ queuedBar' \subseteq evictedBar'
      /\ evictedBar \subseteq evictedBar'
      /\ evictedBar' \subseteq evictedBar \union queuedBar
      /\ deadBar' = deadBar
  BY <1>1, <1>2, <1>3, XAddPublishes
<1>5. fullBar => fullBar'
  BY <1>1, FullStays
<1>6. evictedBar' # evictedBar => fullBar'
  <2>1. evictedBar' # evictedBar => evictedBar' # {}
    BY <1>4
  <2> QED
    BY <1>1, <2>1, EvictedIsFull
<1>7. doneBar' = doneBar
  BY <1>2 DEF doneBar, Completed
<1> QED
  BY <1>4, <1>5, <1>6, <1>7 DEF DeliveryPublishes

\* A crash evicts entries, or nothing.
LEMMA CrashImplements ==
    ASSUME DeliveryInv, DeliveryInv', [Next]_vars,
           NEW w \in Workers, Crash(w)
    PROVE  \/ UNCHANGED <<queuedBar, doneBar, deadBar, evictedBar, fullBar>>
           \/ /\ fullBar
              /\ evictedBar' # evictedBar => fullBar'
              /\ evictedBar \subseteq evictedBar'
              /\ evictedBar' \subseteq evictedBar \union queuedBar
              /\ queuedBar' \subseteq queuedBar
              /\ queuedBar \ queuedBar' \subseteq evictedBar'
              /\ UNCHANGED <<doneBar, deadBar, fullBar>>
PROOF
<1>1. /\ UNCHANGED <<doneBar, deadBar, fullBar>>
      /\ queuedBar' \subseteq queuedBar
      /\ queuedBar \ queuedBar' \subseteq evictedBar'
      /\ evictedBar \subseteq evictedBar'
      /\ evictedBar' \subseteq evictedBar \union queuedBar
  BY CrashEvicts DEF DeliveryInv
<1>2. CASE evictedBar' = evictedBar /\ queuedBar' = queuedBar
  BY <1>1, <1>2
<1>3. CASE evictedBar' # evictedBar \/ queuedBar' # queuedBar
  <2>1. evictedBar' # {}
    BY <1>1, <1>3
  <2>2. fullBar'
    BY <2>1, EvictedIsFull DEF DeliveryInv
  <2> QED
    BY <1>1, <2>2
<1> QED
  BY <1>2, <1>3

\* Every step of the streams, the workers and the webhook is a step of
\* EventDelivery: for any number of messages and workers and any MAXLEN of
\* both streams, what the bus still owes goes away only with an outcome or by
\* the eviction of a stream that was given more than its maxlen.
THEOREM BusImplementsDelivery == Spec => ImplementsEventDelivery
PROOF
<1>1. Init => Delivery!Init
  <2> SUFFICES ASSUME Init PROVE Delivery!Init
    OBVIOUS
  <2>1. Ids = {} /\ Letters = {}
    BY DEF Init, Ids, Letters
  <2>2. Len(stream) = 0 /\ Len(dlq) = 0 /\ MaxLen \in Nat /\ DlqMaxLen \in Nat
    BY PageAssumption DEF Init
  <2>3. queuedBar = {} /\ doneBar = {} /\ deadBar = {} /\ evictedBar = {}
    BY <2>1 DEF Init, queuedBar, doneBar, deadBar, evictedBar, Completed, Dead,
                Evicted
  <2>4. fullBar = FALSE
    BY <2>2 DEF fullBar
  <2> QED
    BY <2>3, <2>4
    DEF Delivery!Init, queuedBar, doneBar, deadBar, evictedBar, fullBar
<1>2. DeliveryInv /\ DeliveryInv' /\ [Next]_vars
         => [Delivery!Next]_(Delivery!vars)
  <2> SUFFICES ASSUME DeliveryInv, DeliveryInv', [Next]_vars
               PROVE  Delivery!Next \/ UNCHANGED Delivery!vars
    OBVIOUS
  <2>1. ASSUME NEW m \in Messages, DeliveryPublishes(m)
        PROVE  Delivery!Publish(m)
    <3>1. fullBar' \in {fullBar, TRUE}
      BY <2>1 DEF DeliveryPublishes, fullBar
    <3> QED
      BY <2>1, <3>1
      DEF DeliveryPublishes, Delivery!Publish, Delivery!Evicts, queuedBar,
          doneBar, deadBar, evictedBar, fullBar
  <2>2. ASSUME NEW m \in Messages, DeliveryBuries(m)
        PROVE  Delivery!Bury(m)
    <3>1. fullBar' \in {fullBar, TRUE}
      BY <2>2 DEF DeliveryBuries, fullBar
    <3> QED
      BY <2>2, <3>1
      DEF DeliveryBuries, Delivery!Bury, Delivery!Evicts, Delivery!Known,
          queuedBar, doneBar, deadBar, evictedBar, fullBar
  <2>3. ASSUME UNCHANGED <<queuedBar, doneBar, deadBar, evictedBar, fullBar>>
        PROVE  UNCHANGED Delivery!vars
    BY <2>3 DEF Delivery!vars, queuedBar, doneBar, deadBar, evictedBar, fullBar
  <2>4. CASE \E m \in Messages : WebhookPublish(m)
    BY <2>1, <2>4, WebhookPublishImplements DEF Delivery!Next
  <2>5. CASE \E w \in Workers : HandleFailure(w)
    BY <2>1, <2>2, <2>5, HandleFailureImplements DEF Delivery!Next
  <2>6. CASE \E w \in Workers : ExecuteOk(w)
    <3>1. PICK m \in Messages :
             /\ m \in queuedBar \union doneBar \union deadBar \union evictedBar
             /\ doneBar' = doneBar \union {m}
             /\ UNCHANGED <<queuedBar, deadBar, evictedBar, fullBar>>
      BY <2>6, ExecuteOkCompletes DEF DeliveryInv
    <3>2. Delivery!Complete(m)
      BY <3>1
      DEF Delivery!Complete, Delivery!Known, queuedBar, doneBar, deadBar,
          evictedBar, fullBar
    <3> QED
      BY <3>2 DEF Delivery!Next
  <2>7. CASE \E w \in Workers : Ack(w)
    <3>1. /\ UNCHANGED <<doneBar, deadBar, evictedBar, fullBar>>
          /\ \/ queuedBar' = queuedBar
             \/ \E m \in Messages :
                   /\ m \in queuedBar
                   /\ m \in doneBar \union deadBar \union evictedBar
                   /\ queuedBar' = queuedBar \ {m}
      BY <2>7, AckForgets DEF DeliveryInv
    <3>2. CASE queuedBar' = queuedBar
      BY <2>3, <3>1, <3>2
    <3>3. ASSUME NEW m \in Messages,
                 m \in queuedBar,
                 m \in doneBar \union deadBar \union evictedBar,
                 queuedBar' = queuedBar \ {m}
          PROVE  Delivery!Forget(m)
      BY <3>1, <3>3
      DEF Delivery!Forget, queuedBar, doneBar, deadBar, evictedBar, fullBar
    <3> QED
      BY <3>1, <3>2, <3>3 DEF Delivery!Next
  <2>8. CASE \E w \in Workers : Claim(w) \/ Read(w)
    BY <2>3, <2>8, FetchKeeps DEF DeliveryInv
  <2>9. CASE \E w \in Workers : Crash(w)
    <3>1. \/ UNCHANGED <<queuedBar, doneBar, deadBar, evictedBar, fullBar>>
          \/ /\ fullBar
             /\ evictedBar' # evictedBar => fullBar'
             /\ evictedBar \subseteq evictedBar'
             /\ evictedBar' \subseteq evictedBar \union queuedBar
             /\ queuedBar' \subseteq queuedBar
             /\ queuedBar \ queuedBar' \subseteq evictedBar'
             /\ UNCHANGED <<doneBar, deadBar, fullBar>>
      BY <2>9, CrashImplements
    <3>2. ASSUME fullBar, evictedBar' # evictedBar => fullBar',
                 evictedBar \subseteq evictedBar',
                 evictedBar' \subseteq evictedBar \union queuedBar,
                 queuedBar' \subseteq queuedBar,
                 queuedBar \ queuedBar' \subseteq evictedBar',
                 UNCHANGED <<doneBar, deadBar, fullBar>>
          PROVE  Delivery!Evict
      BY <3>2
      DEF Delivery!Evict, Delivery!Evicts, queuedBar, doneBar, deadBar,
          evictedBar, fullBar
    <3> QED
      BY <2>3, <3>1, <3>2 DEF Delivery!Next
  <2>10. CASE /\ \A m \in Messages : ~WebhookPublish(m)
              /\ \A w \in Workers : /\ ~Claim(w) /\ ~Read(w) /\ ~ExecuteOk(w)
                                    /\ ~HandleFailure(w) /\ ~Ack(w) /\ ~Crash(w)
    BY <2>3, <2>10, OtherStepsStutter
  <2> QED
    BY <2>4, <2>5, <2>6, <2>7, <2>8, <2>9, <2>10
<1>3. SafetyInv => DeliveryInv
  BY DEF SafetyInv, DeliveryInv
<1> QED
  BY <1>1, <1>2, <1>3, BusInvariant, PTL
  DEF Spec, Delivery!Spec, ImplementsEventDelivery
=============================================================================
