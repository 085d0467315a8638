---------------------- MODULE DurableProcessingProofs ----------------------
(***************************************************************************)
(* Theorems about the bus and the processing together, for any number of   *)
(* messages, workers, retries and crashes. A step of the composition is    *)
(* one of RedisStreamBus and one of MessageProcessing, so what is proved   *)
(* of either holds of it; the proofs here add what relates the two.        *)
(***************************************************************************)
EXTENDS DurableProcessing, RedisStreamBusProofs

\* What is proved of MessageProcessing, of the processing side of the bus.
PP == INSTANCE MessageProcessingProofs WITH
    received <- {stream[i].msg : i \in Ids},
    pc       <- step

-----------------------------------------------------------------------------
(* A behaviour of the composition is one of the bus and of the processing. *)

\* Every step of the composition is a step of the bus.
LEMMA ServesBus ==
    ASSUME [Serve]_allVars
    PROVE  [Next]_vars
PROOF
<1>1. ASSUME NEW m \in Messages, Publish(m) \/ Request(m) PROVE Next
  BY <1>1 DEF Publish, Request, Next, WebStep
<1>2. ASSUME NEW w \in Workers, Work(w) PROVE [Next]_vars
  BY <1>2 DEF Work, BeginExecution, Continue, Return, RaiseConflict, BusStep,
              Next, WorkerStep
<1>3. ASSUME NEW w \in Workers, RaiseError(w) \/ Die(w) PROVE Next
  BY <1>3 DEF RaiseError, Die, Next, WorkerStep
<1>4. ASSUME Wait PROVE Next
  BY <1>4 DEF Wait, Next
<1>5. ASSUME UNCHANGED allVars PROVE UNCHANGED vars
  BY <1>5 DEF allVars
<1> QED
  BY <1>1, <1>2, <1>3, <1>4, <1>5 DEF Serve

\* The composition is a behaviour of the bus whose executions are those of
\* MessageProcessing: what is proved of the bus holds of it.
THEOREM ServesTheBus == ServeSpec => Spec
PROOF
<1>1. Start0 => Init
  BY DEF Start0
<1>2. [Serve]_allVars => [Next]_vars
  BY ServesBus
<1> QED
  BY <1>1, <1>2, PTL DEF ServeSpec, Spec

\* The two instances of MessageProcessing have the same actions.
LEMMA SameBegin ==
    ASSUME NEW w, NEW m
    PROVE  /\ P!Receive(m) => PP!Receive(m)
           /\ P!Begin(w, m) => PP!Begin(w, m)
PROOF
<1> USE DEF P!dbVars, PP!dbVars, P!txVars, PP!txVars, P!historyVars,
            PP!historyVars, P!Goto, PP!Goto
<1>1. P!Receive(m) => PP!Receive(m)
  BY DEF P!Receive, PP!Receive
<1>2. P!Begin(w, m) => PP!Begin(w, m)
  BY DEF P!Begin, PP!Begin
<1> QED
  BY <1>1, <1>2

\* The two instances have the same statements and failures of an execution.
LEMMA SameExecute ==
    ASSUME NEW w
    PROVE  /\ P!Execute(w) => PP!Execute(w)
           /\ P!Fail(w) => PP!Fail(w)
PROOF
<1> USE DEF P!dbVars, PP!dbVars, P!txVars, PP!txVars, P!historyVars,
            PP!historyVars, P!Goto, PP!Goto, P!Phone, PP!Phone,
            P!EndTransaction, PP!EndTransaction
<1>1. P!CheckOptOut(w) => PP!CheckOptOut(w)
  BY DEF P!CheckOptOut, PP!CheckOptOut, P!OptOut, PP!OptOut,
         P!IsOptedOut, PP!IsOptedOut
<1>2. P!SelectCustomer(w) => PP!SelectCustomer(w)
  BY DEF P!SelectCustomer, PP!SelectCustomer
<1>3. P!InsertCustomer(w) => PP!InsertCustomer(w)
  BY DEF P!InsertCustomer, PP!InsertCustomer, P!WaitsForCustomer,
         PP!WaitsForCustomer, P!CustomerConflict, PP!CustomerConflict
<1>4. P!SelectConversation(w) => PP!SelectConversation(w)
  BY DEF P!SelectConversation, PP!SelectConversation
<1>5. P!SelectDuplicate(w) => PP!SelectDuplicate(w)
  BY DEF P!SelectDuplicate, PP!SelectDuplicate
<1>6. P!CommitIncoming(w) => PP!CommitIncoming(w)
  BY DEF P!CommitIncoming, PP!CommitIncoming, P!MessageConflict,
         PP!MessageConflict, P!CommitCustomer, PP!CommitCustomer
<1>7. P!ComposeReply(w) => PP!ComposeReply(w)
  BY DEF P!ComposeReply, PP!ComposeReply
<1>8. P!CommitOutgoing(w) => PP!CommitOutgoing(w)
  BY DEF P!CommitOutgoing, PP!CommitOutgoing, P!CommitCustomer,
         PP!CommitCustomer
<1>9. P!Send(w) => PP!Send(w)
  BY DEF P!Send, PP!Send, P!MaySend, PP!MaySend
<1>10. P!Abort(w) => PP!Abort(w)
  BY DEF P!Abort, PP!Abort, P!RollBack, PP!RollBack
<1>11. P!Conflict(w) => PP!Conflict(w)
  BY <1>10 DEF P!Conflict, PP!Conflict, P!WaitsForCustomer,
               PP!WaitsForCustomer, P!CustomerConflict, PP!CustomerConflict,
               P!MessageConflict, PP!MessageConflict
<1>12. P!Fail(w) => PP!Fail(w)
  BY <1>10 DEF P!Fail, PP!Fail
<1> QED
  BY <1>1, <1>2, <1>3, <1>4, <1>5, <1>6, <1>7, <1>8, <1>9, <1>11, <1>12
  DEF P!Execute, PP!Execute

\* The two instances start alike.
LEMMA SameInit == P!Init => PP!Init
BY DEF P!Init, PP!Init

\* No step of the bus but a publication changes which messages it has.
LEMMA ReceivedStays ==
    ASSUME TypeOK, [Serve]_allVars, \A m \in Messages : ~Publish(m)
    PROVE  {stream[i].msg : i \in Ids}' = {stream[i].msg : i \in Ids}
PROOF
<1>1. CASE stream' = stream
  BY <1>1 DEF Ids
<1>2. ASSUME NEW w \in Workers, HandleFailure(w), stream' # stream
      PROVE  {stream[i].msg : i \in Ids}' = {stream[i].msg : i \in Ids}
  <2>1. PICK k \in Ids : XAdd(stream[k].msg, stream[k].attempt + 1)
    BY <1>2 DEF HandleFailure
  <2>2. stream[k].msg \in Messages /\ stream[k].attempt + 1 \in Nat
    BY EntryFields
  <2>3. PICK n : /\ Ids' = Ids \union {n} /\ n \notin Ids
                 /\ \A i \in Ids : stream'[i] = stream[i]
                 /\ stream'[n].msg = stream[k].msg
    BY <2>1, <2>2, EntryAdded
  <2> QED
    BY <2>3
<1>3. ASSUME NEW m \in Messages, Request(m) PROVE stream' = stream
  BY <1>3 DEF Request, WebhookMark, WebhookDuplicate, WebhookFail,
              DedupeExpire, busVars
<1>4. ASSUME NEW w \in Workers, Work(w), ~HandleFailure(w)
      PROVE  stream' = stream
  BY <1>4 DEF Work, BeginExecution, Continue, Return, RaiseConflict, BusStep,
              Start, Claim, Read, ExecuteOk, ExecuteFail, Ack, vars, busVars
<1>5. ASSUME NEW w \in Workers, RaiseError(w) \/ Die(w) PROVE stream' = stream
  BY <1>5 DEF RaiseError, Die, ExecuteFail, Crash, busVars
<1>6. ASSUME Wait \/ UNCHANGED allVars PROVE stream' = stream
  BY <1>6 DEF Wait, TimePasses, BecomeIdle, allVars, vars, busVars
<1> QED
  BY <1>1, <1>2, <1>3, <1>4, <1>5, <1>6 DEF Serve

\* Every step of the composition is a step of the processing.
LEMMA ServesProcessing ==
    ASSUME TypeOK, [Serve]_allVars
    PROVE  [PP!Next]_(PP!vars)
PROOF
<1> DEFINE Same == UNCHANGED procVars
<1>1. ASSUME NEW m \in Messages, Publish(m) PROVE [PP!Next]_(PP!vars)
  <2>1. CASE Published(m)
    <3>1. PICK n : /\ Ids' = Ids \union {n} /\ n \notin Ids
                   /\ \A i \in Ids : stream'[i] = stream[i]
                   /\ stream'[n].msg = m
      BY <1>1, EntryAdded DEF Publish, WebhookPublish
    <3>2. {stream[i].msg : i \in Ids}' = {stream[i].msg : i \in Ids}
      BY <2>1, <3>1 DEF Published
    <3> QED
      BY <1>1, <2>1, <3>2
      DEF Publish, procVars, PP!vars, PP!dbVars, PP!txVars, PP!historyVars
  <2>2. CASE ~Published(m)
    BY <1>1, <2>2, SameBegin DEF Publish, PP!Next
  <2> QED BY <2>1, <2>2
<1>2. ASSUME Same, \A m \in Messages : ~Publish(m) PROVE UNCHANGED PP!vars
  BY <1>2, ReceivedStays
  DEF procVars, PP!vars, PP!dbVars, PP!txVars, PP!historyVars
<1>3. ASSUME NEW m \in Messages, Request(m), \A n \in Messages : ~Publish(n)
      PROVE  UNCHANGED PP!vars
  BY <1>2, <1>3 DEF Request
<1>4. ASSUME NEW w \in Workers, BeginExecution(w) PROVE PP!Next
  BY <1>4, EntryFields, SameBegin DEF BeginExecution, PP!Next
<1>5. ASSUME NEW w \in Workers, Continue(w) \/ Return(w) \/ RaiseConflict(w)
      PROVE  PP!Next
  BY <1>5, SameExecute
  DEF Continue, Return, RaiseConflict, P!Execute, PP!Next
<1>6. ASSUME NEW w \in Workers, BusStep(w), \A n \in Messages : ~Publish(n)
      PROVE  UNCHANGED PP!vars
  BY <1>2, <1>6 DEF BusStep
<1>7. ASSUME NEW w \in Workers, RaiseError(w) PROVE PP!Next
  BY <1>7, SameExecute DEF RaiseError, PP!Next
<1>8. ASSUME NEW w \in Workers, Die(w), \A n \in Messages : ~Publish(n)
      PROVE  [PP!Next]_(PP!vars)
  BY <1>2, <1>8, SameExecute DEF Die, PP!Next
<1>9. ASSUME Wait \/ UNCHANGED allVars, \A n \in Messages : ~Publish(n)
      PROVE  UNCHANGED PP!vars
  BY <1>2, <1>9 DEF Wait, allVars
<1>10. CASE \A n \in Messages : ~Publish(n)
  BY <1>3, <1>4, <1>5, <1>6, <1>7, <1>8, <1>9, <1>10 DEF Serve, Work
<1> QED
  BY <1>1, <1>10

\* The composition is a behaviour of MessageProcessing, whose bus has the
\* messages of the stream.
LEMMA ServesTheProcessing == ServeSpec => PP!Spec
PROOF
<1>1. Start0 => PP!Init
  BY SameInit DEF Start0
<1>2. TypeOK /\ [Serve]_allVars => [PP!Next]_(PP!vars)
  BY ServesProcessing
<1> QED
  BY <1>1, <1>2, ServesTheBus, TypeCorrect, PTL DEF ServeSpec, PP!Spec

\* What MessageProcessing assumes holds of the composition.
LEMMA Assumed ==
    /\ PhoneOf \in [Messages -> Phones] /\ Commands \subseteq Messages
    /\ MaxRuns \in Nat
    /\ PP!IsFiniteSet(Workers)
BY ProcessingAssumption DEF IsFiniteSet, PP!IsFiniteSet

\* So the invariants of the bus and of the processing hold of it.
LEMMA ServedInvariants == ServeSpec => [](SafetyInv /\ PP!ProcessingInv)
PROOF
<1>1. PP!Spec => []PP!ProcessingInv
  BY Assumed, PP!ProcessingInvariant
<1> QED
  BY <1>1, ServesTheBus, ServesTheProcessing, BusInvariant, PTL

-----------------------------------------------------------------------------
(* Who moves.                                                               *)

\* What worker v is at, on the bus and in its execution.
Still(v) ==
    /\ pc'[v] = pc[v] /\ todo'[v] = todo[v]
    /\ step'[v] = step[v] /\ current'[v] = current[v]
    /\ phase'[v] = phase[v] /\ duplicate'[v] = duplicate[v]

Types == TypeOK /\ PP!TypeOK

Acts(w) == Work(w) \/ RaiseError(w) \/ Die(w)

\* A statement of an execution moves its worker alone.
LEMMA ExecutesAlone ==
    ASSUME Types, NEW w \in Workers,
           P!Execute(w) \/ P!Fail(w) \/ \E m \in Messages : P!Begin(w, m),
           NEW v \in Workers \ {w}
    PROVE  /\ step'[v] = step[v] /\ current'[v] = current[v]
           /\ phase'[v] = phase[v] /\ duplicate'[v] = duplicate[v]
PROOF
<1> USE DEF Types, PP!TypeOK, P!Goto, P!txVars, P!EndTransaction
<1>1. CASE P!CheckOptOut(w)
  BY <1>1 DEF P!CheckOptOut
<1>2. CASE P!SelectCustomer(w) \/ P!InsertCustomer(w) \/ P!SelectConversation(w)
           \/ P!SelectDuplicate(w)
  BY <1>2 DEF P!SelectCustomer, P!InsertCustomer, P!SelectConversation,
              P!SelectDuplicate
<1>3. CASE P!CommitIncoming(w) \/ P!ComposeReply(w) \/ P!CommitOutgoing(w)
           \/ P!Send(w)
  BY <1>3 DEF P!CommitIncoming, P!ComposeReply, P!CommitOutgoing, P!Send
<1>4. CASE P!Conflict(w) \/ P!Fail(w)
  BY <1>4 DEF P!Conflict, P!Fail, P!Abort, P!RollBack
<1>5. CASE \E m \in Messages : P!Begin(w, m)
  BY <1>5 DEF P!Begin
<1> QED
  BY <1>1, <1>2, <1>3, <1>4, <1>5 DEF P!Execute

\* A statement of an execution is of the message it began with.
LEMMA ExecutesOne ==
    ASSUME NEW w \in Workers, P!Execute(w) \/ P!Fail(w)
    PROVE  current' = current /\ step[w] # "idle"
PROOF
<1>1. CASE P!CheckOptOut(w) \/ P!SelectCustomer(w) \/ P!InsertCustomer(w)
           \/ P!SelectConversation(w) \/ P!SelectDuplicate(w)
  BY <1>1 DEF P!CheckOptOut, P!SelectCustomer, P!InsertCustomer,
              P!SelectConversation, P!SelectDuplicate
<1>2. CASE P!CommitIncoming(w) \/ P!ComposeReply(w) \/ P!CommitOutgoing(w)
           \/ P!Send(w)
  BY <1>2 DEF P!CommitIncoming, P!ComposeReply, P!CommitOutgoing, P!Send,
              P!MaySend
<1>3. CASE P!Conflict(w) \/ P!Fail(w)
  BY <1>3 DEF P!Conflict, P!Fail, P!Abort
<1> QED
  BY <1>1, <1>2, <1>3 DEF P!Execute

\* A step of a worker leaves the others where they are.
LEMMA OthersAreStill ==
    ASSUME Types, NEW w \in Workers, Acts(w), NEW v \in Workers \ {w}
    PROVE  Still(v)
PROOF
<1>1. pc'[v] = pc[v] /\ todo'[v] = todo[v]
  <2> USE DEF Types, TypeOK, vars, workerVars
  <2>1. CASE BeginExecution(w) \/ Continue(w)
    BY <2>1 DEF BeginExecution, Continue
  <2>2. CASE ExecuteOk(w) \/ ExecuteFail(w) \/ Start(w) \/ HandleFailure(w)
    BY <2>2 DEF ExecuteOk, ExecuteFail, Start, HandleFailure
  <2>3. CASE Claim(w) \/ Read(w) \/ Ack(w) \/ Crash(w)
    BY <2>3 DEF Claim, Read, Ack, Crash
  <2> QED
    BY <2>1, <2>2, <2>3
    DEF Acts, Work, Return, RaiseConflict, RaiseError, BusStep, Die
<1>2. /\ step'[v] = step[v] /\ current'[v] = current[v]
      /\ phase'[v] = phase[v] /\ duplicate'[v] = duplicate[v]
  <2>1. CASE UNCHANGED procVars
    BY <2>1 DEF procVars
  <2>2. CASE P!Execute(w) \/ P!Fail(w) \/ \E m \in Messages : P!Begin(w, m)
    BY <2>2, ExecutesAlone
  <2>3. CASE BeginExecution(w)
    BY <2>2, <2>3, EntryFields DEF BeginExecution, Types
  <2> QED
    BY <2>1, <2>2, <2>3
    DEF Acts, Work, Continue, Return, RaiseConflict, RaiseError, BusStep, Die,
        P!Execute
<1> QED
  BY <1>1, <1>2 DEF Still

\* The webhook and the clock move no worker.
LEMMA WorkersAreStill ==
    ASSUME Types, [Serve]_allVars, \A w \in Workers : ~Acts(w)
    PROVE  /\ \A v \in Workers : Still(v)
           /\ UNCHANGED <<step, pc, todo, lastDelivered, completions, dlqVars,
                          runs, failures>>
           /\ UNCHANGED <<optOut, customers, inbound, outbound, sent>>
PROOF
<1>1. ASSUME NEW m \in Messages, Publish(m), UNCHANGED failures
      PROVE  /\ UNCHANGED <<pc, todo, lastDelivered, completions, dlqVars, failures>>
             /\ UNCHANGED <<step, current, phase, duplicate, runs>>
             /\ UNCHANGED <<optOut, customers, inbound, outbound, sent>>
  <2>1. UNCHANGED <<pc, todo, lastDelivered, completions, dlqVars>>
    BY <1>1 DEF Publish, WebhookPublish, workerVars, historyVars
  <2>2. CASE UNCHANGED procVars
    BY <1>1, <2>1, <2>2 DEF procVars
  <2>3. CASE P!Receive(m)
    BY <1>1, <2>1, <2>3 DEF P!Receive, P!txVars, P!dbVars
  <2> QED
    BY <1>1, <2>2, <2>3 DEF Publish
<1>2. ASSUME \/ \E m \in Messages : Request(m) /\ UNCHANGED failures
             \/ Wait /\ UNCHANGED failures
             \/ UNCHANGED allVars
      PROVE  /\ UNCHANGED <<pc, todo, lastDelivered, completions, dlqVars, failures>>
             /\ UNCHANGED <<step, current, phase, duplicate, runs>>
             /\ UNCHANGED <<optOut, customers, inbound, outbound, sent>>
  BY <1>2 DEF Request, WebhookMark, WebhookDuplicate, WebhookFail, DedupeExpire,
              Wait, TimePasses, BecomeIdle, allVars, vars, busVars, dlqVars,
              workerVars, historyVars, procVars
<1> QED
  BY <1>1, <1>2 DEF Serve, Acts, Still

\* What a step of worker w does with its execution: it begins one, goes on
\* with one, raises, or has none afterwards.
LEMMA OwnStep ==
    ASSUME Types, NEW w \in Workers, Acts(w),
           ~BeginExecution(w), ~Continue(w), ~RaiseConflict(w), ~RaiseError(w),
           step[w] # "idle" => pc[w] = "entry"
    PROVE  step'[w] = "idle" /\ pc'[w] # "failed"
PROOF
<1> USE DEF Types, TypeOK, PP!TypeOK
<1>1. CASE Return(w)
  BY <1>1 DEF Return, ExecuteOk
<1>2. CASE BusStep(w)
  <2>1. pc[w] # "entry" /\ step' = step
    BY <1>2 DEF BusStep, Start, Claim, Read, HandleFailure, Ack, procVars
  <2>2. pc'[w] # "failed"
    BY <1>2 DEF BusStep, Start, Claim, Read, HandleFailure, Ack, AfterEntry
  <2> QED
    BY <2>1, <2>2
<1>3. CASE Die(w)
  <2>1. pc'[w] = "down"
    BY <1>3 DEF Die, Crash
  <2>2. CASE step[w] = "idle"
    BY <1>3, <2>1, <2>2 DEF Die, procVars
  <2>3. CASE step[w] # "idle"
    BY <1>3, <2>1, <2>3 DEF Die, P!Fail, P!Abort, P!Goto
  <2> QED BY <2>2, <2>3
<1> QED
  BY <1>1, <1>2, <1>3 DEF Acts, Work

\* A step that raises leaves the entry and its message as they are.
LEMMA RaiseStep ==
    ASSUME Types, NEW w \in Workers, RaiseConflict(w) \/ RaiseError(w)
    PROVE  /\ step[w] # "idle" /\ pc[w] = "entry"
           /\ step'[w] = "idle" /\ pc'[w] = "failed"
           /\ UNCHANGED <<current, todo, stream>>
PROOF
<1>1. step[w] # "idle" /\ current' = current
  BY ExecutesOne DEF RaiseConflict, RaiseError, P!Execute
<1>2. step'[w] = "idle"
  BY DEF RaiseConflict, RaiseError, P!Conflict, P!Fail, P!Abort, P!Goto, Types,
         PP!TypeOK
<1>3. pc[w] = "entry" /\ pc'[w] = "failed" /\ UNCHANGED <<todo, stream>>
  BY DEF RaiseConflict, RaiseError, ExecuteFail, Types, TypeOK, busVars
<1> QED
  BY <1>1, <1>2, <1>3

-----------------------------------------------------------------------------
(* A worker executes the message of its entry.                              *)

Executes(w) == \E i \in Ids : IsCurrent(w, i) /\ stream[i].msg = current[w]

ExecutionHasEntry(w) == step[w] # "idle" =>
    /\ pc[w] = "entry"
    /\ Executes(w)
    /\ step[w] # "optout" => current[w] \notin Commands

\* While a worker executes, the bus stands at the entry whose message it
\* executes; the opt-out handler has let no command pass.
ExecutionsHaveEntries == \A w \in Workers : ExecutionHasEntry(w)

\* An execution keeps its entry as long as its worker does not move.
LEMMA EntryStays ==
    ASSUME TypeOK, [Next]_vars, NEW w \in Workers, Executes(w),
           todo'[w] = todo[w], current'[w] = current[w]
    PROVE  Executes(w)'
PROOF
<1>1. Ids \subseteq Ids' /\ \A i \in Ids : stream'[i] = stream[i]
  BY StreamGrows
<1> QED
  BY <1>1 DEF Executes, IsCurrent

\* Every step keeps the executions at the entries whose messages they process.
LEMMA ExecutionsStep ==
    ASSUME Types, ExecutionsHaveEntries, [Serve]_allVars
    PROVE  ExecutionsHaveEntries'
PROOF
<1>1. TypeOK /\ [Next]_vars
  BY ServesBus DEF Types
<1>2. ASSUME NEW v \in Workers, Still(v) PROVE ExecutionHasEntry(v)'
  BY <1>1, <1>2, EntryStays DEF ExecutionsHaveEntries, ExecutionHasEntry, Still
<1>3. ASSUME NEW w \in Workers, Acts(w) PROVE ExecutionHasEntry(w)'
  <2>1. CASE BeginExecution(w)
    <3>1. PICK i \in Ids : IsCurrent(w, i) /\ P!Begin(w, stream[i].msg)
      BY <2>1 DEF BeginExecution
    <3>2. UNCHANGED <<pc, todo, stream>> /\ pc[w] = "entry"
      BY <2>1 DEF BeginExecution, vars, workerVars, busVars
    <3>3. current'[w] = stream[i].msg /\ step'[w] = "optout"
      BY <3>1 DEF P!Begin, P!Goto, Types, PP!TypeOK
    <3>4. Executes(w)'
      BY <3>1, <3>2, <3>3 DEF Executes, IsCurrent, Ids
    <3> QED
      BY <3>2, <3>3, <3>4 DEF ExecutionHasEntry
  <2>2. CASE Continue(w)
    <3>1. current' = current /\ step[w] # "idle"
      BY <2>2, ExecutesOne DEF Continue
    <3>2. UNCHANGED <<pc, todo, stream>>
      BY <2>2 DEF Continue, vars, workerVars, busVars
    <3>3. pc[w] = "entry" /\ Executes(w)
          /\ (step[w] # "optout" => current[w] \notin Commands)
      BY <3>1 DEF ExecutionsHaveEntries, ExecutionHasEntry
    <3>4. Executes(w)'
      BY <1>1, <3>1, <3>2, <3>3, EntryStays
    <3>5. CASE step[w] # "optout"
      BY <3>1, <3>2, <3>3, <3>4, <3>5 DEF ExecutionHasEntry
    <3>6. CASE step[w] = "optout"
      <4>1. P!CheckOptOut(w) /\ step'[w] # "idle"
        BY <2>2, <3>6
        DEF Continue, P!Execute, P!SelectCustomer, P!InsertCustomer,
            P!SelectConversation, P!SelectDuplicate, P!CommitIncoming,
            P!ComposeReply, P!CommitOutgoing, P!Send, P!MaySend, P!Conflict
      <4>2. current[w] \notin Commands
        BY <4>1 DEF P!CheckOptOut, P!Goto, Types, PP!TypeOK
      <4> QED
        BY <3>1, <3>2, <3>3, <3>4, <4>2 DEF ExecutionHasEntry
    <3> QED BY <3>5, <3>6
  <2>3. CASE RaiseConflict(w) \/ RaiseError(w)
    BY <2>3, RaiseStep DEF ExecutionHasEntry
  <2>4. CASE ~BeginExecution(w) /\ ~Continue(w) /\ ~RaiseConflict(w)
             /\ ~RaiseError(w)
    BY <1>3, <2>4, OwnStep DEF ExecutionsHaveEntries, ExecutionHasEntry
  <2> QED
    BY <2>1, <2>2, <2>3, <2>4
<1>4. ASSUME NEW w \in Workers, Acts(w) PROVE ExecutionsHaveEntries'
  BY <1>2, <1>3, <1>4, OthersAreStill DEF ExecutionsHaveEntries
<1>5. CASE \A w \in Workers : ~Acts(w)
  BY <1>2, <1>5, WorkersAreStill DEF ExecutionsHaveEntries
<1> QED
  BY <1>4, <1>5

-----------------------------------------------------------------------------
(* What execute returns from is honoured.                                   *)

CompletedIsHonoured == \A m \in Messages : completions[m] > 0 => Honoured(m)

\* A message that is honoured stays so.
LEMMA HonouredStays ==
    ASSUME Types, [Serve]_allVars, NEW m \in Messages, Honoured(m)
    PROVE  Honoured(m)'
PROOF
<1>1. [PP!Next]_(PP!vars)
  BY ServesProcessing DEF Types
<1>2. /\ optOut \subseteq optOut'
      /\ sent[m] <= sent'[m] /\ outbound[m] <= outbound'[m]
      /\ inbound[m] <= inbound'[m]
  BY <1>1, Assumed, PP!NothingIsUndone DEF Types
<1>3. PP!TypeOK'
  BY <1>1, Assumed, PP!TypePreserved DEF Types
<1>4. /\ sent[m] \in Nat /\ outbound[m] \in Nat /\ inbound[m] \in Nat
      /\ sent'[m] \in Nat /\ outbound'[m] \in Nat /\ inbound'[m] \in Nat
  BY <1>3 DEF Types, PP!TypeOK
<1> QED
  BY <1>2, <1>4 DEF Honoured, Answered

\* A message is completed only where its execution has answered it, found the
\* opt-out or stored it: execute returns at no other point.
LEMMA HonouredStep ==
    ASSUME Types, ExecutionsHaveEntries, CompletedIsHonoured, [Serve]_allVars,
           PP!ProcessingInv'
    PROVE  CompletedIsHonoured'
PROOF
<1>1. ASSUME completions' = completions PROVE CompletedIsHonoured'
  BY <1>1, HonouredStays DEF CompletedIsHonoured
<1>2. ASSUME NEW w \in Workers, Return(w) PROVE CompletedIsHonoured'
  <2>1. PICK i \in Ids :
           /\ IsCurrent(w, i)
           /\ completions' = [completions EXCEPT ![stream[i].msg] = @ + 1]
    BY <1>2 DEF Return, ExecuteOk
  <2>2. step[w] # "idle" /\ current' = current
    BY <1>2, ExecutesOne DEF Return, P!Execute
  <2>3. stream[i].msg = current[w]
    BY <2>1, <2>2, CurrentIsUnique
    DEF ExecutionsHaveEntries, ExecutionHasEntry, Executes
  <2>4. current[w] \in Messages
    BY DEF Types, PP!TypeOK
  <2>5. \A m \in Messages : m # current[w] => completions'[m] = completions[m]
    BY <2>1, <2>3 DEF Types, TypeOK
  <2>6. Honoured(current[w])'
    <3>1. CASE P!CheckOptOut(w)
      <4>1. PhoneOf[current[w]] \in optOut'
        BY <1>2, <3>1
        DEF Return, P!CheckOptOut, P!OptOut, P!IsOptedOut, P!Phone, P!Goto,
            Types, PP!TypeOK
      <4> QED
        BY <2>2, <4>1 DEF Honoured
    <3>2. CASE P!Send(w)
      <4>1. sent'[current[w]] > 0 /\ step[w] = "send"
        BY <2>4, <3>2 DEF P!Send, P!MaySend, Types, PP!TypeOK
      <4>2. current[w] \notin Commands
        BY <4>1 DEF ExecutionsHaveEntries, ExecutionHasEntry
      <4>3. /\ sent'[current[w]] <= outbound'[current[w]]
            /\ outbound'[current[w]] > 0 => inbound'[current[w]] > 0
        BY <2>4 DEF PP!ProcessingInv, PP!RecordedInv, PP!RepliesAreRecorded
      <4>4. sent'[current[w]] \in Nat /\ outbound'[current[w]] \in Nat
        BY <2>4 DEF PP!ProcessingInv, PP!TypeOK
      <4> QED
        BY <2>2, <4>1, <4>2, <4>3, <4>4 DEF Honoured, Answered
    <3> QED
      BY <1>2, <3>1, <3>2 DEF Return
  <2>7. ASSUME NEW m \in Messages, completions'[m] > 0 PROVE Honoured(m)'
    <3>1. CASE m = current[w]
      BY <2>2, <2>6, <3>1
    <3>2. CASE m # current[w]
      <4>1. Honoured(m)
        BY <2>5, <2>7, <3>2 DEF CompletedIsHonoured
      <4> QED
        BY <4>1, HonouredStays
    <3> QED BY <3>1, <3>2
  <2> QED
    BY <2>7 DEF CompletedIsHonoured
<1>3. ASSUME NEW w \in Workers, Acts(w), ~Return(w)
      PROVE  completions' = completions
  BY <1>3
  DEF Acts, Work, BeginExecution, Continue, RaiseConflict, RaiseError, BusStep,
      Die, Start, Claim, Read, HandleFailure, Ack, Crash, ExecuteFail, vars,
      historyVars
<1>4. CASE \A w \in Workers : ~Acts(w)
  BY <1>1, <1>4, WorkersAreStill
<1> QED
  BY <1>1, <1>2, <1>3, <1>4

\* The inductive invariant behind NoMessageIsDropped, beside those of the bus
\* and of the processing.
HonestyInv == ExecutionsHaveEntries /\ CompletedIsHonoured

\* The two invariants are kept together.
LEMMA HonestyStep ==
    ASSUME Types, HonestyInv, [Serve]_allVars, PP!ProcessingInv'
    PROVE  HonestyInv'
BY ExecutionsStep, HonouredStep DEF HonestyInv

\* They hold at every moment.
LEMMA Honesty == ServeSpec => []HonestyInv
PROOF
<1>1. Start0 => HonestyInv
  BY DEF Start0, Init, P!Init, HonestyInv, ExecutionsHaveEntries,
         ExecutionHasEntry, CompletedIsHonoured
<1>2. SafetyInv /\ PP!ProcessingInv /\ PP!ProcessingInv' /\ HonestyInv
        /\ [Serve]_allVars => HonestyInv'
  BY HonestyStep DEF SafetyInv, PP!ProcessingInv, Types
<1> QED
  BY <1>1, <1>2, ServedInvariants, PTL DEF ServeSpec

\* End to end: whatever the crashes, claims, conflicts and retries, a published
\* message was honoured, is on the dead-letter stream, will be executed, or was
\* pushed out of a stream by maxlen newer entries.
THEOREM NothingIsDropped == ServeSpec => []NoMessageIsDropped
PROOF
<1>1. SafetyInv /\ HonestyInv => NoMessageIsDropped
  <2> SUFFICES ASSUME SafetyInv, HonestyInv, NEW m \in Messages, Published(m)
               PROVE  \/ Honoured(m)
                      \/ Dead(m)
                      \/ \E i \in Ids : stream[i].msg = m /\ Owed(i)
                      \/ Evicted(m)
    BY DEF NoMessageIsDropped
  <2>1. \/ Completed(m)
        \/ Dead(m)
        \/ \E i \in Ids : stream[i].msg = m /\ Owed(i)
        \/ Evicted(m)
    BY DEF SafetyInv, NoSilentLoss
  <2>2. Completed(m) => Honoured(m)
    BY DEF HonestyInv, CompletedIsHonoured, Completed
  <2> QED
    BY <2>1, <2>2
<1> QED
  BY <1>1, ServedInvariants, Honesty, PTL

-----------------------------------------------------------------------------
(* Attempts count executions.                                               *)

\* An entry that a step adds is a publication or the next attempt of an entry
\* whose worker handles its failure.
LEMMA EntryArrives ==
    ASSUME TypeOK, [Next]_vars, NEW n \in Ids', n \notin Ids
    PROVE  \/ \E m \in Messages :
                WebhookPublish(m) /\ stream'[n] = [msg |-> m, attempt |-> 0]
           \/ \E w \in Workers, k \in Ids :
                /\ HandleFailure(w) /\ IsCurrent(w, k)
                /\ stream'[n] = [msg |-> stream[k].msg,
                                 attempt |-> stream[k].attempt + 1]
PROOF
<1>1. ASSUME NEW m \in Messages, NEW k \in Nat, XAdd(m, k)
      PROVE  stream'[n] = [msg |-> m, attempt |-> k]
  BY <1>1, XAddExtends
<1>2. ASSUME NEW w \in Workers, HandleFailure(w)
      PROVE  \E k \in Ids :
                /\ IsCurrent(w, k)
                /\ stream'[n] = [msg |-> stream[k].msg,
                                 attempt |-> stream[k].attempt + 1]
  <2>1. PICK k \in Ids :
           /\ IsCurrent(w, k)
           /\ stream' = stream \/ XAdd(stream[k].msg, stream[k].attempt + 1)
    BY <1>2 DEF HandleFailure
  <2>2. stream[k].msg \in Messages /\ stream[k].attempt + 1 \in Nat
    BY EntryFields
  <2>3. stream' # stream
    BY DEF Ids
  <2> QED
    BY <1>1, <2>1, <2>2, <2>3
<1>3. ASSUME NEW m \in Messages, WebStep(m)
      PROVE  WebhookPublish(m) /\ stream'[n] = [msg |-> m, attempt |-> 0]
  <2>1. WebhookPublish(m)
    BY <1>3
    DEF WebStep, WebhookMark, WebhookDuplicate, WebhookFail, DedupeExpire,
        busVars, Ids
  <2> QED
    BY <1>1, <2>1 DEF WebhookPublish
<1>4. ASSUME NEW w \in Workers, WorkerStep(w) \/ Crash(w) PROVE HandleFailure(w)
  BY <1>4 DEF WorkerStep, Start, Claim, Read, ExecuteOk, ExecuteFail, Ack,
              Crash, busVars, Ids
<1>5. ~TimePasses /\ ~UNCHANGED vars
  BY DEF TimePasses, BecomeIdle, vars, busVars, Ids
<1> QED
  BY <1>2, <1>3, <1>4, <1>5 DEF Next

\* A message is put on the dead-letter stream by the failure handler of a
\* worker that holds its entry.
LEMMA DeathComes ==
    ASSUME TypeOK, [Next]_vars, NEW m \in Messages, Buried(m)', ~Buried(m)
    PROVE  \E w \in Workers, k \in Ids :
              /\ HandleFailure(w) /\ IsCurrent(w, k)
              /\ stream[k].msg = m /\ GivesUp(stream[k].attempt)
PROOF
<1>1. dlqVars' # dlqVars
  BY DEF Buried, Letters, dlqVars
<1>2. ASSUME NEW w \in Workers, HandleFailure(w)
      PROVE  \E k \in Ids : /\ IsCurrent(w, k)
                            /\ stream[k].msg = m /\ GivesUp(stream[k].attempt)
  <2>1. PICK k \in Ids :
           /\ IsCurrent(w, k)
           /\ GivesUp(stream[k].attempt)
           /\ XAddDlq(stream[k].msg, stream[k].attempt + 1)
    BY <1>1, <1>2 DEF HandleFailure
  <2>2. stream[k].msg \in Messages /\ stream[k].attempt + 1 \in Nat
    BY EntryFields
  <2>3. PICK q \in Messages, n \in Nat : /\ q = stream[k].msg
                                      /\ XAddDlq(q, n)
    BY <2>1, <2>2
  <2>4. PICK l : l = Len(dlq) + 1
    OBVIOUS
  <2>5. /\ Letters' = Letters \union {l}
        /\ \A j \in Letters : dlq'[j] = dlq[j]
        /\ dlq'[l] = [msg |-> q, attempts |-> n]
    BY <2>3, <2>4, XAddDlqExtends
  <2>6. q = m
    BY <2>5 DEF Buried
  <2> QED
    BY <2>1, <2>3, <2>6
<1>3. ASSUME NEW n \in Messages, WebStep(n) PROVE FALSE
  BY <1>1, <1>3
  DEF WebStep, WebhookMark, WebhookDuplicate, WebhookPublish, WebhookFail,
      DedupeExpire, busVars, dlqVars
<1>4. ASSUME NEW w \in Workers, WorkerStep(w) \/ Crash(w) PROVE HandleFailure(w)
  BY <1>1, <1>4 DEF WorkerStep, Start, Claim, Read, ExecuteOk, ExecuteFail, Ack,
                    Crash, busVars, dlqVars
<1>5. ~TimePasses /\ ~UNCHANGED vars
  BY <1>1 DEF TimePasses, BecomeIdle, vars, busVars, dlqVars
<1> QED
  BY <1>2, <1>3, <1>4, <1>5 DEF Next

\* Worker w has begun to execute entry i, and has not yet acknowledged it,
\* added its next attempt or put it on the dead-letter stream.
BegunBy(w, i) == IsCurrent(w, i) /\ (step[w] # "idle" \/ pc[w] = "failed")

Begun(i) == \E w \in Workers : BegunBy(w, i)

\* An entry is begun by BeginExecution alone.
LEMMA BegunStep ==
    ASSUME Types, ExecutionsHaveEntries, [Serve]_allVars,
           NEW i \in Ids, NEW w \in Workers, BegunBy(w, i)', ~BegunBy(w, i)
    PROVE  BeginExecution(w) /\ IsCurrent(w, i)
PROOF
<1>1. ~Still(w)
  BY DEF Still, BegunBy, IsCurrent
<1>2. Acts(w)
  BY <1>1, WorkersAreStill, OthersAreStill
<1>3. CASE BeginExecution(w)
  BY <1>3 DEF BeginExecution, BegunBy, IsCurrent, vars, workerVars
<1>4. CASE Continue(w)
  <2>1. step[w] # "idle" /\ todo' = todo
    BY <1>4, ExecutesOne DEF Continue, vars, workerVars
  <2> QED
    BY <2>1 DEF BegunBy, IsCurrent
<1>5. CASE RaiseConflict(w) \/ RaiseError(w)
  <2>1. step[w] # "idle" /\ todo' = todo
    BY <1>5, RaiseStep
  <2> QED
    BY <2>1 DEF BegunBy, IsCurrent
<1> QED
  BY <1>2, <1>3, <1>4, <1>5, OwnStep
  DEF BegunBy, ExecutionsHaveEntries, ExecutionHasEntry

\* An attempt of a message follows the executions of the attempts before it,
\* and a message is dead when all its attempts were executed.
AttemptsWereRun ==
    /\ \A i \in Ids :
        /\ stream[i].attempt <= runs[stream[i].msg]
        /\ Begun(i) => stream[i].attempt < runs[stream[i].msg]
    /\ \A m \in Messages : Buried(m) => runs[m] > MaxRetries

\* Executions are begun, and no execution is ever forgotten.
LEMMA RunsGrow ==
    ASSUME Types, [Serve]_allVars, NEW m \in Messages
    PROVE  runs[m] \in Nat /\ runs'[m] \in Nat /\ runs[m] <= runs'[m]
PROOF
<1>1. [PP!Next]_(PP!vars)
  BY ServesProcessing DEF Types
<1>2. PP!TypeOK'
  BY <1>1, Assumed, PP!TypePreserved DEF Types
<1>3. runs[m] \in Nat /\ runs'[m] \in Nat
  BY <1>2, Assumed DEF Types, PP!TypeOK
<1> QED
  BY <1>1, <1>3, Assumed, PP!NothingIsUndone DEF Types

\* The execution that begins is counted for the message of the entry.
LEMMA BeginCounts ==
    ASSUME Types, NEW w \in Workers, BeginExecution(w),
           NEW i \in Ids, IsCurrent(w, i)
    PROVE  runs' = [runs EXCEPT ![stream[i].msg] = @ + 1]
PROOF
<1>1. PICK k \in Ids : IsCurrent(w, k) /\ P!Begin(w, stream[k].msg)
  BY DEF BeginExecution
<1>2. k = i
  BY <1>1, CurrentIsUnique
<1> QED
  BY <1>1, <1>2 DEF P!Begin

\* A requeued entry has the next attempt number, and its failed predecessor had
\* begun: every attempt was executed.
LEMMA AttemptsRunStep ==
    ASSUME Types, ExecutionsHaveEntries, AttemptsWereRun, [Serve]_allVars
    PROVE  AttemptsWereRun'
PROOF
<1>1. TypeOK /\ [Next]_vars /\ TypeOK'
  BY ServesBus, TypePreserved DEF Types
<1>2. Ids \subseteq Ids' /\ \A i \in Ids : stream'[i] = stream[i]
  BY <1>1, StreamGrows
<1>3. \A i \in Ids : stream[i].msg \in Messages /\ stream[i].attempt \in Nat
  BY <1>1, EntryFields
<1>4. ASSUME NEW i \in Ids
      PROVE  /\ stream'[i].attempt <= runs'[stream'[i].msg]
             /\ Begun(i)' => stream'[i].attempt < runs'[stream'[i].msg]
  <2> DEFINE m == stream[i].msg
             a == stream[i].attempt
  <2>1. /\ m \in Messages /\ a \in Nat /\ a <= runs[m]
        /\ runs[m] \in Nat /\ runs'[m] \in Nat /\ runs[m] <= runs'[m]
    BY <1>3, RunsGrow DEF AttemptsWereRun
  <2>2. ASSUME Begun(i)' PROVE a < runs'[m]
    <3>1. PICK w \in Workers : BegunBy(w, i)'
      BY <2>2 DEF Begun
    <3>2. CASE BegunBy(w, i)
      <4>1. a < runs[m]
        BY <3>2 DEF AttemptsWereRun, Begun
      <4> QED
        BY <2>1, <4>1
    <3>3. CASE ~BegunBy(w, i)
      <4>1. runs' = [runs EXCEPT ![m] = @ + 1]
        BY <3>1, <3>3, BegunStep, BeginCounts
      <4>2. runs'[m] = runs[m] + 1
        BY <2>1, <4>1 DEF Types, PP!TypeOK
      <4> HIDE DEF m, a
      <4> QED
        BY <2>1, <4>2
    <3> QED BY <3>2, <3>3
  <2>3. a <= runs'[m]
    <3> HIDE DEF m, a
    <3> QED BY <2>1
  <2> QED
    BY <1>2, <2>2, <2>3
<1>5. ASSUME NEW n \in Ids', n \notin Ids
      PROVE  stream'[n].attempt <= runs'[stream'[n].msg] /\ ~Begun(n)'
  <2>1. CASE \E m \in Messages :
                WebhookPublish(m) /\ stream'[n] = [msg |-> m, attempt |-> 0]
    <3>1. PICK m \in Messages :
             WebhookPublish(m) /\ stream'[n] = [msg |-> m, attempt |-> 0]
      BY <2>1
    <3>2. todo' = todo
      BY <3>1 DEF WebhookPublish, workerVars
    <3>3. runs'[m] \in Nat
      BY RunsGrow
    <3> QED
      BY <1>1, <1>5, <3>1, <3>2, <3>3, SMTT(30)
      DEF Begun, BegunBy, IsCurrent, TypeOK
  <2>2. CASE \E w \in Workers, k \in Ids :
                /\ HandleFailure(w) /\ IsCurrent(w, k)
                /\ stream'[n] = [msg |-> stream[k].msg,
                                 attempt |-> stream[k].attempt + 1]
    <3>1. PICK w \in Workers, k \in Ids :
             /\ HandleFailure(w) /\ IsCurrent(w, k)
             /\ stream'[n] = [msg |-> stream[k].msg,
                              attempt |-> stream[k].attempt + 1]
      BY <2>2
    <3>2. todo' = todo /\ pc[w] = "failed"
      BY <3>1 DEF HandleFailure
    <3>3. stream[k].attempt < runs[stream[k].msg]
      BY <3>1, <3>2 DEF AttemptsWereRun, Begun, BegunBy
    <3>4. /\ stream'[n].msg = stream[k].msg
          /\ stream'[n].attempt = stream[k].attempt + 1
      BY <3>1
    <3>5. stream'[n].attempt <= runs'[stream'[n].msg]
      BY <1>3, <3>3, <3>4, RunsGrow
    <3> QED
      BY <1>1, <1>5, <3>2, <3>5 DEF Begun, BegunBy, IsCurrent, TypeOK
  <2> QED
    BY <1>1, <1>5, <2>1, <2>2, EntryArrives
<1>6. ASSUME NEW m \in Messages, Buried(m)' PROVE runs'[m] > MaxRetries
  <2>1. CASE Buried(m)
    BY <2>1, RunsGrow, MaxRetriesAssumption DEF AttemptsWereRun
  <2>2. CASE ~Buried(m)
    <3>1. PICK w \in Workers, k \in Ids :
             /\ HandleFailure(w) /\ IsCurrent(w, k)
             /\ stream[k].msg = m /\ GivesUp(stream[k].attempt)
      BY <1>1, <1>6, <2>2, DeathComes
    <3>2. stream[k].attempt < runs[m] /\ stream[k].attempt + 1 > MaxRetries
      BY <3>1 DEF AttemptsWereRun, Begun, BegunBy, HandleFailure, GivesUp
    <3> QED
      BY <1>3, <3>2, RunsGrow, MaxRetriesAssumption
  <2> QED BY <2>1, <2>2
<1> QED
  BY <1>4, <1>5, <1>6 DEF AttemptsWereRun

\* A message that is regular after a step was so before it.
LEMMA RegularWas ==
    ASSUME TypeOK, [Next]_vars, NEW m \in Messages, Regular(m)'
    PROVE  Regular(m) /\ claimed \subseteq claimed'
PROOF
<1>1. Ids \subseteq Ids' /\ \A i \in Ids : stream'[i] = stream[i]
  BY StreamGrows
<1>2. claimed \subseteq claimed'
  <2>1. ASSUME NEW w \in Workers, Claim(w) PROVE claimed \subseteq claimed'
    BY <2>1 DEF Claim
  <2>2. ASSUME NEW w \in Workers, WorkerStep(w) \/ Crash(w), ~Claim(w)
        PROVE  claimed' = claimed
    BY <2>2 DEF WorkerStep, Start, Read, ExecuteOk, ExecuteFail, HandleFailure,
                Ack, Crash, historyVars
  <2>3. ASSUME NEW n \in Messages, WebStep(n) PROVE claimed' = claimed
    BY <2>3 DEF WebStep, WebhookMark, WebhookDuplicate, WebhookPublish,
                WebhookFail, DedupeExpire, historyVars
  <2>4. ASSUME TimePasses \/ UNCHANGED vars PROVE claimed' = claimed
    BY <2>4 DEF TimePasses, BecomeIdle, vars, historyVars
  <2> QED
    BY <2>1, <2>2, <2>3, <2>4 DEF Next
<1>3. expiries'[m] = 0 => expiries[m] = 0
  <2>1. ASSUME NEW n \in Messages, DedupeExpire(n)
        PROVE  expiries'[m] = 0 => expiries[m] = 0
    BY <2>1 DEF DedupeExpire, TypeOK
  <2>2. ASSUME NEW n \in Messages, WebStep(n), ~DedupeExpire(n)
        PROVE  expiries' = expiries
    BY <2>2 DEF WebStep, WebhookMark, WebhookDuplicate, WebhookPublish,
                WebhookFail, historyVars
  <2>3. ASSUME NEW w \in Workers, WorkerStep(w) \/ Crash(w)
        PROVE  expiries' = expiries
    BY <2>3 DEF WorkerStep, Start, Claim, Read, ExecuteOk, ExecuteFail,
                HandleFailure, Ack, Crash, historyVars
  <2>4. ASSUME TimePasses \/ UNCHANGED vars PROVE expiries' = expiries
    BY <2>4 DEF TimePasses, BecomeIdle, vars, historyVars
  <2> QED
    BY <2>1, <2>2, <2>3, <2>4 DEF Next
<1>4. claimed \subseteq Ids
  BY DEF TypeOK
<1> QED
  BY <1>1, <1>2, <1>3, <1>4 DEF Regular

\* One worker at most holds an entry of a regular message.
LEMMA OneHolder ==
    ASSUME SharingInv, NEW i \in Ids, Regular(stream[i].msg),
           NEW v \in Workers, NEW w \in Workers, i \in todo[v], i \in todo[w]
    PROVE  v = w
PROOF
<1>1. i \notin claimed
  BY DEF Regular
<1> QED
  BY <1>1 DEF SharingInv, SharedOnlyByClaim

\* An execution that has begun is over only when its entry is done with.
LEMMA BegunStays ==
    ASSUME Types, SharingInv, ExecutionsHaveEntries, [Serve]_allVars,
           NEW i \in Ids, Begun(i), Regular(stream[i].msg)', Awaits(i)',
           stream'[i] = stream[i]
    PROVE  Begun(i)'
PROOF
<1>1. PICK w \in Workers : BegunBy(w, i)
  BY DEF Begun
<1>2. TypeOK /\ [Next]_vars
  BY ServesBus DEF Types
<1>3. stream[i].msg \in Messages
  BY <1>2, EntryFields
<1>4. Regular(stream[i].msg) /\ i \notin claimed
  <2>1. PICK m \in Messages : m = stream[i].msg
    BY <1>3
  <2>2. Regular(m)'
    BY <2>1 DEF Regular
  <2>3. Regular(stream[i].msg)
    BY <1>2, <2>1, <2>2, RegularWas
  <2> QED
    BY <2>3 DEF Regular
<1>5. CASE Still(w)
  BY <1>1, <1>5 DEF Still, Begun, BegunBy, IsCurrent
<1>6. CASE Acts(w)
  <2>1. step[w] # "idle" => pc[w] = "entry"
    BY DEF ExecutionsHaveEntries, ExecutionHasEntry
  <2>2. IsCurrent(w, i) /\ pc[w] \in {"entry", "failed"}
    BY <1>1, <2>1 DEF BegunBy
  <2>3. CASE BeginExecution(w)
    BY <1>1, <2>3 DEF BeginExecution, BegunBy
  <2>4. CASE Continue(w)
    <3>1. todo' = todo /\ step'[w] # "idle"
      BY <2>4 DEF Continue, vars, workerVars
    <3> QED
      BY <2>2, <3>1 DEF Begun, BegunBy, IsCurrent
  <2>5. CASE RaiseConflict(w) \/ RaiseError(w)
    <3>1. todo' = todo /\ pc'[w] = "failed"
      BY <2>5, RaiseStep
    <3> QED
      BY <2>2, <3>1 DEF Begun, BegunBy, IsCurrent
  <2>6. CASE ExecuteOk(w) \/ HandleFailure(w)
    <3>1. todo' = todo /\ lastDelivered' = lastDelivered /\ pc'[w] = "ack"
      BY <1>2, <2>6 DEF ExecuteOk, HandleFailure, busVars, TypeOK
    <3> QED
      BY <1>2, <1>4, <2>2, <3>1, DoneIsDone
  <2>7. CASE Crash(w)
    <3>1. todo' = [todo EXCEPT ![w] = {}] /\ lastDelivered' = lastDelivered
      BY <2>7 DEF Crash, busVars
    <3>2. ~(i > lastDelivered)
      BY <1>2, <2>2 DEF IsCurrent, SharingInv, BatchesWereDelivered, TypeOK
    <3>3. PICK v \in Workers : i \in todo'[v]
      BY <3>1, <3>2 DEF Awaits
    <3>4. v # w /\ i \in todo[v]
      BY <1>2, <3>1, <3>3 DEF TypeOK
    <3> QED
      BY <1>4, <2>2, <3>4, OneHolder DEF IsCurrent
  <2>8. CASE Start(w) \/ Claim(w) \/ Read(w) \/ Ack(w)
    BY <2>2, <2>8 DEF Start, Claim, Read, Ack
  <2> QED
    BY <1>6, <2>3, <2>4, <2>5, <2>6, <2>7, <2>8
    DEF Acts, Work, Return, BusStep, Die
<1> QED
  BY <1>5, <1>6, WorkersAreStill, OthersAreStill

\* How often a regular message was executed: as often as the attempt number of
\* the entry that waits says, and once more if that is being executed.
RunsOf(m) ==
    /\ runs[m] <= MaxRetries + 1
    /\ ~Published(m) => runs[m] = 0
    /\ \A i \in Ids : stream[i].msg = m /\ Awaits(i) =>
        /\ runs[m] <= stream[i].attempt + 1
        /\ ~Begun(i) => runs[m] <= stream[i].attempt

RunsAreAttempts == \A m \in Messages : Regular(m) => RunsOf(m)

\* The entry that a worker begins to execute is the one of its message that
\* waits, and was not begun.
LEMMA BeginsFresh ==
    ASSUME Types, SharingInv, ExecutionsHaveEntries, NEW w \in Workers,
           BeginExecution(w), NEW i \in Ids, IsCurrent(w, i),
           Regular(stream[i].msg)
    PROVE  Awaits(i) /\ ~Begun(i)
PROOF
<1>1. pc[w] = "entry" /\ step[w] = "idle"
  BY DEF BeginExecution
<1>2. Awaits(i)
  BY <1>1 DEF Awaits, IsCurrent
<1>3. ASSUME NEW v \in Workers, BegunBy(v, i) PROVE FALSE
  <2>1. v = w
    BY <1>3, OneHolder DEF BegunBy, IsCurrent
  <2> QED
    BY <1>1, <1>3, <2>1 DEF BegunBy
<1> QED
  BY <1>2, <1>3 DEF Begun

\* Only the beginning of an execution counts one.
LEMMA OnlyBeginCounts ==
    ASSUME Types, [Serve]_allVars, \A w \in Workers : ~BeginExecution(w)
    PROVE  runs' = runs
PROOF
<1>1. ASSUME NEW w \in Workers, P!Execute(w) \/ P!Fail(w) PROVE runs' = runs
  BY <1>1
  DEF P!Execute, P!Fail, P!CheckOptOut, P!SelectCustomer, P!InsertCustomer,
      P!SelectConversation, P!SelectDuplicate, P!CommitIncoming,
      P!ComposeReply, P!CommitOutgoing, P!Send, P!Conflict, P!Abort,
      P!historyVars
<1>2. ASSUME NEW w \in Workers, Acts(w) PROVE runs' = runs
  BY <1>1, <1>2
  DEF Acts, Work, Continue, Return, RaiseConflict, RaiseError, BusStep, Die,
      P!Execute, procVars
<1> QED
  BY <1>2, WorkersAreStill

\* A message delivered once has no more executions than attempts: the entry that
\* begins one was not begun before, and is the only one of its message that waits.
LEMMA RunsStep ==
    ASSUME Types, SharingInv, OneChanceInv, RetryChain, ExecutionsHaveEntries,
           RunsAreAttempts, [Serve]_allVars
    PROVE  RunsAreAttempts'
PROOF
<1> SUFFICES ASSUME NEW m \in Messages, Regular(m)'
             PROVE  RunsOf(m)'
  BY DEF RunsAreAttempts
<1>1. TypeOK /\ [Next]_vars
  BY ServesBus DEF Types
<1>2. Ids \subseteq Ids' /\ \A i \in Ids : stream'[i] = stream[i]
  BY <1>1, StreamGrows
<1>3. \A i \in Ids : stream[i].msg \in Messages /\ stream[i].attempt \in Nat
  BY <1>1, EntryFields
<1>4. Regular(m) /\ claimed \subseteq claimed'
  BY <1>1, RegularWas
<1>5. RunsOf(m)
  BY <1>4 DEF RunsAreAttempts
<1>6. runs[m] \in Nat /\ runs'[m] \in Nat
  BY RunsGrow
<1>7. ASSUME NEW i \in Ids, stream[i].msg = m, Awaits(i)' PROVE Awaits(i)
  BY <1>1, <1>2, <1>4, <1>7, AwaitsStep DEF Regular
<1>8. ASSUME NEW i \in Ids, stream[i].msg = m, Awaits(i)', Begun(i)
      PROVE  Begun(i)'
  BY <1>2, <1>8, BegunStays DEF Regular
<1>9. CASE \E w \in Workers : BeginExecution(w)
  <2>1. PICK w \in Workers : BeginExecution(w)
    BY <1>9
  <2>2. PICK i \in Ids : IsCurrent(w, i) /\ step'[w] # "idle"
    BY <2>1 DEF BeginExecution, P!Begin, P!Goto, Types, PP!TypeOK
  <2>3. stream' = stream /\ todo' = todo /\ Ids' = Ids
    BY <2>1 DEF BeginExecution, vars, busVars, workerVars, Ids
  <2>4. runs' = [runs EXCEPT ![stream[i].msg] = @ + 1]
    BY <2>1, <2>2, BeginCounts
  <2>5. CASE stream[i].msg = m
    <3>1. Awaits(i) /\ ~Begun(i)
      BY <1>4, <2>1, <2>2, <2>5, BeginsFresh
    <3>2. runs[m] <= stream[i].attempt /\ stream[i].attempt <= MaxRetries
      BY <1>5, <2>5, <3>1 DEF RunsOf, RetryChain
    <3>3. runs'[m] = runs[m] + 1
      BY <2>4, <2>5 DEF Types, PP!TypeOK
    <3>4. Begun(i)'
      BY <2>2, <2>3 DEF Begun, BegunBy, IsCurrent
    <3>5. \A j \in Ids : stream[j].msg = m /\ Awaits(j)' => j = i
      BY <1>4, <1>7, <2>5, <3>1 DEF OneChanceInv
    <3>6. Published(m)'
      BY <2>3, <2>5 DEF Published
    <3>7. runs'[m] <= MaxRetries + 1 /\ runs'[m] <= stream'[i].attempt + 1
      BY <1>3, <1>6, <2>3, <3>2, <3>3, MaxRetriesAssumption
    <3> QED
      BY <2>3, <3>4, <3>5, <3>6, <3>7 DEF RunsOf
  <2>6. CASE stream[i].msg # m
    <3>1. runs'[m] = runs[m]
      BY <1>3, <2>4, <2>6 DEF Types, PP!TypeOK
    <3>2. Published(m)' <=> Published(m)
      BY <2>3 DEF Published
    <3> QED
      BY <1>5, <1>7, <1>8, <2>3, <3>1, <3>2 DEF RunsOf
  <2> QED BY <2>5, <2>6
<1>10. CASE \A w \in Workers : ~BeginExecution(w)
  <2>1. runs' = runs
    BY <1>10, OnlyBeginCounts
  <2>2. Published(m) => Published(m)'
    BY <1>2 DEF Published
  <2>3. ASSUME NEW i \in Ids, stream'[i].msg = m, Awaits(i)'
        PROVE  /\ runs'[m] <= stream'[i].attempt + 1
               /\ ~Begun(i)' => runs'[m] <= stream'[i].attempt
    BY <1>2, <1>5, <1>7, <1>8, <2>1, <2>3 DEF RunsOf
  <2>4. ASSUME NEW n \in Ids', n \notin Ids, stream'[n].msg = m
        PROVE  runs'[m] <= stream'[n].attempt /\ stream'[n].attempt \in Nat
    <3>1. CASE \E q \in Messages :
                  WebhookPublish(q) /\ stream'[n] = [msg |-> q, attempt |-> 0]
      <4>1. m \in publishing /\ stream'[n].attempt = 0
        BY <2>4, <3>1 DEF WebhookPublish
      <4>2. runs[m] = 0
        BY <1>4, <1>5, <4>1 DEF OneChanceInv, RunsOf
      <4> QED
        BY <2>1, <4>1, <4>2
    <3>2. CASE \E w \in Workers, k \in Ids :
                  /\ HandleFailure(w) /\ IsCurrent(w, k)
                  /\ stream'[n] = [msg |-> stream[k].msg,
                                   attempt |-> stream[k].attempt + 1]
      <4>1. PICK w \in Workers, k \in Ids :
               /\ HandleFailure(w) /\ IsCurrent(w, k)
               /\ stream'[n] = [msg |-> stream[k].msg,
                                attempt |-> stream[k].attempt + 1]
        BY <3>2
      <4>2. stream[k].msg = m /\ stream'[n].attempt = stream[k].attempt + 1
        BY <2>4, <4>1
      <4>3. Awaits(k)
        BY <4>1 DEF HandleFailure, Awaits, IsCurrent
      <4>4. runs[m] <= stream[k].attempt + 1
        BY <1>5, <4>2, <4>3 DEF RunsOf
      <4> QED
        BY <1>3, <2>1, <4>2, <4>4
    <3> QED
      BY <1>1, <2>4, <3>1, <3>2, EntryArrives
  <2>5. ASSUME NEW i \in Ids', stream'[i].msg = m, Awaits(i)'
        PROVE  /\ runs'[m] <= stream'[i].attempt + 1
               /\ ~Begun(i)' => runs'[m] <= stream'[i].attempt
    <3>1. CASE i \in Ids
      BY <2>3, <2>5, <3>1
    <3>2. CASE i \notin Ids
      BY <1>6, <2>4, <2>5, <3>2
    <3> QED BY <3>1, <3>2
  <2> QED
    BY <1>5, <2>1, <2>2, <2>5 DEF RunsOf
<1> QED
  BY <1>9, <1>10

RunsInv == AttemptsWereRun /\ RunsAreAttempts

\* Executions and attempts correspond at every moment.
LEMMA RunsHold == ServeSpec => []RunsInv
PROOF
<1>1. Start0 /\ PP!ProcessingInv => RunsInv
  <2> SUFFICES ASSUME Start0, PP!ProcessingInv PROVE RunsInv
    OBVIOUS
  <2>1. Ids = {} /\ Letters = {} /\ \A m \in Messages : runs[m] = 0
    BY DEF Start0, Init, P!Init, Ids, Letters
  <2> QED
    BY <2>1, MaxRetriesAssumption
    DEF RunsInv, AttemptsWereRun, RunsAreAttempts, RunsOf, Buried, Published
<1>2. SafetyInv /\ PP!ProcessingInv /\ HonestyInv /\ RunsInv
        /\ [Serve]_allVars => RunsInv'
  BY AttemptsRunStep, RunsStep
  DEF SafetyInv, PP!ProcessingInv, Types, SharingInv, HonestyInv, RunsInv
<1> QED
  BY <1>1, <1>2, ServedInvariants, Honesty, PTL DEF ServeSpec

\* An entry's attempt number never exceeds the executions of its message, a
\* dead-lettered message had all of them, and one that was not claimed and
\* whose key has not expired had no more, crashes included.
THEOREM AttemptsAreCounted == ServeSpec => []AttemptsAreExecutions
PROOF
<1>1. SafetyInv /\ PP!ProcessingInv /\ RunsInv => AttemptsAreExecutions
  <2> SUFFICES ASSUME SafetyInv, PP!ProcessingInv, RunsInv
               PROVE  AttemptsAreExecutions
    OBVIOUS
  <2>1. ASSUME NEW m \in Messages, runs[m] > MaxRetries + 1
        PROVE  DeliveredAgain(m)
    <3>1. runs[m] \in Nat
      BY Assumed DEF PP!ProcessingInv, PP!TypeOK
    <3>2. ~Regular(m)
      BY <2>1, <3>1, MaxRetriesAssumption DEF RunsInv, RunsAreAttempts, RunsOf
    <3>3. expiries[m] \in Nat
      BY BoundAssumption DEF SafetyInv, TypeOK
    <3> QED
      BY <3>2, <3>3 DEF Regular, DeliveredAgain
  <2> QED
    BY <2>1 DEF AttemptsAreExecutions, RunsInv, AttemptsWereRun
<1> QED
  BY <1>1, ServedInvariants, RunsHold, PTL

-----------------------------------------------------------------------------
(* Races alone kill no message.                                             *)

\* Delivered once, and no execution of it failed but through a duplicate key.
Steady(m) == Regular(m) /\ m \notin failures

\* The execution of entry i of m by w: only a first attempt inserts the
\* customer or fails, it fails because another message's execution committed
\* the customer, and nobody else records m.
RaceBy(w, i, m) ==
    /\ pc[w] = "failed" \/ step[w] = "insert" => stream[i].attempt = 0
    /\ pc[w] = "failed" => customers[PhoneOf[m]] > 0
    /\ step[w] = "commit" /\ phase[w] = "incoming" /\ ~duplicate[w] =>
        inbound[m] = 0

\* A second attempt finds the customer, which is what makes it the last.
RaceOf(m) ==
    /\ ~Buried(m)
    /\ \A i \in Ids : stream[i].msg = m =>
        /\ stream[i].attempt <= 1
        /\ stream[i].attempt = 1 => customers[PhoneOf[m]] > 0
        /\ \A w \in Workers : IsCurrent(w, i) => RaceBy(w, i, m)

RacesAreWon == \A m \in Messages : Steady(m) => RaceOf(m)

\* Customers stay.
LEMMA CustomersStay ==
    ASSUME Types, [Serve]_allVars, NEW m \in Messages
    PROVE  /\ customers[PhoneOf[m]] \in Nat
           /\ customers[PhoneOf[m]] > 0 => customers'[PhoneOf[m]] > 0
PROOF
<1>1. [PP!Next]_(PP!vars)
  BY ServesProcessing DEF Types
<1>2. PP!TypeOK'
  BY <1>1, Assumed, PP!TypePreserved DEF Types
<1>3. /\ PhoneOf[m] \in Phones
      /\ customers[PhoneOf[m]] \in Nat /\ customers'[PhoneOf[m]] \in Nat
  BY <1>2, Assumed DEF Types, PP!TypeOK
<1>4. \A p \in Phones : customers[p] <= customers'[p]
  BY <1>1, Assumed, PP!NothingIsUndone DEF Types
<1> QED
  BY <1>3, <1>4

\* A row of a regular message is committed by the worker that executes it.
LEMMA OnlyItsWorkerRecords ==
    ASSUME Types, SharingInv, OneChanceInv, ExecutionsHaveEntries,
           [Serve]_allVars, NEW m \in Messages, Regular(m), inbound'[m] # inbound[m],
           NEW w \in Workers, NEW i \in Ids, IsCurrent(w, i), stream[i].msg = m,
           pc[w] # "ack"
    PROVE  Continue(w)
PROOF
<1>1. PICK v \in Workers : Acts(v)
  BY WorkersAreStill
<1>2. ~UNCHANGED procVars
  BY DEF procVars
<1>3. ASSUME NEW n \in Messages, P!Begin(v, n) PROVE FALSE
  BY <1>3 DEF P!Begin, P!dbVars
<1>4. ~P!Fail(v) /\ ~P!Conflict(v) /\ ~P!CheckOptOut(v) /\ ~P!Send(v)
  BY DEF P!Fail, P!Conflict, P!Abort, P!CheckOptOut, P!Send, P!dbVars
<1>5. Continue(v)
  BY <1>1, <1>2, <1>3, <1>4, EntryFields
  DEF Acts, Work, BeginExecution, Return, RaiseConflict, RaiseError, BusStep,
      Die, Types
<1>6. P!CommitIncoming(v)
  BY <1>4, <1>5
  DEF Continue, P!Execute, P!SelectCustomer, P!InsertCustomer,
      P!SelectConversation, P!SelectDuplicate, P!ComposeReply,
      P!CommitOutgoing, P!dbVars
<1>7. current[v] = m
  BY <1>6 DEF P!CommitIncoming, Types, PP!TypeOK
<1>8. PICK j \in Ids : IsCurrent(v, j) /\ stream[j].msg = m /\ pc[v] = "entry"
  BY <1>6, <1>7
  DEF P!CommitIncoming, ExecutionsHaveEntries, ExecutionHasEntry, Executes
<1>9. Awaits(i) /\ Awaits(j)
  BY <1>8 DEF Awaits, IsCurrent
<1>10. i = j
  BY <1>8, <1>9 DEF OneChanceInv
<1>11. v = w
  BY <1>8, <1>10, OneHolder DEF IsCurrent
<1> QED
  BY <1>5, <1>11

\* The entry a worker is at keeps its race.
LEMMA RaceByStep ==
    ASSUME Types, SharingInv, OneChanceInv, ExecutionsHaveEntries,
           [Serve]_allVars, NEW m \in Messages, Regular(m), RaceOf(m),
           m \notin failures',
           NEW i \in Ids, stream[i].msg = m, stream'[i] = stream[i],
           NEW w \in Workers, IsCurrent(w, i)'
    PROVE  RaceBy(w, i, m)'
PROOF
<1>1. customers[PhoneOf[m]] \in Nat
      /\ (customers[PhoneOf[m]] > 0 => customers'[PhoneOf[m]] > 0)
  BY CustomersStay
<1>2. CASE Still(w)
  <2>1. IsCurrent(w, i) /\ RaceBy(w, i, m)
    BY <1>2 DEF Still, IsCurrent, RaceOf
  <2>2. pc[w] = "failed" \/ step[w] = "insert" => stream[i].attempt = 0
    BY <2>1 DEF RaceBy
  <2>3. pc[w] = "failed" => customers[PhoneOf[m]] > 0
    BY <2>1 DEF RaceBy
  <2>4. ASSUME step[w] = "commit", phase[w] = "incoming", ~duplicate[w]
        PROVE  inbound'[m] = 0
    <3>1. inbound[m] = 0 /\ pc[w] # "ack"
      BY <2>1, <2>4 DEF RaceBy, ExecutionsHaveEntries, ExecutionHasEntry
    <3>2. CASE inbound'[m] # inbound[m]
      <4>1. Continue(w)
        BY <2>1, <3>1, <3>2, OnlyItsWorkerRecords
      <4>2. step'[w] # step[w]
        BY <2>4, <4>1
        DEF Continue, P!Execute, P!CheckOptOut, P!SelectCustomer,
            P!InsertCustomer, P!SelectConversation, P!SelectDuplicate,
            P!CommitIncoming, P!ComposeReply, P!CommitOutgoing, P!Send,
            P!MaySend, P!Conflict, P!Abort, P!Goto, Types, PP!TypeOK
      <4> QED
        BY <1>2, <4>2 DEF Still
    <3> QED
      BY <3>1, <3>2
  <2> QED
    BY <1>1, <1>2, <2>2, <2>3, <2>4 DEF Still, RaceBy
<1>3. CASE BeginExecution(w)
  <2>1. step'[w] = "optout" /\ pc'[w] = "entry"
    BY <1>3 DEF BeginExecution, P!Begin, P!Goto, vars, workerVars, Types,
                PP!TypeOK
  <2> QED
    BY <2>1 DEF RaceBy
<1>4. CASE Continue(w)
  <2>1. step[w] # "idle" /\ UNCHANGED <<todo, pc, stream>>
    BY <1>4, ExecutesOne DEF Continue, vars, busVars, workerVars
  <2>2. pc[w] = "entry" /\ IsCurrent(w, i)
    BY <2>1 DEF ExecutionsHaveEntries, ExecutionHasEntry, IsCurrent
  <2>3. current[w] = m
    BY <2>1, <2>2, CurrentIsUnique
    DEF ExecutionsHaveEntries, ExecutionHasEntry, Executes
  <2>4. ASSUME step'[w] = "insert" PROVE stream[i].attempt = 0
    <3>1. P!SelectCustomer(w)
      BY <1>4, <2>4
      DEF Continue, P!Execute, P!CheckOptOut, P!InsertCustomer,
          P!SelectConversation, P!SelectDuplicate, P!CommitIncoming,
          P!ComposeReply, P!CommitOutgoing, P!Send, P!Conflict, P!Abort,
          P!Goto, Types, PP!TypeOK
    <3>2. customers[PhoneOf[m]] = 0
      BY <2>3, <2>4, <3>1
      DEF P!SelectCustomer, P!Goto, P!Phone, Types, PP!TypeOK
    <3>3. stream[i].attempt # 1 /\ stream[i].attempt <= 1
      BY <3>2 DEF RaceOf
    <3> QED
      BY <3>3, EntryFields DEF Types
  <2>5. ASSUME step'[w] = "commit", phase'[w] = "incoming", ~duplicate'[w]
        PROVE  inbound'[m] = 0
    <3>1. P!SelectDuplicate(w) \/ P!SelectConversation(w)
      BY <1>4, <2>5
      DEF Continue, P!Execute, P!CheckOptOut, P!SelectCustomer,
          P!InsertCustomer, P!CommitIncoming,
          P!ComposeReply, P!CommitOutgoing, P!Send, P!Conflict, P!Abort,
          P!Goto, Types, PP!TypeOK
    <3>2. P!SelectDuplicate(w)
      BY <2>5, <3>1 DEF P!SelectConversation, P!Goto, Types, PP!TypeOK
    <3>3. ~(inbound[m] > 0) /\ inbound' = inbound
      BY <2>3, <2>5, <3>2 DEF P!SelectDuplicate, P!dbVars, Types, PP!TypeOK
    <3>4. inbound[m] \in Nat
      BY DEF Types, PP!TypeOK
    <3> QED
      BY <3>3, <3>4
  <2> QED
    BY <2>1, <2>2, <2>4, <2>5 DEF RaceBy
<1>5. CASE RaiseConflict(w)
  <2>1. /\ step[w] # "idle" /\ pc[w] = "entry" /\ step'[w] = "idle"
        /\ UNCHANGED <<current, todo, stream>>
    BY <1>5, RaiseStep
  <2>2. IsCurrent(w, i) /\ RaceBy(w, i, m)
    BY <2>1 DEF IsCurrent, RaceOf
  <2>3. current[w] = m
    BY <2>1, <2>2, CurrentIsUnique
    DEF ExecutionsHaveEntries, ExecutionHasEntry, Executes
  <2>4. ~(step[w] = "commit" /\ P!MessageConflict(w))
    BY <2>2, <2>3 DEF RaceBy, P!MessageConflict
  <2>5. step[w] = "insert" /\ customers[PhoneOf[m]] > 0
    BY <1>5, <2>3, <2>4
    DEF RaiseConflict, P!Conflict, P!CustomerConflict, P!Phone
  <2> QED
    BY <1>1, <2>1, <2>2, <2>5 DEF RaceBy
<1>6. CASE RaiseError(w)
  <2>1. /\ step[w] # "idle" /\ pc[w] = "entry"
        /\ UNCHANGED <<current, todo, stream>>
    BY <1>6, RaiseStep
  <2>2. current[w] = m
    BY <2>1, CurrentIsUnique
    DEF IsCurrent, ExecutionsHaveEntries, ExecutionHasEntry, Executes
  <2> QED
    BY <1>6, <2>2 DEF RaiseError
<1>7. CASE Acts(w) /\ ~BeginExecution(w) /\ ~Continue(w) /\ ~RaiseConflict(w)
           /\ ~RaiseError(w)
  <2>1. step'[w] = "idle" /\ pc'[w] # "failed"
    BY <1>7, OwnStep DEF ExecutionsHaveEntries, ExecutionHasEntry
  <2> QED
    BY <2>1 DEF RaceBy
<1> QED
  BY <1>2, <1>3, <1>4, <1>5, <1>6, <1>7, WorkersAreStill, OthersAreStill

\* A failure is not forgotten.
LEMMA FailuresStay ==
    ASSUME [Serve]_allVars
    PROVE  failures \subseteq failures'
BY DEF Serve, Work, RaiseError, allVars

\* Every step keeps the races won: who loses the race for the customer's row fails
\* in its first attempt, and the second finds the row.
LEMMA RacesStep ==
    ASSUME Types, SharingInv, OneChanceInv, ExecutionsHaveEntries, RacesAreWon,
           [Serve]_allVars, MaxRetries > 0
    PROVE  RacesAreWon'
PROOF
<1> SUFFICES ASSUME NEW m \in Messages, Regular(m)', m \notin failures'
             PROVE  RaceOf(m)'
  BY DEF RacesAreWon, Steady
<1>1. TypeOK /\ [Next]_vars
  BY ServesBus DEF Types
<1>2. Ids \subseteq Ids' /\ \A i \in Ids : stream'[i] = stream[i]
  BY <1>1, StreamGrows
<1>3. \A i \in Ids : stream[i].msg \in Messages /\ stream[i].attempt \in Nat
  BY <1>1, EntryFields
<1>4. Regular(m) /\ RaceOf(m)
  BY <1>1, RegularWas, FailuresStay DEF RacesAreWon, Steady
<1>5. customers[PhoneOf[m]] > 0 => customers'[PhoneOf[m]] > 0
  BY CustomersStay
<1>6. ~Buried(m)'
  <2> SUFFICES ASSUME Buried(m)' PROVE FALSE
    OBVIOUS
  <2>1. PICK w \in Workers, k \in Ids :
           /\ HandleFailure(w) /\ IsCurrent(w, k)
           /\ stream[k].msg = m /\ GivesUp(stream[k].attempt)
    BY <1>1, <1>4, DeathComes DEF RaceOf
  <2>2. stream[k].attempt = 0
    BY <1>4, <2>1 DEF HandleFailure, RaceOf, RaceBy
  <2> QED
    BY <2>1, <2>2, MaxRetriesAssumption DEF GivesUp
<1>7. ASSUME NEW i \in Ids, stream'[i].msg = m
      PROVE  /\ stream'[i].attempt <= 1
             /\ stream'[i].attempt = 1 => customers'[PhoneOf[m]] > 0
             /\ \A w \in Workers : IsCurrent(w, i)' => RaceBy(w, i, m)'
  <2>1. stream[i].msg = m /\ stream'[i] = stream[i]
    BY <1>2, <1>7
  <2>2. /\ stream[i].attempt <= 1
        /\ stream[i].attempt = 1 => customers[PhoneOf[m]] > 0
    BY <1>4, <2>1 DEF RaceOf
  <2>3. \A w \in Workers : IsCurrent(w, i)' => RaceBy(w, i, m)'
    BY <1>4, <2>1, RaceByStep
  <2> QED
    BY <1>5, <2>1, <2>2, <2>3
<1>8. ASSUME NEW n \in Ids', n \notin Ids, stream'[n].msg = m
      PROVE  /\ stream'[n].attempt <= 1
             /\ stream'[n].attempt = 1 => customers'[PhoneOf[m]] > 0
             /\ \A w \in Workers : ~IsCurrent(w, n)'
  <2>1. CASE \E q \in Messages :
                WebhookPublish(q) /\ stream'[n] = [msg |-> q, attempt |-> 0]
    <3>1. stream'[n].attempt = 0 /\ todo' = todo
      BY <2>1 DEF WebhookPublish, workerVars
    <3> QED
      BY <1>1, <1>8, <3>1 DEF IsCurrent, TypeOK
  <2>2. CASE \E w \in Workers, k \in Ids :
                /\ HandleFailure(w) /\ IsCurrent(w, k)
                /\ stream'[n] = [msg |-> stream[k].msg,
                                 attempt |-> stream[k].attempt + 1]
    <3>1. PICK w \in Workers, k \in Ids :
             /\ HandleFailure(w) /\ IsCurrent(w, k)
             /\ stream'[n] = [msg |-> stream[k].msg,
                              attempt |-> stream[k].attempt + 1]
      BY <2>2
    <3>2. stream[k].msg = m /\ stream'[n].attempt = stream[k].attempt + 1
      BY <1>8, <3>1
    <3>3. stream[k].attempt = 0 /\ customers[PhoneOf[m]] > 0 /\ todo' = todo
      BY <1>4, <3>1, <3>2 DEF HandleFailure, RaceOf, RaceBy
    <3> QED
      BY <1>1, <1>5, <1>8, <3>2, <3>3 DEF IsCurrent, TypeOK
  <2> QED
    BY <1>1, <1>8, <2>1, <2>2, EntryArrives
<1> QED
  BY <1>6, <1>7, <1>8 DEF RaceOf

\* If a failed message is tried again at all, messages of a new customer that
\* race for its row kill none of them: who dies was delivered again, or failed
\* otherwise.
THEOREM RacesKillNobody == MaxRetries > 0 => (ServeSpec => []RacesNeverKill)
PROOF
<1> SUFFICES ASSUME MaxRetries > 0 PROVE ServeSpec => []RacesNeverKill
  OBVIOUS
<1>1. Start0 => RacesAreWon
  BY DEF Start0, Init, RacesAreWon, RaceOf, Buried, Letters, Ids
<1>2. SafetyInv /\ PP!ProcessingInv /\ HonestyInv /\ RacesAreWon
        /\ [Serve]_allVars => RacesAreWon'
  BY RacesStep
  DEF SafetyInv, PP!ProcessingInv, Types, SharingInv, HonestyInv
<1>3. SafetyInv /\ RacesAreWon => RacesNeverKill
  <2> SUFFICES ASSUME SafetyInv, RacesAreWon, NEW m \in Messages, Buried(m)
               PROVE  m \in failures \/ DeliveredAgain(m)
    BY DEF RacesNeverKill
  <2>1. expiries[m] \in Nat
    BY BoundAssumption DEF SafetyInv, TypeOK
  <2> QED
    BY <2>1 DEF RacesAreWon, RaceOf, Steady, Regular, DeliveredAgain
<1> QED
  BY <1>1, <1>2, <1>3, ServedInvariants, Honesty, PTL DEF ServeSpec
=============================================================================
