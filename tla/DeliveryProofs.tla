-------------------------- MODULE DeliveryProofs ----------------------------
(***************************************************************************)
(* Theorems about Delivery, for every value of its constants.              *)
(***************************************************************************)
EXTENDS Delivery, TLAPS

USE ConstantsAssumption

LEMMA BumpType == \A n \in 0..RetryCap : Bump(n) \in 0..RetryCap
  BY DEF Bump

-----------------------------------------------------------------------------
(* Types *)

\* A worker that is not waiting for a delivery has one in hand: without this
\* the SELECT of retry_count would be of no row.  (consumer.go:39)
Busy == \A w \in Workers : pc[w] # "idle" => job[w] \in Msgs

BudgetType == budget \in 0..MaxFaults /\ suffered \subseteq Faults

TypeInv ==
  /\ ApiTypes /\ RowTypes /\ BrokerTypes /\ ProcTypes /\ LocalTypes
  /\ FeedTypes /\ BotTypes /\ BudgetType /\ Busy

LEMMA InitType == Init => TypeInv
  BY DEF Init, TypeInv, ApiTypes, RowTypes, BrokerTypes, ProcTypes, LocalTypes,
         FeedTypes, BotTypes, BudgetType, Busy, Body, NoBody, NoResult,
         HandlerStates, RowStatus, Steps

\* What a step leaves alone keeps its type.
LEMMA Untouched ==
  ASSUME TypeInv
  PROVE  /\ UNCHANGED apiVars => ApiTypes'
         /\ UNCHANGED rowVars => RowTypes'
         /\ UNCHANGED brokerVars => BrokerTypes'
         /\ UNCHANGED procVars => ProcTypes'
         /\ UNCHANGED localVars => LocalTypes' /\ Busy'
         /\ UNCHANGED feedVars => FeedTypes'
         /\ UNCHANGED botVars => BotTypes'
         /\ UNCHANGED faultVars => BudgetType'
<1> USE DEF TypeInv
<1>1. UNCHANGED apiVars => ApiTypes'
  BY DEF apiVars, ApiTypes
<1>2. UNCHANGED rowVars => RowTypes'
  BY DEF rowVars, RowTypes
<1>3. UNCHANGED brokerVars => BrokerTypes'
  BY DEF brokerVars, BrokerTypes
<1>4. UNCHANGED procVars => ProcTypes'
  BY DEF procVars, ProcTypes
<1>5. UNCHANGED localVars => LocalTypes' /\ Busy'
  BY DEF localVars, LocalTypes, Busy
<1>6. UNCHANGED feedVars => FeedTypes'
  BY DEF feedVars, FeedTypes
<1>7. UNCHANGED botVars => BotTypes'
  BY DEF botVars, BotTypes
<1>8. UNCHANGED faultVars => BudgetType'
  BY DEF faultVars, BudgetType
<1> QED BY <1>1, <1>2, <1>3, <1>4, <1>5, <1>6, <1>7, <1>8

LEMMA BudgetStep ==
  ASSUME TypeInv, NEW f, NoFault \/ Fault(f)
  PROVE  BudgetType'
  BY DEF TypeInv, BudgetType, Fault, NoFault, faultVars

LEMMA HandlerType ==
  ASSUME TypeInv, NEW m \in Msgs, HandlerStep(m)
  PROVE  TypeInv'
<1> USE Untouched, BudgetStep DEF TypeInv, HandlerGoes, HandlerStates
<1>1. CASE InsertMessage(m)
  <2>1. ApiTypes'
    BY <1>1 DEF InsertMessage, ApiTypes
  <2>2. RowTypes'
    BY <1>1 DEF InsertMessage, RowTypes, RowStatus
  <2> QED BY <1>1, <2>1, <2>2 DEF InsertMessage
<1>2. CASE PublishMessage(m)
  <2>1. ApiTypes'
    BY <1>2 DEF PublishMessage, ApiTypes
  <2>2. BrokerTypes'
    <3>1. Published \subseteq Msgs
      BY DEF Published, BrokerTypes
    <3>2. BrokerPublish(m) \/ UNCHANGED brokerVars
      BY <1>2 DEF PublishMessage
    <3> QED BY <3>1, <3>2 DEF BrokerPublish, BrokerTypes
  <2> QED BY <1>2, <2>1, <2>2 DEF PublishMessage
<1>3. CASE RefuseMessage(m)
  <2>1. ApiTypes'
    BY <1>3 DEF RefuseMessage, ApiTypes
  <2>2. RowTypes'
    BY <1>3 DEF RefuseMessage, RowTypes, RowStatus
  <2> QED BY <1>3, <2>1, <2>2 DEF RefuseMessage
<1>4. CASE AnnounceMessage(m)
  <2>1. ApiTypes'
    BY <1>4 DEF AnnounceMessage, ApiTypes
  <2>2. FeedTypes'
    BY <1>4 DEF AnnounceMessage, FeedTypes, RowStatus
  <2> QED BY <1>4, <2>1, <2>2 DEF AnnounceMessage
<1> QED BY <1>1, <1>2, <1>3, <1>4 DEF HandlerStep

LEMMA CrashApiType == TypeInv /\ CrashApi => TypeInv'
<1> SUFFICES ASSUME TypeInv, CrashApi
             PROVE  TypeInv'
  OBVIOUS
<1>1. ApiTypes'
  BY DEF TypeInv, CrashApi, ApiTypes, HandlerStates
<1> QED BY <1>1, Untouched, BudgetStep DEF TypeInv, CrashApi

LEMMA DispatchType ==
  ASSUME TypeInv, NEW m \in Msgs, Dispatch(m)
  PROVE  TypeInv'
<1> PICK w \in Workers : DispatchTo(w, m)
  BY DEF Dispatch
<1>1. BrokerTypes'
  BY DEF TypeInv, DispatchTo, BrokerTypes
<1>2. LocalTypes' /\ Busy'
  BY DEF TypeInv, DispatchTo, LocalTypes, Busy
<1> QED BY <1>1, <1>2, Untouched DEF TypeInv, DispatchTo

\* A statement of Deliver moves the worker on and may set its locals.
LEMMA LocalStep ==
  ASSUME TypeInv, NEW w \in Workers, job[w] \in Msgs,
         NEW s \in Steps, Goto(w, s), UNCHANGED <<buf, job>>,
         \/ UNCHANGED count
         \/ \E n \in 0..RetryCap : count' = [count EXCEPT ![w] = n],
         \/ UNCHANGED mark
         \/ \E t \in RowStatus : mark' = [mark EXCEPT ![w] = t],
         \/ UNCHANGED result
         \/ \E a \in BOOLEAN, e \in BOOLEAN : Return(w, a, e)
  PROVE  LocalTypes' /\ Busy'
<1> USE DEF TypeInv, LocalTypes
<1>1. pc' \in [Workers -> Steps] /\ Busy'
  BY DEF Goto, Busy
<1>2. count' \in [Workers -> 0..RetryCap]
  OBVIOUS
<1>3. mark' \in [Workers -> RowStatus \cup {"none"}]
  OBVIOUS
<1>4. result' \in [Workers -> [ack : BOOLEAN, err : BOOLEAN]]
  <2>1. ASSUME NEW a \in BOOLEAN, NEW e \in BOOLEAN, Return(w, a, e)
        PROVE  result' \in [Workers -> [ack : BOOLEAN, err : BOOLEAN]]
    <3>1. [ack |-> a, err |-> e] \in [ack : BOOLEAN, err : BOOLEAN]
      OBVIOUS
    <3> QED BY <2>1, <3>1, Zenon DEF Return
  <2> QED BY <2>1
<1> QED BY <1>1, <1>2, <1>3, <1>4

LEMMA DeliverType ==
  ASSUME TypeInv, NEW w \in Workers, TakeDelivery(w) \/ DeliverStep(w)
  PROVE  TypeInv'
<1> USE DEF TypeInv, At, Steps, RowStatus
<1>1. CASE TakeDelivery(w)
  <2>1. LocalTypes' /\ Busy'
    BY <1>1 DEF TakeDelivery, LocalTypes, Busy, Goto, Return
  <2> QED BY <1>1, <2>1, Untouched, BudgetStep DEF TakeDelivery, CallWorks, CallFails
<1>2. CASE LoadRetryCount(w)
  <2>1. LocalTypes' /\ Busy'
    <3>1. job[w] \in Msgs /\ retry[job[w]] \in 0..RetryCap
      BY <1>2 DEF LoadRetryCount, Busy, RowTypes
    <3>2. CASE Goto(w, "resolve") /\ count' = [count EXCEPT ![w] = retry[job[w]]]
                 /\ UNCHANGED result
      BY <1>2, <3>1, <3>2, LocalStep DEF LoadRetryCount
    <3>3. CASE Goto(w, "settle") /\ UNCHANGED count /\ Return(w, TRUE, TRUE)
      BY <1>2, <3>1, <3>3, LocalStep DEF LoadRetryCount
    <3> QED BY <1>2, <3>2, <3>3 DEF LoadRetryCount
  <2> QED BY <1>2, <2>1, Untouched, BudgetStep DEF LoadRetryCount, CallWorks, CallFails
<1>3. CASE ResolveEndpoint(w)
  <2>1. LocalTypes' /\ Busy'
    <3>1. job[w] \in Msgs
      BY <1>3 DEF ResolveEndpoint, Busy
    <3>2. \/ Goto(w, "post") /\ UNCHANGED <<mark, result>>
          \/ CallUpdateStatus(w, "client_delivered", TRUE, FALSE)
          \/ CallUpdateStatus(w, "failed", TRUE, TRUE)
      BY <1>3 DEF ResolveEndpoint
    <3> QED BY <1>3, <3>1, <3>2, LocalStep DEF ResolveEndpoint, CallUpdateStatus
  <2> QED BY <1>3, <2>1, Untouched, BudgetStep DEF ResolveEndpoint, CallWorks, CallFails
<1>4. CASE PostToBot(w)
  <2>1. LocalTypes' /\ Busy'
    <3>1. job[w] \in Msgs
      BY <1>4 DEF PostToBot, Busy
    <3>2. \/ Goto(w, "count") /\ UNCHANGED <<mark, result>>
          \/ CallUpdateStatus(w, "delivered", TRUE, FALSE)
      BY <1>4 DEF PostToBot, AcceptedStatus
    <3> QED BY <1>4, <3>1, <3>2, LocalStep DEF PostToBot, CallUpdateStatus
  <2>2. BotTypes'
    <3>1. job[w] \in Msgs
      BY <1>4 DEF PostToBot, Busy
    <3>2. /\ attempts' = [attempts EXCEPT ![job[w]] = Bump(@)]
          /\ \/ accepted' = [accepted EXCEPT ![job[w]] = Bump(@)]
             \/ UNCHANGED accepted
      BY <1>4 DEF PostToBot
    <3> QED BY <3>1, <3>2, BumpType DEF BotTypes
  <2> QED BY <1>4, <2>1, <2>2, Untouched, BudgetStep DEF PostToBot, CallWorks, CallFails
<1>5. CASE HandleFailure(w)
  <2>1. NextRetry(count[w]) \in 0..RetryCap
    BY BumpType DEF NextRetry, LocalTypes
  <2>2. LocalTypes' /\ Busy'
    <3>1. job[w] \in Msgs
      BY <1>5 DEF HandleFailure, Busy
    <3>2. \/ Goto(w, "sleep") /\ UNCHANGED <<mark, result>>
          \/ CallUpdateStatus(w, "failed", FALSE, TRUE)
      BY <1>5 DEF HandleFailure
    <3> QED BY <1>5, <3>1, <3>2, LocalStep DEF HandleFailure, CallUpdateStatus
  <2>3. RowTypes'
    BY <1>5, <2>1 DEF HandleFailure, RowTypes
  <2> QED BY <1>5, <2>2, <2>3, Untouched, BudgetStep DEF HandleFailure, CallWorks, CallFails
<1>6. CASE Backoff(w)
  <2>1. LocalTypes' /\ Busy'
    BY <1>6 DEF Backoff, LocalTypes, Busy, Goto, Return
  <2> QED BY <1>6, <2>1, Untouched, BudgetStep DEF Backoff, CallWorks, CallFails
<1>7. CASE UpdateStatus(w)
  <2>1. LocalTypes' /\ Busy'
    BY <1>7 DEF UpdateStatus, LocalTypes, Busy, Goto, Return
  <2>2. RowTypes'
    BY <1>7 DEF UpdateStatus, RowTypes, LocalTypes
  <2> QED BY <1>7, <2>1, <2>2, Untouched, BudgetStep DEF UpdateStatus, CallWorks, CallFails
<1>8. CASE PublishStatus(w)
  <2>1. LocalTypes' /\ Busy'
    BY <1>8 DEF PublishStatus, LocalTypes, Busy, Goto, Return
  <2>2. FeedTypes'
    <3>1. pushed' \in [Msgs -> RowStatus \cup {"none"}]
      BY <1>8 DEF PublishStatus, FeedTypes, LocalTypes, feedVars
    <3>2. announced' \in [Msgs -> {"no", "yes", "last"}]
      BY <1>8 DEF PublishStatus, FeedTypes, feedVars
    <3> QED BY <3>1, <3>2 DEF FeedTypes
  <2> QED BY <1>8, <2>1, <2>2, Untouched, BudgetStep DEF PublishStatus, CallWorks, CallFails
<1>9. CASE Settle(w)
  <2>1. LocalTypes' /\ Busy'
    BY <1>9 DEF Settle, ForgetLocals, NoResult, LocalTypes, Busy, Goto
  <2>2. job[w] \in Msgs
    BY <1>9 DEF Settle, Busy
  <2>3. BrokerTypes'
    BY <1>9, <2>2 DEF Settle, BrokerAck, BrokerNack, BrokerTypes
  <2> QED BY <1>9, <2>1, <2>3, Untouched, BudgetStep DEF Settle, CallWorks, CallFails
<1> QED BY <1>1, <1>2, <1>3, <1>4, <1>5, <1>6, <1>7, <1>8, <1>9
           DEF DeliverStep

LEMMA ProcessEndsType ==
  ASSUME TypeInv, NEW w \in Workers, ProcessEnds(w)
  PROVE  BrokerTypes' /\ ProcTypes' /\ LocalTypes' /\ Busy'
<1> USE DEF TypeInv, ProcessEnds
<1>1. BrokerTypes'
  BY DEF BrokerDrop, BrokerTypes
<1>2. ProcTypes'
  BY DEF ProcTypes
<1>3. LocalTypes' /\ Busy'
  BY DEF ForgetLocals, Goto, NoResult, Steps, LocalTypes, Busy
<1> QED BY <1>1, <1>2, <1>3

LEMMA ProcessType ==
  ASSUME TypeInv, NEW w \in Workers, ProcessStep(w)
  PROVE  TypeInv'
<1> USE Untouched, BudgetStep, ProcessEndsType DEF TypeInv
<1>1. CASE Exit(w)
  BY <1>1 DEF Exit
<1>2. CASE CrashWorker(w)
  BY <1>2 DEF CrashWorker
<1>3. CASE LoseLink(w)
  <2>1. BrokerTypes'
    BY <1>3 DEF LoseLink, BrokerDrop, BrokerTypes
  <2>2. ProcTypes'
    BY <1>3 DEF LoseLink, ProcTypes
  <2> QED BY <1>3, <2>1, <2>2 DEF LoseLink
<1>4. CASE Shutdown(w)
  <2>1. ProcTypes'
    BY <1>4 DEF Shutdown, ProcTypes, procVars
  <2> QED BY <1>4, <2>1 DEF Shutdown
<1>5. CASE StartWorker(w)
  <2>1. ProcTypes'
    BY <1>5 DEF StartWorker, ProcTypes
  <2> QED BY <1>5, <2>1 DEF StartWorker
<1> QED BY <1>1, <1>2, <1>3, <1>4, <1>5 DEF ProcessStep

LEMMA TypeStep == TypeInv /\ [Next]_vars => TypeInv'
<1> SUFFICES ASSUME TypeInv, [Next]_vars
             PROVE  TypeInv'
  OBVIOUS
<1>1. CASE UNCHANGED vars
  BY <1>1, Untouched DEF TypeInv, vars
<1>2. CASE Next
  BY <1>2, HandlerType, CrashApiType, DispatchType, DeliverType, ProcessType
     DEF Next
<1> QED BY <1>1, <1>2

\* Every variable keeps its type whatever fails.
THEOREM TypeCorrect == Spec => []TypeOK
<1>1. Spec => []TypeInv
  BY InitType, TypeStep, PTL DEF Spec
<1>2. TypeInv => TypeOK
  BY DEF TypeInv, TypeOK, BudgetType
<1> QED BY <1>1, <1>2, PTL

-----------------------------------------------------------------------------
(* retry_count *)

\* The retry count a worker has read, and the one it is about to write, are
\* covered by the tries of the bot made so far, its own included.
CountsCovered ==
  \A w \in Workers :
    /\ pc[w] \in {"resolve", "post"} => count[w] <= attempts[job[w]]
    /\ pc[w] = "count" => Bump(count[w]) <= attempts[job[w]]

CountInv == CountNeverOverstates /\ CountsCovered

LEMMA BumpMonotone ==
  \A a, b \in 0..RetryCap : a <= b => a <= Bump(b) /\ Bump(a) <= Bump(b)
  BY DEF Bump

\* Steps that touch neither the counts nor the position of a worker.
LEMMA CountUntouched ==
  ASSUME CountInv, UNCHANGED <<retry, attempts, pc, job, count>>
  PROVE  CountInv'
  BY DEF CountInv, CountNeverOverstates, CountsCovered

\* Steps of one worker that end where no count is kept.
LEMMA CountDropped ==
  ASSUME TypeInv, CountInv, NEW w \in Workers, NEW s \in Steps,
         s \notin {"resolve", "post", "count"}, Goto(w, s),
         \A v \in Workers \ {w} : job'[v] = job[v] /\ count'[v] = count[v],
         UNCHANGED <<retry, attempts>>
  PROVE  CountInv'
  BY DEF TypeInv, LocalTypes, CountInv, CountNeverOverstates, CountsCovered, Goto

LEMMA CountStep == TypeInv /\ CountInv /\ [Next]_vars => CountInv'
<1> SUFFICES ASSUME TypeInv, CountInv, [Next]_vars
             PROVE  CountInv'
  OBVIOUS
<1> USE DEF rowVars, localVars, botVars
<1>1. CASE UNCHANGED vars
  BY <1>1, CountUntouched DEF vars
<1>2. ASSUME NEW m \in Msgs, HandlerStep(m) \/ Dispatch(m)
      PROVE  CountInv'
  BY <1>2, CountUntouched
     DEF HandlerStep, InsertMessage, PublishMessage, RefuseMessage,
         AnnounceMessage, Dispatch, DispatchTo
<1>3. CASE CrashApi
  BY <1>3, CountUntouched DEF CrashApi
<1>4. ASSUME NEW w \in Workers, TakeDelivery(w) \/ DeliverStep(w)
      PROVE  CountInv'
  <2>1. CASE TakeDelivery(w)
    <3>1. Goto(w, "load") /\ UNCHANGED <<retry, attempts, count>>
      BY <2>1 DEF TakeDelivery
    <3>2. \A v \in Workers \ {w} : job'[v] = job[v] /\ count'[v] = count[v]
      BY <2>1 DEF TakeDelivery, TypeInv, LocalTypes
    <3> QED BY <3>1, <3>2, CountDropped DEF Steps
  <2>2. CASE LoadRetryCount(w)
    <3>1. CASE Goto(w, "settle") /\ UNCHANGED count
      BY <2>2, <3>1, CountDropped DEF LoadRetryCount, Steps
    <3>2. CASE Goto(w, "resolve") /\ count' = [count EXCEPT ![w] = retry[job[w]]]
      <4>1. job[w] \in Msgs /\ retry[job[w]] <= attempts[job[w]]
        BY <2>2 DEF LoadRetryCount, At, TypeInv, Busy, CountInv,
                    CountNeverOverstates
      <4>2. UNCHANGED <<job, retry, attempts>>
        BY <2>2 DEF LoadRetryCount
      <4> QED BY <3>2, <4>1, <4>2
              DEF Goto, TypeInv, LocalTypes, CountInv, CountNeverOverstates,
                  CountsCovered
    <3> QED BY <2>2, <3>1, <3>2 DEF LoadRetryCount
  <2>3. CASE ResolveEndpoint(w)
    <3>1. UNCHANGED <<job, count, retry, attempts>> /\ pc[w] = "resolve"
      BY <2>3 DEF ResolveEndpoint, At
    <3>2. Goto(w, "mark") \/ Goto(w, "post")
      BY <2>3 DEF ResolveEndpoint, CallUpdateStatus
    <3> QED BY <3>1, <3>2
            DEF Goto, TypeInv, LocalTypes, CountInv, CountNeverOverstates,
                CountsCovered
  <2>4. CASE PostToBot(w)
    <3>1. /\ UNCHANGED <<job, count, retry>> /\ pc[w] = "post"
          /\ attempts' = [attempts EXCEPT ![job[w]] = Bump(@)]
      BY <2>4 DEF PostToBot, At
    <3>2. Goto(w, "mark") \/ Goto(w, "count")
      BY <2>4 DEF PostToBot, CallUpdateStatus
    <3>3. /\ job[w] \in Msgs
          /\ \A v \in Workers : pc[v] # "idle" => job[v] \in Msgs
          /\ \A v \in Workers : count[v] \in 0..RetryCap
          /\ \A m \in Msgs : /\ attempts[m] \in 0..RetryCap
                             /\ retry[m] \in 0..RetryCap
      BY <3>1 DEF TypeInv, Busy, LocalTypes, BotTypes, RowTypes
    <3>4. \A n \in 0..RetryCap, m \in Msgs :
            n <= attempts[m] => n <= attempts'[m]
      BY <3>1, <3>3, BumpMonotone DEF TypeInv, BotTypes
    <3>5. CountNeverOverstates'
      BY <3>1, <3>3, <3>4 DEF CountInv, CountNeverOverstates
    <3>6. Bump(count[w]) <= attempts'[job[w]]
      BY <3>1, <3>3, BumpMonotone
         DEF CountInv, CountsCovered, TypeInv, BotTypes
    <3>7. CountsCovered'
      BY <3>1, <3>2, <3>3, <3>4, <3>6, BumpType
         DEF Goto, CountInv, CountsCovered, TypeInv, LocalTypes
    <3> QED BY <3>5, <3>7 DEF CountInv
  <2>5. CASE HandleFailure(w)
    <3>1. /\ UNCHANGED <<job, count, attempts>> /\ pc[w] = "count"
          /\ \/ retry' = [retry EXCEPT ![job[w]] = Bump(count[w])]
             \/ UNCHANGED retry
      BY <2>5 DEF HandleFailure, At, NextRetry
    <3>2. Goto(w, "mark") \/ Goto(w, "sleep")
      BY <2>5 DEF HandleFailure, CallUpdateStatus
    <3>3. CountNeverOverstates'
      BY <3>1 DEF CountInv, CountNeverOverstates, CountsCovered, TypeInv, RowTypes
    <3>4. CountsCovered'
      BY <3>1, <3>2 DEF Goto, CountInv, CountsCovered, TypeInv, LocalTypes
    <3> QED BY <3>3, <3>4 DEF CountInv
  <2>6. CASE Backoff(w) \/ PublishStatus(w)
    BY <2>6, CountDropped DEF Backoff, PublishStatus, Steps
  <2>7. CASE UpdateStatus(w)
    BY <2>7, CountDropped DEF UpdateStatus, Steps
  <2>8. CASE Settle(w)
    <3>1. Goto(w, "idle") /\ UNCHANGED <<retry, attempts>>
      BY <2>8 DEF Settle, ForgetLocals
    <3>2. \A v \in Workers \ {w} : job'[v] = job[v] /\ count'[v] = count[v]
      BY <2>8 DEF Settle, ForgetLocals, TypeInv, LocalTypes
    <3> QED BY <3>1, <3>2, CountDropped DEF Steps
  <2> QED BY <1>4, <2>1, <2>2, <2>3, <2>4, <2>5, <2>6, <2>7, <2>8
          DEF DeliverStep
<1>5. ASSUME NEW w \in Workers, ProcessStep(w)
      PROVE  CountInv'
  <2>1. CASE Exit(w) \/ CrashWorker(w)
    <3>1. Goto(w, "idle") /\ UNCHANGED <<retry, attempts>>
      BY <2>1 DEF Exit, CrashWorker, ProcessEnds, ForgetLocals
    <3>2. \A v \in Workers \ {w} : job'[v] = job[v] /\ count'[v] = count[v]
      BY <2>1 DEF Exit, CrashWorker, ProcessEnds, ForgetLocals, TypeInv,
                  LocalTypes
    <3> QED BY <3>1, <3>2, CountDropped DEF Steps
  <2>2. CASE LoseLink(w) \/ Shutdown(w) \/ StartWorker(w)
    BY <2>2, CountUntouched DEF LoseLink, Shutdown, StartWorker
  <2> QED BY <1>5, <2>1, <2>2 DEF ProcessStep
<1> QED BY <1>1, <1>2, <1>3, <1>4, <1>5 DEF Next

LEMMA CountInit == Init => CountInv
  BY DEF Init, CountInv, CountNeverOverstates, CountsCovered

\* The retry count in the row is never ahead of the tries of the bot, however
\* many workers handle the message at once and whatever fails.
THEOREM CountCorrect == Spec => []CountNeverOverstates
<1>1. Spec => [](TypeInv /\ CountInv)
  BY InitType, TypeStep, CountInit, CountStep, PTL DEF Spec
<1> QED BY <1>1, PTL DEF CountInv

-----------------------------------------------------------------------------
(* Giving up *)

\* The failures that make Deliver end a message it has not tried enough are
\* yet to come after this step.
NoDbFailure == "dbError" \notin suffered' /\ "shutdown" \notin suffered'

\* What NoEarlyGiveUp says while they are.
OnlyGivenUpInTime ==
  \A m \in Msgs :
    status[m] = "failed" => attempts[m] >= MaxRetries \/ sent[m] = "refused"

\* Failures are not forgotten.
LEMMA SufferedGrows == [Next]_vars => suffered \subseteq suffered'
<1> USE DEF Fault, NoFault, faultVars, CallWorks, CallFails
<1>1. CASE UNCHANGED vars
  BY <1>1 DEF vars
<1>2. ASSUME NEW m \in Msgs, HandlerStep(m) \/ Dispatch(m)
      PROVE  suffered \subseteq suffered'
  BY <1>2 DEF HandlerStep, InsertMessage, PublishMessage, RefuseMessage,
              AnnounceMessage, Dispatch, DispatchTo
<1>3. CASE CrashApi
  BY <1>3 DEF CrashApi
<1>4. ASSUME NEW w \in Workers, TakeDelivery(w) \/ DeliverStep(w)
      PROVE  suffered \subseteq suffered'
  BY <1>4 DEF TakeDelivery, DeliverStep, LoadRetryCount, ResolveEndpoint,
              PostToBot, HandleFailure, Backoff, UpdateStatus, PublishStatus,
              Settle
<1>5. ASSUME NEW w \in Workers, ProcessStep(w)
      PROVE  suffered \subseteq suffered'
  BY <1>5 DEF ProcessStep, Exit, CrashWorker, LoseLink, Shutdown, StartWorker
<1> QED BY <1>1, <1>2, <1>3, <1>4, <1>5 DEF Next

NeverStopping == \A w \in Workers : life[w] # "stopping"

\* A worker about to mark a message failed has used up its retries.
GivesUpAfterRetries ==
  \A w \in Workers :
    pc[w] = "mark" /\ mark[w] = "failed" => attempts[job[w]] >= MaxRetries

GiveUpInv == NeverStopping /\ GivesUpAfterRetries /\ OnlyGivenUpInTime

LEMMA NeverStoppingStep ==
  ASSUME TypeInv, NeverStopping, "shutdown" \notin suffered', [Next]_vars
  PROVE  NeverStopping'
<1> USE DEF NeverStopping, procVars
<1>1. CASE UNCHANGED vars
  BY <1>1 DEF vars
<1>2. CASE Next
  <2>1. ASSUME NEW m \in Msgs, HandlerStep(m) \/ Dispatch(m)
        PROVE  UNCHANGED life
    BY <2>1 DEF HandlerStep, InsertMessage, PublishMessage, RefuseMessage,
                AnnounceMessage, Dispatch, DispatchTo
  <2>2. CASE CrashApi
    BY <2>2 DEF CrashApi
  <2>3. ASSUME NEW w \in Workers, TakeDelivery(w) \/ DeliverStep(w)
        PROVE  UNCHANGED life
    BY <2>3 DEF TakeDelivery, DeliverStep, LoadRetryCount, ResolveEndpoint,
                PostToBot, HandleFailure, Backoff, UpdateStatus, PublishStatus,
                Settle
  <2>4. ASSUME NEW w \in Workers, ProcessStep(w)
        PROVE  NeverStopping'
    <3>1. ~Shutdown(w)
      BY DEF Shutdown, Fault
    <3>2. \/ UNCHANGED life
          \/ life' = [life EXCEPT ![w] = "down"]
          \/ life' = [life EXCEPT ![w] = "running"]
      BY <2>4, <3>1 DEF ProcessStep, Exit, CrashWorker, LoseLink, StartWorker,
                        ProcessEnds
    <3> QED BY <3>2 DEF TypeInv, ProcTypes
  <2> QED BY <1>2, <2>1, <2>2, <2>3, <2>4 DEF Next
<1> QED BY <1>1, <1>2

\* Steps that mark no row, try no bot and start no UPDATE.
LEMMA GiveUpUntouched ==
  ASSUME TypeInv, GivesUpAfterRetries, OnlyGivenUpInTime,
         UNCHANGED <<sent, status, attempts>>,
         \/ UNCHANGED <<pc, job, mark>>
         \/ \E w \in Workers :
              /\ pc'[w] # "mark"
              /\ \A v \in Workers \ {w} :
                   pc'[v] = pc[v] /\ job'[v] = job[v] /\ mark'[v] = mark[v]
  PROVE  GivesUpAfterRetries' /\ OnlyGivenUpInTime'
  BY DEF GivesUpAfterRetries, OnlyGivenUpInTime

LEMMA GiveUpStep ==
  ASSUME NoDbFailure, TypeInv, CountInv, GiveUpInv, [Next]_vars
  PROVE  GiveUpInv'
<1> USE DEF apiVars, rowVars, localVars, botVars
<1>1. NeverStopping'
  BY NeverStoppingStep DEF GiveUpInv, NoDbFailure
<1>2. CASE UNCHANGED vars
  BY <1>1, <1>2, GiveUpUntouched DEF vars, GiveUpInv
<1>3. ASSUME NEW m \in Msgs, HandlerStep(m)
      PROVE  GiveUpInv'
  <2>1. UNCHANGED <<pc, job, mark, attempts>>
    BY <1>3 DEF HandlerStep, InsertMessage, PublishMessage, RefuseMessage,
                AnnounceMessage
  <2>2. OnlyGivenUpInTime'
    <3> USE DEF GiveUpInv, OnlyGivenUpInTime, TypeInv, ApiTypes, RowTypes,
                HandlerAt, HandlerGoes
    <3>1. CASE InsertMessage(m)
      BY <2>1, <3>1 DEF InsertMessage
    <3>2. CASE PublishMessage(m)
      BY <2>1, <3>2 DEF PublishMessage
    <3>3. CASE RefuseMessage(m)
      BY <2>1, <3>3 DEF RefuseMessage
    <3>4. CASE AnnounceMessage(m)
      BY <2>1, <3>4 DEF AnnounceMessage
    <3> QED BY <1>3, <3>1, <3>2, <3>3, <3>4 DEF HandlerStep
  <2> QED BY <1>1, <2>1, <2>2 DEF GiveUpInv, GivesUpAfterRetries
<1>4. CASE CrashApi
  <2>1. UNCHANGED <<pc, job, mark, status, attempts>>
    BY <1>4 DEF CrashApi
  <2>2. \A m \in Msgs : sent[m] = "refused" => sent'[m] = "refused"
    BY <1>4 DEF CrashApi
  <2> QED BY <1>1, <2>1, <2>2
          DEF GiveUpInv, GivesUpAfterRetries, OnlyGivenUpInTime
<1>5. ASSUME NEW m \in Msgs, Dispatch(m)
      PROVE  GiveUpInv'
  BY <1>1, <1>5, GiveUpUntouched DEF Dispatch, DispatchTo, GiveUpInv
<1>6. ASSUME NEW w \in Workers, TakeDelivery(w) \/ DeliverStep(w)
      PROVE  GiveUpInv'
  <2> USE DEF TypeInv, LocalTypes, At, Goto
  <2>1. CASE TakeDelivery(w) \/ LoadRetryCount(w) \/ Backoff(w)
               \/ PublishStatus(w)
    BY <1>1, <2>1, GiveUpUntouched
       DEF TakeDelivery, LoadRetryCount, Backoff, PublishStatus, GiveUpInv
  <2>2. CASE ResolveEndpoint(w)
    <3>1. ~CallFails(w, "dbError")
      BY DEF CallFails, Cancelled, Fault, GiveUpInv, NeverStopping, NoDbFailure
    <3>2. \/ pc' = [pc EXCEPT ![w] = "post"] /\ UNCHANGED mark
          \/ mark' = [mark EXCEPT ![w] = "client_delivered"]
               /\ pc' = [pc EXCEPT ![w] = "mark"]
      BY <2>2, <3>1 DEF ResolveEndpoint, CallUpdateStatus
    <3>3. UNCHANGED <<sent, status, attempts, job>>
      BY <2>2 DEF ResolveEndpoint
    <3> QED BY <1>1, <3>2, <3>3
            DEF GiveUpInv, GivesUpAfterRetries, OnlyGivenUpInTime
  <2>3. CASE PostToBot(w)
    <3>1. \/ pc' = [pc EXCEPT ![w] = "count"] /\ UNCHANGED mark
          \/ mark' = [mark EXCEPT ![w] = "delivered"]
               /\ pc' = [pc EXCEPT ![w] = "mark"]
      BY <2>3 DEF PostToBot, CallUpdateStatus, AcceptedStatus
    <3>2. /\ UNCHANGED <<sent, status, job>> /\ pc[w] = "post"
          /\ attempts' = [attempts EXCEPT ![job[w]] = Bump(@)]
      BY <2>3 DEF PostToBot
    <3>3. \A m \in Msgs : attempts'[m] >= attempts[m] /\ attempts'[m] \in Nat
                           /\ attempts[m] \in Nat
      BY <3>2, BumpType DEF BotTypes, Bump
    <3>4. OnlyGivenUpInTime'
      BY <3>2, <3>3 DEF GiveUpInv, OnlyGivenUpInTime
    <3>5. GivesUpAfterRetries'
      <4> SUFFICES ASSUME NEW v \in Workers, pc'[v] = "mark", mark'[v] = "failed"
                   PROVE  attempts'[job[v]] >= MaxRetries
        BY <3>2 DEF GivesUpAfterRetries
      <4>1. v # w /\ pc[v] = "mark" /\ mark[v] = "failed"
        BY <3>1
      <4>2. job[v] \in Msgs /\ attempts[job[v]] >= MaxRetries
        BY <4>1 DEF GiveUpInv, GivesUpAfterRetries, Busy
      <4> QED BY <4>2, <3>3
    <3> QED BY <1>1, <3>4, <3>5 DEF GiveUpInv
  <2>4. CASE HandleFailure(w)
    <3>1. /\ UNCHANGED <<sent, status, job, attempts>> /\ pc[w] = "count"
          /\ \/ pc' = [pc EXCEPT ![w] = "sleep"] /\ UNCHANGED mark
             \/ /\ Bump(count[w]) >= MaxRetries
                /\ mark' = [mark EXCEPT ![w] = "failed"]
                /\ pc' = [pc EXCEPT ![w] = "mark"]
      BY <2>4 DEF HandleFailure, NextRetry, Exhausted, CallUpdateStatus
    <3>2. /\ Bump(count[w]) <= attempts[job[w]]
          /\ Bump(count[w]) \in Nat /\ attempts[job[w]] \in Nat
      BY <3>1, BumpType DEF CountInv, CountsCovered, Busy, BotTypes
    <3>3. GivesUpAfterRetries'
      BY <3>1, <3>2 DEF GiveUpInv, GivesUpAfterRetries
    <3> QED BY <1>1, <3>1, <3>3 DEF GiveUpInv, OnlyGivenUpInTime
  <2>5. CASE UpdateStatus(w)
    <3>1. /\ UNCHANGED <<sent, attempts, job, mark>> /\ pc[w] = "mark"
          /\ pc' = [pc EXCEPT ![w] = "tell"]
          /\ \/ status' = [status EXCEPT ![job[w]] = mark[w]]
             \/ UNCHANGED status
      BY <2>5 DEF UpdateStatus
    <3>2. OnlyGivenUpInTime'
      BY <3>1 DEF GiveUpInv, GivesUpAfterRetries, OnlyGivenUpInTime, RowTypes
    <3>3. GivesUpAfterRetries'
      BY <3>1 DEF GiveUpInv, GivesUpAfterRetries
    <3> QED BY <1>1, <3>2, <3>3 DEF GiveUpInv
  <2>6. CASE Settle(w)
    <3>1. \A v \in Workers \ {w} :
            pc'[v] = pc[v] /\ job'[v] = job[v] /\ mark'[v] = mark[v]
      BY <2>6 DEF Settle, ForgetLocals
    <3>2. pc'[w] # "mark" /\ UNCHANGED <<sent, status, attempts>>
      BY <2>6 DEF Settle, ForgetLocals
    <3> QED BY <1>1, <3>1, <3>2, GiveUpUntouched DEF GiveUpInv
  <2> QED BY <1>6, <2>1, <2>2, <2>3, <2>4, <2>5, <2>6 DEF DeliverStep
<1>7. ASSUME NEW w \in Workers, ProcessStep(w)
      PROVE  GiveUpInv'
  <2>1. CASE Exit(w) \/ CrashWorker(w)
    <3>1. \A v \in Workers \ {w} :
            pc'[v] = pc[v] /\ job'[v] = job[v] /\ mark'[v] = mark[v]
      BY <2>1 DEF Exit, CrashWorker, ProcessEnds, ForgetLocals, Goto, TypeInv,
                  LocalTypes
    <3>2. pc'[w] # "mark" /\ UNCHANGED <<sent, status, attempts>>
      BY <2>1 DEF Exit, CrashWorker, ProcessEnds, ForgetLocals, Goto, TypeInv,
                  LocalTypes
    <3> QED BY <1>1, <3>1, <3>2, GiveUpUntouched DEF GiveUpInv
  <2>2. CASE LoseLink(w) \/ Shutdown(w) \/ StartWorker(w)
    BY <1>1, <2>2, GiveUpUntouched
       DEF LoseLink, Shutdown, StartWorker, GiveUpInv
  <2> QED BY <1>7, <2>1, <2>2 DEF ProcessStep
<1> QED BY <1>2, <1>3, <1>4, <1>5, <1>6, <1>7 DEF Next

LEMMA GiveUpInit == Init => GiveUpInv
  BY DEF Init, GiveUpInv, NeverStopping, GivesUpAfterRetries, OnlyGivenUpInTime

\* Until the database fails or a worker is told to stop, no message is given up
\* before its retries are used up, except one its sender was told about.
THEOREM GiveUpCorrect == Spec => []NoEarlyGiveUp
<1> DEFINE Cond == Spared({"dbError", "shutdown"}) => GiveUpInv
<1>1. TypeInv /\ CountInv /\ Cond /\ [Next]_vars => Cond'
  <2> SUFFICES ASSUME TypeInv, CountInv, Cond, [Next]_vars,
                      Spared({"dbError", "shutdown"})'
               PROVE  GiveUpInv'
    OBVIOUS
  <2>1. Spared({"dbError", "shutdown"})
    BY SufferedGrows DEF Spared
  <2>2. NoDbFailure
    BY DEF NoDbFailure, Spared
  <2> QED BY <2>1, <2>2, GiveUpStep
<1>2. Init => Cond
  BY GiveUpInit
<1>3. TypeInv /\ CountInv /\ Cond => NoEarlyGiveUp
  BY DEF GiveUpInv, NoEarlyGiveUp, OnlyGivenUpInTime
<1> HIDE DEF Cond
<1>4. Spec => [](TypeInv /\ CountInv /\ Cond)
  BY <1>1, <1>2, InitType, TypeStep, CountInit, CountStep, PTL DEF Spec
<1> QED BY <1>3, <1>4, PTL

-----------------------------------------------------------------------------
(* Custody *)

\* The failures after which nobody may be left to change a queued row are yet
\* to come after this step.
NoCustodyFailure ==
  \A f \in {"apiCrash", "publishLost", "dbError", "shutdown"} : f \notin suffered'

\* What QueuedHasOwner says while they are.
QueuedAreOwned ==
  \A m \in Msgs : status[m] = "queued" =>
    \/ sent[m] \in {"stored", "rejected"}
    \/ m \in ready
    \/ \E w \in Workers : m \in held[w]

\* The broker and the workers only have messages that Send has stored.
OnlyStored ==
  \A m \in Msgs :
    sent[m] = "none" =>
      /\ m \notin ready
      /\ \A w \in Workers :
           /\ m \notin held[w] /\ m # job[w]
           /\ \A i \in 1..Len(buf[w]) : m # buf[w][i]

\* No row is ever set back to "queued".
MarksAreFinal == \A w \in Workers : pc[w] = "mark" => mark[w] # "queued"

\* A message about to be acknowledged is no longer queued.
AckedIsMarked ==
  \A w \in Workers :
    \/ pc[w] = "tell"
    \/ pc[w] = "settle" /\ (result[w].ack \/ ~result[w].err)
    => status[job[w]] # "queued"

CustodyInv ==
  /\ NeverStopping /\ OnlyStored /\ MarksAreFinal /\ AckedIsMarked
  /\ QueuedAreOwned

LEMMA CustodyInit == Init => CustodyInv
  BY DEF Init, CustodyInv, NeverStopping, OnlyStored, MarksAreFinal,
         AckedIsMarked, QueuedAreOwned

LEMMA CustodyHandler ==
  ASSUME NoCustodyFailure, TypeInv, CustodyInv, NEW m \in Msgs, HandlerStep(m)
  PROVE  OnlyStored' /\ MarksAreFinal' /\ AckedIsMarked' /\ QueuedAreOwned'
<1> USE DEF CustodyInv, TypeInv, apiVars, rowVars, brokerVars, localVars,
            HandlerAt, HandlerGoes, Fault, NoCustodyFailure
<1>1. CASE InsertMessage(m)
  <2>1. /\ sent[m] = "none"
        /\ sent' = [sent EXCEPT ![m] = "stored"]
        /\ status' = [status EXCEPT ![m] = "queued"]
        /\ UNCHANGED <<ready, held, buf, pc, job, mark, result>>
    BY <1>1 DEF InsertMessage
  <2>2. OnlyStored' /\ MarksAreFinal'
    BY <2>1 DEF OnlyStored, MarksAreFinal, ApiTypes
  <2>3. \A w \in Workers : job[w] # m
    BY <2>1 DEF OnlyStored
  <2>4. AckedIsMarked'
    BY <2>1, <2>3 DEF AckedIsMarked, RowTypes
  <2>5. QueuedAreOwned'
    BY <2>1 DEF QueuedAreOwned, ApiTypes, RowTypes
  <2> QED BY <2>2, <2>4, <2>5
<1>2. CASE PublishMessage(m)
  <2>1. /\ sent[m] = "stored"
        /\ \/ sent' = [sent EXCEPT ![m] = "enqueued"] /\ ready' = ready \cup {m}
           \/ sent' = [sent EXCEPT ![m] = "rejected"] /\ UNCHANGED ready
        /\ UNCHANGED <<status, held, buf, pc, job, mark, result>>
    BY <1>2 DEF PublishMessage, BrokerPublish
  <2>2. OnlyStored'
    BY <2>1 DEF OnlyStored, ApiTypes
  <2>3. QueuedAreOwned'
    BY <2>1 DEF QueuedAreOwned, ApiTypes
  <2> QED BY <2>1, <2>2, <2>3 DEF MarksAreFinal, AckedIsMarked
<1>3. CASE RefuseMessage(m)
  <2>1. /\ sent[m] = "rejected"
        /\ sent' = [sent EXCEPT ![m] = "refused"]
        /\ status' = [status EXCEPT ![m] = "failed"]
        /\ UNCHANGED <<ready, held, buf, pc, job, mark, result>>
    BY <1>3 DEF RefuseMessage
  <2>2. OnlyStored' /\ MarksAreFinal'
    BY <2>1 DEF OnlyStored, MarksAreFinal, ApiTypes
  <2>3. AckedIsMarked'
    BY <2>1 DEF AckedIsMarked, RowTypes
  <2>4. QueuedAreOwned'
    BY <2>1 DEF QueuedAreOwned, ApiTypes, RowTypes
  <2> QED BY <2>2, <2>3, <2>4
<1>4. CASE AnnounceMessage(m)
  <2>1. /\ sent[m] = "enqueued"
        /\ sent' = [sent EXCEPT ![m] = "accepted"]
        /\ UNCHANGED <<status, ready, held, buf, pc, job, mark, result>>
    BY <1>4 DEF AnnounceMessage
  <2>2. OnlyStored' /\ QueuedAreOwned'
    BY <2>1 DEF OnlyStored, QueuedAreOwned, ApiTypes
  <2> QED BY <2>1, <2>2 DEF MarksAreFinal, AckedIsMarked
<1> QED BY <1>1, <1>2, <1>3, <1>4 DEF HandlerStep

LEMMA CustodyDispatch ==
  ASSUME TypeInv, CustodyInv, NEW m \in Msgs, Dispatch(m)
  PROVE  OnlyStored' /\ MarksAreFinal' /\ AckedIsMarked' /\ QueuedAreOwned'
<1> PICK w \in Workers : DispatchTo(w, m)
  BY DEF Dispatch
<1> USE DEF CustodyInv, TypeInv
<1>1. /\ m \in ready /\ ready' = ready \ {m}
      /\ held' = [held EXCEPT ![w] = @ \cup {m}]
      /\ buf' = [buf EXCEPT ![w] = Append(@, m)]
      /\ UNCHANGED <<sent, status, pc, job, mark, result>>
  BY DEF DispatchTo, apiVars, rowVars
<1>2. \A k \in Msgs, v \in Workers :
        sent[k] = "none" => \A i \in 1..Len(buf'[v]) : k # buf'[v][i]
  BY <1>1 DEF OnlyStored, LocalTypes
<1>3. OnlyStored'
  BY <1>1, <1>2 DEF OnlyStored, BrokerTypes
<1>4. QueuedAreOwned'
  BY <1>1 DEF QueuedAreOwned, BrokerTypes
<1> QED BY <1>1, <1>3, <1>4 DEF MarksAreFinal, AckedIsMarked

\* Steps inside Deliver that write no row.
LEMMA CustodyLocal ==
  ASSUME TypeInv, CustodyInv, NEW w \in Workers,
         UNCHANGED <<sent, status, ready, held, buf, job>>,
         \A v \in Workers \ {w} : /\ pc'[v] = pc[v] /\ mark'[v] = mark[v]
                                 /\ result'[v] = result[v],
         pc'[w] = "mark" => mark'[w] # "queued",
         pc'[w] # "tell",
         pc'[w] = "settle" /\ (result'[w].ack \/ ~result'[w].err)
           => pc[w] = "tell"
  PROVE  OnlyStored' /\ MarksAreFinal' /\ AckedIsMarked' /\ QueuedAreOwned'
<1> USE DEF CustodyInv
<1>1. OnlyStored' /\ QueuedAreOwned'
  BY DEF OnlyStored, QueuedAreOwned
<1>2. MarksAreFinal' /\ AckedIsMarked'
  BY DEF MarksAreFinal, AckedIsMarked
<1> QED BY <1>1, <1>2

LEMMA CustodyDeliver ==
  ASSUME NoCustodyFailure, TypeInv, CustodyInv, NEW w \in Workers,
         TakeDelivery(w) \/ DeliverStep(w)
  PROVE  OnlyStored' /\ MarksAreFinal' /\ AckedIsMarked' /\ QueuedAreOwned'
<1> USE DEF TypeInv, LocalTypes, At, Goto, Return, apiVars, rowVars, brokerVars
<1>0. ~CallFails(w, "dbError")
  BY DEF CallFails, Cancelled, Fault, CustodyInv, NeverStopping,
         NoCustodyFailure
<1>1. CASE TakeDelivery(w)
  <2>1. /\ buf[w] # <<>> /\ job' = [job EXCEPT ![w] = Head(buf[w])]
        /\ buf' = [buf EXCEPT ![w] = Tail(@)]
        /\ pc' = [pc EXCEPT ![w] = "load"]
        /\ UNCHANGED <<sent, status, ready, held, mark, result>>
    BY <1>1 DEF TakeDelivery
  <2>2. /\ Head(buf[w]) = buf[w][1] /\ 1 \in 1..Len(buf[w])
        /\ \A i \in 1..Len(Tail(buf[w])) :
             Tail(buf[w])[i] = buf[w][i + 1] /\ i + 1 \in 1..Len(buf[w])
    BY <2>1
  <2>3. OnlyStored'
    BY <2>1, <2>2 DEF CustodyInv, OnlyStored
  <2>4. MarksAreFinal' /\ AckedIsMarked'
    BY <2>1 DEF CustodyInv, MarksAreFinal, AckedIsMarked
  <2> QED BY <2>1, <2>3, <2>4 DEF CustodyInv, QueuedAreOwned
<1>2. CASE LoadRetryCount(w)
  BY <1>0, <1>2, CustodyLocal DEF LoadRetryCount
<1>3. CASE ResolveEndpoint(w)
  BY <1>0, <1>3, CustodyLocal DEF ResolveEndpoint, CallUpdateStatus
<1>4. CASE PostToBot(w)
  BY <1>4, CustodyLocal DEF PostToBot, CallUpdateStatus, AcceptedStatus
<1>5. CASE HandleFailure(w)
  BY <1>5, CustodyLocal DEF HandleFailure, CallUpdateStatus
<1>6. CASE Backoff(w)
  BY <1>6, CustodyLocal DEF Backoff
<1>7. CASE UpdateStatus(w)
  <2>1. /\ pc[w] = "mark" /\ pc' = [pc EXCEPT ![w] = "tell"]
        /\ status' = [status EXCEPT ![job[w]] = mark[w]]
        /\ UNCHANGED <<sent, ready, held, buf, job, mark, result>>
    BY <1>0, <1>7 DEF UpdateStatus
  <2>2. job[w] \in Msgs /\ mark[w] # "queued"
    BY <2>1 DEF Busy, CustodyInv, MarksAreFinal
  <2>3. OnlyStored' /\ MarksAreFinal'
    BY <2>1 DEF CustodyInv, OnlyStored, MarksAreFinal
  <2>4. AckedIsMarked'
    BY <2>1, <2>2 DEF CustodyInv, AckedIsMarked, RowTypes
  <2>5. QueuedAreOwned'
    BY <2>1, <2>2 DEF CustodyInv, QueuedAreOwned, RowTypes
  <2> QED BY <2>3, <2>4, <2>5
<1>8. CASE PublishStatus(w)
  BY <1>8, CustodyLocal DEF PublishStatus
<1>9. CASE Settle(w)
  <2>1. /\ pc[w] = "settle" /\ pc' = [pc EXCEPT ![w] = "idle"]
        /\ job' = [job EXCEPT ![w] = NoMsg]
        /\ \A v \in Workers \ {w} : /\ mark'[v] = mark[v]
                                    /\ result'[v] = result[v]
        /\ UNCHANGED <<sent, status, buf>>
    BY <1>9 DEF Settle, ForgetLocals
  <2>2. \/ UNCHANGED <<ready, held>>
        \/ /\ result[w].ack \/ ~result[w].err
           /\ held' = [held EXCEPT ![w] = @ \ {job[w]}] /\ UNCHANGED ready
        \/ /\ held' = [held EXCEPT ![w] = @ \ {job[w]}]
           /\ ready' = ready \cup {job[w]}
    BY <1>9 DEF Settle, BrokerAck, BrokerNack, RequeueOnNack
  <2>3. job[w] \in Msgs
    BY <2>1 DEF Busy
  <2>4. OnlyStored'
    BY <2>1, <2>2, <2>3 DEF CustodyInv, OnlyStored, BrokerTypes
  <2>5. MarksAreFinal' /\ AckedIsMarked'
    BY <2>1 DEF CustodyInv, MarksAreFinal, AckedIsMarked
  <2>6. QueuedAreOwned'
    <3>1. CASE status[job[w]] # "queued"
               /\ held' = [held EXCEPT ![w] = @ \ {job[w]}]
               /\ UNCHANGED ready
      BY <2>1, <2>3, <3>1 DEF CustodyInv, QueuedAreOwned, BrokerTypes
    <3>2. CASE held' = [held EXCEPT ![w] = @ \ {job[w]}]
               /\ ready' = ready \cup {job[w]}
      BY <2>1, <2>3, <3>2 DEF CustodyInv, QueuedAreOwned, BrokerTypes
    <3>3. CASE UNCHANGED <<ready, held>>
      BY <2>1, <3>3 DEF CustodyInv, QueuedAreOwned
    <3>4. result[w].ack \/ ~result[w].err => status[job[w]] # "queued"
      BY <2>1 DEF CustodyInv, AckedIsMarked
    <3> QED BY <2>2, <3>1, <3>2, <3>3, <3>4
  <2> QED BY <2>4, <2>5, <2>6
<1> QED BY <1>1, <1>2, <1>3, <1>4, <1>5, <1>6, <1>7, <1>8, <1>9
           DEF DeliverStep

LEMMA CustodyProcess ==
  ASSUME TypeInv, CustodyInv, NEW w \in Workers, ProcessStep(w)
  PROVE  OnlyStored' /\ MarksAreFinal' /\ AckedIsMarked' /\ QueuedAreOwned'
<1> USE DEF TypeInv, CustodyInv, apiVars, rowVars, brokerVars, localVars,
            BrokerDrop
<1>1. CASE ProcessEnds(w) /\ UNCHANGED <<sent, status>>
  <2>1. /\ pc' = [pc EXCEPT ![w] = "idle"]
        /\ job' = [job EXCEPT ![w] = NoMsg] /\ buf' = [buf EXCEPT ![w] = <<>>]
        /\ \A v \in Workers \ {w} : /\ mark'[v] = mark[v]
                                    /\ result'[v] = result[v]
        /\ ready' = ready \cup held[w] /\ held' = [held EXCEPT ![w] = {}]
    BY <1>1 DEF ProcessEnds, ForgetLocals, Goto, LocalTypes
  <2>2. OnlyStored'
    BY <1>1, <2>1 DEF OnlyStored, BrokerTypes, LocalTypes
  <2>3. MarksAreFinal' /\ AckedIsMarked'
    BY <1>1, <2>1 DEF MarksAreFinal, AckedIsMarked, LocalTypes
  <2>4. QueuedAreOwned'
    BY <1>1, <2>1 DEF QueuedAreOwned, BrokerTypes
  <2> QED BY <2>2, <2>3, <2>4
<1>2. CASE LoseLink(w)
  <2>1. /\ ready' = ready \cup held[w] /\ held' = [held EXCEPT ![w] = {}]
        /\ UNCHANGED <<sent, status, buf, pc, job, mark, result>>
    BY <1>2 DEF LoseLink
  <2>2. OnlyStored'
    BY <2>1 DEF OnlyStored, BrokerTypes
  <2>3. QueuedAreOwned'
    BY <2>1 DEF QueuedAreOwned, BrokerTypes
  <2> QED BY <2>1, <2>2, <2>3 DEF MarksAreFinal, AckedIsMarked
<1>3. CASE Shutdown(w) \/ StartWorker(w)
  BY <1>3 DEF Shutdown, StartWorker, OnlyStored, MarksAreFinal, AckedIsMarked,
              QueuedAreOwned
<1> QED BY <1>1, <1>2, <1>3 DEF ProcessStep, Exit, CrashWorker

LEMMA CustodyStep ==
  ASSUME NoCustodyFailure, TypeInv, CustodyInv, [Next]_vars
  PROVE  CustodyInv'
<1>1. NeverStopping'
  BY NeverStoppingStep DEF CustodyInv, NoCustodyFailure
<1>2. CASE UNCHANGED vars
  BY <1>1, <1>2
     DEF vars, apiVars, rowVars, brokerVars, localVars, CustodyInv, OnlyStored,
         MarksAreFinal, AckedIsMarked, QueuedAreOwned
<1>3. CASE Next
  <2>1. ~CrashApi
    BY DEF CrashApi, Fault, NoCustodyFailure
  <2> QED BY <1>1, <1>3, <2>1, CustodyHandler, CustodyDispatch, CustodyDeliver,
             CustodyProcess DEF Next, CustodyInv
<1> QED BY <1>2, <1>3

\* Until one of the failures named above happens, no row is left "queued" with
\* nobody to change it: not by a crash, a lost channel, a requeue or a late
\* answer.
THEOREM CustodyCorrect == Spec => []QueuedHasOwner
<1> DEFINE Cond ==
      Spared({"apiCrash", "publishLost", "dbError", "shutdown"}) => CustodyInv
<1>1. TypeInv /\ Cond /\ [Next]_vars => Cond'
  <2> SUFFICES ASSUME TypeInv, Cond, [Next]_vars,
                Spared({"apiCrash", "publishLost", "dbError", "shutdown"})'
               PROVE  CustodyInv'
    OBVIOUS
  <2>1. Spared({"apiCrash", "publishLost", "dbError", "shutdown"})
    BY SufferedGrows DEF Spared
  <2>2. NoCustodyFailure
    BY DEF NoCustodyFailure, Spared
  <2> QED BY <2>1, <2>2, CustodyStep
<1>2. Init => Cond
  BY CustodyInit
<1>3. TypeInv /\ Cond => QueuedHasOwner
  BY DEF CustodyInv, QueuedHasOwner, QueuedAreOwned
<1> HIDE DEF Cond
<1>4. Spec => [](TypeInv /\ Cond)
  BY <1>1, <1>2, InitType, TypeStep, PTL DEF Spec
<1> QED BY <1>3, <1>4, PTL
=============================================================================
