------------------------- MODULE DeliveryRefinement -------------------------
(***************************************************************************)
(* Delivery implements Lifecycle: every step of the handlers, the broker   *)
(* and the workers is a step of the promise about one message, or changes  *)
(* nothing of it.                                                          *)
(***************************************************************************)
EXTENDS DeliveryCopies

USE ConstantsAssumption

\* A message has a row once its handler has stored it, and the row says
\* "queued" until the message is handed over or refused.
RowsFollowHandlers ==
  \A m \in Msgs :
    /\ status[m] = "none" <=> sent[m] = "none"
    /\ sent[m] \in {"stored", "rejected"} => status[m] = "queued"

\* What a worker is about to write, or to tell, has a reason.  That of a worker
\* whose context is cancelled has none: its UPDATE and its events fail.
Marking == {"mark", "tell"}
MarksHaveReasons ==
  \A w \in Workers : pc[w] \in Marking =>
    /\ mark[w] \in {"delivered", "client_delivered", "failed"}
    /\ mark[w] = "delivered" => accepted[job[w]] > 0
    /\ mark[w] = "failed" => \/ attempts[job[w]] >= MaxRetries
                             \/ "dbError" \in suffered
                             \/ Cancelled(w)

ReasonInv == RowsFollowHandlers /\ MarksHaveReasons

LEMMA ReasonInit == Init => ReasonInv
  BY DEF Init, ReasonInv, RowsFollowHandlers, MarksHaveReasons, Marking

\* Steps of one worker, or of none, that call updateStatus for no worker.
LEMMA MarksKept ==
  ASSUME TypeInv, MarksHaveReasons, suffered \subseteq suffered',
         UNCHANGED botVars,
         \A v \in Workers : pc'[v] \in Marking =>
           /\ pc[v] \in Marking /\ job'[v] = job[v] /\ mark'[v] = mark[v]
           /\ life[v] = "stopping" => life'[v] = "stopping"
  PROVE  MarksHaveReasons'
  BY DEF MarksHaveReasons, Cancelled, botVars

\* What Lifecycle sees of a step that writes no row, tells nobody, calls no bot
\* and refuses nobody.
LEMMA MishapStays ==
  ASSUME suffered \subseteq suffered'
  PROVE  ("dbError" \in suffered') \in {"dbError" \in suffered, TRUE}
<1>1. CASE "dbError" \in suffered
  <2>1. ("dbError" \in suffered') = TRUE
    BY <1>1
  <2> QED BY <2>1
<1>2. CASE "dbError" \notin suffered /\ "dbError" \in suffered'
  <2>1. ("dbError" \in suffered') = TRUE
    BY <1>2
  <2> QED BY <2>1
<1>3. CASE "dbError" \notin suffered /\ "dbError" \notin suffered'
  <2>1. ("dbError" \in suffered) = FALSE /\ ("dbError" \in suffered') = FALSE
    BY <1>3
  <2> QED BY <2>1
<1> QED BY <1>1, <1>2, <1>3

LEMMA Silent ==
  ASSUME suffered \subseteq suffered', UNCHANGED <<status, pushed, attempts, accepted>>,
         \A m \in Msgs : sent'[m] = "refused" <=> sent[m] = "refused"
  PROVE  Promise!Next
  BY MishapStays DEF Promise!Next

\* A step that is a step of Lifecycle about m.
LEMMA Visible ==
  ASSUME suffered \subseteq suffered', NEW m \in Msgs, Promise!MessageStep(m)
  PROVE  Promise!Next
  BY MishapStays DEF Promise!Next

LEMMA HandlerRefines ==
  ASSUME TypeInv, CopyInv, ReasonInv, suffered \subseteq suffered',
         NEW m \in Msgs, HandlerStep(m)
  PROVE  ReasonInv' /\ Promise!Next
<1> USE DEF TypeInv, ApiTypes, RowTypes, HandlerAt, HandlerGoes, botVars,
            localVars, procVars, feedVars
<1>1. MarksHaveReasons'
  BY MarksKept DEF ReasonInv, HandlerStep, InsertMessage, PublishMessage,
                   RefuseMessage, AnnounceMessage
<1>2. CASE InsertMessage(m)
  <2>1. /\ sent[m] = "none" /\ status' = [status EXCEPT ![m] = "queued"]
        /\ \E s \in {"stored", "gone"} : sent' = [sent EXCEPT ![m] = s]
        /\ UNCHANGED <<pushed, attempts, accepted>>
    BY <1>2 DEF InsertMessage
  <2>2. RowsFollowHandlers'
    BY <2>1 DEF ReasonInv, RowsFollowHandlers
  <2>3. {k \in Msgs : sent'[k] = "refused"} = {k \in Msgs : sent[k] = "refused"}
    BY <2>1
  <2>4. Promise!Create(m)
    BY <2>1, <2>3 DEF Promise!Create, Promise!Show, ReasonInv, RowsFollowHandlers
  <2> QED BY <1>1, <2>2, <2>4, Visible DEF ReasonInv, Promise!MessageStep
<1>3. CASE PublishMessage(m)
  <2>1. /\ sent[m] = "stored" /\ UNCHANGED <<status, pushed, attempts, accepted>>
        /\ \E s \in {"enqueued", "rejected"} : sent' = [sent EXCEPT ![m] = s]
    BY <1>3 DEF PublishMessage, rowVars
  <2>2. RowsFollowHandlers'
    BY <2>1 DEF ReasonInv, RowsFollowHandlers
  <2>3. Promise!Next
    BY <2>1, Silent
  <2> QED BY <1>1, <2>2, <2>3 DEF ReasonInv
<1>5. CASE AnnounceMessage(m)
  <2>1. /\ sent[m] = "enqueued" /\ sent' = [sent EXCEPT ![m] = "accepted"]
        /\ UNCHANGED <<status, attempts, accepted>>
        /\ \/ pushed' = [pushed EXCEPT ![m] = "queued"]
           \/ UNCHANGED pushed
    BY <1>5 DEF AnnounceMessage, rowVars
  <2>2. RowsFollowHandlers'
    BY <2>1 DEF ReasonInv, RowsFollowHandlers
  <2>3. CASE UNCHANGED pushed
    BY <1>1, <2>1, <2>2, <2>3, Silent DEF ReasonInv
  <2>4. CASE pushed' = [pushed EXCEPT ![m] = "queued"]
    <3>1. Promise!Live(m)
      BY <2>1 DEF Promise!Live, ReasonInv, RowsFollowHandlers
    <3>2. {k \in Msgs : sent'[k] = "refused"} = {k \in Msgs : sent[k] = "refused"}
      BY <2>1
    <3>3. Promise!Tell(m)
      BY <2>1, <2>4, <3>1, <3>2 DEF Promise!Tell
    <3> QED BY <1>1, <2>2, <3>3, Visible DEF ReasonInv, Promise!MessageStep
  <2> QED BY <2>1, <2>3, <2>4
<1>4. CASE RefuseMessage(m)
  <2>1. /\ sent[m] = "rejected" /\ sent' = [sent EXCEPT ![m] = "refused"]
        /\ UNCHANGED <<pushed, attempts, accepted>>
        /\ \/ status' = [status EXCEPT ![m] = "failed"]
           \/ "dbError" \in suffered' /\ UNCHANGED status
    BY <1>4 DEF RefuseMessage, Fault
  <2>2. status[m] = "queued" /\ attempts[m] = 0
    BY <2>1 DEF ReasonInv, RowsFollowHandlers, CopyInv, OnlySent, Unsent
  <2>3. RowsFollowHandlers'
    BY <2>1, <2>2 DEF ReasonInv, RowsFollowHandlers
  <2>4. {k \in Msgs : sent'[k] = "refused"} = {k \in Msgs : sent[k] = "refused"} \cup {m}
    BY <2>1
  <2>5. Promise!Refuse(m)
    BY <2>1, <2>2, <2>4 DEF Promise!Refuse, Promise!Show
  <2> QED BY <1>1, <2>3, <2>5, Visible DEF ReasonInv, Promise!MessageStep
<1> QED BY <1>2, <1>3, <1>4, <1>5 DEF HandlerStep

\* A worker has only messages whose row exists and whose sender was not refused.
LEMMA JobIsLive ==
  ASSUME TypeInv, CopyInv, ReasonInv, NEW w \in Workers, pc[w] # "idle"
  PROVE  /\ job[w] \in Msgs /\ sent[job[w]] \notin Unsent
         /\ Promise!Live(job[w])
<1>1. job[w] \in Msgs
  BY DEF TypeInv, Busy
<1>2. sent[job[w]] \notin Unsent
  BY <1>1 DEF CopyInv, OnlySent
<1>3. status[job[w]] # "none" /\ sent[job[w]] # "refused"
  BY <1>1, <1>2 DEF ReasonInv, RowsFollowHandlers, Unsent
<1> QED BY <1>1, <1>2, <1>3 DEF Promise!Live

LEMMA PostRefines ==
  ASSUME TypeInv, CopyInv, ReasonInv, suffered \subseteq suffered',
         NEW w \in Workers, PostToBot(w)
  PROVE  ReasonInv' /\ Promise!Next
<1> DEFINE m == job[w]
<1>1. /\ pc[w] = "post" /\ m \in Msgs /\ Promise!Live(m)
      /\ attempts' = [attempts EXCEPT ![m] = Bump(@)]
      /\ UNCHANGED <<sent, status, pushed, job, life>>
      /\ \/ /\ accepted' = [accepted EXCEPT ![m] = Bump(@)]
            /\ pc' = [pc EXCEPT ![w] = "mark"]
            /\ mark' = [mark EXCEPT ![w] = "delivered"]
         \/ /\ accepted' \in {accepted, [accepted EXCEPT ![m] = Bump(@)]}
            /\ pc' = [pc EXCEPT ![w] = "count"]
            /\ UNCHANGED mark
  BY JobIsLive DEF PostToBot, At, Goto, CallUpdateStatus, AcceptedStatus, apiVars,
                   rowVars, procVars, feedVars
<1>2. \A k \in Msgs : /\ attempts[k] \in Nat /\ attempts'[k] \in Nat
                      /\ attempts'[k] >= attempts[k]
                      /\ accepted[k] \in Nat /\ accepted'[k] \in Nat
                      /\ accepted'[k] >= accepted[k]
  BY <1>1, BumpType DEF TypeInv, BotTypes, Bump
<1>3. accepted' = [accepted EXCEPT ![m] = Bump(@)] => accepted'[m] > 0
  BY <1>1 DEF TypeInv, BotTypes, Bump
<1>4. MarksHaveReasons'
  <2> SUFFICES ASSUME NEW v \in Workers, pc'[v] \in Marking
               PROVE  /\ mark'[v] \in {"delivered", "client_delivered", "failed"}
                      /\ mark'[v] = "delivered" => accepted'[job[v]] > 0
                      /\ mark'[v] = "failed" => \/ attempts'[job[v]] >= MaxRetries
                                                \/ "dbError" \in suffered'
                                                \/ life[v] = "stopping"
    BY <1>1 DEF MarksHaveReasons, Cancelled
  <2>1. CASE v = w
    <3>1. accepted'[m] > 0 /\ mark'[w] = "delivered"
      BY <1>1, <1>3, <2>1 DEF TypeInv, LocalTypes, Marking
    <3> QED BY <2>1, <3>1
  <2>2. CASE v # w
    <3>1. pc[v] \in Marking /\ mark'[v] = mark[v] /\ job[v] \in Msgs
      BY <1>1, <2>2 DEF TypeInv, LocalTypes, Busy, Marking
    <3>2. /\ mark[v] \in {"delivered", "client_delivered", "failed"}
          /\ mark[v] = "delivered" => accepted[job[v]] > 0
          /\ mark[v] = "failed" => \/ attempts[job[v]] >= MaxRetries
                                   \/ "dbError" \in suffered
                                   \/ life[v] = "stopping"
      BY <3>1 DEF ReasonInv, MarksHaveReasons, Cancelled
    <3>3. /\ accepted[job[v]] > 0 => accepted'[job[v]] > 0
          /\ attempts[job[v]] >= MaxRetries => attempts'[job[v]] >= MaxRetries
      BY <1>2, <3>1
    <3> QED BY <3>1, <3>2, <3>3
  <2> QED BY <2>1, <2>2
<1>5. RowsFollowHandlers'
  BY <1>1 DEF ReasonInv, RowsFollowHandlers
<1>6. Promise!Try(m)
  BY <1>1 DEF Promise!Try, Promise!More, Bump
<1> QED BY <1>1, <1>4, <1>5, <1>6, Visible DEF ReasonInv, Promise!MessageStep

LEMMA UpdateRefines ==
  ASSUME TypeInv, CopyInv, ReasonInv, suffered \subseteq suffered',
         NEW w \in Workers, UpdateStatus(w)
  PROVE  ReasonInv' /\ Promise!Next
<1> DEFINE m == job[w]
<1>1. /\ pc[w] = "mark" /\ m \in Msgs /\ sent[m] \notin Unsent /\ Promise!Live(m)
      /\ UNCHANGED <<sent, pushed, attempts, accepted, job, mark, life>>
      /\ pc' = [pc EXCEPT ![w] = "tell"]
      /\ \/ /\ life[w] # "stopping" /\ UNCHANGED suffered
            /\ status' = [status EXCEPT ![m] = mark[w]]
         \/ UNCHANGED status
  BY JobIsLive DEF UpdateStatus, At, Goto, CallWorks, Cancelled, NoFault, faultVars,
                   apiVars, procVars, botVars, feedVars
<1>2. MarksHaveReasons'
  BY <1>1, MarksKept DEF ReasonInv, TypeInv, LocalTypes, botVars, Marking
<1>3. CASE UNCHANGED status
  <2>1. RowsFollowHandlers'
    BY <1>1, <1>3 DEF ReasonInv, RowsFollowHandlers
  <2> QED BY <1>1, <1>2, <1>3, <2>1, Silent DEF ReasonInv
<1>4. CASE /\ life[w] # "stopping" /\ UNCHANGED suffered
           /\ status' = [status EXCEPT ![m] = mark[w]]
  <2>1. /\ mark[w] \in {"delivered", "client_delivered", "failed"}
        /\ mark[w] = "delivered" => accepted[m] > 0
        /\ mark[w] = "failed" => attempts[m] >= MaxRetries \/ "dbError" \in suffered
    BY <1>1, <1>4 DEF ReasonInv, MarksHaveReasons, Cancelled, Marking
  <2>2. RowsFollowHandlers'
    BY <1>1, <1>4, <2>1 DEF ReasonInv, RowsFollowHandlers, Unsent, TypeInv, RowTypes
  <2>3. Promise!Conclude(m)
    BY <1>1, <1>4, <2>1 DEF Promise!Conclude, Promise!Founded, Promise!Show
  <2> QED BY <1>1, <1>2, <2>2, <2>3, Visible DEF ReasonInv, Promise!MessageStep
<1> QED BY <1>1, <1>3, <1>4

LEMMA TellRefines ==
  ASSUME TypeInv, CopyInv, ReasonInv, suffered \subseteq suffered',
         NEW w \in Workers, PublishStatus(w)
  PROVE  ReasonInv' /\ Promise!Next
<1> DEFINE m == job[w]
<1>1. /\ pc[w] = "tell" /\ m \in Msgs /\ Promise!Live(m)
      /\ UNCHANGED <<sent, status, attempts, accepted, job, mark, life>>
      /\ pc' = [pc EXCEPT ![w] = "settle"]
      /\ \/ /\ life[w] # "stopping" /\ UNCHANGED suffered
            /\ pushed' = [pushed EXCEPT ![m] = mark[w]]
         \/ UNCHANGED pushed
  BY JobIsLive DEF PublishStatus, At, Goto, CallWorks, Cancelled, NoFault, faultVars,
                   apiVars, rowVars, procVars, botVars, feedVars
<1>2. MarksHaveReasons'
  BY <1>1, MarksKept DEF ReasonInv, TypeInv, LocalTypes, botVars, Marking
<1>3. RowsFollowHandlers'
  BY <1>1 DEF ReasonInv, RowsFollowHandlers
<1>4. CASE UNCHANGED pushed
  BY <1>1, <1>2, <1>3, <1>4, Silent DEF ReasonInv
<1>5. CASE /\ life[w] # "stopping" /\ UNCHANGED suffered
           /\ pushed' = [pushed EXCEPT ![m] = mark[w]]
  <2>1. /\ mark[w] \in {"delivered", "client_delivered", "failed"}
        /\ mark[w] = "delivered" => accepted[m] > 0
        /\ mark[w] = "failed" => attempts[m] >= MaxRetries \/ "dbError" \in suffered
    BY <1>1, <1>5 DEF ReasonInv, MarksHaveReasons, Cancelled, Marking
  <2>2. Promise!Tell(m)
    BY <1>1, <1>5, <2>1 DEF Promise!Tell, Promise!Founded
  <2> QED BY <1>1, <1>2, <1>3, <2>2, Visible DEF ReasonInv, Promise!MessageStep
<1> QED BY <1>1, <1>4, <1>5

\* The other statements of a worker change nothing that Lifecycle sees.
LEMMA WorkerRefines ==
  ASSUME TypeInv, CountInv, CopyInv, ReasonInv, suffered \subseteq suffered',
         NEW w \in Workers, TakeDelivery(w) \/ DeliverStep(w) \/ ProcessStep(w)
  PROVE  ReasonInv' /\ Promise!Next
<1> USE DEF apiVars, rowVars, procVars, localVars, botVars, feedVars, At, Goto,
            TypeInv, LocalTypes, ProcTypes, Marking
<1>1. CASE PostToBot(w) \/ UpdateStatus(w) \/ PublishStatus(w)
  BY <1>1, PostRefines, UpdateRefines, TellRefines
<1>2. CASE ~PostToBot(w) /\ ~UpdateStatus(w) /\ ~PublishStatus(w)
  <2>1. UNCHANGED <<sent, status, pushed, attempts, accepted>>
    BY <1>2 DEF TakeDelivery, DeliverStep, LoadRetryCount, ResolveEndpoint,
                HandleFailure, Backoff, Settle, ProcessStep, Exit, CrashWorker, LoseLink,
                Shutdown, StartWorker
  <2>2. Promise!Next /\ RowsFollowHandlers'
    BY <2>1, Silent DEF ReasonInv, RowsFollowHandlers
  <2>3. CASE TakeDelivery(w) \/ LoadRetryCount(w) \/ Backoff(w)
    BY <2>1, <2>2, <2>3, MarksKept
       DEF TakeDelivery, LoadRetryCount, Backoff, ReasonInv
  <2>4. CASE Settle(w) \/ Exit(w) \/ CrashWorker(w)
    <3>1. /\ pc'[w] \notin Marking
          /\ \A v \in Workers \ {w} : /\ pc'[v] = pc[v] /\ job'[v] = job[v]
                                      /\ mark'[v] = mark[v] /\ life'[v] = life[v]
      BY <2>4 DEF Settle, Exit, CrashWorker, ProcessEnds, ForgetLocals
    <3> QED BY <2>1, <2>2, <3>1, MarksKept DEF ReasonInv
  <2>5. CASE LoseLink(w) \/ Shutdown(w) \/ StartWorker(w)
    <3>1. UNCHANGED <<pc, job, mark>>
      BY <2>5 DEF LoseLink, Shutdown, StartWorker
    <3>2. pc[w] \in Marking => ~StartWorker(w)
      BY DEF StartWorker, CopyInv, Custody, Busy
    <3>3. \A v \in Workers : pc[v] \in Marking /\ life[v] = "stopping" => life'[v] = "stopping"
      BY <2>5, <3>2 DEF LoseLink, Shutdown, StartWorker
    <3> QED BY <2>1, <2>2, <3>1, <3>3, MarksKept DEF ReasonInv
  <2>6. CASE ResolveEndpoint(w) \/ HandleFailure(w)
    <3>1. /\ UNCHANGED <<job, life>>
          /\ \A v \in Workers \ {w} : pc'[v] = pc[v] /\ mark'[v] = mark[v]
      BY <2>6 DEF ResolveEndpoint, HandleFailure, CallUpdateStatus
    <3>2. CASE ResolveEndpoint(w)
      <4>1. pc'[w] \in Marking =>
              \/ mark'[w] = "client_delivered"
              \/ mark'[w] = "failed" /\ ("dbError" \in suffered' \/ life[w] = "stopping")
        BY <3>2 DEF ResolveEndpoint, CallUpdateStatus, CallFails, Cancelled, Fault
      <4> QED BY <2>1, <2>2, <3>1, <4>1 DEF ReasonInv, MarksHaveReasons, Cancelled
    <3>3. CASE HandleFailure(w)
      <4>1. /\ pc[w] = "count"
            /\ pc'[w] \in Marking => mark'[w] = "failed" /\ Bump(count[w]) >= MaxRetries
        BY <3>3 DEF HandleFailure, CallUpdateStatus, NextRetry, Exhausted
      <4>2. pc'[w] \in Marking => mark'[w] = "failed" /\ attempts[job[w]] >= MaxRetries
        <5>1. /\ Bump(count[w]) <= attempts[job[w]]
              /\ Bump(count[w]) \in Nat /\ attempts[job[w]] \in Nat
          BY <4>1, BumpType DEF CountInv, CountsCovered, Busy, BotTypes
        <5> QED BY <4>1, <5>1
      <4> QED BY <2>1, <2>2, <3>1, <4>2 DEF ReasonInv, MarksHaveReasons, Cancelled
    <3> QED BY <2>6, <3>2, <3>3
  <2> QED BY <1>2, <2>3, <2>4, <2>5, <2>6 DEF DeliverStep, ProcessStep
<1> QED BY <1>1, <1>2

LEMMA ReasonStep ==
  TypeInv /\ CountInv /\ CopyInv /\ ReasonInv /\ [Next]_vars
    => ReasonInv' /\ Promise!Next
<1> SUFFICES ASSUME TypeInv, CountInv, CopyInv, ReasonInv, [Next]_vars
             PROVE  ReasonInv' /\ Promise!Next
  OBVIOUS
<1>0. suffered \subseteq suffered'
  BY SufferedGrows
<1>1. ASSUME UNCHANGED <<status, pushed, botVars, localVars, procVars>>,
             \A m \in Msgs : \/ sent'[m] = sent[m]
                             \/ sent[m] # "none" /\ sent'[m] = "gone" /\ sent[m] # "refused"
      PROVE  ReasonInv' /\ Promise!Next
  <2>1. MarksHaveReasons'
    BY <1>0, <1>1, MarksKept DEF ReasonInv, localVars, procVars
  <2>2. RowsFollowHandlers'
    BY <1>1 DEF ReasonInv, RowsFollowHandlers
  <2>3. Promise!Next
    BY <1>0, <1>1, Silent DEF botVars
  <2> QED BY <2>1, <2>2, <2>3 DEF ReasonInv
<1>2. CASE UNCHANGED vars
  BY <1>1, <1>2 DEF vars, apiVars, rowVars, feedVars
<1>3. CASE CrashApi
  BY <1>1, <1>3 DEF CrashApi, rowVars, feedVars
<1>4. ASSUME NEW m \in Msgs, Dispatch(m)
      PROVE  ReasonInv' /\ Promise!Next
  <2>1. UNCHANGED <<sent, status, pushed, attempts, accepted, pc, job, mark, life>>
    BY <1>4 DEF Dispatch, DispatchTo, apiVars, rowVars, procVars, botVars, feedVars
  <2>2. MarksHaveReasons'
    BY <1>0, <2>1, MarksKept DEF ReasonInv, botVars
  <2> QED BY <1>0, <2>1, <2>2, Silent DEF ReasonInv, RowsFollowHandlers
<1> QED BY <1>0, <1>2, <1>3, <1>4, HandlerRefines, WorkerRefines DEF Next

\* The rows, the feeds, the bots and the refusals see no more than Lifecycle
\* allows, for any number of messages and workers, whatever fails and in whatever
\* order the calls of several workers on one message interleave.  In particular
\* an event never says that a message was delivered, or has failed, without the
\* reason a row needs to say so, although it is published whether or not the
\* UPDATE went through.  (deliverer.go:56, 219)
THEOREM Refinement == Spec => ImplementsLifecycle
<1>1. Init => Promise!Init
  <2> SUFFICES ASSUME Init PROVE Promise!Init
    OBVIOUS
  <2>1. {m \in Msgs : sent[m] = "refused"} = {}
    BY DEF Init
  <2>2. ("dbError" \in suffered) = FALSE
    BY DEF Init
  <2> QED BY <2>1, <2>2 DEF Init, Promise!Init
<1>2. Spec => [](TypeInv /\ CountInv /\ CopyInv /\ ReasonInv)
  BY InitType, TypeStep, CountInit, CountStep, CopyInit, CopyStep, ReasonInit,
     ReasonStep, PTL DEF Spec
<1>3. TypeInv /\ CountInv /\ CopyInv /\ ReasonInv /\ [Next]_vars
        => [Promise!Next]_Promise!vars
  BY ReasonStep
<1> QED BY <1>1, <1>2, <1>3, PTL DEF Spec, ImplementsLifecycle, Promise!Spec
=============================================================================
