------------------------------ MODULE Delivery ------------------------------
(***************************************************************************)
(* The path of a message from POST /messages to the recipient's bot.       *)
(*                                                                         *)
(*   Send handler  --INSERT-->  messages row   (PostgreSQL)                *)
(*                 --publish->  messages.deliver  (RabbitMQ)  --> Consumer *)
(*                 --new_message--> feeds (Redis)                          *)
(*   Consumer/Deliverer: read retry_count, resolve the endpoint, POST,     *)
(*                 UPDATE the row, push status_update, Ack or Nack.        *)
(*                                                                         *)
(* One message is one call of Send.  A handler of the API and every worker *)
(* process move one statement that touches shared state at a time, so all  *)
(* interleavings of those statements are behaviours.  A failure is a step  *)
(* of its own kind that spends one unit of `budget'.                       *)
(***************************************************************************)
EXTENDS Naturals, Sequences, FiniteSets

CONSTANTS
  Msgs,            \* messages: the calls of Send that pass its checks
  NoMsg,           \* no delivery in hand
  Workers,         \* delivery worker processes
  Bodies,          \* what Send puts in a queue message, see Body
  RecipientKinds,  \* what resolveBotEndpoint may find for a recipient
  MaxRetries,      \* maxRetries
  Prefetch,        \* the prefetch count of channel.Qos
  RetryCap,        \* bound: counters saturate here, MaxRetries or above
  Faults,          \* the kinds of failure this instance suffers
  MaxFaults        \* bound: how many failures a behaviour may contain

\* What the code tells apart in a queue message: the human_override flag fixed
\* by Send and whether the intent is the terminal "reply".
Body == [override : BOOLEAN, reply : BOOLEAN]

FaultKinds ==
  { "apiCrash",      \* the API process dies with handlers in flight
    "publishError",  \* rmq.Publish returns an error, nothing is enqueued
    "publishLost",   \* rmq.Publish returns nil, the broker never has it
    "dbError",       \* a statement on PostgreSQL fails
    "redisError",    \* a publication on Redis fails
    "lateAnswer",    \* the bot takes the message, the worker sees an error
    "crash",         \* a worker process dies
    "linkLoss",      \* a worker's AMQP channel closes under it
    "shutdown" }     \* SIGINT or SIGTERM: the worker's context is cancelled

ASSUME ConstantsAssumption ==
  /\ NoMsg \notin Msgs
  /\ Bodies \subseteq Body
  /\ RecipientKinds \subseteq {"bot", "regular"}
  /\ MaxRetries \in Nat \ {0}
  /\ Prefetch \in Nat \ {0}
  /\ RetryCap \in Nat /\ MaxRetries <= RetryCap
  /\ Faults \subseteq FaultKinds
  /\ MaxFaults \in Nat

VARIABLES
  \* The Send handlers, and the queue message each of them builds.
  sent,       \* sent[m]: how far the handler of m is
  body,       \* body[m] \in Bodies
  \* The messages table.
  status,     \* status[m], "none" before the row exists
  retry,      \* retry[m]: retry_count
  \* RabbitMQ.
  ready,      \* messages waiting in messages.deliver
  ahead,      \* ahead[m]: the messages published before m
  held,       \* held[w]: sent to w's channel and not acknowledged
  acked,      \* messages acknowledged, gone from the broker
  dead,       \* messages in messages.dead
  \* The workers.
  life,       \* life[w]: "running", "stopping" (context cancelled), "down"
  link,       \* link[w]: w's AMQP channel is open
  buf,        \* buf[w]: deliveries in the client's channel, oldest first
  pc,         \* pc[w]: the next statement of w's loop
  job,        \* job[w]: the delivery being handled
  count,      \* count[w]: the local retryCount
  mark,       \* mark[w]: the status updateStatus was called with
  result,     \* result[w]: what Deliver returns, (shouldAck, err # nil)
  \* The feeds: what has been published for m.
  announced,  \* announced[m]: the new_message event, "last" if it came after
              \* a status_update and none has come after it
  pushed,     \* pushed[m]: the status in the last event of either kind
  \* Ghosts, read by no action: how often the bot was tried, a request that
  \* cannot be built included, and how often it accepted.
  attempts,
  accepted,
  budget,     \* failures left
  suffered    \* ghost: the kinds of failure there have been

apiVars    == <<sent, body>>
rowVars    == <<status, retry>>
brokerVars == <<ready, ahead, held, acked, dead>>
procVars   == <<life, link>>
localVars  == <<buf, pc, job, count, mark, result>>
feedVars   == <<announced, pushed>>
botVars    == <<attempts, accepted>>
faultVars  == <<budget, suffered>>
vars == <<apiVars, rowVars, brokerVars, procVars, localVars, feedVars,
          botVars, faultVars>>

HandlerStates == {"none", "stored", "rejected", "enqueued", "refused",
                  "accepted", "gone"}
\* The CHECK of the messages table; nothing in this repository sets "processed".
RowStatus == {"queued", "delivered", "client_delivered", "processed", "failed"}
Steps == {"idle", "load", "resolve", "post", "count", "mark", "tell",
          "sleep", "settle"}

ApiTypes ==
  /\ sent \in [Msgs -> HandlerStates]
  /\ body \in [Msgs -> Body]
RowTypes ==
  /\ status \in [Msgs -> RowStatus \cup {"none"}]
  /\ retry \in [Msgs -> 0..RetryCap]
BrokerTypes ==
  /\ ready \subseteq Msgs /\ acked \subseteq Msgs /\ dead \subseteq Msgs
  /\ ahead \in [Msgs -> SUBSET Msgs]
  /\ held \in [Workers -> SUBSET Msgs]
ProcTypes ==
  /\ life \in [Workers -> {"running", "stopping", "down"}]
  /\ link \in [Workers -> BOOLEAN]
LocalTypes ==
  /\ buf \in [Workers -> Seq(Msgs)]
  /\ pc \in [Workers -> Steps]
  /\ job \in [Workers -> Msgs \cup {NoMsg}]
  /\ count \in [Workers -> 0..RetryCap]
  /\ mark \in [Workers -> RowStatus \cup {"none"}]
  /\ result \in [Workers -> [ack : BOOLEAN, err : BOOLEAN]]
FeedTypes ==
  /\ announced \in [Msgs -> {"no", "yes", "last"}]
  /\ pushed \in [Msgs -> RowStatus \cup {"none"}]
BotTypes ==
  /\ attempts \in [Msgs -> 0..RetryCap]
  /\ accepted \in [Msgs -> 0..RetryCap]

TypeOK ==
  /\ ApiTypes /\ RowTypes /\ BrokerTypes /\ ProcTypes /\ LocalTypes
  /\ FeedTypes /\ BotTypes
  /\ budget \in 0..MaxFaults
  /\ suffered \subseteq Faults

NoBody   == [override |-> FALSE, reply |-> FALSE]
NoResult == [ack |-> FALSE, err |-> FALSE]

\* No message yet; the worker processes have connected and run Start.
Init ==
  /\ sent = [m \in Msgs |-> "none"]
  /\ body = [m \in Msgs |-> NoBody]
  /\ status = [m \in Msgs |-> "none"]
  /\ retry = [m \in Msgs |-> 0]
  /\ ready = {} /\ acked = {} /\ dead = {}
  /\ ahead = [m \in Msgs |-> {}]
  /\ held = [w \in Workers |-> {}]
  /\ life = [w \in Workers |-> "running"]
  /\ link = [w \in Workers |-> TRUE]
  /\ buf = [w \in Workers |-> <<>>]
  /\ pc = [w \in Workers |-> "idle"]
  /\ job = [w \in Workers |-> NoMsg]
  /\ count = [w \in Workers |-> 0]
  /\ mark = [w \in Workers |-> "none"]
  /\ result = [w \in Workers |-> NoResult]
  /\ announced = [m \in Msgs |-> "no"]
  /\ pushed = [m \in Msgs |-> "none"]
  /\ attempts = [m \in Msgs |-> 0]
  /\ accepted = [m \in Msgs |-> 0]
  /\ budget = MaxFaults
  /\ suffered = {}

-----------------------------------------------------------------------------
(* Failures *)

\* One failure of kind f happens in this step.
Fault(f) ==
  /\ f \in Faults /\ budget > 0
  /\ budget' = budget - 1
  /\ suffered' = suffered \cup {f}
NoFault == UNCHANGED faultVars

Cancelled(w) == life[w] = "stopping"

\* Every call the Deliverer makes carries the context of Start: once it is
\* cancelled the database, Redis and the HTTP client refuse the call.
CallWorks(w)    == ~Cancelled(w) /\ NoFault
CallFails(w, f) == \/ Cancelled(w) /\ NoFault
                   \/ ~Cancelled(w) /\ Fault(f)

\* n + 1, saturated: the code only compares these counters with maxRetries.
Bump(n) == IF n < RetryCap THEN n + 1 ELSE n

-----------------------------------------------------------------------------
(* RabbitMQ *)

Published ==
  (UNION {held[w] : w \in Workers}) \cup ready \cup acked \cup dead

\* messages.deliver takes m behind everything published so far.
BrokerPublish(m) ==
  /\ ready' = ready \cup {m}
  /\ ahead' = [ahead EXCEPT ![m] = Published]
  /\ UNCHANGED <<held, acked, dead>>

\* basic.ack of w's delivery of m; without a channel the call only fails.
BrokerAck(w, m) ==
  /\ IF link[w]
       THEN /\ held' = [held EXCEPT ![w] = @ \ {m}]
            /\ acked' = acked \cup {m}
       ELSE UNCHANGED <<held, acked>>
  /\ UNCHANGED <<ready, ahead, dead>>

\* basic.nack: back to its place in messages.deliver, or through the
\* dead-letter exchange to messages.dead.
BrokerNack(w, m, requeue) ==
  /\ IF link[w]
       THEN /\ held' = [held EXCEPT ![w] = @ \ {m}]
            /\ IF requeue THEN ready' = ready \cup {m} /\ UNCHANGED dead
                          ELSE dead' = dead \cup {m} /\ UNCHANGED ready
       ELSE UNCHANGED <<held, ready, dead>>
  /\ UNCHANGED <<ahead, acked>>

\* The broker sees w's channel close and requeues what w had not acknowledged.
BrokerDrop(w) ==
  /\ ready' = ready \cup held[w]
  /\ held' = [held EXCEPT ![w] = {}]
  /\ UNCHANGED <<ahead, acked, dead>>

\* The oldest waiting message goes to a consumer with room in its window.
DispatchTo(w, m) ==
  /\ life[w] # "down" /\ link[w]
  /\ Cardinality(held[w]) < Prefetch
  /\ m \in ready /\ ahead[m] \cap ready = {}
  /\ ready' = ready \ {m}
  /\ held' = [held EXCEPT ![w] = @ \cup {m}]
  /\ buf' = [buf EXCEPT ![w] = Append(@, m)]
  /\ UNCHANGED <<apiVars, rowVars, ahead, acked, dead, procVars, pc, job,
                 count, mark, result, feedVars, botVars, faultVars>>

Dispatch(m) == \E w \in Workers : DispatchTo(w, m)

-----------------------------------------------------------------------------
(* The Send handler, from the row on *)

HandlerAt(m, s) == sent[m] = s
HandlerGoes(m, s) == sent' = [sent EXCEPT ![m] = s]

\* INSERT INTO messages, with the column defaults.  A call that fails may have
\* committed: the client reads 500 and the row stays.
InsertMessage(m) ==
  /\ HandlerAt(m, "none")
  /\ \/ NoFault /\ HandlerGoes(m, "stored")
     \/ Fault("dbError") /\ HandlerGoes(m, "gone")
  /\ \E b \in Bodies : body' = [body EXCEPT ![m] = b]
  /\ status' = [status EXCEPT ![m] = "queued"]
  /\ UNCHANGED <<retry, brokerVars, procVars, localVars, feedVars, botVars>>

\* Mutation: the publication is tried again when its outcome is unknown.
PublishTwice(m) ==
  /\ HandlerAt(m, "stored")
  /\ NoFault
  /\ HandlerGoes(m, "enqueued") \/ UNCHANGED sent
  /\ BrokerPublish(m)
  /\ UNCHANGED <<body, rowVars, procVars, localVars, feedVars, botVars>>

\* rmq.Publish.  Nothing confirms a publication: nil may also mean lost.
PublishMessage(m) ==
  /\ HandlerAt(m, "stored")
  /\ \/ NoFault /\ HandlerGoes(m, "enqueued") /\ BrokerPublish(m)
     \/ /\ Fault("publishLost") /\ HandlerGoes(m, "enqueued")
        /\ UNCHANGED brokerVars
     \/ /\ Fault("publishError") /\ HandlerGoes(m, "rejected")
        /\ UNCHANGED brokerVars
  /\ UNCHANGED <<body, rowVars, procVars, localVars, feedVars, botVars>>

\* The UPDATE after a failed publication, and the 500.
RefuseMessage(m) ==
  /\ HandlerAt(m, "rejected")
  /\ HandlerGoes(m, "refused")
  /\ \/ NoFault /\ status' = [status EXCEPT ![m] = "failed"]
     \/ Fault("dbError") /\ UNCHANGED status
  /\ UNCHANGED <<body, retry, brokerVars, procVars, localVars, feedVars, botVars>>

\* The new_message events, and the 202.  The event says "queued", whatever a
\* worker has made of the message since rmq.Publish.
AnnounceMessage(m) ==
  /\ HandlerAt(m, "enqueued")
  /\ HandlerGoes(m, "accepted")
  /\ \/ /\ NoFault
        /\ announced' = [announced EXCEPT
                           ![m] = IF pushed[m] = "none" THEN "yes" ELSE "last"]
        /\ pushed' = [pushed EXCEPT ![m] = "queued"]
     \/ Fault("redisError") /\ UNCHANGED feedVars
  /\ UNCHANGED <<body, rowVars, brokerVars, procVars, localVars, botVars>>

\* The API process dies: every handler in flight ends where it is.
CrashApi ==
  /\ Fault("apiCrash")
  /\ \E m \in Msgs : sent[m] \in {"stored", "rejected", "enqueued"}
  /\ sent' = [m \in Msgs |->
                IF sent[m] \in {"stored", "rejected", "enqueued"}
                  THEN "gone" ELSE sent[m]]
  /\ UNCHANGED <<body, rowVars, brokerVars, procVars, localVars, feedVars,
                 botVars>>

-----------------------------------------------------------------------------
(* The consumer loop and Deliver *)

At(w, s) == pc[w] = s
Goto(w, s) == pc' = [pc EXCEPT ![w] = s]
Return(w, shouldAck, err) ==
  result' = [result EXCEPT ![w] = [ack |-> shouldAck, err |-> err]]

\* updateStatus is called with s, after which Deliver returns.
CallUpdateStatus(w, s, shouldAck, err) ==
  /\ Goto(w, "mark")
  /\ mark' = [mark EXCEPT ![w] = s]
  /\ Return(w, shouldAck, err)

\* A delivery wins the select.  With the context cancelled both cases are
\* ready and Go picks either; Exit is the other one.
TakeDelivery(w) ==
  /\ life[w] # "down" /\ At(w, "idle")
  /\ buf[w] # <<>>
  /\ job' = [job EXCEPT ![w] = Head(buf[w])]
  /\ buf' = [buf EXCEPT ![w] = Tail(@)]
  /\ Goto(w, "load")
  /\ UNCHANGED <<apiVars, rowVars, brokerVars, procVars, count, mark, result,
                 feedVars, botVars, faultVars>>

\* Mutation: a failed read is logged and the count starts from zero.
CountFromZero(w) ==
  /\ At(w, "load")
  /\ \/ CallWorks(w) /\ count' = [count EXCEPT ![w] = retry[job[w]]]
     \/ CallFails(w, "dbError") /\ count' = [count EXCEPT ![w] = 0]
  /\ Goto(w, "resolve")
  /\ UNCHANGED <<apiVars, rowVars, brokerVars, procVars, buf, job, mark, result,
                 feedVars, botVars>>

\* SELECT retry_count.  Any error of it is taken for a missing row.
LoadRetryCount(w) ==
  /\ At(w, "load")
  /\ \/ /\ CallWorks(w)
        /\ count' = [count EXCEPT ![w] = retry[job[w]]]
        /\ Goto(w, "resolve")
        /\ UNCHANGED result
     \/ /\ CallFails(w, "dbError")
        /\ Goto(w, "settle")
        /\ Return(w, TRUE, TRUE)
        /\ UNCHANGED count
  /\ UNCHANGED <<apiVars, rowVars, brokerVars, procVars, buf, job, mark,
                 feedVars, botVars>>

\* A message that never reaches a bot, whatever the bot.
SkipsBot(m, kind) == kind = "regular" \/ body[m].override
IsTerminal(m) == body[m].reply

\* resolveBotEndpoint and the branches that end without calling the bot.
ResolveEndpoint(w) ==
  /\ At(w, "resolve")
  /\ \/ /\ CallWorks(w)
        /\ \E kind \in RecipientKinds :
             IF SkipsBot(job[w], kind) \/ IsTerminal(job[w])
               THEN CallUpdateStatus(w, "client_delivered", TRUE, FALSE)
               ELSE Goto(w, "post") /\ UNCHANGED <<mark, result>>
     \/ /\ CallFails(w, "dbError")
        /\ CallUpdateStatus(w, "failed", TRUE, TRUE)
  /\ UNCHANGED <<apiVars, rowVars, brokerVars, procVars, buf, job, count,
                 feedVars, botVars>>

\* Mutation: the answer's status code is not looked at.
AnyAnswerIsDelivered(w) ==
  /\ At(w, "post")
  /\ attempts' = [attempts EXCEPT ![job[w]] = Bump(@)]
  /\ CallWorks(w)
  /\ accepted' \in {accepted, [accepted EXCEPT ![job[w]] = Bump(@)]}
  /\ CallUpdateStatus(w, "delivered", TRUE, FALSE)
  /\ UNCHANGED <<apiVars, rowVars, brokerVars, procVars, buf, job, count,
                 feedVars>>

\* Mutation: after a 2xx the function falls through to the failure path.
DeliveredThenRetried(w) ==
  /\ At(w, "post")
  /\ attempts' = [attempts EXCEPT ![job[w]] = Bump(@)]
  /\ \/ /\ CallWorks(w)
        /\ accepted' = [accepted EXCEPT ![job[w]] = Bump(@)]
        /\ CallUpdateStatus(w, "delivered", FALSE, TRUE)
     \/ /\ NoFault
        /\ Goto(w, "count")
        /\ UNCHANGED <<accepted, mark, result>>
  /\ UNCHANGED <<apiVars, rowVars, brokerVars, procVars, buf, job, count,
                 feedVars>>

\* The status of a message its bot has taken.
MisspeltStatus == "sent"
AcceptedStatus == "delivered"

\* The request and client.Do.  The bot takes the message or not, and the worker
\* sees a 2xx or not: a late answer is one the bot gave and the worker did not
\* see, because of the timeout or because the context was cancelled meanwhile.
\* A request that cannot be built is a try that fails without a call.
PostToBot(w) ==
  /\ At(w, "post")
  /\ attempts' = [attempts EXCEPT ![job[w]] = Bump(@)]
  /\ \/ /\ CallWorks(w)
        /\ accepted' = [accepted EXCEPT ![job[w]] = Bump(@)]
        /\ CallUpdateStatus(w, AcceptedStatus, TRUE, FALSE)
     \/ /\ NoFault
        /\ Goto(w, "count")
        /\ UNCHANGED <<accepted, mark, result>>
     \/ /\ CallFails(w, "lateAnswer")
        /\ accepted' = [accepted EXCEPT ![job[w]] = Bump(@)]
        /\ Goto(w, "count")
        /\ UNCHANGED <<mark, result>>
  /\ UNCHANGED <<apiVars, rowVars, brokerVars, procVars, buf, job, count,
                 feedVars>>

\* The count after one more failure.
RetryTwiceCounted(n) == Bump(Bump(n))
NextRetry(n) == Bump(n)

ExhaustedEarly(n) == n + 1 >= MaxRetries
Exhausted(n) == n >= MaxRetries

\* handleFailure: the UPDATE of retry_count, whose error is dropped, and then
\* either the end of the retries or the backoff.
HandleFailure(w) ==
  /\ At(w, "count")
  /\ LET n == NextRetry(count[w]) IN
       /\ \/ CallWorks(w) /\ retry' = [retry EXCEPT ![job[w]] = n]
          \/ CallFails(w, "dbError") /\ UNCHANGED retry
       /\ IF Exhausted(n)
            THEN CallUpdateStatus(w, "failed", FALSE, TRUE)
            ELSE Goto(w, "sleep") /\ UNCHANGED <<mark, result>>
  /\ UNCHANGED <<apiVars, status, brokerVars, procVars, buf, job, count,
                 feedVars, botVars>>

\* time.Sleep(delay), which the cancelled context does not interrupt.
Backoff(w) ==
  /\ At(w, "sleep")
  /\ Goto(w, "settle")
  /\ Return(w, FALSE, TRUE)
  /\ UNCHANGED <<apiVars, rowVars, brokerVars, procVars, buf, job, count, mark,
                 feedVars, botVars, faultVars>>

\* Mutation: the UPDATE only changes rows that are still queued.
UpdateStatusIfQueued(w) ==
  /\ At(w, "mark")
  /\ CallWorks(w)
  /\ status' = [status EXCEPT ![job[w]] = IF @ = "queued" THEN mark[w] ELSE @]
  /\ Goto(w, "tell")
  /\ UNCHANGED <<apiVars, retry, brokerVars, procVars, buf, job, count, mark,
                 result, feedVars, botVars>>

\* Mutation: a failed UPDATE sends the message back to the queue.
UpdateStatusOrRequeue(w) ==
  /\ At(w, "mark")
  /\ \/ CallWorks(w) /\ status' = [status EXCEPT ![job[w]] = mark[w]]
        /\ UNCHANGED result
     \/ CallFails(w, "dbError") /\ Return(w, FALSE, TRUE) /\ UNCHANGED status
  /\ Goto(w, "tell")
  /\ UNCHANGED <<apiVars, retry, brokerVars, procVars, buf, job, count, mark,
                 feedVars, botVars>>

\* updateStatus, its UPDATE: the error is logged.
UpdateStatus(w) ==
  /\ At(w, "mark")
  /\ \/ CallWorks(w) /\ status' = [status EXCEPT ![job[w]] = mark[w]]
     \/ CallFails(w, "dbError") /\ UNCHANGED status
  /\ Goto(w, "tell")
  /\ UNCHANGED <<apiVars, retry, brokerVars, procVars, buf, job, count, mark,
                 result, feedVars, botVars>>

\* updateStatus, the events: published whether the row was updated or not.
PublishStatus(w) ==
  /\ At(w, "tell")
  /\ \/ /\ CallWorks(w)
        /\ pushed' = [pushed EXCEPT ![job[w]] = mark[w]]
        /\ announced' = [announced EXCEPT
                           ![job[w]] = IF @ = "last" THEN "yes" ELSE @]
     \/ CallFails(w, "redisError") /\ UNCHANGED feedVars
  /\ Goto(w, "settle")
  /\ UNCHANGED <<apiVars, rowVars, brokerVars, procVars, buf, job, count, mark,
                 result, botVars>>

\* The loop's locals go out of scope.
ForgetLocals(w) ==
  /\ Goto(w, "idle")
  /\ job' = [job EXCEPT ![w] = NoMsg]
  /\ count' = [count EXCEPT ![w] = 0]
  /\ mark' = [mark EXCEPT ![w] = "none"]
  /\ result' = [result EXCEPT ![w] = NoResult]

\* The requeue argument of delivery.Nack.
NackToDlq == FALSE
RequeueOnNack == TRUE

\* The consumer acknowledges what Deliver asks it to acknowledge.  For the
\* rest it decides on err alone, and err always asks to requeue.
Settle(w) ==
  /\ At(w, "settle")
  /\ IF result[w].ack \/ ~result[w].err
       THEN BrokerAck(w, job[w])
       ELSE BrokerNack(w, job[w], RequeueOnNack)
  /\ ForgetLocals(w)
  /\ UNCHANGED <<apiVars, rowVars, procVars, buf, feedVars, botVars, faultVars>>

-----------------------------------------------------------------------------
(* The life of a worker process *)

\* The process is gone, and with it its connection.
ProcessEnds(w) ==
  /\ life' = [life EXCEPT ![w] = "down"]
  /\ link' = [link EXCEPT ![w] = FALSE]
  /\ buf' = [buf EXCEPT ![w] = <<>>]
  /\ ForgetLocals(w)
  /\ BrokerDrop(w)

\* Start returns on ctx.Done or on the closed channel of deliveries, main
\* closes the connection.
Exit(w) ==
  /\ life[w] # "down" /\ At(w, "idle")
  /\ Cancelled(w) \/ ~link[w]
  /\ ProcessEnds(w)
  /\ UNCHANGED <<apiVars, rowVars, feedVars, botVars, faultVars>>

CrashWorker(w) ==
  /\ life[w] # "down" /\ Fault("crash")
  /\ ProcessEnds(w)
  /\ UNCHANGED <<apiVars, rowVars, feedVars, botVars>>

\* The channel closes.  The goroutine in Deliver does not notice.
LoseLink(w) ==
  /\ life[w] # "down" /\ link[w] /\ Fault("linkLoss")
  /\ link' = [link EXCEPT ![w] = FALSE]
  /\ BrokerDrop(w)
  /\ UNCHANGED <<apiVars, rowVars, life, localVars, feedVars, botVars>>

\* The signal handler cancels the context.
Shutdown(w) ==
  /\ life[w] = "running" /\ Fault("shutdown")
  /\ life' = [life EXCEPT ![w] = "stopping"]
  /\ UNCHANGED <<apiVars, rowVars, brokerVars, link, localVars, feedVars,
                 botVars>>

\* Somebody starts the process again.
StartWorker(w) ==
  /\ life[w] = "down"
  /\ life' = [life EXCEPT ![w] = "running"]
  /\ link' = [link EXCEPT ![w] = TRUE]
  /\ UNCHANGED <<apiVars, rowVars, brokerVars, localVars, feedVars, botVars,
                 faultVars>>

-----------------------------------------------------------------------------

HandlerStep(m) ==
  InsertMessage(m) \/ PublishMessage(m) \/ RefuseMessage(m)
    \/ AnnounceMessage(m)

DeliverStep(w) ==
  \/ LoadRetryCount(w) \/ ResolveEndpoint(w) \/ PostToBot(w)
  \/ HandleFailure(w) \/ Backoff(w) \/ UpdateStatus(w) \/ PublishStatus(w)
  \/ Settle(w)

ProcessStep(w) ==
  \/ Exit(w) \/ CrashWorker(w) \/ LoseLink(w) \/ Shutdown(w) \/ StartWorker(w)

Next ==
  \/ \E m \in Msgs : HandlerStep(m) \/ Dispatch(m)
  \/ CrashApi
  \/ \E w \in Workers :
       TakeDelivery(w) \/ DeliverStep(w) \/ ProcessStep(w)

Spec == Init /\ [][Next]_vars

\* The goroutines of a live process run and a call ends: the HTTP client gives
\* up after ten seconds, a backoff lasts at most a minute.  The broker sends a
\* message within milliseconds of a consumer having room for it, and each round
\* of another message leaves that room free for seconds, so it does not miss the
\* chance for ever: strong fairness.  Nothing promises that clients send, that a
\* bot accepts or that a dead process is started again.
Fairness ==
  /\ \A m \in Msgs :
       /\ WF_vars(PublishMessage(m) \/ RefuseMessage(m) \/ AnnounceMessage(m))
       /\ SF_vars(Dispatch(m))
  /\ \A w \in Workers :
       WF_vars(TakeDelivery(w)) /\ WF_vars(DeliverStep(w)) /\ WF_vars(Exit(w))

FairSpec == Spec /\ Fairness

-----------------------------------------------------------------------------
(* Properties *)

\* The broker has one copy of a message it was given: a message waits, is out
\* with one consumer, is acknowledged or is dead, and never two of these.
\* Send publishes a row once (messages.go:128) and consumers acknowledge by
\* hand (rabbitmq.go:126).
OneCopy ==
  /\ ready \cap acked = {} /\ ready \cap dead = {} /\ acked \cap dead = {}
  /\ \A w \in Workers :
       /\ held[w] \cap (ready \cup acked \cup dead) = {}
       /\ \A v \in Workers \ {w} : held[w] \cap held[v] = {}

\* retry_count never claims more than the tries that were made, although it is
\* read before the try and written after it, by workers that may handle the same
\* message at once; a try may be lost from it (deliverer.go:72 and 194).
CountNeverOverstates == \A m \in Msgs : retry[m] <= attempts[m]

\* None of these kinds of failure has happened.
Spared(kinds) == suffered \cap kinds = {}

\* A row that still says "queued" has somebody who will change it: its Send
\* handler, the queue, or a consumer that the broker will hear of.  Holds
\* unless the API dies, a publication is lost, the database fails or a worker
\* is told to stop.  (deliverer.go:185, consumer.go:50)
QueuedHasOwner ==
  Spared({"apiCrash", "publishLost", "dbError", "shutdown"}) =>
    \A m \in Msgs : status[m] = "queued" =>
      \/ sent[m] \in {"stored", "rejected"}
      \/ m \in ready
      \/ \E w \in Workers : m \in held[w]

\* A message is marked failed only if its sender was refused or its bot was
\* tried MaxRetries times, whatever workers crash or handle it twice.  Holds
\* unless the database fails or a worker is told to stop.  (deliverer.go:199)
NoEarlyGiveUp ==
  Spared({"dbError", "shutdown"}) =>
    \A m \in Msgs :
      status[m] = "failed" => attempts[m] >= MaxRetries \/ sent[m] = "refused"

\* retry_count moves up, one failure at a time: the unguarded read, call and
\* write of the Deliverer is safe as long as the broker has a message out with
\* one worker, that is, unless a channel closes under its worker.
\* (deliverer.go:72 and 194)
RetryMonotone ==
  [][Spared({"linkLoss"}) =>
       \A m \in Msgs : retry'[m] \in {retry[m], Bump(retry[m])}]_retry

\* The last status on the feeds of an acknowledged message is the status of its
\* row, except that a new_message published after the status_update leaves them
\* at "queued": the Send handler and the worker race, and nothing has failed.
\* Holds unless a call of the database or of Redis fails, a channel closes under
\* its worker or a worker is told to stop.  (deliverer.go:219, messages.go:149)
FeedAgreesWhenSettled ==
  Spared({"dbError", "redisError", "linkLoss", "shutdown"}) =>
    \A m \in acked :
      pushed[m] = IF announced[m] = "last" THEN "queued" ELSE status[m]

\* A bot takes a message at most once, unless a worker crashes, is told to stop,
\* loses its channel or misses the answer: failures of the database, of Redis
\* or of the API never repeat it.  (deliverer.go:167)
NoDuplicateDelivery ==
  Spared({"crash", "shutdown", "linkLoss", "lateAnswer"}) =>
    \A m \in Msgs : accepted[m] <= 1

\* Unless a worker crashes, is told to stop, loses its channel or misses the
\* answer, a row that says "delivered" says so for ever, while one that says
\* "failed" may still change.  (deliverer.go:168, 202)
DeliveredIsFinal ==
  [][Spared({"crash", "shutdown", "linkLoss", "lateAnswer"}) =>
       \A m \in Msgs : status[m] = "delivered" => status'[m] = "delivered"]_status

\* A message on the queue gets a final status, whatever the bots answer, as
\* long as one worker is left and the messages that keep failing fit in its
\* prefetch window.  (deliverer.go:185, rabbitmq.go:99)
EveryMessageSettles ==
  \A m \in Msgs : m \in ready ~> status[m] # "queued"

\* The rows, the bots and the feeds see no more than Lifecycle allows.
Promise == INSTANCE Lifecycle WITH
             state <- status, told <- pushed, tries <- attempts, taken <- accepted,
             refused <- {m \in Msgs : sent[m] = "refused"},
             mishap <- "dbError" \in suffered
ImplementsLifecycle == Promise!Spec

-----------------------------------------------------------------------------
(* What the repository says and the code does not do *)

\* deliverer.go:202 "Nack -> goes to DLQ via RabbitMQ DLX": a message whose
\* retries are exhausted is not on messages.deliver again.
ExhaustedLeavesQueue == \A m \in ready : retry[m] < MaxRetries

\* deliverer.go:56 "Returns true if the message was handled (delivered or sent
\* to DLQ)", and what returns true is acknowledged.
AckedMeansHandled ==
  \A m \in acked :
    accepted[m] > 0 \/ status[m] = "client_delivered" \/ m \in dead

\* deliverer.go:81 "The new_message WS event was already published at send
\* time", so a message marked client_delivered has been announced.
AnnouncedBeforeSkip ==
  \A m \in Msgs : status[m] = "client_delivered" => announced[m] # "no"
=============================================================================
