--------------------------- MODULE DeliveryCopies ---------------------------
(***************************************************************************)
(* Theorems about Delivery that rest on the custody of the broker: a       *)
(* message is in one place, and while its channel is open what a worker    *)
(* has in hand is out with that worker and with no other.                  *)
(***************************************************************************)
EXTENDS DeliveryProofs

USE ConstantsAssumption

\* A message that Send has not handed over, or was refused, is with nobody, and
\* no bot has heard of it.
Unsent == {"none", "stored", "rejected", "refused"}

OnlySent ==
  \A m \in Msgs : sent[m] \in Unsent =>
    /\ m \notin ready /\ m \notin acked /\ m \notin dead
    /\ attempts[m] = 0 /\ accepted[m] = 0
    /\ \A w \in Workers :
         /\ m \notin held[w] /\ m # job[w]
         /\ \A i \in 1..Len(buf[w]) : m # buf[w][i]

InHand(w) ==
  /\ job[w] # NoMsg => job[w] \in held[w]
  /\ \A i \in 1..Len(buf[w]) : buf[w][i] \in held[w] /\ buf[w][i] # job[w]
  /\ \A i, j \in 1..Len(buf[w]) : i # j => buf[w][i] # buf[w][j]

Custody ==
  \A w \in Workers :
    /\ link[w] => InHand(w)
    /\ pc[w] = "idle" => job[w] = NoMsg
    /\ life[w] = "down" => job[w] = NoMsg /\ buf[w] = <<>> /\ ~link[w]

CopyInv == OnlySent /\ OneCopy /\ Custody

LEMMA CopyInit == Init => CopyInv
<1> SUFFICES ASSUME Init PROVE CopyInv
  OBVIOUS
<1>1. OnlySent
  <2>1. \A m \in Msgs, w \in Workers :
          m # job[w] /\ m \notin held[w] /\ \A i \in 1..Len(buf[w]) : m # buf[w][i]
    <3> TAKE m \in Msgs, w \in Workers
    <3>1. m # job[w] /\ buf[w] = <<>> /\ held[w] = {}
      BY DEF Init
    <3> QED BY <3>1
  <2>2. \A m \in Msgs : /\ m \notin ready /\ m \notin acked /\ m \notin dead
                        /\ attempts[m] = 0 /\ accepted[m] = 0
    BY DEF Init
  <2> QED BY <2>1, <2>2 DEF OnlySent
<1>2. OneCopy
  BY DEF Init, OneCopy
<1>3. Custody
  BY DEF Init, Custody, InHand
<1> QED BY <1>1, <1>2, <1>3 DEF CopyInv

\* Steps that touch neither the broker, the hands of the workers nor a bot, and
\* hand no message over.
LEMMA CopyUntouched ==
  ASSUME CopyInv,
         UNCHANGED <<brokerVars, link, buf, job, botVars>>,
         \A m \in Msgs : sent'[m] \in Unsent => sent[m] \in Unsent,
         \A w \in Workers : pc'[w] = "idle" => pc[w] = "idle",
         \A w \in Workers : life'[w] = "down" => life[w] = "down"
  PROVE  CopyInv'
<1> USE DEF CopyInv, brokerVars, botVars
<1>1. OnlySent'
  BY DEF OnlySent
<1>2. OneCopy'
  BY DEF OneCopy
<1>3. Custody'
  BY DEF Custody, InHand
<1> QED BY <1>1, <1>2, <1>3

LEMMA CopyHandler ==
  ASSUME TypeInv, CopyInv, NEW m \in Msgs, HandlerStep(m)
  PROVE  CopyInv'
<1> USE DEF HandlerAt, HandlerGoes, localVars, procVars
<1>0. sent \in [Msgs -> HandlerStates]
  BY DEF TypeInv, ApiTypes
<1>1. CASE InsertMessage(m) \/ RefuseMessage(m) \/ AnnounceMessage(m)
  <2>1. \A k \in Msgs : sent'[k] \in Unsent => sent[k] \in Unsent
    BY <1>0, <1>1 DEF InsertMessage, RefuseMessage, AnnounceMessage, Unsent
  <2> QED BY <1>1, <2>1, CopyUntouched DEF InsertMessage, RefuseMessage, AnnounceMessage
<1>2. CASE PublishMessage(m)
  <2>1. /\ sent[m] = "stored" /\ m \notin ready /\ m \notin acked /\ m \notin dead
        /\ \A w \in Workers : m \notin held[w]
        /\ \A k \in Msgs : sent'[k] \in Unsent => sent[k] \in Unsent
        /\ UNCHANGED <<link, buf, job, botVars, pc, life>>
    BY <1>0, <1>2 DEF PublishMessage, CopyInv, OnlySent, Unsent
  <2>2. CASE UNCHANGED brokerVars
    BY <2>1, <2>2, CopyUntouched
  <2>3. CASE BrokerPublish(m) /\ sent' = [sent EXCEPT ![m] = "enqueued"]
    <3>1. ready' = ready \cup {m} /\ UNCHANGED <<held, acked, dead>>
      BY <2>3 DEF BrokerPublish
    <3>2. OnlySent'
      BY <1>0, <2>1, <2>3, <3>1 DEF CopyInv, OnlySent, Unsent, botVars
    <3>3. OneCopy'
      BY <2>1, <3>1 DEF CopyInv, OneCopy
    <3>4. Custody'
      BY <2>1, <3>1 DEF CopyInv, Custody, InHand
    <3> QED BY <3>2, <3>3, <3>4 DEF CopyInv
  <2> QED BY <1>2, <2>2, <2>3 DEF PublishMessage
<1> QED BY <1>1, <1>2 DEF HandlerStep

LEMMA CopyDispatch ==
  ASSUME TypeInv, CopyInv, NEW m \in Msgs, Dispatch(m)
  PROVE  CopyInv'
<1> PICK w \in Workers : DispatchTo(w, m)
  BY DEF Dispatch
<1>1. /\ m \in ready /\ link[w] /\ life[w] # "down"
      /\ ready' = ready \ {m}
      /\ held' = [held EXCEPT ![w] = @ \cup {m}]
      /\ buf' = [buf EXCEPT ![w] = Append(@, m)]
      /\ UNCHANGED <<sent, acked, dead, link, life, pc, job, attempts, accepted>>
  BY DEF DispatchTo, apiVars, procVars, botVars
<1>2. /\ held'[w] = held[w] \cup {m} /\ buf'[w] = Append(buf[w], m)
      /\ \A v \in Workers \ {w} : held'[v] = held[v] /\ buf'[v] = buf[v]
      /\ buf[w] \in Seq(Msgs)
  BY <1>1 DEF TypeInv, BrokerTypes, LocalTypes
<1>3. /\ Len(buf'[w]) = Len(buf[w]) + 1 /\ Len(buf[w]) \in Nat
      /\ buf'[w][Len(buf[w]) + 1] = m
      /\ \A i \in 1..Len(buf[w]) : buf'[w][i] = buf[w][i]
  BY <1>2
<1>4. \A i \in 1..Len(buf'[w]) : i \in 1..Len(buf[w]) \/ i = Len(buf[w]) + 1
  BY <1>3
<1>5. m \notin acked /\ m \notin dead /\ \A v \in Workers : m \notin held[v]
  BY <1>1 DEF CopyInv, OneCopy
<1>6. OnlySent'
  <2> SUFFICES ASSUME NEW k \in Msgs, sent[k] \in Unsent
               PROVE  /\ k \notin ready' /\ k \notin acked /\ k \notin dead
                      /\ attempts[k] = 0 /\ accepted[k] = 0
                      /\ \A v \in Workers :
                           /\ k \notin held'[v] /\ k # job[v]
                           /\ \A i \in 1..Len(buf'[v]) : k # buf'[v][i]
    BY <1>1 DEF OnlySent
  <2>1. k # m
    BY <1>1 DEF CopyInv, OnlySent
  <2>2. \A i \in 1..Len(buf'[w]) : k # buf'[w][i]
    BY <1>3, <1>4, <2>1 DEF CopyInv, OnlySent
  <2>3. /\ k \notin ready /\ k \notin acked /\ k \notin dead
        /\ attempts[k] = 0 /\ accepted[k] = 0
        /\ \A v \in Workers : /\ k \notin held[v] /\ k # job[v]
                               /\ \A i \in 1..Len(buf[v]) : k # buf[v][i]
    BY DEF CopyInv, OnlySent
  <2>4. ASSUME NEW v \in Workers
        PROVE  k \notin held'[v] /\ \A i \in 1..Len(buf'[v]) : k # buf'[v][i]
    <3>1. CASE v = w
      BY <1>2, <2>1, <2>2, <2>3, <3>1
    <3>2. CASE v # w
      BY <1>2, <2>3, <3>2
    <3> QED BY <3>1, <3>2
  <2> QED BY <1>1, <2>3, <2>4
<1>7. OneCopy'
  BY <1>1, <1>2, <1>5 DEF CopyInv, OneCopy
<1>8. Custody'
  <2>1. InHand(w)
    BY <1>1 DEF CopyInv, Custody
  <2>2. job[w] # m
    BY <1>5, <2>1 DEF InHand, TypeInv
  <2>3. InHand(w)'
    <3>1. job'[w] # NoMsg => job'[w] \in held'[w]
      BY <1>1, <1>2, <2>1 DEF InHand
    <3>2. \A i \in 1..Len(buf'[w]) : buf'[w][i] \in held'[w] /\ buf'[w][i] # job'[w]
      BY <1>1, <1>2, <1>3, <1>4, <2>1, <2>2 DEF InHand
    <3>3. \A i, j \in 1..Len(buf'[w]) : i # j => buf'[w][i] # buf'[w][j]
      BY <1>3, <1>4, <1>5, <2>1 DEF InHand
    <3> QED BY <3>1, <3>2, <3>3 DEF InHand
  <2>4. \A v \in Workers \ {w} : link'[v] => InHand(v)'
    BY <1>1, <1>2 DEF CopyInv, Custody, InHand
  <2>5. \A v \in Workers :
          /\ pc'[v] = "idle" => job'[v] = NoMsg
          /\ life'[v] = "down" => job'[v] = NoMsg /\ buf'[v] = <<>> /\ ~link'[v]
    BY <1>1, <1>2 DEF CopyInv, Custody
  <2> QED BY <1>1, <2>3, <2>4, <2>5 DEF Custody
<1> QED BY <1>6, <1>7, <1>8 DEF CopyInv

\* Steps of a worker that leave what it has in hand alone.
LEMMA CopyLocal ==
  ASSUME TypeInv, CopyInv, NEW w \in Workers, NEW s \in Steps,
         s # "idle", pc[w] # "idle", Goto(w, s),
         UNCHANGED <<sent, brokerVars, procVars, buf, job>>,
         \/ UNCHANGED botVars
         \/ \A m \in Msgs \ {job[w]} :
              attempts'[m] = attempts[m] /\ accepted'[m] = accepted[m]
  PROVE  CopyInv'
<1> USE DEF brokerVars, procVars, botVars
<1>1. OnlySent'
  BY DEF CopyInv, OnlySent
<1>2. OneCopy'
  BY DEF CopyInv, OneCopy
<1>3. Custody'
  BY DEF CopyInv, Custody, InHand, Goto, TypeInv, LocalTypes
<1> QED BY <1>1, <1>2, <1>3 DEF CopyInv

LEMMA CopyTake ==
  ASSUME TypeInv, CopyInv, NEW w \in Workers, TakeDelivery(w)
  PROVE  CopyInv'
<1>1. /\ buf[w] # <<>> /\ buf[w] \in Seq(Msgs) /\ pc[w] = "idle"
      /\ life[w] # "down"
      /\ job' = [job EXCEPT ![w] = Head(buf[w])]
      /\ buf' = [buf EXCEPT ![w] = Tail(@)]
      /\ pc' = [pc EXCEPT ![w] = "load"]
      /\ UNCHANGED <<sent, held, ready, acked, dead, link, life, attempts, accepted>>
  BY DEF TakeDelivery, TypeInv, LocalTypes, At, Goto, apiVars, brokerVars, procVars, botVars
<1>2. /\ Head(buf[w]) = buf[w][1] /\ 1 \in 1..Len(buf[w]) /\ Len(buf[w]) \in Nat
      /\ Len(Tail(buf[w])) = Len(buf[w]) - 1
      /\ \A i \in 1..Len(Tail(buf[w])) :
           Tail(buf[w])[i] = buf[w][i + 1] /\ i + 1 \in 1..Len(buf[w]) /\ i + 1 # 1
  BY <1>1
<1>3. /\ job'[w] = buf[w][1] /\ buf'[w] = Tail(buf[w]) /\ pc'[w] = "load"
      /\ \A v \in Workers \ {w} :
           job'[v] = job[v] /\ buf'[v] = buf[v] /\ pc'[v] = pc[v]
  BY <1>1, <1>2 DEF TypeInv, LocalTypes
<1>4. OnlySent'
  <2>1. \A k \in Msgs : sent[k] \in Unsent =>
          k # job'[w] /\ \A i \in 1..Len(buf'[w]) : k # buf'[w][i]
    BY <1>2, <1>3 DEF CopyInv, OnlySent
  <2> QED BY <1>1, <1>3, <2>1 DEF CopyInv, OnlySent
<1>5. OneCopy'
  BY <1>1 DEF CopyInv, OneCopy
<1>6. Custody'
  <2>1. link[w] => InHand(w)'
    <3> SUFFICES ASSUME link[w] PROVE InHand(w)'
      OBVIOUS
    <3>1. InHand(w)
      BY DEF CopyInv, Custody
    <3>2. job'[w] \in held'[w]
      BY <1>1, <1>2, <1>3, <3>1 DEF InHand
    <3>3. \A i \in 1..Len(buf'[w]) : buf'[w][i] \in held'[w] /\ buf'[w][i] # job'[w]
      <4> TAKE i \in 1..Len(buf'[w])
      <4>1. buf'[w][i] = buf[w][i + 1] /\ i + 1 \in 1..Len(buf[w]) /\ i + 1 # 1
        BY <1>2, <1>3
      <4>2. buf[w][i + 1] # buf[w][1] /\ buf[w][i + 1] \in held[w]
        BY <1>2, <3>1, <4>1 DEF InHand
      <4> QED BY <1>1, <1>3, <4>1, <4>2
    <3>4. \A i, j \in 1..Len(buf'[w]) : i # j => buf'[w][i] # buf'[w][j]
      <4> TAKE i, j \in 1..Len(buf'[w])
      <4>1. i # j => i + 1 # j + 1
        BY <1>2, <1>3
      <4> QED BY <1>2, <1>3, <3>1, <4>1 DEF InHand
    <3> QED BY <3>2, <3>3, <3>4 DEF InHand
  <2>2. \A v \in Workers \ {w} : link[v] => InHand(v)'
    BY <1>1, <1>3 DEF CopyInv, Custody, InHand
  <2>3. \A v \in Workers :
          /\ pc'[v] = "idle" => job'[v] = NoMsg
          /\ life[v] = "down" => job'[v] = NoMsg /\ buf'[v] = <<>> /\ ~link[v]
    BY <1>1, <1>3 DEF CopyInv, Custody
  <2> QED BY <1>1, <2>1, <2>2, <2>3 DEF Custody
<1> QED BY <1>4, <1>5, <1>6 DEF CopyInv

LEMMA CopySettle ==
  ASSUME TypeInv, CopyInv, NEW w \in Workers, Settle(w)
  PROVE  CopyInv'
<1> DEFINE m == job[w]
<1>1. /\ m \in Msgs
      /\ job'[w] = NoMsg /\ pc'[w] = "idle"
      /\ \A v \in Workers \ {w} : job'[v] = job[v] /\ pc'[v] = pc[v]
      /\ UNCHANGED <<sent, buf, link, life, attempts, accepted>>
  BY DEF Settle, ForgetLocals, Goto, At, TypeInv, Busy, LocalTypes, apiVars, procVars, botVars
<1>2. \/ ~link[w] /\ UNCHANGED <<ready, held, acked, dead>>
      \/ /\ link[w] /\ held' = [held EXCEPT ![w] = @ \ {m}] /\ UNCHANGED dead
         /\ \/ acked' = acked \cup {m} /\ UNCHANGED ready
            \/ ready' = ready \cup {m} /\ UNCHANGED acked
  BY DEF Settle, BrokerAck, BrokerNack, RequeueOnNack
<1>3. link[w] => m \in held[w]
  BY <1>1 DEF CopyInv, Custody, InHand
<1>4. \A v \in Workers : held'[v] \in {held[v], held[v] \ {m}}
                          /\ (v # w => held'[v] = held[v])
  BY <1>2 DEF TypeInv, BrokerTypes
<1>5. sent[m] \notin Unsent
  BY <1>1 DEF CopyInv, OnlySent
<1>6. OnlySent'
  <2> SUFFICES ASSUME NEW k \in Msgs, sent[k] \in Unsent
               PROVE  /\ k \notin ready' /\ k \notin acked' /\ k \notin dead'
                      /\ attempts'[k] = 0 /\ accepted'[k] = 0
                      /\ \A v \in Workers :
                           /\ k \notin held'[v] /\ k # job'[v]
                           /\ \A i \in 1..Len(buf'[v]) : k # buf'[v][i]
    BY <1>1 DEF OnlySent
  <2>1. k # m
    BY <1>5
  <2>2. /\ k \notin ready /\ k \notin acked /\ k \notin dead
        /\ attempts[k] = 0 /\ accepted[k] = 0
        /\ \A v \in Workers : /\ k \notin held[v] /\ k # job[v]
                               /\ \A i \in 1..Len(buf[v]) : k # buf[v][i]
    BY DEF CopyInv, OnlySent
  <2>3. k \notin ready' /\ k \notin acked' /\ k \notin dead'
    BY <1>2, <2>1, <2>2
  <2>4. \A v \in Workers : k \notin held'[v] /\ k # job'[v]
    BY <1>1, <1>4, <2>2
  <2> QED BY <1>1, <2>2, <2>3, <2>4
<1>7. OneCopy'
  <2>1. CASE ~link[w] /\ UNCHANGED <<ready, held, acked, dead>>
    BY <2>1 DEF CopyInv, OneCopy
  <2>2. CASE link[w] /\ held' = [held EXCEPT ![w] = @ \ {m}]
    <3>1. m \notin held'[w]
      BY <2>2 DEF TypeInv, BrokerTypes
    <3>2. m \notin ready /\ m \notin acked /\ m \notin dead
          /\ \A v \in Workers \ {w} : m \notin held[v]
      BY <1>3, <2>2 DEF CopyInv, OneCopy
    <3>3. \A v \in Workers : m \notin held'[v]
      BY <1>4, <3>1, <3>2
    <3> QED BY <1>2, <1>4, <2>2, <3>2, <3>3 DEF CopyInv, OneCopy
  <2> QED BY <1>2, <2>1, <2>2
<1>8. Custody'
  <2>1. link[w] => InHand(w)'
    <3> SUFFICES ASSUME link[w] PROVE InHand(w)'
      OBVIOUS
    <3>1. InHand(w) /\ held'[w] = held[w] \ {m}
      BY <1>2 DEF CopyInv, Custody, TypeInv, BrokerTypes
    <3>2. \A i \in 1..Len(buf[w]) : buf[w][i] \in Msgs
      BY DEF TypeInv, LocalTypes
    <3> QED BY <1>1, <3>1, <3>2 DEF InHand
  <2>2. \A v \in Workers \ {w} : link[v] => InHand(v)'
    BY <1>1, <1>4 DEF CopyInv, Custody, InHand
  <2>3. \A v \in Workers :
          /\ pc'[v] = "idle" => job'[v] = NoMsg
          /\ life[v] = "down" => job'[v] = NoMsg /\ buf[v] = <<>> /\ ~link[v]
    BY <1>1 DEF CopyInv, Custody
  <2> QED BY <1>1, <2>1, <2>2, <2>3 DEF Custody
<1> QED BY <1>6, <1>7, <1>8 DEF CopyInv

LEMMA CopyDeliver ==
  ASSUME TypeInv, CopyInv, NEW w \in Workers, TakeDelivery(w) \/ DeliverStep(w)
  PROVE  CopyInv'
<1> USE DEF At, Steps, apiVars, rowVars
<1>1. CASE LoadRetryCount(w)
  <2>1. Goto(w, "resolve") \/ Goto(w, "settle")
    BY <1>1 DEF LoadRetryCount
  <2> QED BY <1>1, <2>1, CopyLocal DEF LoadRetryCount
<1>2. CASE ResolveEndpoint(w)
  <2>1. Goto(w, "mark") \/ Goto(w, "post")
    BY <1>2 DEF ResolveEndpoint, CallUpdateStatus
  <2> QED BY <1>2, <2>1, CopyLocal DEF ResolveEndpoint
<1>3. CASE PostToBot(w)
  <2>1. Goto(w, "mark") \/ Goto(w, "count")
    BY <1>3 DEF PostToBot, CallUpdateStatus
  <2>2. \A m \in Msgs \ {job[w]} :
          attempts'[m] = attempts[m] /\ accepted'[m] = accepted[m]
    BY <1>3 DEF PostToBot, TypeInv, BotTypes
  <2> QED BY <1>3, <2>1, <2>2, CopyLocal DEF PostToBot
<1>4. CASE HandleFailure(w)
  <2>1. Goto(w, "mark") \/ Goto(w, "sleep")
    BY <1>4 DEF HandleFailure, CallUpdateStatus
  <2> QED BY <1>4, <2>1, CopyLocal DEF HandleFailure
<1>5. CASE Backoff(w) \/ UpdateStatus(w) \/ PublishStatus(w)
  <2>1. Goto(w, "settle") \/ Goto(w, "tell")
    BY <1>5 DEF Backoff, UpdateStatus, PublishStatus
  <2> QED BY <1>5, <2>1, CopyLocal DEF Backoff, UpdateStatus, PublishStatus
<1> QED BY <1>1, <1>2, <1>3, <1>4, <1>5, CopyTake, CopySettle DEF DeliverStep

LEMMA CopyProcess ==
  ASSUME TypeInv, CopyInv, NEW w \in Workers, ProcessStep(w)
  PROVE  CopyInv'
<1> USE DEF apiVars, localVars, botVars
<1>1. ASSUME BrokerDrop(w), link' = [link EXCEPT ![w] = FALSE],
             UNCHANGED <<sent, attempts, accepted>>,
             \/ UNCHANGED <<buf, pc, job, life>>
             \/ /\ buf' = [buf EXCEPT ![w] = <<>>]
                /\ pc' = [pc EXCEPT ![w] = "idle"]
                /\ job' = [job EXCEPT ![w] = NoMsg]
                /\ life' = [life EXCEPT ![w] = "down"]
      PROVE  CopyInv'
  <2>1. /\ ready' = ready \cup held[w] /\ UNCHANGED <<acked, dead>>
        /\ held'[w] = {} /\ \A v \in Workers \ {w} : held'[v] = held[v]
    BY <1>1 DEF BrokerDrop, TypeInv, BrokerTypes
  <2>2. ~link'[w] /\ \A v \in Workers \ {w} : link'[v] = link[v]
    BY <1>1 DEF TypeInv, ProcTypes
  <2>3. \A v \in Workers \ {w} :
          buf'[v] = buf[v] /\ pc'[v] = pc[v] /\ job'[v] = job[v] /\ life'[v] = life[v]
    <3>1. CASE UNCHANGED <<buf, pc, job, life>>
      BY <3>1
    <3>2. CASE /\ buf' = [buf EXCEPT ![w] = <<>>]
               /\ pc' = [pc EXCEPT ![w] = "idle"]
               /\ job' = [job EXCEPT ![w] = NoMsg]
               /\ life' = [life EXCEPT ![w] = "down"]
      BY <3>2 DEF TypeInv, LocalTypes, ProcTypes
    <3> QED BY <1>1, <3>1, <3>2
  <2>4. \/ buf'[w] = buf[w] /\ pc'[w] = pc[w] /\ job'[w] = job[w] /\ life'[w] = life[w]
        \/ buf'[w] = <<>> /\ pc'[w] = "idle" /\ job'[w] = NoMsg
    BY <1>1 DEF TypeInv, LocalTypes
  <2>5. OnlySent'
    <3> SUFFICES ASSUME NEW k \in Msgs, sent[k] \in Unsent
                 PROVE  /\ k \notin ready' /\ k \notin acked' /\ k \notin dead'
                        /\ attempts'[k] = 0 /\ accepted'[k] = 0
                        /\ \A v \in Workers :
                             /\ k \notin held'[v] /\ k # job'[v]
                             /\ \A i \in 1..Len(buf'[v]) : k # buf'[v][i]
      BY <1>1 DEF OnlySent
    <3>1. /\ k \notin ready /\ k \notin acked /\ k \notin dead
          /\ attempts[k] = 0 /\ accepted[k] = 0
          /\ \A v \in Workers : /\ k \notin held[v] /\ k # job[v]
                                 /\ \A i \in 1..Len(buf[v]) : k # buf[v][i]
      BY DEF CopyInv, OnlySent
    <3>2. k # job'[w] /\ \A i \in 1..Len(buf'[w]) : k # buf'[w][i]
      BY <2>4, <3>1
    <3> QED BY <1>1, <2>1, <2>3, <3>1, <3>2
  <2>6. OneCopy'
    BY <2>1 DEF CopyInv, OneCopy
  <2>7. Custody'
    <3>1. \A v \in Workers \ {w} : link'[v] => InHand(v)'
      BY <2>1, <2>2, <2>3 DEF CopyInv, Custody, InHand
    <3>2. \A v \in Workers :
            /\ pc'[v] = "idle" => job'[v] = NoMsg
            /\ life'[v] = "down" => job'[v] = NoMsg /\ buf'[v] = <<>> /\ ~link'[v]
      BY <2>2, <2>3, <2>4, <1>1 DEF CopyInv, Custody
    <3> QED BY <2>2, <3>1, <3>2 DEF Custody
  <2> QED BY <2>5, <2>6, <2>7 DEF CopyInv
<1>2. CASE Exit(w) \/ CrashWorker(w)
  BY <1>1, <1>2 DEF Exit, CrashWorker, ProcessEnds, ForgetLocals, Goto
<1>3. CASE LoseLink(w)
  BY <1>1, <1>3 DEF LoseLink
<1>4. CASE Shutdown(w)
  <2>1. \A v \in Workers : life'[v] = "down" => life[v] = "down"
    BY <1>4 DEF Shutdown, TypeInv, ProcTypes
  <2> QED BY <1>4, <2>1, CopyUntouched DEF Shutdown
<1>5. CASE StartWorker(w)
  <2>1. /\ job[w] = NoMsg /\ buf[w] = <<>> /\ life'[w] = "running"
        /\ \A v \in Workers \ {w} : link'[v] = link[v] /\ life'[v] = life[v]
        /\ UNCHANGED <<sent, ready, held, acked, dead, buf, pc, job, attempts, accepted>>
    BY <1>5 DEF StartWorker, CopyInv, Custody, TypeInv, ProcTypes, brokerVars
  <2>2. OnlySent' /\ OneCopy'
    BY <2>1 DEF CopyInv, OnlySent, OneCopy
  <2>3. InHand(w)'
    <3>1. Len(buf[w]) = 0
      BY <2>1
    <3> QED BY <2>1, <3>1 DEF InHand
  <2>4. Custody'
    BY <2>1, <2>3 DEF CopyInv, Custody, InHand
  <2> QED BY <2>2, <2>4 DEF CopyInv
<1> QED BY <1>2, <1>3, <1>4, <1>5 DEF ProcessStep

LEMMA CopyStep == TypeInv /\ CopyInv /\ [Next]_vars => CopyInv'
<1> SUFFICES ASSUME TypeInv, CopyInv, [Next]_vars
             PROVE  CopyInv'
  OBVIOUS
<1>1. CASE UNCHANGED vars
  BY <1>1, CopyUntouched DEF vars, apiVars, procVars, localVars
<1>2. CASE CrashApi
  <2>1. \A m \in Msgs : sent'[m] \in Unsent => sent[m] \in Unsent
    BY <1>2 DEF CrashApi, Unsent
  <2> QED BY <1>2, <2>1, CopyUntouched DEF CrashApi, procVars, localVars
<1>3. CASE Next
  BY <1>2, <1>3, CopyHandler, CopyDispatch, CopyDeliver, CopyProcess DEF Next
<1> QED BY <1>1, <1>3

\* The broker has one copy of a message, whatever fails, however many workers
\* there are and however often a message comes back.  (rabbitmq.go:99)
THEOREM CopiesCorrect == Spec => []OneCopy
<1>1. Spec => [](TypeInv /\ CopyInv)
  BY InitType, TypeStep, CopyInit, CopyStep, PTL DEF Spec
<1> QED BY <1>1, PTL DEF CopyInv

-----------------------------------------------------------------------------
(* One worker at a time *)

\* No live worker has lost its channel.
LinksStay == \A w \in Workers : life[w] # "down" => link[w]

LEMMA LinksStayStep ==
  ASSUME TypeInv, LinksStay, "linkLoss" \notin suffered', [Next]_vars
  PROVE  LinksStay'
<1> USE DEF LinksStay, procVars
<1>1. CASE UNCHANGED vars
  BY <1>1 DEF vars
<1>2. CASE Next
  <2>1. ASSUME NEW m \in Msgs, HandlerStep(m) \/ Dispatch(m)
        PROVE  UNCHANGED procVars
    BY <2>1 DEF HandlerStep, InsertMessage, PublishMessage, RefuseMessage,
                AnnounceMessage, Dispatch, DispatchTo
  <2>2. CASE CrashApi
    BY <2>2 DEF CrashApi
  <2>3. ASSUME NEW w \in Workers, TakeDelivery(w) \/ DeliverStep(w)
        PROVE  UNCHANGED procVars
    BY <2>3 DEF TakeDelivery, DeliverStep, LoadRetryCount, ResolveEndpoint,
                PostToBot, HandleFailure, Backoff, UpdateStatus, PublishStatus,
                Settle
  <2>4. ASSUME NEW w \in Workers, ProcessStep(w)
        PROVE  LinksStay'
    <3>1. ~LoseLink(w)
      BY DEF LoseLink, Fault
    <3> QED BY <2>4, <3>1 DEF ProcessStep, Exit, CrashWorker, Shutdown,
                              StartWorker, ProcessEnds, TypeInv, ProcTypes
  <2> QED BY <1>2, <2>1, <2>2, <2>3, <2>4 DEF Next
<1> QED BY <1>1, <1>2

\* While no channel closes under its worker, a message in hand is held by that
\* worker's channel and in the hand of no other worker.
LEMMA Alone ==
  ASSUME TypeInv, CopyInv, LinksStay, NEW w \in Workers, pc[w] # "idle"
  PROVE  /\ job[w] \in Msgs /\ link[w] /\ job[w] \in held[w]
         /\ job[w] \notin ready /\ job[w] \notin acked
         /\ sent[job[w]] \notin Unsent
         /\ \A v \in Workers \ {w} : job[v] # job[w] /\ job[w] \notin held[v]
<1>1. /\ job[w] \in Msgs /\ link[w] /\ InHand(w)
  BY DEF TypeInv, Busy, CopyInv, Custody, LinksStay
<1>2. job[w] \in held[w]
  BY <1>1 DEF InHand
<1>3. /\ job[w] \notin ready /\ job[w] \notin acked
      /\ \A v \in Workers \ {w} : job[w] \notin held[v]
  BY <1>2 DEF CopyInv, OneCopy
<1>4. \A v \in Workers \ {w} : job[v] = job[w] => job[v] \in held[v]
  BY <1>1 DEF CopyInv, Custody, LinksStay, InHand
<1>5. sent[job[w]] \notin Unsent
  BY <1>1 DEF CopyInv, OnlySent
<1> QED BY <1>1, <1>2, <1>3, <1>4, <1>5

-----------------------------------------------------------------------------
(* retry_count moves up *)

\* The count a worker has read is still the one in the row.
CountsCurrent ==
  \A w \in Workers :
    pc[w] \in {"resolve", "post", "count"} => count[w] = retry[job[w]]

\* Steps that leave retry_count alone and read none of it.
LEMMA CurrentUntouched ==
  ASSUME CountsCurrent, UNCHANGED retry,
         \A v \in Workers : pc'[v] \in {"resolve", "post", "count"} =>
           /\ pc[v] \in {"resolve", "post", "count"}
           /\ job'[v] = job[v] /\ count'[v] = count[v]
  PROVE  CountsCurrent' /\ \A m \in Msgs : retry'[m] \in {retry[m], Bump(retry[m])}
  BY DEF CountsCurrent

LEMMA CurrentStep ==
  ASSUME TypeInv, CopyInv, LinksStay, CountsCurrent, [Next]_vars
  PROVE  CountsCurrent' /\ \A m \in Msgs : retry'[m] \in {retry[m], Bump(retry[m])}
<1> USE DEF rowVars, localVars, At, Goto
<1>1. CASE UNCHANGED vars
  BY <1>1, CurrentUntouched DEF vars
<1>2. ASSUME NEW m \in Msgs, HandlerStep(m) \/ Dispatch(m)
      PROVE  CountsCurrent' /\ \A k \in Msgs : retry'[k] \in {retry[k], Bump(retry[k])}
  BY <1>2, CurrentUntouched
     DEF HandlerStep, InsertMessage, PublishMessage, RefuseMessage,
         AnnounceMessage, Dispatch, DispatchTo
<1>3. CASE CrashApi
  BY <1>3, CurrentUntouched DEF CrashApi
<1>4. ASSUME NEW w \in Workers, TakeDelivery(w) \/ DeliverStep(w) \/ ProcessStep(w)
      PROVE  CountsCurrent' /\ \A k \in Msgs : retry'[k] \in {retry[k], Bump(retry[k])}
  <2> USE DEF TypeInv, LocalTypes
  <2>1. CASE \/ TakeDelivery(w) \/ ResolveEndpoint(w) \/ PostToBot(w)
             \/ Backoff(w) \/ UpdateStatus(w) \/ PublishStatus(w)
    BY <2>1, CurrentUntouched
       DEF TakeDelivery, ResolveEndpoint, PostToBot, Backoff, UpdateStatus,
           PublishStatus, CallUpdateStatus
  <2>2. CASE LoadRetryCount(w)
    <3>1. /\ UNCHANGED <<retry, job>>
          /\ \A v \in Workers \ {w} : pc'[v] = pc[v] /\ count'[v] = count[v]
          /\ pc'[w] \in {"resolve", "settle"}
          /\ pc'[w] = "resolve" => count'[w] = retry[job[w]]
      <4>1. CASE /\ count' = [count EXCEPT ![w] = retry[job[w]]]
                 /\ pc' = [pc EXCEPT ![w] = "resolve"]
        BY <2>2, <4>1 DEF LoadRetryCount
      <4>2. CASE /\ pc' = [pc EXCEPT ![w] = "settle"]
                 /\ UNCHANGED count
        BY <2>2, <4>2 DEF LoadRetryCount
      <4> QED BY <2>2, <4>1, <4>2 DEF LoadRetryCount
    <3> QED BY <3>1 DEF CountsCurrent
  <2>3. CASE HandleFailure(w)
    <3>1. /\ pc[w] = "count" /\ pc'[w] \in {"mark", "sleep"}
          /\ \A v \in Workers \ {w} : pc'[v] = pc[v]
          /\ UNCHANGED <<job, count>>
          /\ \/ retry' = [retry EXCEPT ![job[w]] = Bump(count[w])]
             \/ UNCHANGED retry
      BY <2>3 DEF HandleFailure, CallUpdateStatus, NextRetry
    <3>2. /\ job[w] \in Msgs /\ count[w] = retry[job[w]]
          /\ \A v \in Workers \ {w} : job[v] # job[w]
      BY <3>1, Alone DEF CountsCurrent
    <3>3. \A m \in Msgs : retry'[m] \in {retry[m], Bump(retry[m])}
      BY <3>1, <3>2 DEF RowTypes
    <3>4. CountsCurrent'
      <4> SUFFICES ASSUME NEW v \in Workers, pc'[v] \in {"resolve", "post", "count"}
                   PROVE  count[v] = retry'[job[v]]
        BY <3>1 DEF CountsCurrent
      <4>1. v # w /\ pc[v] \in {"resolve", "post", "count"}
        BY <3>1
      <4>2. job[v] \in Msgs /\ job[v] # job[w] /\ count[v] = retry[job[v]]
        BY <3>2, <4>1 DEF CountsCurrent, Busy
      <4> QED BY <3>1, <4>2 DEF RowTypes
    <3> QED BY <3>3, <3>4
  <2>4. CASE Settle(w) \/ Exit(w) \/ CrashWorker(w)
    <3>1. /\ pc'[w] = "idle" /\ UNCHANGED retry
          /\ \A v \in Workers \ {w} :
               pc'[v] = pc[v] /\ job'[v] = job[v] /\ count'[v] = count[v]
      BY <2>4 DEF Settle, Exit, CrashWorker, ProcessEnds, ForgetLocals
    <3> QED BY <3>1, CurrentUntouched
  <2>5. CASE LoseLink(w) \/ Shutdown(w) \/ StartWorker(w)
    BY <2>5, CurrentUntouched DEF LoseLink, Shutdown, StartWorker
  <2> QED BY <1>4, <2>1, <2>2, <2>3, <2>4, <2>5 DEF DeliverStep, ProcessStep
<1> QED BY <1>1, <1>2, <1>3, <1>4 DEF Next

\* retry_count never goes back and never jumps, however many workers read and
\* write it, until a channel closes under its worker.  (deliverer.go:72, 194)
THEOREM MonotoneCorrect == Spec => RetryMonotone
<1> DEFINE Cond == Spared({"linkLoss"}) => LinksStay /\ CountsCurrent
           Up   == Spared({"linkLoss"}) =>
                     \A m \in Msgs : retry'[m] \in {retry[m], Bump(retry[m])}
<1>1. TypeInv /\ CopyInv /\ Cond /\ [Next]_vars => Cond' /\ Up
  <2> SUFFICES ASSUME TypeInv, CopyInv, Cond, [Next]_vars
               PROVE  Cond' /\ Up
    OBVIOUS
  <2>1. Up
    BY CurrentStep
  <2>2. ASSUME Spared({"linkLoss"})' PROVE LinksStay' /\ CountsCurrent'
    <3>1. Spared({"linkLoss"}) /\ "linkLoss" \notin suffered'
      BY <2>2, SufferedGrows DEF Spared
    <3> QED BY <3>1, CurrentStep, LinksStayStep
  <2> QED BY <2>1, <2>2
<1>2. Init => Cond
  BY DEF Init, LinksStay, CountsCurrent
<1>3. Up => [Up]_retry
  OBVIOUS
<1>4. RetryMonotone <=> [][Up]_retry
  BY DEF RetryMonotone
<1> HIDE DEF Cond, Up
<1>5. Spec => [](TypeInv /\ CopyInv /\ Cond)
  BY <1>1, <1>2, InitType, TypeStep, CopyInit, CopyStep, PTL DEF Spec
<1> QED BY <1>1, <1>3, <1>4, <1>5, PTL DEF Spec

-----------------------------------------------------------------------------
(* At most one delivery *)

\* The failures that may deliver a message again are yet to come after this step.
NoRepeatFailure ==
  \A f \in {"crash", "shutdown", "linkLoss", "lateAnswer"} : f \notin suffered'

AtMostOnce == \A m \in Msgs : accepted[m] <= 1

\* A message its bot has taken does not wait for a consumer: whoever holds it
\* is about to write "delivered", or has tried to, and will acknowledge it.
TakenIsSettling ==
  \A m \in Msgs : accepted[m] > 0 =>
    /\ m \notin ready
    /\ \A w \in Workers : m \in held[w] =>
         /\ job[w] = m /\ pc[w] \in {"mark", "tell", "settle"} /\ result[w].ack
         /\ pc[w] = "mark" => mark[w] = "delivered"

\* Only a message its bot has taken is called delivered.
DeliveredWasTaken ==
  /\ \A m \in Msgs : status[m] = "delivered" => accepted[m] > 0
  /\ \A w \in Workers :
       pc[w] = "mark" /\ mark[w] = "delivered" => accepted[job[w]] > 0

OnceInv == AtMostOnce /\ TakenIsSettling /\ DeliveredWasTaken
StaysDelivered == \A m \in Msgs : status[m] = "delivered" => status'[m] = "delivered"

LEMMA OnceUntouched ==
  ASSUME OnceInv,
         UNCHANGED <<ready, held, accepted, status, pc, job, mark, result>>
  PROVE  OnceInv' /\ StaysDelivered
  BY DEF OnceInv, AtMostOnce, TakenIsSettling, DeliveredWasTaken, StaysDelivered

\* Statements of a worker before it knows how the delivery ends.
LEMMA OnceQuiet ==
  ASSUME TypeInv, OnceInv, NEW w \in Workers,
         pc[w] \notin {"mark", "tell", "settle"},
         UNCHANGED <<ready, held, accepted, status>>,
         \A v \in Workers \ {w} : /\ pc'[v] = pc[v] /\ job'[v] = job[v]
                                  /\ mark'[v] = mark[v] /\ result'[v] = result[v],
         pc'[w] = "mark" => mark'[w] # "delivered"
  PROVE  OnceInv' /\ StaysDelivered
<1>1. AtMostOnce' /\ StaysDelivered
  BY DEF OnceInv, AtMostOnce, StaysDelivered
<1>2. TakenIsSettling'
  BY DEF OnceInv, TakenIsSettling
<1>3. DeliveredWasTaken'
  BY DEF OnceInv, DeliveredWasTaken
<1> QED BY <1>1, <1>2, <1>3 DEF OnceInv

LEMMA OnceHandler ==
  ASSUME TypeInv, CopyInv, OnceInv, NEW m \in Msgs, HandlerStep(m)
  PROVE  OnceInv' /\ StaysDelivered
<1> USE DEF HandlerAt, HandlerGoes, localVars, rowVars, botVars
<1>1. CASE AnnounceMessage(m)
  BY <1>1, OnceUntouched DEF AnnounceMessage, brokerVars
<1>2. CASE ~AnnounceMessage(m)
  <2>1. sent[m] \in Unsent
    BY <1>2 DEF HandlerStep, InsertMessage, PublishMessage, RefuseMessage, Unsent
  <2>2. accepted[m] = 0 /\ status[m] # "delivered"
    BY <2>1 DEF CopyInv, OnlySent, OnceInv, DeliveredWasTaken
  <2>3. /\ UNCHANGED <<held, accepted, pc, job, mark, result>>
        /\ ready' \in {ready, ready \cup {m}}
        /\ \/ UNCHANGED status
           \/ \E s \in {"queued", "failed"} : status' = [status EXCEPT ![m] = s]
    BY <1>2 DEF HandlerStep, InsertMessage, PublishMessage, RefuseMessage,
                BrokerPublish, brokerVars
  <2>4. \A k \in Msgs : k = m \/ status'[k] = status[k]
    BY <2>3 DEF TypeInv, RowTypes
  <2>5. status'[m] = "delivered" => status[m] = "delivered"
    BY <2>3 DEF TypeInv, RowTypes
  <2>6. AtMostOnce' /\ StaysDelivered
    BY <2>2, <2>3, <2>4 DEF OnceInv, AtMostOnce, StaysDelivered
  <2>7. TakenIsSettling'
    BY <2>2, <2>3 DEF OnceInv, TakenIsSettling
  <2>8. DeliveredWasTaken'
    BY <2>2, <2>3, <2>4, <2>5 DEF OnceInv, DeliveredWasTaken
  <2> QED BY <2>6, <2>7, <2>8 DEF OnceInv
<1> QED BY <1>1, <1>2

LEMMA OnceDispatch ==
  ASSUME TypeInv, OnceInv, NEW m \in Msgs, Dispatch(m)
  PROVE  OnceInv' /\ StaysDelivered
<1> PICK w \in Workers : DispatchTo(w, m)
  BY DEF Dispatch
<1>1. /\ m \in ready /\ ready' = ready \ {m}
      /\ held' = [held EXCEPT ![w] = @ \cup {m}]
      /\ UNCHANGED <<accepted, status, pc, job, mark, result>>
  BY DEF DispatchTo, rowVars, botVars
<1>2. ~(accepted[m] > 0)
  BY <1>1 DEF OnceInv, TakenIsSettling
<1>3. \A v \in Workers : held'[v] \in {held[v], held[v] \cup {m}}
  BY <1>1 DEF TypeInv, BrokerTypes
<1>4. TakenIsSettling'
  BY <1>1, <1>2, <1>3 DEF OnceInv, TakenIsSettling
<1> QED BY <1>1, <1>4
        DEF OnceInv, AtMostOnce, DeliveredWasTaken, StaysDelivered

LEMMA OncePost ==
  ASSUME NoRepeatFailure, TypeInv, CopyInv, LinksStay, NeverStopping, OnceInv,
         NEW w \in Workers, PostToBot(w)
  PROVE  OnceInv' /\ StaysDelivered
<1> DEFINE m == job[w]
<1> USE DEF rowVars, brokerVars, At, Goto
<1>1. ~CallFails(w, "lateAnswer")
  BY DEF CallFails, Cancelled, Fault, NeverStopping, NoRepeatFailure
<1>2. CASE UNCHANGED accepted /\ pc' = [pc EXCEPT ![w] = "count"] /\ UNCHANGED mark
             /\ UNCHANGED result
  BY <1>2, OnceQuiet DEF PostToBot, TypeInv, LocalTypes
<1>3. CASE /\ accepted' = [accepted EXCEPT ![m] = Bump(@)]
           /\ pc' = [pc EXCEPT ![w] = "mark"]
           /\ mark' = [mark EXCEPT ![w] = "delivered"]
           /\ result' = [result EXCEPT ![w] = [ack |-> TRUE, err |-> FALSE]]
  <2>1. pc[w] = "post" /\ UNCHANGED <<ready, held, status, job>>
    BY DEF PostToBot
  <2>2. /\ m \in Msgs /\ m \in held[w] /\ m \notin ready
        /\ \A v \in Workers \ {w} : job[v] # m /\ m \notin held[v]
    BY <2>1, Alone
  <2>3. accepted[m] = 0
    BY <2>1, <2>2 DEF OnceInv, TakenIsSettling, TypeInv, BotTypes
  <2>4. accepted'[m] = 1 /\ \A k \in Msgs \ {m} : accepted'[k] = accepted[k]
    BY <1>3, <2>2, <2>3 DEF Bump, TypeInv, BotTypes
  <2>5. /\ pc'[w] = "mark" /\ mark'[w] = "delivered" /\ result'[w].ack
        /\ \A v \in Workers \ {w} : /\ pc'[v] = pc[v] /\ mark'[v] = mark[v]
                                      /\ result'[v] = result[v]
    BY <1>3 DEF TypeInv, LocalTypes
  <2>6. AtMostOnce' /\ StaysDelivered
    BY <2>1, <2>4 DEF OnceInv, AtMostOnce, StaysDelivered
  <2>7. TakenIsSettling'
    <3> SUFFICES ASSUME NEW k \in Msgs, accepted'[k] > 0
                 PROVE  /\ k \notin ready
                        /\ \A v \in Workers : k \in held[v] =>
                             /\ job[v] = k /\ pc'[v] \in {"mark", "tell", "settle"}
                             /\ result'[v].ack
                             /\ pc'[v] = "mark" => mark'[v] = "delivered"
      BY <2>1 DEF TakenIsSettling
    <3>1. CASE k = m
      BY <2>2, <2>5, <3>1
    <3>2. CASE k # m
      <4>1. accepted[k] > 0
        BY <2>4, <3>2
      <4>2. k \notin held[w]
        BY <2>1, <4>1 DEF OnceInv, TakenIsSettling
      <4> QED BY <2>5, <4>1, <4>2 DEF OnceInv, TakenIsSettling
    <3> QED BY <3>1, <3>2
  <2>8. DeliveredWasTaken'
    <3>1. \A k \in Msgs : accepted[k] > 0 => accepted'[k] > 0
      BY <2>4
    <3>2. \A v \in Workers \ {w} : pc[v] = "mark" => job[v] \in Msgs
      BY DEF TypeInv, Busy
    <3> QED BY <2>1, <2>2, <2>4, <2>5, <3>1, <3>2 DEF OnceInv, DeliveredWasTaken
  <2> QED BY <2>6, <2>7, <2>8 DEF OnceInv
<1> QED BY <1>1, <1>2, <1>3
        DEF PostToBot, CallUpdateStatus, Return, AcceptedStatus

LEMMA OnceUpdate ==
  ASSUME TypeInv, CopyInv, LinksStay, OnceInv, NEW w \in Workers, UpdateStatus(w)
  PROVE  OnceInv' /\ StaysDelivered
<1> DEFINE m == job[w]
<1>1. /\ pc[w] = "mark" /\ pc' = [pc EXCEPT ![w] = "tell"]
      /\ UNCHANGED <<ready, held, accepted, job, mark, result>>
      /\ \/ status' = [status EXCEPT ![m] = mark[w]]
         \/ UNCHANGED status
  BY DEF UpdateStatus, At, Goto, brokerVars, botVars
<1>2. m \in Msgs /\ m \in held[w]
  BY <1>1, Alone
<1>3. /\ pc'[w] = "tell" /\ \A v \in Workers \ {w} : pc'[v] = pc[v]
      /\ \A k \in Msgs : status'[k] = status[k] \/ (k = m /\ status'[k] = mark[w])
  BY <1>1 DEF TypeInv, LocalTypes, RowTypes
<1>4. StaysDelivered
  BY <1>1, <1>2, <1>3
     DEF OnceInv, TakenIsSettling, DeliveredWasTaken, StaysDelivered
<1>5. TakenIsSettling'
  BY <1>1, <1>3 DEF OnceInv, TakenIsSettling
<1>6. DeliveredWasTaken'
  BY <1>1, <1>3 DEF OnceInv, DeliveredWasTaken
<1> QED BY <1>1, <1>4, <1>5, <1>6 DEF OnceInv, AtMostOnce

LEMMA OnceSettle ==
  ASSUME TypeInv, CopyInv, LinksStay, OnceInv, NEW w \in Workers, Settle(w)
  PROVE  OnceInv' /\ StaysDelivered
<1> DEFINE m == job[w]
<1>1. /\ pc[w] = "settle" /\ pc'[w] = "idle"
      /\ \A v \in Workers \ {w} : /\ pc'[v] = pc[v] /\ job'[v] = job[v]
                                    /\ mark'[v] = mark[v] /\ result'[v] = result[v]
      /\ UNCHANGED <<accepted, status>>
  BY DEF Settle, ForgetLocals, At, Goto, TypeInv, LocalTypes, rowVars, botVars
<1>2. m \in Msgs /\ m \in held[w] /\ link[w]
  BY <1>1, Alone
<1>3. /\ held' = [held EXCEPT ![w] = @ \ {m}]
      /\ \/ UNCHANGED ready
         \/ ~result[w].ack /\ ready' = ready \cup {m}
  BY <1>2 DEF Settle, BrokerAck, BrokerNack
<1>4. held'[w] = held[w] \ {m} /\ \A v \in Workers \ {w} : held'[v] = held[v]
  BY <1>3 DEF TypeInv, BrokerTypes
<1>5. \A k \in Msgs : accepted[k] > 0 => k \notin ready' /\ k \notin held'[w]
  BY <1>2, <1>3, <1>4 DEF OnceInv, TakenIsSettling
<1>6. TakenIsSettling'
  BY <1>1, <1>4, <1>5 DEF OnceInv, TakenIsSettling
<1>7. DeliveredWasTaken'
  BY <1>1 DEF OnceInv, DeliveredWasTaken
<1> QED BY <1>1, <1>6, <1>7 DEF OnceInv, AtMostOnce, StaysDelivered

LEMMA OnceStep ==
  ASSUME NoRepeatFailure, TypeInv, CopyInv, LinksStay, NeverStopping, OnceInv,
         [Next]_vars
  PROVE  OnceInv' /\ StaysDelivered
<1> USE DEF rowVars, brokerVars, localVars, botVars
<1>1. CASE UNCHANGED vars
  BY <1>1, OnceUntouched DEF vars
<1>2. CASE CrashApi
  BY <1>2, OnceUntouched DEF CrashApi
<1>3. ASSUME NEW w \in Workers, TakeDelivery(w) \/ DeliverStep(w)
      PROVE  OnceInv' /\ StaysDelivered
  <2> USE DEF TypeInv, LocalTypes, At, Goto
  <2>1. CASE TakeDelivery(w) \/ LoadRetryCount(w) \/ Backoff(w)
    BY <2>1, OnceQuiet DEF TakeDelivery, LoadRetryCount, Backoff, Return
  <2>2. CASE ResolveEndpoint(w)
    <3>1. \/ pc' = [pc EXCEPT ![w] = "post"] /\ UNCHANGED <<mark, result>>
          \/ \E s \in {"client_delivered", "failed"}, e \in BOOLEAN :
                CallUpdateStatus(w, s, TRUE, e)
      BY <2>2 DEF ResolveEndpoint
    <3>2. /\ pc'[w] = "mark" => mark'[w] # "delivered"
          /\ \A v \in Workers \ {w} : /\ pc'[v] = pc[v] /\ mark'[v] = mark[v]
                                      /\ result'[v] = result[v]
      <4>1. CASE pc' = [pc EXCEPT ![w] = "post"] /\ UNCHANGED <<mark, result>>
        BY <4>1
      <4>2. ASSUME NEW s \in {"client_delivered", "failed"}, NEW e \in BOOLEAN,
                   CallUpdateStatus(w, s, TRUE, e)
            PROVE  /\ mark'[w] # "delivered"
                   /\ \A v \in Workers \ {w} : /\ pc'[v] = pc[v] /\ mark'[v] = mark[v]
                                                /\ result'[v] = result[v]
        BY <4>2 DEF CallUpdateStatus, Return
      <4> QED BY <3>1, <4>1, <4>2
    <3> QED BY <2>2, <3>2, OnceQuiet DEF ResolveEndpoint
  <2>3. CASE HandleFailure(w)
    BY <2>3, OnceQuiet DEF HandleFailure, CallUpdateStatus, Return
  <2>4. CASE PublishStatus(w)
    <3>1. /\ pc[w] = "tell" /\ pc'[w] = "settle"
          /\ \A v \in Workers \ {w} : pc'[v] = pc[v]
          /\ UNCHANGED <<ready, held, accepted, status, job, mark, result>>
      BY <2>4 DEF PublishStatus
    <3>2. AtMostOnce' /\ StaysDelivered
      BY <3>1 DEF OnceInv, AtMostOnce, StaysDelivered
    <3>3. TakenIsSettling'
      BY <3>1 DEF OnceInv, TakenIsSettling
    <3>4. DeliveredWasTaken'
      <4>1. \A v \in Workers : pc'[v] = "mark" => pc[v] = "mark"
        BY <3>1
      <4> QED BY <3>1, <4>1 DEF OnceInv, DeliveredWasTaken
    <3> QED BY <3>2, <3>3, <3>4 DEF OnceInv
  <2> QED BY <1>3, <2>1, <2>2, <2>3, <2>4, OncePost, OnceUpdate, OnceSettle
          DEF DeliverStep
<1>4. ASSUME NEW w \in Workers, ProcessStep(w)
      PROVE  OnceInv' /\ StaysDelivered
  <2>1. StartWorker(w)
    BY <1>4 DEF ProcessStep, Exit, CrashWorker, LoseLink, Shutdown, Cancelled, Fault,
                LinksStay, NeverStopping, NoRepeatFailure
  <2> QED BY <2>1, OnceUntouched DEF StartWorker
<1> QED BY <1>1, <1>2, <1>3, <1>4, OnceHandler, OnceDispatch DEF Next

RepeatFailures == {"crash", "shutdown", "linkLoss", "lateAnswer"}
OnceCond ==
  Spared(RepeatFailures) => LinksStay /\ NeverStopping /\ OnceInv
FinalCond == Spared(RepeatFailures)' => StaysDelivered

LEMMA OnceHolds ==
  TypeInv /\ CopyInv /\ OnceCond /\ [Next]_vars => OnceCond' /\ FinalCond
<1> SUFFICES ASSUME TypeInv, CopyInv, OnceCond, [Next]_vars,
                    Spared(RepeatFailures)'
             PROVE  /\ LinksStay' /\ NeverStopping' /\ OnceInv'
                    /\ StaysDelivered
  BY DEF OnceCond, FinalCond
<1>1. Spared(RepeatFailures)
  BY SufferedGrows DEF Spared
<1>2. NoRepeatFailure
  BY DEF NoRepeatFailure, Spared, RepeatFailures
<1>3. LinksStay' /\ NeverStopping'
  BY <1>1, <1>2, LinksStayStep, NeverStoppingStep DEF NoRepeatFailure, OnceCond
<1> QED BY <1>1, <1>2, <1>3, OnceStep DEF OnceCond

LEMMA OnceAlways == Spec => [](TypeInv /\ CopyInv /\ OnceCond)
<1>1. Init => OnceCond
  BY DEF Init, OnceCond, LinksStay, NeverStopping, OnceInv, AtMostOnce,
         TakenIsSettling, DeliveredWasTaken
<1> QED BY <1>1, OnceHolds, InitType, TypeStep, CopyInit, CopyStep, PTL DEF Spec

\* However many workers there are and whatever fails otherwise, no bot takes a
\* message twice before a worker crashes, is told to stop, loses its channel or
\* misses an answer.  (deliverer.go:167)
THEOREM OnceCorrect == Spec => []NoDuplicateDelivery
<1>1. OnceCond => NoDuplicateDelivery
  BY DEF OnceCond, OnceInv, AtMostOnce, NoDuplicateDelivery, RepeatFailures
<1> QED BY <1>1, OnceAlways, PTL

\* Only calls of the database change a row.
LEMMA RowsChangeByStatements ==
  ASSUME [Next]_vars, status' # status
  PROVE  suffered' \subseteq suffered \cup {"dbError"}
<1> USE DEF Fault, NoFault, faultVars, rowVars
<1>1. ASSUME NEW m \in Msgs, HandlerStep(m) \/ Dispatch(m)
      PROVE  suffered' \subseteq suffered \cup {"dbError"}
  BY <1>1 DEF HandlerStep, InsertMessage, PublishMessage, RefuseMessage,
              AnnounceMessage, Dispatch, DispatchTo
<1>2. ~CrashApi
  BY DEF CrashApi
<1>3. ASSUME NEW w \in Workers, TakeDelivery(w) \/ DeliverStep(w) \/ ProcessStep(w)
      PROVE  suffered' \subseteq suffered \cup {"dbError"}
  <2>1. UpdateStatus(w)
    BY <1>3 DEF TakeDelivery, DeliverStep, LoadRetryCount, ResolveEndpoint,
                PostToBot, HandleFailure, Backoff, PublishStatus, Settle,
                ProcessStep, Exit, CrashWorker, LoseLink, Shutdown, StartWorker
  <2> QED BY <2>1 DEF UpdateStatus, CallWorks, CallFails
<1>4. Next
  BY DEF vars
<1> QED BY <1>1, <1>2, <1>3, <1>4 DEF Next

\* A row that says "delivered" says so for ever, until a worker crashes, is told
\* to stop, loses its channel or misses an answer.  (deliverer.go:168)
THEOREM FinalCorrect == Spec => DeliveredIsFinal
<1> DEFINE Stays == Spared(RepeatFailures) => StaysDelivered
<1>1. FinalCond /\ [Next]_vars => [Stays]_status
  <2> SUFFICES ASSUME FinalCond, [Next]_vars, status' # status,
                      Spared(RepeatFailures)
               PROVE  StaysDelivered
    OBVIOUS
  <2>1. Spared(RepeatFailures)'
    BY RowsChangeByStatements DEF Spared, RepeatFailures
  <2> QED BY <2>1 DEF FinalCond
<1>2. DeliveredIsFinal <=> [][Stays]_status
  BY DEF DeliveredIsFinal, StaysDelivered, RepeatFailures
<1> HIDE DEF Stays
<1> QED BY <1>1, <1>2, OnceHolds, OnceAlways, PTL DEF Spec

-----------------------------------------------------------------------------
(* What the participants are told *)

\* The failures that leave a participant with an old status are yet to come
\* after this step.
NoSilentFailure ==
  \A f \in {"dbError", "redisError", "linkLoss", "shutdown"} : f \notin suffered'

\* A status_update has been published for m, and the feeds agree with the row
\* or with a new_message that came last.
Told(m) ==
  /\ pushed[m] # "none"
  /\ pushed[m] = IF announced[m] = "last" THEN "queued" ELSE status[m]

\* An acknowledged message has been told about, and one that is about to be
\* acknowledged too.
ToldInv ==
  /\ \A w \in Workers :
       /\ pc[w] \in {"mark", "tell"} => mark[w] # "none"
       /\ pc[w] = "tell" => status[job[w]] = mark[w]
       /\ pc[w] = "settle" /\ (result[w].ack \/ ~result[w].err)
            => Told(job[w])
  /\ \A m \in acked : Told(m)

LEMMA ToldUntouched ==
  ASSUME ToldInv, UNCHANGED <<status, feedVars, acked>>,
         \A v \in Workers :
           \/ pc'[v] \notin {"mark", "tell", "settle"}
           \/ pc'[v] = "mark" /\ mark'[v] # "none"
           \/ pc'[v] = "settle" /\ ~result'[v].ack /\ result'[v].err
           \/ /\ pc'[v] = pc[v] /\ job'[v] = job[v]
              /\ mark'[v] = mark[v] /\ result'[v] = result[v]
  PROVE  ToldInv'
  BY DEF ToldInv, Told, feedVars

LEMMA ToldHandler ==
  ASSUME TypeInv, CopyInv, ToldInv, NEW m \in Msgs, HandlerStep(m)
  PROVE  ToldInv'
<1> USE DEF HandlerAt, HandlerGoes, localVars, rowVars, feedVars
<1>1. CASE PublishMessage(m)
  BY <1>1, ToldUntouched DEF PublishMessage, BrokerPublish, brokerVars
<1>3. CASE AnnounceMessage(m)
  <2>1. UNCHANGED <<status, acked, pc, job, mark, result>>
    BY <1>3 DEF AnnounceMessage, brokerVars
  <2>2. ASSUME NEW k \in Msgs, Told(k)
        PROVE  Told(k)'
    BY <1>3, <2>1, <2>2 DEF AnnounceMessage, Told, TypeInv, FeedTypes
  <2>3. acked \subseteq Msgs /\ \A w \in Workers : pc[w] # "idle" => job[w] \in Msgs
    BY DEF TypeInv, BrokerTypes, Busy
  <2> QED BY <2>1, <2>2, <2>3 DEF ToldInv
<1>2. CASE InsertMessage(m) \/ RefuseMessage(m)
  <2>1. /\ sent[m] \in Unsent /\ UNCHANGED <<feedVars, acked, pc, job, mark, result>>
        /\ \A k \in Msgs \ {m} : status'[k] = status[k]
    BY <1>2 DEF InsertMessage, RefuseMessage, Unsent, brokerVars, TypeInv, RowTypes
  <2>2. m \notin acked /\ \A w \in Workers : m # job[w]
    BY <2>1 DEF CopyInv, OnlySent
  <2>3. \A w \in Workers : pc[w] # "idle" => job[w] \in Msgs \ {m}
    BY <2>2 DEF TypeInv, Busy
  <2>4. acked \subseteq Msgs \ {m}
    BY <2>2 DEF TypeInv, BrokerTypes
  <2> QED BY <2>1, <2>3, <2>4 DEF ToldInv, Told
<1> QED BY <1>1, <1>2, <1>3 DEF HandlerStep

\* The end of a delivery: its UPDATE, its events and its acknowledgement.
LEMMA ToldEnd ==
  ASSUME NoSilentFailure, TypeInv, CopyInv, LinksStay, NeverStopping, ToldInv,
         NEW w \in Workers, UpdateStatus(w) \/ PublishStatus(w) \/ Settle(w)
  PROVE  ToldInv'
<1> DEFINE m == job[w]
<1> USE DEF rowVars, brokerVars, localVars, feedVars, At, Goto
<1>0. /\ pc[w] # "idle"
      /\ ~CallFails(w, "dbError") /\ ~CallFails(w, "redisError")
  BY DEF UpdateStatus, PublishStatus, Settle, CallFails, Cancelled, Fault,
         NeverStopping, NoSilentFailure
<1>1. /\ m \in Msgs /\ m \in held[w] /\ m \notin acked /\ link[w]
      /\ \A v \in Workers \ {w} : job[v] # m
      /\ \A v \in Workers : pc[v] # "idle" => job[v] \in Msgs
  BY <1>0, Alone DEF TypeInv, Busy
<1>2. CASE UpdateStatus(w)
  <2>1. /\ status'[m] = mark[w] /\ \A k \in Msgs \ {m} : status'[k] = status[k]
        /\ pc'[w] = "tell" /\ \A v \in Workers \ {w} : pc'[v] = pc[v]
        /\ UNCHANGED <<feedVars, acked, job, mark, result>>
    BY <1>0, <1>1, <1>2 DEF UpdateStatus, TypeInv, LocalTypes, RowTypes
  <2>2. acked \subseteq Msgs \ {m}
    BY <1>1 DEF TypeInv, BrokerTypes
  <2> QED BY <1>1, <1>2, <2>1, <2>2 DEF ToldInv, Told, UpdateStatus
<1>3. CASE PublishStatus(w)
  <2>1. /\ pushed'[m] = mark[w] /\ announced'[m] # "last"
        /\ \A k \in Msgs \ {m} : /\ pushed'[k] = pushed[k]
                                   /\ announced'[k] = announced[k]
        /\ pc[w] = "tell" /\ pc'[w] = "settle"
        /\ \A v \in Workers \ {w} : pc'[v] = pc[v]
        /\ UNCHANGED <<status, acked, job, mark, result>>
    BY <1>0, <1>1, <1>3 DEF PublishStatus, TypeInv, LocalTypes, FeedTypes
  <2>2. acked \subseteq Msgs \ {m}
    BY <1>1 DEF TypeInv, BrokerTypes
  <2>3. Told(m)' /\ \A k \in Msgs \ {m} : Told(k) => Told(k)'
    BY <1>1, <2>1 DEF ToldInv, Told
  <2> QED BY <1>1, <2>1, <2>2, <2>3 DEF ToldInv
<1>4. CASE Settle(w)
  <2>1. /\ pc[w] = "settle" /\ pc'[w] = "idle"
        /\ \A v \in Workers \ {w} : /\ pc'[v] = pc[v] /\ job'[v] = job[v]
                                      /\ mark'[v] = mark[v] /\ result'[v] = result[v]
        /\ UNCHANGED <<status, feedVars>>
    BY <1>4 DEF Settle, ForgetLocals, TypeInv, LocalTypes
  <2>2. \/ UNCHANGED acked
        \/ (result[w].ack \/ ~result[w].err) /\ acked' = acked \cup {m}
    BY <1>1, <1>4 DEF Settle, BrokerAck, BrokerNack
  <2> QED BY <2>1, <2>2 DEF ToldInv, Told
<1> QED BY <1>2, <1>3, <1>4

LEMMA ToldStep ==
  ASSUME NoSilentFailure, TypeInv, CopyInv, LinksStay, NeverStopping, ToldInv,
         [Next]_vars
  PROVE  ToldInv'
<1> USE DEF rowVars, brokerVars, localVars, feedVars
<1>1. CASE UNCHANGED vars
  BY <1>1, ToldUntouched DEF vars
<1>2. CASE CrashApi
  BY <1>2, ToldUntouched DEF CrashApi
<1>3. ASSUME NEW m \in Msgs, Dispatch(m)
      PROVE  ToldInv'
  BY <1>3, ToldUntouched DEF Dispatch, DispatchTo
<1>4. ASSUME NEW w \in Workers, TakeDelivery(w) \/ DeliverStep(w)
      PROVE  ToldInv'
  <2> USE DEF TypeInv, LocalTypes, At, Goto
  <2>1. CASE UpdateStatus(w) \/ PublishStatus(w) \/ Settle(w)
    BY <2>1, ToldEnd
  <2>2. CASE TakeDelivery(w)
    BY <2>2, ToldUntouched DEF TakeDelivery
  <2>3. CASE LoadRetryCount(w)
    <3>1. ~CallFails(w, "dbError")
      BY DEF CallFails, Cancelled, Fault, NeverStopping, NoSilentFailure
    <3> QED BY <2>3, <3>1, ToldUntouched DEF LoadRetryCount
  <2>4. CASE ResolveEndpoint(w) \/ PostToBot(w) \/ HandleFailure(w)
    <3>1. /\ UNCHANGED <<status, feedVars, acked, job>>
          /\ pc'[w] \in {"mark", "post", "count", "sleep"}
          /\ pc'[w] = "mark" => mark'[w] # "none"
          /\ \A v \in Workers \ {w} : /\ pc'[v] = pc[v] /\ mark'[v] = mark[v]
                                        /\ result'[v] = result[v]
      BY <2>4 DEF ResolveEndpoint, PostToBot, HandleFailure, CallUpdateStatus, Return,
                  AcceptedStatus
    <3> QED BY <3>1, ToldUntouched
  <2>5. CASE Backoff(w)
    <3>1. pc'[w] = "settle" /\ ~result'[w].ack /\ result'[w].err
      BY <2>5 DEF Backoff, Return
    <3>2. /\ UNCHANGED <<status, feedVars, acked, job, mark>>
          /\ \A v \in Workers \ {w} : pc'[v] = pc[v] /\ result'[v] = result[v]
      BY <2>5 DEF Backoff, Return
    <3> QED BY <3>1, <3>2, ToldUntouched
  <2> QED BY <1>4, <2>1, <2>2, <2>3, <2>4, <2>5 DEF DeliverStep
<1>5. ASSUME NEW w \in Workers, ProcessStep(w)
      PROVE  ToldInv'
  <2>1. StartWorker(w) \/ CrashWorker(w)
    BY <1>5 DEF ProcessStep, Exit, LoseLink, Shutdown, Cancelled, Fault,
                LinksStay, NeverStopping, NoSilentFailure
  <2>2. /\ UNCHANGED <<status, feedVars, acked>>
        /\ \/ UNCHANGED <<pc, job, mark, result>>
           \/ /\ pc'[w] = "idle"
              /\ \A v \in Workers \ {w} : /\ pc'[v] = pc[v] /\ job'[v] = job[v]
                                           /\ mark'[v] = mark[v] /\ result'[v] = result[v]
    BY <2>1 DEF StartWorker, CrashWorker, ProcessEnds, ForgetLocals, BrokerDrop,
                TypeInv, LocalTypes, Goto
  <2> QED BY <2>2, ToldUntouched
<1> QED BY <1>1, <1>2, <1>3, <1>4, <1>5, ToldHandler DEF Next

\* Until a call of the database or of Redis fails, a channel closes or a worker
\* is told to stop, the last status on the feeds of every acknowledged message
\* is the one its row shows, even when workers crash, unless a new_message was
\* published after the status_update: then it is "queued".
\* (deliverer.go:219, messages.go:149)
THEOREM ToldCorrect == Spec => []FeedAgreesWhenSettled
<1> DEFINE Silent == {"dbError", "redisError", "linkLoss", "shutdown"}
           Cond == Spared(Silent) => LinksStay /\ NeverStopping /\ ToldInv
<1>1. TypeInv /\ CopyInv /\ Cond /\ [Next]_vars => Cond'
  <2> SUFFICES ASSUME TypeInv, CopyInv, Cond, [Next]_vars, Spared(Silent)'
               PROVE  LinksStay' /\ NeverStopping' /\ ToldInv'
    OBVIOUS
  <2>1. Spared(Silent)
    BY SufferedGrows DEF Spared
  <2>2. NoSilentFailure
    BY DEF NoSilentFailure, Spared
  <2>3. LinksStay' /\ NeverStopping'
    BY <2>1, <2>2, LinksStayStep, NeverStoppingStep DEF NoSilentFailure
  <2> QED BY <2>1, <2>2, <2>3, ToldStep
<1>2. Init => Cond
  BY DEF Init, LinksStay, NeverStopping, ToldInv
<1>3. Cond => FeedAgreesWhenSettled
  BY DEF ToldInv, Told, FeedAgreesWhenSettled
<1> HIDE DEF Cond
<1>4. Spec => [](TypeInv /\ CopyInv /\ Cond)
  BY <1>1, <1>2, InitType, TypeStep, CopyInit, CopyStep, PTL DEF Spec
<1> QED BY <1>3, <1>4, PTL
=============================================================================
