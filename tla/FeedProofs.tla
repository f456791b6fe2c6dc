----------------------------- MODULE FeedProofs -----------------------------
(***************************************************************************)
(* Theorems about Feed, for any number of connections and of events, any   *)
(* capacity of the channel and any losses of the link.                     *)
(***************************************************************************)
EXTENDS Feed, TLAPS

USE FeedAssumption

Ascending(q) == \A i, j \in 1..Len(q) : i < j => q[i] < q[j]
Between(q, low, high) == \A i \in 1..Len(q) : low < q[i] /\ q[i] <= high
Before(q, r) == \A i \in 1..Len(q), j \in 1..Len(r) : q[i] < r[j]

\* What InOrderOnce needs to be inductive: what was sent, what is being written
\* and what is waiting ascend one after the other.
InOrder(c) ==
  /\ Ascending(sent[c]) /\ Ascending(queue[c]) /\ Before(sent[c], queue[c])
  /\ Between(sent[c], since[c], published) /\ Between(queue[c], since[c], published)
  /\ current[c] # 0 =>
       /\ since[c] < current[c] /\ current[c] <= published
       /\ \A i \in 1..Len(sent[c]) : sent[c][i] < current[c]
       /\ \A j \in 1..Len(queue[c]) : current[c] < queue[c][j]

\* A connection has events only when the handler is in its loop, and none
\* before its first subscription.
Placed(c) ==
  /\ since[c] <= published
  /\ current[c] # 0 <=> main[c] = "writing"
  /\ main[c] \notin {"loop", "writing"} => queue[c] = <<>> /\ ~listening[c]
  /\ main[c] \in {"none", "upgraded"} => sent[c] = <<>> /\ ~lossy[c]
  /\ main[c] \in {"loop", "writing"} /\ ~listening[c] /\ ~lossy[c] =>
       sent[c] = <<>> /\ queue[c] = <<>> /\ current[c] = 0

Complete(c) ==
  client[c] = "here" /\ listening[c] /\ ~lossy[c] =>
    Len(sent[c]) + (IF current[c] = 0 THEN 0 ELSE 1) + Len(queue[c])
      = published - since[c]

ConnInv(c) == InOrder(c) /\ Placed(c) /\ Complete(c)

FeedInv == TypeOK /\ \A c \in Conns : ConnInv(c)

LEMMA FeedInit == Init => FeedInv
<1> SUFFICES ASSUME Init PROVE FeedInv
  OBVIOUS
<1>1. /\ done \in [Conns -> BOOLEAN] /\ listening \in [Conns -> BOOLEAN]
      /\ lossy \in [Conns -> BOOLEAN]
  BY DEF Init
<1>2. TypeOK
  BY <1>1 DEF Init, TypeOK
<1>3. ASSUME NEW c \in Conns PROVE ConnInv(c)
  <2>1. /\ sent[c] = <<>> /\ queue[c] = <<>> /\ current[c] = 0 /\ since[c] = 0
        /\ published = 0 /\ main[c] = "none" /\ client[c] = "none"
        /\ listening[c] = FALSE /\ lossy[c] = FALSE
    BY DEF Init
  <2>2. Len(sent[c]) = 0 /\ Len(queue[c]) = 0
    BY <2>1
  <2>3. InOrder(c)
    BY <2>1, <2>2 DEF InOrder, Ascending, Between, Before
  <2>4. Placed(c) /\ Complete(c)
    BY <2>1, <2>2 DEF Placed, Complete
  <2> QED BY <2>3, <2>4 DEF ConnInv
<1> QED BY <1>2, <1>3 DEF FeedInv

-----------------------------------------------------------------------------
(* Sequences of events *)

LEMMA AppendLast ==
  ASSUME NEW q \in Seq(Events), NEW e \in Events
  PROVE  /\ Append(q, e) \in Seq(Events) /\ Len(Append(q, e)) = Len(q) + 1
         /\ Len(q) \in Nat /\ Append(q, e)[Len(q) + 1] = e
         /\ \A i \in 1..Len(q) : Append(q, e)[i] = q[i]
  OBVIOUS

LEMMA TakeFirst ==
  ASSUME NEW q \in Seq(Events), q # <<>>
  PROVE  /\ Head(q) \in Events /\ Head(q) = q[1] /\ 1 \in 1..Len(q)
         /\ Tail(q) \in Seq(Events) /\ Len(Tail(q)) = Len(q) - 1 /\ Len(q) \in Nat
         /\ \A i \in 1..Len(Tail(q)) : Tail(q)[i] = q[i + 1] /\ i + 1 \in 2..Len(q)
  OBVIOUS

\* The first n elements.
LEMMA CutShort ==
  ASSUME NEW q \in Seq(Events), NEW n \in 0..Len(q)
  PROVE  /\ SubSeq(q, 1, n) \in Seq(Events) /\ Len(SubSeq(q, 1, n)) = n
         /\ \A i \in 1..n : SubSeq(q, 1, n)[i] = q[i] /\ i \in 1..Len(q)
  OBVIOUS

\* All but the one after the first n.
LEMMA LeaveOut ==
  ASSUME NEW q \in Seq(Events), NEW n \in Nat \ {0}, Len(q) > n
  PROVE  LET r == SubSeq(q, 1, n) \o SubSeq(q, n + 2, Len(q))
         IN  /\ r \in Seq(Events) /\ Len(r) = Len(q) - 1
             /\ \A i \in 1..Len(r) :
                  r[i] = q[IF i <= n THEN i ELSE i + 1] /\ i \in 1..Len(q) /\ i + 1 \in 1..Len(q)
<1> DEFINE a == SubSeq(q, 1, n)
           b == SubSeq(q, n + 2, Len(q))
<1>1. /\ a \in Seq(Events) /\ Len(a) = n /\ Len(q) \in Nat
      /\ \A i \in 1..n : a[i] = q[i]
  OBVIOUS
<1>2. /\ b \in Seq(Events) /\ Len(b) = Len(q) - n - 1
      /\ \A i \in 1..Len(b) : b[i] = q[i + n + 1]
  <2>1. n + 2 \in 1..Len(q) + 1 /\ Len(q) \in Nat
    OBVIOUS
  <2>2. \A i \in (n + 2)..Len(q) : q[i] \in Events
    OBVIOUS
  <2>3. Len(b) = Len(q) - n - 1
    BY <2>1
  <2>4. \A i \in 1..Len(b) : b[i] = q[i + n + 1]
    BY <2>1, <2>3
  <2>5. b \in Seq(Events)
    BY <2>1, <2>2
  <2> QED BY <2>3, <2>4, <2>5
<1> HIDE DEF a, b
<1>3. /\ a \o b \in Seq(Events) /\ Len(a \o b) = Len(a) + Len(b)
      /\ \A i \in 1..Len(a \o b) : (a \o b)[i] = IF i <= Len(a) THEN a[i] ELSE b[i - Len(a)]
  <2>1. a \in Seq(Events) /\ b \in Seq(Events)
    BY <1>1, <1>2
  <2> QED BY ONLY <2>1
<1>4. \A i \in 1..Len(a \o b) :
        (a \o b)[i] = q[IF i <= n THEN i ELSE i + 1] /\ i \in 1..Len(q) /\ i + 1 \in 1..Len(q)
  <2> SUFFICES ASSUME NEW i \in 1..Len(a \o b)
               PROVE  /\ (a \o b)[i] = q[IF i <= n THEN i ELSE i + 1]
                      /\ i \in 1..Len(q) /\ i + 1 \in 1..Len(q)
    OBVIOUS
  <2>1. i \in Nat /\ i >= 1 /\ i <= Len(q) - 1
    BY <1>1, <1>2, <1>3
  <2>2. CASE i <= n
    BY <1>1, <1>3, <2>1, <2>2
  <2>3. CASE ~(i <= n)
    <3>1. i - n \in 1..Len(b) /\ (i - n) + n + 1 = i + 1
      BY <1>1, <1>2, <2>1, <2>3
    <3>2. (a \o b)[i] = b[i - n]
      BY <1>1, <1>3, <2>1, <2>3
    <3>3. b[i - n] = q[(i - n) + n + 1]
      BY <1>2, <3>1
    <3> QED BY <1>1, <2>1, <2>3, <3>1, <3>2, <3>3
  <2> QED BY <2>2, <2>3
<1>5. Len(a \o b) = Len(q) - 1
  BY <1>1, <1>2, <1>3
<1> QED BY <1>3, <1>4, <1>5 DEF a, b

\* Events that have been published stay published.
LEMMA Later ==
  ASSUME NEW q \in Seq(Events), NEW low, NEW p \in Nat, Between(q, low, p)
  PROVE  /\ Between(q, low, p + 1)
         /\ \A i \in 1..Len(q) : q[i] < p + 1
<1> SUFFICES ASSUME NEW i \in 1..Len(q)
             PROVE  low < q[i] /\ q[i] <= p + 1 /\ q[i] < p + 1
  BY DEF Between
<1>1. q[i] \in Nat
  BY DEF Events
<1>2. low < q[i] /\ q[i] <= p
  BY DEF Between
<1> QED BY <1>1, <1>2

\* One more event published is one more on its way.
LEMMA OneMore ==
  ASSUME NEW a \in Nat, NEW w \in Nat, NEW b \in Nat, NEW p \in Nat, NEW s \in Nat,
         a + w + b = p - s
  PROVE  a + w + (b + 1) = (p + 1) - s
  OBVIOUS

-----------------------------------------------------------------------------
(* One connection *)

\* Events that leave the queue leave the rest in order.
LEMMA QueueShrinks ==
  ASSUME FeedInv, NEW c \in Conns, InOrder(c),
         UNCHANGED <<published, sent, current, since>>,
         queue'[c] \in Seq(Events),
         NEW f,
         \A i \in 1..Len(queue'[c]) : f[i] \in 1..Len(queue[c]) /\ queue'[c][i] = queue[c][f[i]],
         \A i, j \in 1..Len(queue'[c]) : i < j => f[i] < f[j]
  PROVE  InOrder(c)'
<1>1. Ascending(queue'[c]) /\ Before(sent'[c], queue'[c]) /\ Between(queue'[c], since'[c], published')
  BY DEF InOrder, Ascending, Before, Between
<1>2. Ascending(sent'[c]) /\ Between(sent'[c], since'[c], published')
  BY DEF InOrder
<1>3. current'[c] # 0 =>
       /\ since'[c] < current'[c] /\ current'[c] <= published'
       /\ \A i \in 1..Len(sent'[c]) : sent'[c][i] < current'[c]
       /\ \A j \in 1..Len(queue'[c]) : current'[c] < queue'[c][j]
  BY DEF InOrder
<1> QED BY <1>1, <1>2, <1>3 DEF InOrder

\* What a step of one connection leaves of the others.
LEMMA OtherConns ==
  ASSUME FeedInv, NEW c \in Conns, UNCHANGED published,
         \A x \in Conns \ {c} :
           /\ client'[x] = client[x] /\ main'[x] = main[x]
           /\ listening'[x] = listening[x] /\ queue'[x] = queue[x]
           /\ current'[x] = current[x] /\ sent'[x] = sent[x]
           /\ since'[x] = since[x] /\ lossy'[x] = lossy[x],
         ConnInv(c)'
  PROVE  \A x \in Conns : ConnInv(x)'
<1> TAKE x \in Conns
<1>1. CASE x = c
  BY <1>1
<1>2. CASE x # c
  <2>1. ConnInv(x)
    BY DEF FeedInv
  <2>2. InOrder(x)'
    BY <1>2, <2>1 DEF ConnInv, InOrder
  <2>3. Placed(x)' /\ Complete(x)'
    BY <1>2, <2>1 DEF ConnInv, Placed, Complete
  <2> QED BY <2>2, <2>3 DEF ConnInv
<1> QED BY <1>1, <1>2

\* Steps that move no event.
LEMMA QuietPreserves ==
  ASSUME FeedInv, NEW c \in Conns,
         Leave(c) \/ Listen(c) \/ Upgrade(c) \/ Subscribe(c) \/ ReaderEnds(c)
  PROVE  FeedInv'
<1>0. TypeOK /\ ConnInv(c)
  BY DEF FeedInv
<1>1. /\ UNCHANGED <<published, queue, current, sent, lossy, budget>>
      /\ \A x \in Conns \ {c} :
           client'[x] = client[x] /\ main'[x] = main[x]
             /\ listening'[x] = listening[x] /\ since'[x] = since[x]
  BY <1>0 DEF Leave, Listen, Upgrade, Subscribe, ReaderEnds, TypeOK
<1>2. TypeOK'
  <2>1. /\ done' \in [Conns -> BOOLEAN] /\ listening' \in [Conns -> BOOLEAN]
    BY <1>0 DEF Leave, Listen, Upgrade, Subscribe, ReaderEnds, TypeOK
  <2>2. since' \in [Conns -> 0..MaxEvents]
    BY <1>0 DEF Leave, Listen, Upgrade, Subscribe, ReaderEnds, TypeOK
  <2>3. /\ client' \in [Conns -> {"none", "here", "gone"}]
        /\ main' \in [Conns -> {"none", "upgraded", "loop", "writing", "ended"}]
        /\ reader' \in [Conns -> {"none", "running", "ended"}]
    BY <1>0 DEF Leave, Listen, Upgrade, Subscribe, ReaderEnds, TypeOK
  <2> QED BY <1>0, <1>1, <2>1, <2>2, <2>3 DEF TypeOK
<1>3. ConnInv(c)'
  <2>1. CASE Listen(c)
    <3>1. /\ main[c] \in {"loop", "writing"} /\ ~listening[c] /\ listening'[c]
          /\ since'[c] = IF lossy[c] THEN since[c] ELSE published
          /\ UNCHANGED <<client, main>>
      BY <1>0, <2>1 DEF Listen, TypeOK
    <3>2. CASE lossy[c]
      BY <1>0, <1>1, <3>1, <3>2 DEF ConnInv, InOrder, Placed, Complete
    <3>3. CASE ~lossy[c]
      <4>1. /\ sent[c] = <<>> /\ queue[c] = <<>> /\ current[c] = 0
            /\ Len(sent[c]) = 0 /\ Len(queue[c]) = 0
        BY <1>0, <3>1, <3>3 DEF ConnInv, Placed
      <4>2. InOrder(c)'
        BY <1>1, <4>1 DEF InOrder, Ascending, Before, Between
      <4>3. published \in Nat
        BY <1>0 DEF TypeOK
      <4>4. Placed(c)' /\ Complete(c)'
        BY <1>0, <1>1, <3>1, <3>3, <4>1, <4>3 DEF ConnInv, Placed, Complete
      <4> QED BY <4>2, <4>4 DEF ConnInv
    <3> QED BY <3>2, <3>3
  <2>2. CASE Leave(c) \/ Upgrade(c) \/ Subscribe(c) \/ ReaderEnds(c)
    <3>1. UNCHANGED <<listening, since>>
      BY <2>2 DEF Leave, Upgrade, Subscribe, ReaderEnds
    <3>2. InOrder(c)'
      BY <1>0, <1>1, <3>1 DEF ConnInv, InOrder
    <3>3. Placed(c)'
      BY <1>0, <1>1, <2>2, <3>1
         DEF ConnInv, Placed, Leave, Upgrade, Subscribe, ReaderEnds, TypeOK
    <3>4. Complete(c)'
      BY <1>0, <1>1, <2>2, <3>1
         DEF ConnInv, Placed, Complete, Leave, Upgrade, Subscribe, ReaderEnds, TypeOK
    <3> QED BY <3>2, <3>3, <3>4 DEF ConnInv
  <2> QED BY <2>1, <2>2
<1> QED BY <1>1, <1>2, <1>3, OtherConns DEF FeedInv

\* A publication: it is later than everything, in each queue that it joins.
LEMMA PublishPreserves == ASSUME FeedInv, PublishEvent PROVE FeedInv'
<1> DEFINE e == published + 1
<1>0. TypeOK /\ published \in Nat /\ e \in Events /\ published' = e
  BY DEF FeedInv, PublishEvent, TypeOK, Events
<1>1. UNCHANGED <<client, main, reader, done, listening, current, sent, since, lossy, budget>>
  BY DEF PublishEvent
<1>2. \A c \in Conns : queue'[c] = IF listening[c] THEN Append(queue[c], e) ELSE queue[c]
  BY DEF PublishEvent, Push
<1>3. TypeOK'
  <2>1. \A c \in Conns : queue[c] \in Seq(Events) /\ Append(queue[c], e) \in Seq(Events)
    BY <1>0, AppendLast DEF TypeOK
  <2>2. queue' = [c \in Conns |-> Push(c, e)]
    BY DEF PublishEvent
  <2>3. queue' \in [Conns -> Seq(Events)]
    BY <2>1, <2>2 DEF Push
  <2>4. published' \in 0..MaxEvents
    BY <1>0 DEF Events
  <2> QED BY <1>0, <1>1, <2>3, <2>4 DEF TypeOK
<1>4. ASSUME NEW c \in Conns PROVE ConnInv(c)'
  <2> DEFINE q == queue[c]
  <2>0. ConnInv(c) /\ q \in Seq(Events) /\ sent[c] \in Seq(Events)
        /\ since[c] \in Nat /\ current[c] \in Nat
    BY <1>0 DEF FeedInv, TypeOK, Events
  <2>1. CASE ~listening[c]
    <3>1. queue'[c] = q
      BY <1>2, <2>1
    <3>2. Between(sent[c], since[c], e) /\ Between(q, since[c], e)
      BY <1>0, <2>0, Later DEF ConnInv, InOrder
    <3>3. InOrder(c)'
      BY <1>0, <1>1, <2>0, <3>1, <3>2 DEF ConnInv, InOrder
    <3>4. Placed(c)'
      BY <1>0, <1>1, <2>0, <3>1 DEF ConnInv, Placed
    <3>5. Complete(c)'
      BY <1>1, <2>1 DEF Complete
    <3> QED BY <3>3, <3>4, <3>5 DEF ConnInv
  <2>2. CASE listening[c]
    <3> DEFINE r == Append(q, e)
    <3>1. /\ queue'[c] = r /\ Len(r) = Len(q) + 1 /\ Len(q) \in Nat /\ r[Len(q) + 1] = e
          /\ \A i \in 1..Len(q) : r[i] = q[i]
      BY <1>0, <1>2, <2>0, <2>2, AppendLast
    <3> HIDE DEF r, q
    <3>2. \A i \in 1..Len(r) : i \in 1..Len(q) \/ i = Len(q) + 1
      BY <3>1
    <3>3. /\ \A i \in 1..Len(q) : q[i] < e /\ q[i] > since[c]
          /\ since[c] < e
      BY <1>0, <2>0 DEF ConnInv, InOrder, Placed, Between, q, Events
    <3>4. Ascending(r)
      <4>1. Ascending(q)
        BY <2>0 DEF ConnInv, InOrder, q
      <4> SUFFICES ASSUME NEW i \in 1..Len(r), NEW j \in 1..Len(r), i < j PROVE r[i] < r[j]
        BY DEF Ascending
      <4>2. i \in 1..Len(q)
        BY <3>1
      <4> QED BY <3>1, <3>2, <3>3, <4>1, <4>2 DEF Ascending
    <3>5. Between(r, since[c], e)
      <4> SUFFICES ASSUME NEW i \in 1..Len(r) PROVE since[c] < r[i] /\ r[i] <= e
        BY DEF Between
      <4>1. CASE i \in 1..Len(q)
        <5>1. r[i] = q[i] /\ q[i] \in Nat
          BY <2>0, <3>1, <4>1 DEF Events, q
        <5> QED BY <1>0, <2>0, <3>3, <4>1, <5>1
      <4>2. CASE i = Len(q) + 1
        BY <1>0, <3>1, <3>3, <4>2
      <4> QED BY <3>2, <4>1, <4>2
    <3>6. Between(sent[c], since[c], e) /\ \A i \in 1..Len(sent[c]) : sent[c][i] < e
      BY <1>0, <2>0, Later DEF ConnInv, InOrder
    <3>7. Before(sent[c], r)
      BY <2>0, <3>1, <3>2, <3>6 DEF ConnInv, InOrder, Before, q
    <3>8. current[c] # 0 =>
            /\ since[c] < current[c] /\ current[c] <= e
            /\ \A j \in 1..Len(r) : current[c] < r[j]
      <4> SUFFICES ASSUME current[c] # 0
                   PROVE  /\ since[c] < current[c] /\ current[c] <= e
                          /\ \A j \in 1..Len(r) : current[c] < r[j]
        OBVIOUS
      <4>1. /\ since[c] < current[c] /\ current[c] <= published
            /\ \A j \in 1..Len(q) : current[c] < q[j]
        BY <2>0 DEF ConnInv, InOrder, q
      <4>2. current[c] < e
        BY <1>0, <2>0, <4>1
      <4> QED BY <1>0, <2>0, <3>1, <3>2, <4>1, <4>2
    <3>9. InOrder(c)'
      BY <1>0, <1>1, <2>0, <3>1, <3>4, <3>5, <3>6, <3>7, <3>8 DEF ConnInv, InOrder
    <3>10. Placed(c)'
      BY <1>0, <1>1, <2>0, <2>2 DEF ConnInv, Placed
    <3>11. Complete(c)'
      <4>1. client[c] = "here" /\ ~lossy[c] =>
              Len(sent[c]) + (IF current[c] = 0 THEN 0 ELSE 1) + Len(q) = published - since[c]
        BY <2>0, <2>2 DEF ConnInv, Complete, q
      <4>2. Len(sent[c]) \in Nat
        BY <2>0
      <4>3. client[c] = "here" /\ ~lossy[c] =>
              Len(sent[c]) + (IF current[c] = 0 THEN 0 ELSE 1) + Len(r) = e - since[c]
        <5> SUFFICES ASSUME client[c] = "here" /\ ~lossy[c]
                     PROVE  Len(sent[c]) + (IF current[c] = 0 THEN 0 ELSE 1) + Len(r)
                              = e - since[c]
          OBVIOUS
        <5>1. PICK w \in Nat : w = IF current[c] = 0 THEN 0 ELSE 1
          OBVIOUS
        <5>2. PICK a \in Nat : a = Len(sent[c])
          BY <4>2
        <5>3. PICK b \in Nat : b = Len(q) /\ Len(r) = b + 1
          BY <3>1
        <5>4. a + w + b = published - since[c]
          BY <4>1, <5>1, <5>2, <5>3
        <5>5. a + w + (b + 1) = e - since[c]
          BY <1>0, <2>0, <5>4, OneMore
        <5> QED BY <5>1, <5>2, <5>3, <5>5
      <4> QED BY <1>0, <1>1, <3>1, <4>3 DEF Complete
    <3> QED BY <3>9, <3>10, <3>11 DEF ConnInv
  <2> QED BY <2>1, <2>2
<1> QED BY <1>3, <1>4 DEF FeedInv

\* go-redis or the link loses events: those that are left keep their order, and
\* the connection is lossy.
LEMMA LossPreserves ==
  ASSUME FeedInv, NEW c \in Conns, DropEvent(c) \/ LoseRedis(c)
  PROVE  FeedInv'
<1> DEFINE q == queue[c]
<1>0. TypeOK /\ ConnInv(c) /\ q \in Seq(Events) /\ Len(q) \in Nat
  BY DEF FeedInv, TypeOK
<1>1. /\ UNCHANGED <<published, client, main, reader, done, current, sent, since>>
      /\ lossy' = [lossy EXCEPT ![c] = TRUE] /\ budget' \in 0..MaxFaults
      /\ listening' \in [Conns -> BOOLEAN]
      /\ \A x \in Conns \ {c} : listening'[x] = listening[x]
      /\ listening'[c] => listening[c]
  <2>1. CASE DropEvent(c)
    BY <1>0, <2>1 DEF DropEvent, TypeOK
  <2>2. CASE LoseRedis(c)
    <3>1. listening' \in [Conns -> BOOLEAN]
      BY <1>0, <2>2 DEF LoseRedis, TypeOK
    <3> QED BY <1>0, <2>2, <3>1 DEF LoseRedis, TypeOK
  <2> QED BY <2>1, <2>2
<1>2. PICK r \in Seq(Events) :
        /\ queue' = [queue EXCEPT ![c] = r]
        /\ \E f : /\ \A i \in 1..Len(r) : f[i] \in 1..Len(q) /\ r[i] = q[f[i]]
                  /\ \A i, j \in 1..Len(r) : i < j => f[i] < f[j]
        /\ q = <<>> => r = <<>>
  <2>1. CASE DropEvent(c)
    <3> DEFINE r == SubSeq(q, 1, Buffer) \o SubSeq(q, Buffer + 2, Len(q))
               f == [i \in 1..Len(r) |-> IF i <= Buffer THEN i ELSE i + 1]
    <3>1. queue' = [queue EXCEPT ![c] = r] /\ Len(q) > Buffer
      BY <2>1 DEF DropEvent
    <3>2. /\ r \in Seq(Events) /\ Len(r) = Len(q) - 1
          /\ \A i \in 1..Len(r) :
               r[i] = q[IF i <= Buffer THEN i ELSE i + 1] /\ i \in 1..Len(q) /\ i + 1 \in 1..Len(q)
      BY <1>0, <3>1, LeaveOut
    <3> HIDE DEF r, q
    <3>3. \A i \in 1..Len(r) : f[i] = (IF i <= Buffer THEN i ELSE i + 1)
      OBVIOUS
    <3>4. \A i \in 1..Len(r) : f[i] \in 1..Len(q) /\ r[i] = q[f[i]]
      BY <3>2, <3>3
    <3>5. \A i, j \in 1..Len(r) : i < j => f[i] < f[j]
      BY <1>0, <3>2, <3>3
    <3>6. q # <<>>
      BY <3>1, <1>0
    <3> HIDE DEF f
    <3> QED BY <3>1, <3>2, <3>4, <3>5, <3>6
  <2>2. CASE LoseRedis(c)
    <3>1. PICK kept \in 0..Buffer + 1 :
            queue' = [queue EXCEPT ![c] = SubSeq(@, 1, IF kept < Len(@) THEN kept ELSE Len(@))]
      BY <2>2 DEF LoseRedis
    <3> DEFINE n == IF kept < Len(q) THEN kept ELSE Len(q)
               r == SubSeq(q, 1, n)
               f == [i \in 1..n |-> i]
    <3>2. n \in 0..Len(q)
      BY <1>0
    <3>3. queue' = [queue EXCEPT ![c] = r]
      BY <1>0, <3>1 DEF TypeOK
    <3>4. /\ r \in Seq(Events) /\ Len(r) = n
          /\ \A i \in 1..n : r[i] = q[i] /\ i \in 1..Len(q)
      BY <1>0, <3>2, CutShort
    <3>5. q = <<>> => r = <<>>
      BY <1>0, <3>2, <3>4
    <3> HIDE DEF r, n, q
    <3>6. /\ \A i \in 1..Len(r) : f[i] \in 1..Len(q) /\ r[i] = q[f[i]]
          /\ \A i, j \in 1..Len(r) : i < j => f[i] < f[j]
      BY <3>4
    <3> HIDE DEF f
    <3> QED BY <3>3, <3>4, <3>5, <3>6
  <2> QED BY <2>1, <2>2
<1>3. queue'[c] = r /\ \A x \in Conns \ {c} : queue'[x] = queue[x] /\ lossy'[x] = lossy[x]
  BY <1>0, <1>1, <1>2 DEF TypeOK
<1>4. lossy'[c] /\ lossy' \in [Conns -> BOOLEAN]
  BY <1>0, <1>1 DEF TypeOK
<1>5. TypeOK'
  <2>1. queue' \in [Conns -> Seq(Events)]
    BY <1>0, <1>2 DEF TypeOK
  <2> QED BY <1>0, <1>1, <1>4, <2>1 DEF TypeOK
<1>6. InOrder(c)'
  <2>1. InOrder(c)
    BY <1>0 DEF ConnInv
  <2> QED BY <1>1, <1>2, <1>3, <2>1, QueueShrinks
<1>7. Placed(c)'
  <2>1. Placed(c)
    BY <1>0 DEF ConnInv
  <2>2. q = <<>> => queue'[c] = <<>>
    BY <1>2, <1>3
  <2>3. /\ since'[c] = since[c] /\ published' = published /\ current'[c] = current[c]
        /\ main'[c] = main[c] /\ sent'[c] = sent[c] /\ lossy'[c] = TRUE
    BY <1>0, <1>1 DEF TypeOK
  <2>4. main[c] \in {"loop", "writing"}
    <3>1. CASE DropEvent(c)
      <4>1. q # <<>>
        BY <1>0, <3>1 DEF DropEvent
      <4> QED BY <2>1, <4>1 DEF Placed
    <3>2. CASE LoseRedis(c)
      BY <2>1, <3>2 DEF LoseRedis, Placed
    <3> QED BY <3>1, <3>2
  <2> QED BY <1>1, <2>1, <2>2, <2>3, <2>4 DEF Placed
<1>8. Complete(c)'
  BY <1>4 DEF Complete
<1> QED BY <1>1, <1>3, <1>5, <1>6, <1>7, <1>8, OtherConns DEF FeedInv, ConnInv

\* The first event of the queue becomes the one that is written.
LEMMA TakePreserves == ASSUME FeedInv, NEW c \in Conns, Take(c) PROVE FeedInv'
<1> DEFINE q == queue[c]
           t == Tail(q)
<1>0. TypeOK /\ ConnInv(c) /\ q \in Seq(Events) /\ q # <<>> /\ main[c] = "loop"
      /\ sent[c] \in Seq(Events)
  BY DEF FeedInv, TypeOK, Take
<1>1. /\ q[1] \in Events /\ 1 \in 1..Len(q) /\ Len(q) \in Nat
      /\ t \in Seq(Events) /\ Len(t) = Len(q) - 1
      /\ \A i \in 1..Len(t) : t[i] = q[i + 1] /\ i + 1 \in 2..Len(q)
  BY <1>0, TakeFirst
<1>2. /\ UNCHANGED <<published, client, reader, done, listening, sent, since, lossy, budget>>
      /\ main' = [main EXCEPT ![c] = "writing"]
      /\ current' = [current EXCEPT ![c] = q[1]]
      /\ queue' = [queue EXCEPT ![c] = t]
  BY <1>0, TakeFirst DEF Take, TypeOK
<1>3. /\ main'[c] = "writing" /\ current'[c] = q[1] /\ queue'[c] = t
      /\ \A x \in Conns \ {c} :
           main'[x] = main[x] /\ current'[x] = current[x] /\ queue'[x] = queue[x]
  BY <1>0, <1>2 DEF TypeOK
<1>4. TypeOK'
  <2>1. queue' \in [Conns -> Seq(Events)]
    BY <1>0, <1>1, <1>2 DEF TypeOK
  <2>2. current' \in [Conns -> Events \cup {0}]
    BY <1>0, <1>1, <1>2 DEF TypeOK
  <2>3. main' \in [Conns -> {"none", "upgraded", "loop", "writing", "ended"}]
    BY <1>0, <1>2 DEF TypeOK
  <2> QED BY <1>0, <1>2, <2>1, <2>2, <2>3 DEF TypeOK
<1> HIDE DEF t, q
<1>5. current[c] = 0 /\ q[1] # 0
  BY <1>0, <1>1 DEF ConnInv, Placed, Events
<1>6. InOrder(c)'
  <2>0. InOrder(c)
    BY <1>0 DEF ConnInv
  <2>1. Ascending(t)
    <3>1. Ascending(q)
      BY <2>0 DEF InOrder, q
    <3> SUFFICES ASSUME NEW i \in 1..Len(t), NEW j \in 1..Len(t), i < j PROVE t[i] < t[j]
      BY DEF Ascending
    <3>2. i + 1 \in 1..Len(q) /\ j + 1 \in 1..Len(q) /\ i + 1 < j + 1
      BY <1>1
    <3>3. q[i + 1] < q[j + 1]
      BY <3>1, <3>2 DEF Ascending
    <3> QED BY <1>1, <3>3
  <2>2. \A i \in 1..Len(t) : q[1] < t[i]
    <3>1. Ascending(q)
      BY <2>0 DEF InOrder, q
    <3> TAKE i \in 1..Len(t)
    <3>2. i + 1 \in 1..Len(q) /\ 1 < i + 1
      BY <1>1
    <3>3. q[1] < q[i + 1]
      BY <1>1, <3>1, <3>2 DEF Ascending
    <3> QED BY <1>1, <3>3
  <2>3. Before(sent[c], t)
    <3>1. Before(sent[c], q)
      BY <2>0 DEF InOrder, q
    <3>2. \A j \in 1..Len(t) : j + 1 \in 1..Len(q)
      BY <1>1
    <3> QED BY <1>1, <3>1, <3>2 DEF Before
  <2>4. Between(t, since[c], published) /\ since[c] < q[1] /\ q[1] <= published
    <3>1. Between(q, since[c], published)
      BY <2>0 DEF InOrder, q
    <3>2. \A j \in 1..Len(t) : j + 1 \in 1..Len(q)
      BY <1>1
    <3> QED BY <1>1, <3>1, <3>2 DEF Between
  <2>5. \A i \in 1..Len(sent[c]) : sent[c][i] < q[1]
    BY <1>1, <2>0 DEF InOrder, Before, q
  <2> QED BY <1>2, <1>3, <2>0, <2>1, <2>2, <2>3, <2>4, <2>5 DEF InOrder
<1>7. Placed(c)'
  <2>1. queue[c] # <<>>
    BY <1>0 DEF q
  <2>2. listening[c] \/ lossy[c]
    BY <1>0, <2>1 DEF ConnInv, Placed
  <2> QED BY <1>0, <1>2, <1>3, <1>5, <2>2 DEF ConnInv, Placed
<1>8. Complete(c)'
  <2> SUFFICES ASSUME client[c] = "here", listening[c], ~lossy[c]
               PROVE  Len(sent[c]) + 1 + Len(t) = published - since[c]
    BY <1>2, <1>3, <1>5 DEF Complete
  <2>1. Len(sent[c]) + 0 + Len(q) = published - since[c]
    BY <1>0, <1>5 DEF ConnInv, Complete, q
  <2>2. Len(sent[c]) \in Nat
    BY <1>0
  <2>3. published \in Nat /\ since[c] \in Nat
    BY <1>0 DEF TypeOK
  <2> QED BY <1>1, <2>1, <2>2, <2>3
<1> QED BY <1>2, <1>3, <1>4, <1>6, <1>7, <1>8, OtherConns DEF FeedInv, ConnInv

\* The event that was written is the last that was sent.
LEMMA WrittenPreserves == ASSUME FeedInv, NEW c \in Conns, Written(c) PROVE FeedInv'
<1> DEFINE e == current[c]
           old == sent[c]
           new == IF client[c] = "here" THEN Append(old, e) ELSE old
<1>0. TypeOK /\ ConnInv(c) /\ main[c] = "writing" /\ old \in Seq(Events)
  BY DEF FeedInv, TypeOK, Written
<1>1. e \in Events /\ e # 0
  BY <1>0 DEF ConnInv, Placed, TypeOK, Events
<1>2. /\ UNCHANGED <<published, client, reader, done, listening, queue, since, lossy, budget>>
      /\ main' = [main EXCEPT ![c] = "loop"]
      /\ current' = [current EXCEPT ![c] = 0]
      /\ sent' = [sent EXCEPT ![c] = new]
  BY <1>0 DEF Written, TypeOK
<1>3. /\ main'[c] = "loop" /\ current'[c] = 0 /\ sent'[c] = new
      /\ \A x \in Conns \ {c} :
           main'[x] = main[x] /\ current'[x] = current[x] /\ sent'[x] = sent[x]
  BY <1>0, <1>2 DEF TypeOK
<1>4. /\ Append(old, e) \in Seq(Events) /\ Len(Append(old, e)) = Len(old) + 1
      /\ Len(old) \in Nat /\ Append(old, e)[Len(old) + 1] = e
      /\ \A i \in 1..Len(old) : Append(old, e)[i] = old[i]
  BY <1>0, <1>1, AppendLast
<1>5. new \in Seq(Events)
  BY <1>0, <1>4
<1>6. TypeOK'
  <2>1. sent' \in [Conns -> Seq(Events)]
    BY <1>0, <1>2, <1>5 DEF TypeOK
  <2>2. current' \in [Conns -> Events \cup {0}]
    BY <1>0, <1>2 DEF TypeOK
  <2>3. main' \in [Conns -> {"none", "upgraded", "loop", "writing", "ended"}]
    BY <1>0, <1>2 DEF TypeOK
  <2> QED BY <1>0, <1>2, <2>1, <2>2, <2>3 DEF TypeOK
<1>7. \A i \in 1..Len(new) : (i \in 1..Len(old) /\ new[i] = old[i])
                                 \/ (i = Len(old) + 1 /\ new[i] = e)
  BY <1>4
<1>8. client[c] = "here" => Len(new) = Len(old) + 1
  BY <1>4
<1> HIDE DEF new, old, e
<1>9. InOrder(c)'
  <2>0. InOrder(c)
    BY <1>0 DEF ConnInv
  <2>1. /\ since[c] < e /\ e <= published
        /\ \A i \in 1..Len(old) : old[i] < e
        /\ \A j \in 1..Len(queue[c]) : e < queue[c][j]
    BY <1>1, <2>0 DEF InOrder, e, old
  <2>2. Ascending(new)
    <3>1. Ascending(old)
      BY <2>0 DEF InOrder, old
    <3> SUFFICES ASSUME NEW i \in 1..Len(new), NEW j \in 1..Len(new), i < j
                 PROVE  new[i] < new[j]
      BY DEF Ascending
    <3>2. i \in 1..Len(old) /\ new[i] = old[i]
      BY <1>4, <1>7
    <3> QED BY <1>7, <2>1, <3>1, <3>2 DEF Ascending
  <2>3. Between(new, since[c], published)
    BY <1>7, <2>0, <2>1 DEF InOrder, Between, old
  <2>4. Before(new, queue[c])
    BY <1>7, <2>0, <2>1 DEF InOrder, Before, old
  <2> QED BY <1>2, <1>3, <2>0, <2>2, <2>3, <2>4 DEF InOrder
<1>10. Placed(c)'
  <2>1. listening[c] \/ lossy[c]
    BY <1>0, <1>1 DEF ConnInv, Placed, e
  <2> QED BY <1>0, <1>2, <1>3, <2>1 DEF ConnInv, Placed
<1>11. Complete(c)'
  <2> SUFFICES ASSUME client[c] = "here", listening[c], ~lossy[c]
               PROVE  Len(new) + 0 + Len(queue[c]) = published - since[c]
    BY <1>2, <1>3 DEF Complete
  <2>1. Len(old) + 1 + Len(queue[c]) = published - since[c]
    BY <1>0, <1>1 DEF ConnInv, Complete, e, old
  <2>2. Len(queue[c]) \in Nat /\ published \in Nat /\ since[c] \in Nat
    BY <1>0 DEF TypeOK
  <2>3. Len(new) = Len(old) + 1 /\ Len(old) \in Nat
    BY <1>4, <1>8
  <2>4. PICK a \in Nat, b \in Nat : a = Len(old) /\ b = Len(queue[c])
    BY <2>2, <2>3
  <2>5. a + 1 + b = published - since[c]
    BY <2>1, <2>4
  <2>6. (a + 1) + 0 + b = published - since[c]
    BY <2>2, <2>5
  <2> QED BY <2>3, <2>4, <2>6
<1> QED BY <1>2, <1>3, <1>6, <1>9, <1>10, <1>11, OtherConns DEF FeedInv, ConnInv

\* The end of a connection leaves nothing on its way, and what was sent.
LEMMA EndPreserves ==
  ASSUME FeedInv, NEW c \in Conns, SeeDone(c) \/ Forget(c)
  PROVE  FeedInv'
<1>0. TypeOK /\ ConnInv(c)
  BY DEF FeedInv
<1>1. CASE SeeDone(c)
  <2>1. /\ UNCHANGED <<published, client, reader, done, current, sent, since, lossy, budget>>
        /\ main[c] = "loop" /\ main'[c] = "ended" /\ ~listening'[c] /\ queue'[c] = <<>>
        /\ listening' \in [Conns -> BOOLEAN]
        /\ \A x \in Conns \ {c} :
             main'[x] = main[x] /\ listening'[x] = listening[x] /\ queue'[x] = queue[x]
    <3>1. listening' \in [Conns -> BOOLEAN] /\ ~listening'[c]
      BY <1>0, <1>1 DEF SeeDone, TypeOK
    <3> QED BY <1>0, <1>1, <3>1 DEF SeeDone, TypeOK
  <2>2. TypeOK'
    <3>1. queue' \in [Conns -> Seq(Events)]
      BY <1>0, <1>1 DEF SeeDone, TypeOK
    <3>2. main' \in [Conns -> {"none", "upgraded", "loop", "writing", "ended"}]
      BY <1>0, <1>1 DEF SeeDone, TypeOK
    <3> QED BY <1>0, <2>1, <3>1, <3>2 DEF TypeOK
  <2>3. Len(queue'[c]) = 0
    BY <2>1
  <2>4. InOrder(c)'
    BY <1>0, <2>1, <2>3 DEF ConnInv, InOrder, Ascending, Before, Between
  <2>5. Placed(c)' /\ Complete(c)'
    BY <1>0, <2>1 DEF ConnInv, Placed, Complete
  <2> QED BY <2>1, <2>2, <2>4, <2>5, OtherConns DEF FeedInv, ConnInv
<1>2. CASE Forget(c)
  <2>1. /\ UNCHANGED <<published, listening, queue, current, budget>>
        /\ main[c] = "ended" /\ main'[c] = "none" /\ client'[c] = "none"
        /\ sent'[c] = <<>> /\ since'[c] = 0 /\ ~lossy'[c]
        /\ \A x \in Conns \ {c} :
             main'[x] = main[x] /\ client'[x] = client[x] /\ sent'[x] = sent[x]
               /\ since'[x] = since[x] /\ lossy'[x] = lossy[x]
    <3>1. ~lossy'[c] /\ \A x \in Conns \ {c} : lossy'[x] = lossy[x]
      BY <1>0, <1>2 DEF Forget, TypeOK
    <3> QED BY <1>0, <1>2, <3>1 DEF Forget, TypeOK
  <2>2. TypeOK'
    <3>1. lossy' \in [Conns -> BOOLEAN] /\ done' \in [Conns -> BOOLEAN]
      BY <1>0, <1>2 DEF Forget, TypeOK
    <3>2. /\ sent' \in [Conns -> Seq(Events)]
          /\ since' \in [Conns -> 0..MaxEvents]
      BY <1>0, <1>2 DEF Forget, TypeOK
    <3>3. /\ main' \in [Conns -> {"none", "upgraded", "loop", "writing", "ended"}]
          /\ client' \in [Conns -> {"none", "here", "gone"}]
          /\ reader' \in [Conns -> {"none", "running", "ended"}]
      BY <1>0, <1>2 DEF Forget, TypeOK
    <3> QED BY <1>0, <2>1, <3>1, <3>2, <3>3 DEF TypeOK
  <2>3. queue[c] = <<>> /\ current[c] = 0 /\ ~listening[c]
    BY <1>0, <2>1 DEF ConnInv, Placed
  <2>4. Len(sent'[c]) = 0 /\ Len(queue'[c]) = 0 /\ current'[c] = 0
    BY <2>1, <2>3
  <2>5. InOrder(c)'
    BY <2>4 DEF InOrder, Ascending, Before, Between
  <2>6. published \in Nat
    BY <1>0 DEF TypeOK
  <2>7. Placed(c)' /\ Complete(c)'
    BY <2>1, <2>3, <2>4, <2>6 DEF Placed, Complete
  <2> QED BY <2>1, <2>2, <2>5, <2>7, OtherConns DEF FeedInv, ConnInv
<1> QED BY <1>1, <1>2

-----------------------------------------------------------------------------
(* The specification *)

LEMMA FeedStep == FeedInv /\ [Next]_vars => FeedInv'
<1> SUFFICES ASSUME FeedInv, [Next]_vars PROVE FeedInv'
  OBVIOUS
<1>1. CASE PublishEvent
  BY <1>1, PublishPreserves
<1>2. ASSUME NEW c \in Conns, ConnStep(c) PROVE FeedInv'
  BY <1>2, QuietPreserves, LossPreserves, TakePreserves, WrittenPreserves, EndPreserves
     DEF ConnStep
<1>3. CASE UNCHANGED vars
  <2>1. TypeOK'
    BY <1>3 DEF FeedInv, TypeOK, vars
  <2>2. \A c \in Conns : ConnInv(c)'
    BY <1>3 DEF FeedInv, vars, ConnInv, InOrder, Placed, Complete
  <2> QED BY <2>1, <2>2 DEF FeedInv
<1> QED BY <1>1, <1>2, <1>3 DEF Next

LEMMA FeedAlways == Spec => []FeedInv
BY FeedInit, FeedStep, PTL DEF Spec

\* Every variable of the feed keeps to its type: a handler is always at a step
\* of ServeWS, and the queue holds events that were published.  (feed.go:38)
THEOREM TypeCorrect == Spec => []TypeOK
<1>1. FeedInv => TypeOK
  BY DEF FeedInv
<1> QED BY <1>1, FeedAlways, PTL

\* No client is sent an event twice, out of order or from before it was
\* listening, however many events are dropped and links lost.  (feed.go:73)
THEOREM OrderCorrect == Spec => []InOrderOnce
<1>1. FeedInv => InOrderOnce
  BY DEF FeedInv, ConnInv, InOrder, Ascending, Between, InOrderOnce
<1> QED BY <1>1, FeedAlways, PTL

\* With no loss of go-redis or of its link, no event is missing between the
\* subscription and what was last published.  (feed.go:56)
THEOREM MissingCorrect == Spec => []NothingMissing
<1>1. FeedInv => NothingMissing
  BY DEF FeedInv, ConnInv, Complete, NothingMissing
<1> QED BY <1>1, FeedAlways, PTL

-----------------------------------------------------------------------------
(* The refinement of EventStream *)

\* The last event of c that the handler has taken in hand.
Reach(c) == IF current[c] = 0 THEN Promise!Latest(c) ELSE current[c]

\* While nothing is lost, what is being written follows what was sent, and what
\* waits follows without a gap up to what was published last.
Exact(c) ==
  client[c] = "here" /\ listening[c] /\ ~lossy[c] =>
    /\ current[c] # 0 => current[c] = Promise!Latest(c) + 1
    /\ published = Reach(c) + Len(queue[c])
    /\ \A j \in 1..Len(queue[c]) : queue[c][j] = Reach(c) + j

StreamInv == FeedInv /\ \A c \in Conns : Exact(c)

LEMMA LatestNat ==
  ASSUME FeedInv, NEW c \in Conns
  PROVE  Promise!Latest(c) \in Nat /\ Reach(c) \in Nat
<1>1. /\ sent[c] \in Seq(Events) /\ since[c] \in Nat /\ current[c] \in Nat
  BY DEF FeedInv, TypeOK, Events
<1>2. sent[c] # <<>> => Len(sent[c]) \in 1..Len(sent[c])
  BY <1>1
<1>3. \A i \in 1..Len(sent[c]) : sent[c][i] \in Nat
  BY <1>1 DEF Events
<1> QED BY <1>1, <1>2, <1>3 DEF Promise!Latest, Reach

\* A connection of which no more is seen to change than that it may have lost
\* something, its client or its subscription.
LEMMA ExactKept ==
  ASSUME NEW c \in Conns, Exact(c),
         published' = published, queue'[c] = queue[c], current'[c] = current[c],
         sent'[c] = sent[c], since'[c] = since[c],
         client'[c] = "here" => client[c] = "here",
         listening'[c] => listening[c], lossy[c] => lossy'[c]
  PROVE  Exact(c)'
BY DEF Exact, Reach, Promise!Latest

LEMMA ExactPublish ==
  ASSUME StreamInv, PublishEvent, NEW c \in Conns
  PROVE  Exact(c)'
<1> DEFINE q == queue[c]
           e == published + 1
           r == Append(q, e)
<1>0. FeedInv /\ Exact(c) /\ q \in Seq(Events) /\ e \in Events /\ published \in Nat
  BY DEF StreamInv, FeedInv, TypeOK, PublishEvent, Events
<1>1. /\ published' = e
      /\ UNCHANGED <<client, listening, current, sent, since, lossy>>
      /\ listening[c] => queue'[c] = r
  BY DEF PublishEvent, Push
<1>2. /\ Len(r) = Len(q) + 1 /\ Len(q) \in Nat /\ r[Len(q) + 1] = e
      /\ \A i \in 1..Len(q) : r[i] = q[i]
  BY <1>0, AppendLast
<1> HIDE DEF r, q
<1>3. \A i \in 1..Len(r) : i \in 1..Len(q) \/ i = Len(q) + 1
  BY <1>2
<1>4. UNCHANGED <<Promise!Latest(c), Reach(c)>>
  BY <1>1 DEF Promise!Latest, Reach
<1> SUFFICES ASSUME client[c] = "here", listening[c], ~lossy[c]
             PROVE  /\ current[c] # 0 => current[c] = Promise!Latest(c) + 1
                    /\ e = Reach(c) + Len(r)
                    /\ \A j \in 1..Len(r) : r[j] = Reach(c) + j
  BY <1>1, <1>4 DEF Exact
<1>5. /\ current[c] # 0 => current[c] = Promise!Latest(c) + 1
      /\ published = Reach(c) + Len(q)
      /\ \A j \in 1..Len(q) : q[j] = Reach(c) + j
  BY <1>0 DEF Exact, q
<1>6. Reach(c) \in Nat
  BY <1>0, LatestNat
<1>7. e = Reach(c) + Len(r)
  BY <1>0, <1>2, <1>5, <1>6
<1>8. \A j \in 1..Len(r) : r[j] = Reach(c) + j
  BY <1>2, <1>3, <1>5, <1>7
<1> QED BY <1>5, <1>7, <1>8

LEMMA ExactTake ==
  ASSUME StreamInv, NEW c \in Conns, Take(c)
  PROVE  Exact(c)'
<1> DEFINE q == queue[c]
           t == Tail(q)
<1>0. /\ FeedInv /\ Exact(c) /\ q \in Seq(Events) /\ q # <<>> /\ published \in Nat
      /\ current[c] = 0
  BY DEF StreamInv, FeedInv, TypeOK, Take, ConnInv, Placed
<1>1. /\ q[1] \in Events /\ Head(q) = q[1] /\ 1 \in 1..Len(q) /\ Len(q) \in Nat
      /\ Len(t) = Len(q) - 1
      /\ \A i \in 1..Len(t) : t[i] = q[i + 1] /\ i + 1 \in 2..Len(q)
  BY <1>0, TakeFirst
<1>2. /\ UNCHANGED <<published, client, listening, sent, since, lossy>>
      /\ current'[c] = q[1] /\ queue'[c] = t
  BY <1>1 DEF Take, StreamInv, FeedInv, TypeOK
<1>3. Promise!Latest(c)' = Promise!Latest(c) /\ Reach(c)' = q[1] /\ q[1] # 0
  BY <1>1, <1>2 DEF Promise!Latest, Reach, Events
<1> HIDE DEF t, q
<1> SUFFICES ASSUME client[c] = "here", listening[c], ~lossy[c]
             PROVE  /\ q[1] = Promise!Latest(c) + 1
                    /\ published = q[1] + Len(t)
                    /\ \A j \in 1..Len(t) : t[j] = q[1] + j
  BY <1>2, <1>3 DEF Exact
<1>4. /\ published = Promise!Latest(c) + Len(q)
      /\ \A j \in 1..Len(q) : q[j] = Promise!Latest(c) + j
  BY <1>0 DEF Exact, Reach, q
<1>5. Promise!Latest(c) \in Nat
  BY <1>0, LatestNat
<1>6. q[1] = Promise!Latest(c) + 1
  BY <1>1, <1>4
<1>7. ASSUME NEW j \in 1..Len(t) PROVE t[j] = q[1] + j
  <2>1. t[j] = Promise!Latest(c) + (j + 1)
    BY <1>1, <1>4
  <2> QED BY <1>5, <1>6, <2>1
<1>8. published = q[1] + Len(t)
  BY <1>0, <1>1, <1>4, <1>5, <1>6
<1> QED BY <1>6, <1>7, <1>8

LEMMA ExactWritten ==
  ASSUME StreamInv, NEW c \in Conns, Written(c)
  PROVE  Exact(c)'
<1> DEFINE e == current[c]
           old == sent[c]
<1>0. FeedInv /\ Exact(c) /\ old \in Seq(Events) /\ e \in Events /\ e # 0
  BY DEF StreamInv, FeedInv, TypeOK, Written, ConnInv, Placed, Events
<1>1. /\ UNCHANGED <<published, client, listening, queue, since, lossy>>
      /\ current'[c] = 0
      /\ client[c] = "here" => sent'[c] = Append(old, e)
  BY DEF Written, StreamInv, FeedInv, TypeOK
<1>2. /\ Len(Append(old, e)) = Len(old) + 1 /\ Len(old) \in Nat
      /\ Append(old, e)[Len(old) + 1] = e
  BY <1>0, AppendLast
<1> SUFFICES ASSUME client[c] = "here" PROVE Exact(c)'
  BY <1>1 DEF Exact
<1>3. sent'[c] # <<>>
  BY <1>1, <1>2
<1>4. Promise!Latest(c)' = e
  BY <1>1, <1>2, <1>3 DEF Promise!Latest
<1>5. Reach(c)' = e /\ Reach(c) = e
  BY <1>0, <1>1, <1>4 DEF Reach
<1> QED BY <1>0, <1>1, <1>5 DEF Exact

LEMMA ExactListen ==
  ASSUME StreamInv, NEW c \in Conns, Listen(c)
  PROVE  Exact(c)'
<1>0. FeedInv /\ Exact(c) /\ published \in Nat
  BY DEF StreamInv, FeedInv, TypeOK
<1>1. /\ UNCHANGED <<published, queue, current, sent, lossy>>
      /\ since'[c] = IF lossy[c] THEN since[c] ELSE published
  BY DEF Listen, StreamInv, FeedInv, TypeOK
<1> SUFFICES ASSUME ~lossy[c] PROVE Exact(c)'
  BY <1>1 DEF Exact
<1>2. sent[c] = <<>> /\ queue[c] = <<>> /\ current[c] = 0
  BY <1>0 DEF Listen, FeedInv, ConnInv, Placed
<1>3. Reach(c)' = published /\ Len(queue[c]) = 0
  BY <1>1, <1>2 DEF Reach, Promise!Latest
<1> QED BY <1>0, <1>1, <1>2, <1>3 DEF Exact

LEMMA ExactStep ==
  ASSUME StreamInv, [Next]_vars, NEW x \in Conns
  PROVE  Exact(x)'
<1>0. FeedInv /\ TypeOK /\ Exact(x) /\ Placed(x)
  BY DEF StreamInv, FeedInv, ConnInv
<1>1. CASE PublishEvent
  BY <1>1, ExactPublish
<1>2. ASSUME NEW c \in Conns, ConnStep(c)
      PROVE  Exact(x)'
  <2>1. CASE x # c
    <3>1. /\ UNCHANGED published
          /\ client'[x] = client[x] /\ listening'[x] = listening[x]
          /\ queue'[x] = queue[x] /\ current'[x] = current[x]
          /\ sent'[x] = sent[x] /\ since'[x] = since[x] /\ lossy'[x] = lossy[x]
      <4>1. CASE Leave(c) \/ Listen(c) \/ DropEvent(c) \/ LoseRedis(c)
        BY <1>0, <2>1, <4>1 DEF Leave, Listen, DropEvent, LoseRedis, TypeOK
      <4>2. CASE Upgrade(c) \/ Subscribe(c) \/ ReaderEnds(c) \/ SeeDone(c)
        BY <1>0, <2>1, <4>2 DEF Upgrade, Subscribe, ReaderEnds, SeeDone, TypeOK
      <4>3. CASE Take(c) \/ Written(c) \/ Forget(c)
        BY <1>0, <2>1, <4>3 DEF Take, Written, Forget, TypeOK
      <4> QED BY <1>2, <4>1, <4>2, <4>3 DEF ConnStep
    <3> QED BY <1>0, <3>1, ExactKept
  <2>2. CASE x = c
    <3>1. CASE Leave(c) \/ Subscribe(c) \/ ReaderEnds(c)
      BY <1>0, <2>2, <3>1, ExactKept DEF Leave, Subscribe, ReaderEnds, TypeOK
    <3>2. CASE DropEvent(c) \/ LoseRedis(c)
      BY <1>0, <2>2, <3>2 DEF DropEvent, LoseRedis, TypeOK, Exact
    <3>3. CASE Upgrade(c) \/ SeeDone(c) \/ Forget(c)
      <4>1. ~listening'[c]
        BY <1>0, <2>2, <3>3 DEF Upgrade, SeeDone, Forget, TypeOK, Placed
      <4> QED BY <2>2, <4>1 DEF Exact
    <3> QED BY <1>2, <2>2, <3>1, <3>2, <3>3, ExactListen, ExactTake, ExactWritten
            DEF ConnStep
  <2> QED BY <2>1, <2>2
<1>3. CASE UNCHANGED vars
  BY <1>0, <1>3, ExactKept DEF vars
<1> QED BY <1>1, <1>2, <1>3 DEF Next

LEMMA StreamAlways == Spec => []StreamInv
<1>1. Init => StreamInv
  <2> SUFFICES ASSUME Init PROVE StreamInv
    OBVIOUS
  <2>1. \A c \in Conns : Exact(c)
    BY DEF Init, Exact
  <2> QED BY <2>1, FeedInit DEF StreamInv
<1>2. StreamInv /\ [Next]_vars => StreamInv'
  BY FeedStep, ExactStep DEF StreamInv
<1> QED BY <1>1, <1>2, PTL DEF Spec

\* The phase of one stream changes and no other's.
LEMMA PhaseOfOne ==
  ASSUME NEW c \in Conns, NEW s, Phase(c)' = s,
         \A x \in Conns \ {c} : Phase(x)' = Phase(x)
  PROVE  [x \in Conns |-> Phase(x)]' = [[x \in Conns |-> Phase(x)] EXCEPT ![c] = s]
OBVIOUS

LEMMA ConnKeepsPromise ==
  ASSUME StreamInv, NEW c \in Conns, ConnStep(c)
  PROVE  [Promise!Next]_(Promise!vars)
<1> DEFINE phase == [x \in Conns |-> Phase(x)]
<1>0. FeedInv /\ TypeOK /\ Exact(c) /\ Placed(c) /\ InOrder(c)
  BY DEF StreamInv, FeedInv, ConnInv
<1>1. /\ sent \in [Conns -> Seq(Events)] /\ since \in [Conns -> 0..MaxEvents]
      /\ lossy \in [Conns -> BOOLEAN] /\ listening \in [Conns -> BOOLEAN]
      /\ main \in [Conns -> {"none", "upgraded", "loop", "writing", "ended"}]
      /\ current \in [Conns -> Events \cup {0}] /\ published \in Nat
  BY <1>0 DEF TypeOK
<1>2. phase[c] = Phase(c)
  OBVIOUS
<1>3. ASSUME UNCHANGED <<published, since, lossy, sent>>,
             \A x \in Conns : Phase(x)' = Phase(x)
      PROVE  UNCHANGED Promise!vars
  BY <1>3 DEF Promise!vars
<1>4. CASE Leave(c) \/ ReaderEnds(c)
  BY <1>3, <1>4 DEF Leave, ReaderEnds, Phase
<1>5. CASE Upgrade(c) \/ Subscribe(c) \/ Take(c)
  BY <1>1, <1>3, <1>5 DEF Upgrade, Subscribe, Take, Phase
<1>6. CASE Listen(c)
  <2>1. /\ UNCHANGED <<published, sent, lossy, main>> /\ ~listening[c] /\ listening'[c]
        /\ main[c] \in {"loop", "writing"}
        /\ \A x \in Conns \ {c} : listening'[x] = listening[x]
    BY <1>1, <1>6 DEF Listen
  <2>2. \A x \in Conns \ {c} : Phase(x)' = Phase(x)
    BY <2>1 DEF Phase
  <2>3. CASE lossy[c]
    <3>1. since' = since
      BY <1>1, <1>6, <2>3 DEF Listen
    <3>2. Phase(c)' = Phase(c)
      BY <2>1, <2>3 DEF Phase
    <3> QED BY <1>3, <2>1, <2>2, <3>1, <3>2
  <2>4. CASE ~lossy[c]
    <3>1. Phase(c) = "opening" /\ Phase(c)' = "open"
      BY <2>1, <2>4 DEF Phase
    <3>2. since' = [since EXCEPT ![c] = published]
      BY <1>6, <2>4 DEF Listen
    <3>3. phase' = [phase EXCEPT ![c] = "open"]
      BY <2>2, <3>1, PhaseOfOne
    <3> QED BY <1>2, <2>1, <3>1, <3>2, <3>3 DEF Promise!Next, Promise!Open
  <2> QED BY <2>3, <2>4
<1>7. CASE DropEvent(c) \/ LoseRedis(c)
  <2>1. /\ UNCHANGED <<published, sent, since, main>>
        /\ lossy' = [lossy EXCEPT ![c] = TRUE]
        /\ \A x \in Conns \ {c} : listening'[x] = listening[x]
    BY <1>1, <1>7 DEF DropEvent, LoseRedis
  <2>2. main[c] \in {"loop", "writing"} /\ (listening[c] \/ lossy[c])
    <3>1. CASE DropEvent(c)
      <4>1. queue[c] # <<>>
        BY <3>1 DEF DropEvent
      <4> QED BY <1>0, <4>1 DEF Placed
    <3>2. CASE LoseRedis(c)
      BY <1>0, <3>2 DEF LoseRedis, Placed
    <3> QED BY <1>7, <3>1, <3>2
  <2>3. /\ \A x \in Conns : Phase(x)' = Phase(x)
        /\ Phase(c) = "open"
    BY <1>1, <2>1, <2>2 DEF Phase
  <2> QED BY <1>2, <2>1, <2>3 DEF Promise!Next, Promise!Lose
<1>8. CASE Written(c)
  <2>1. /\ UNCHANGED <<published, since, lossy, listening>> /\ main[c] = "writing"
        /\ main' = [main EXCEPT ![c] = "loop"]
    BY <1>8 DEF Written
  <2>2. \A x \in Conns : Phase(x)' = Phase(x)
    BY <1>1, <2>1 DEF Phase
  <2>3. CASE client[c] # "here"
    <3>1. sent' = sent
      BY <1>1, <1>8, <2>3 DEF Written
    <3> QED BY <1>3, <2>1, <2>2, <3>1
  <2>4. CASE client[c] = "here"
    <3> DEFINE e == current[c]
    <3>1. e \in Nat /\ e # 0 /\ (listening[c] \/ lossy[c])
      BY <1>0, <1>1, <2>1 DEF Placed, Events
    <3>2. Phase(c) = "open"
      BY <2>1, <3>1 DEF Phase
    <3>3. sent' = [sent EXCEPT ![c] = Append(@, e)]
      BY <1>1, <1>8, <2>4 DEF Written
    <3>4. /\ e \in 1..published /\ since[c] < e
          /\ \A i \in 1..Len(sent[c]) : sent[c][i] < e
      BY <1>0, <1>1, <3>1 DEF InOrder
    <3>5. Promise!Latest(c) < e /\ Promise!Latest(c) \in Nat
      <4>1. sent[c] \in Seq(Events)
        BY <1>1
      <4>2. sent[c] # <<>> => Len(sent[c]) \in 1..Len(sent[c])
        BY <4>1
      <4> QED BY <1>0, <3>4, <4>2, LatestNat DEF Promise!Latest
    <3>6. ~lossy[c] => e = Promise!Latest(c) + 1
      BY <1>0, <2>4, <3>1 DEF Exact
    <3>7. Promise!Due(c, e)
      BY <3>1, <3>5, <3>6 DEF Promise!Due
    <3>8. Promise!Deliver(c)
      <4>1. UNCHANGED phase
        BY <2>2
      <4> HIDE DEF e
      <4> QED BY <1>2, <2>1, <3>2, <3>3, <3>4, <3>7, <4>1 DEF Promise!Deliver
    <3> QED BY <3>8 DEF Promise!Next
  <2> QED BY <2>3, <2>4
<1>9. CASE SeeDone(c)
  <2>1. /\ UNCHANGED <<published, since, lossy, sent>>
        /\ main'[c] = "ended"
        /\ \A x \in Conns \ {c} : main'[x] = main[x] /\ listening'[x] = listening[x]
    BY <1>1, <1>9 DEF SeeDone
  <2>2. Phase(c)' = "closed" /\ \A x \in Conns \ {c} : Phase(x)' = Phase(x)
    BY <2>1 DEF Phase
  <2>3. phase' = [phase EXCEPT ![c] = "closed"]
    BY <2>2, PhaseOfOne
  <2> QED BY <2>1, <2>3 DEF Promise!Next, Promise!Close
<1>10. CASE Forget(c)
  <2>1. /\ UNCHANGED <<published, listening>> /\ main[c] = "ended" /\ main'[c] = "none"
        /\ since' = [since EXCEPT ![c] = 0] /\ sent' = [sent EXCEPT ![c] = <<>>]
        /\ lossy' = [lossy EXCEPT ![c] = FALSE] /\ ~listening[c]
        /\ \A x \in Conns \ {c} : main'[x] = main[x]
    BY <1>0, <1>1, <1>10 DEF Forget, Placed
  <2>2. /\ Phase(c) = "closed" /\ Phase(c)' = "opening"
        /\ \A x \in Conns \ {c} : Phase(x)' = Phase(x)
    BY <1>1, <2>1 DEF Phase
  <2>3. phase' = [phase EXCEPT ![c] = "opening"]
    BY <2>2, PhaseOfOne
  <2> QED BY <1>2, <2>1, <2>2, <2>3 DEF Promise!Next, Promise!Reset
<1> QED BY <1>4, <1>5, <1>6, <1>7, <1>8, <1>9, <1>10 DEF ConnStep

\* What a client is sent is a stream without a gap until something is lost, and
\* never goes back: the buffer of go-redis, the goroutines, the subscription and
\* the order of their ends do not show.  (ServeWS)
THEOREM Refinement == Spec => ImplementsStream
<1>1. Init => Promise!Init
  BY DEF Init, Promise!Init, Phase
<1>2. StreamInv /\ [Next]_vars => [Promise!Next]_(Promise!vars)
  <2> SUFFICES ASSUME StreamInv, [Next]_vars
               PROVE  [Promise!Next]_(Promise!vars)
    OBVIOUS
  <2>1. CASE PublishEvent
    <3>1. UNCHANGED <<main, listening, since, lossy, sent>> /\ published' = published + 1
      BY <2>1 DEF PublishEvent
    <3>2. UNCHANGED [x \in Conns |-> Phase(x)]
      BY <3>1 DEF Phase
    <3> QED BY <3>1, <3>2 DEF Promise!Next, Promise!Publish
  <2>2. CASE UNCHANGED vars
    BY <2>2 DEF vars, Promise!vars, Phase
  <2> QED BY <2>1, <2>2, ConnKeepsPromise DEF Next
<1> QED
  BY <1>1, <1>2, StreamAlways, PTL DEF Spec, ImplementsStream, Promise!Spec
=============================================================================
