-------------------------------- MODULE Feed --------------------------------
(***************************************************************************)
(* The real-time feed of one user, GET /ws/feed: every connection has a    *)
(* handler (ServeWS) that forwards the events of the Redis channel         *)
(* user:<id>:feed to the WebSocket, and a goroutine that reads from the    *)
(* WebSocket to notice that the client has gone.                           *)
(*                                                                         *)
(* Events are numbered as they are published.  Between PUBLISH and the     *)
(* select of ServeWS they wait in the Go channel of go-redis, which holds  *)
(* Buffer of them, and behind it in the socket; go-redis drops an event    *)
(* the channel has had no room for during a minute.                        *)
(***************************************************************************)
EXTENDS Naturals, Sequences

CONSTANTS
  Conns,       \* WebSocket connections of the user
  Buffer,      \* capacity of the channel of go-redis (100)
  MaxEvents,   \* bound: events published
  MaxFaults    \* bound: how often the link to Redis is lost

ASSUME FeedAssumption ==
  Buffer \in Nat \ {0} /\ MaxEvents \in Nat /\ MaxFaults \in Nat

VARIABLES
  published,   \* events published so far
  client,      \* client[c]: whether the client is at the other end
  main,        \* main[c]: where ServeWS is
  reader,      \* reader[c]: the goroutine that reads
  done,        \* done[c]: the channel done is closed
  listening,   \* listening[c]: Redis has the subscription of c
  queue,       \* queue[c]: events on their way from Redis to ServeWS
  current,     \* current[c]: the event being written, 0 for none
  sent,        \* sent[c]: what the client has been sent
  since,       \* ghost: published when the subscription of c took effect
  lossy,       \* ghost: go-redis dropped an event of c or lost its link
  budget       \* failures left

vars == <<published, client, main, reader, done, listening, queue, current,
          sent, since, lossy, budget>>

Events == 1..MaxEvents

TypeOK ==
  /\ published \in 0..MaxEvents
  /\ client \in [Conns -> {"none", "here", "gone"}]
  /\ main \in [Conns -> {"none", "upgraded", "loop", "writing", "ended"}]
  /\ reader \in [Conns -> {"none", "running", "ended"}]
  /\ done \in [Conns -> BOOLEAN]
  /\ listening \in [Conns -> BOOLEAN]
  /\ queue \in [Conns -> Seq(Events)]
  /\ current \in [Conns -> Events \cup {0}]
  /\ sent \in [Conns -> Seq(Events)]
  /\ since \in [Conns -> 0..MaxEvents]
  /\ lossy \in [Conns -> BOOLEAN]
  /\ budget \in 0..MaxFaults

Init ==
  /\ published = 0
  /\ client = [c \in Conns |-> "none"]
  /\ main = [c \in Conns |-> "none"]
  /\ reader = [c \in Conns |-> "none"]
  /\ done = [c \in Conns |-> FALSE]
  /\ listening = [c \in Conns |-> FALSE]
  /\ queue = [c \in Conns |-> <<>>]
  /\ current = [c \in Conns |-> 0]
  /\ sent = [c \in Conns |-> <<>>]
  /\ since = [c \in Conns |-> 0]
  /\ lossy = [c \in Conns |-> FALSE]
  /\ budget = MaxFaults

-----------------------------------------------------------------------------
(* The client and Redis *)

\* The client closes the connection, or it breaks.
Leave(c) ==
  /\ client[c] = "here"
  /\ client' = [client EXCEPT ![c] = "gone"]
  /\ UNCHANGED <<published, main, reader, done, listening, queue, current, sent,
                 since, lossy, budget>>

\* Redis has read the SUBSCRIBE, the first time or after go-redis has connected
\* again: events published before are not for this connection.
Listen(c) ==
  /\ main[c] \in {"loop", "writing"} /\ ~listening[c]
  /\ listening' = [listening EXCEPT ![c] = TRUE]
  /\ since' = [since EXCEPT ![c] = IF lossy[c] THEN since[c] ELSE published]
  /\ UNCHANGED <<published, client, main, reader, done, queue, current, sent,
                 lossy, budget>>

\* Mutation: an event waits for nobody.
PushIfReady(c, e) ==
  IF listening[c] /\ main[c] = "loop" THEN Append(queue[c], e) ELSE queue[c]

\* What PUBLISH does to the events on their way to c.
Push(c, e) == IF listening[c] THEN Append(queue[c], e) ELSE queue[c]

\* PUBLISH on the channel of the user, by Send, a worker or a takeover.
PublishEvent ==
  /\ published < MaxEvents
  /\ published' = published + 1
  /\ queue' = [c \in Conns |-> Push(c, published + 1)]
  /\ UNCHANGED <<client, main, reader, done, listening, current, sent, since,
                 lossy, budget>>

\* go-redis gives up the event at the door of a full channel.
DropEvent(c) ==
  /\ Len(queue[c]) > Buffer
  /\ queue' = [queue EXCEPT ![c] =
       SubSeq(@, 1, Buffer) \o SubSeq(@, Buffer + 2, Len(@))]
  /\ lossy' = [lossy EXCEPT ![c] = TRUE]
  /\ UNCHANGED <<published, client, main, reader, done, listening, current,
                 sent, since, budget>>

\* The connection to Redis is lost, and with it what go-redis has not read yet:
\* anything behind the channel and the event at its door, or more.
LoseRedis(c) ==
  /\ listening[c] /\ budget > 0
  /\ budget' = budget - 1
  /\ listening' = [listening EXCEPT ![c] = FALSE]
  /\ \E kept \in 0..Buffer + 1 :
       queue' = [queue EXCEPT ![c] =
         SubSeq(@, 1, IF kept < Len(@) THEN kept ELSE Len(@))]
  /\ lossy' = [lossy EXCEPT ![c] = TRUE]
  /\ UNCHANGED <<published, client, main, reader, done, current, sent, since>>

-----------------------------------------------------------------------------
(* ServeWS and its reader *)

\* The upgrade; if it fails the handler returns and there is no connection.
Upgrade(c) ==
  /\ main[c] = "none"
  /\ main' = [main EXCEPT ![c] = "upgraded"]
  /\ client' = [client EXCEPT ![c] = "here"]
  /\ UNCHANGED <<published, reader, done, listening, queue, current, sent,
                 since, lossy, budget>>

\* Subscribe sends its command and does not wait for the answer; then the
\* reader is started and the loop entered.
Subscribe(c) ==
  /\ main[c] = "upgraded"
  /\ main' = [main EXCEPT ![c] = "loop"]
  /\ reader' = [reader EXCEPT ![c] = "running"]
  /\ UNCHANGED <<published, client, done, listening, queue, current, sent, since,
                 lossy, budget>>

\* Mutation: each event is written by a goroutine of its own.
TakeAny(c) ==
  /\ main[c] = "loop"
  /\ \E i \in 1..Len(queue[c]) :
       /\ current' = [current EXCEPT ![c] = queue[c][i]]
       /\ queue' = [queue EXCEPT ![c] =
            SubSeq(@, 1, i - 1) \o SubSeq(@, i + 1, Len(@))]
  /\ main' = [main EXCEPT ![c] = "writing"]
  /\ UNCHANGED <<published, client, reader, done, listening, sent, since, lossy,
                 budget>>

\* Mutation: only the last event that waits matters.
TakeNewest(c) ==
  /\ main[c] = "loop" /\ queue[c] # <<>>
  /\ current' = [current EXCEPT ![c] = queue[c][Len(queue[c])]]
  /\ queue' = [queue EXCEPT ![c] = <<>>]
  /\ main' = [main EXCEPT ![c] = "writing"]
  /\ UNCHANGED <<published, client, reader, done, listening, sent, since, lossy,
                 budget>>

\* Mutation: the channel is closed with the connection to Redis, and the zero
\* value that is read from a closed channel is taken for an event.
TakeClosed(c) ==
  /\ main[c] = "loop"
  /\ queue[c] # <<>> \/ (lossy[c] /\ ~listening[c])
  /\ current' = [current EXCEPT ![c] = IF queue[c] = <<>> THEN 0 ELSE Head(queue[c])]
  /\ queue' = [queue EXCEPT ![c] = IF @ = <<>> THEN @ ELSE Tail(@)]
  /\ main' = [main EXCEPT ![c] = "writing"]
  /\ UNCHANGED <<published, client, reader, done, listening, sent, since, lossy,
                 budget>>

\* The select takes an event; the handler begins to write it.
Take(c) ==
  /\ main[c] = "loop" /\ queue[c] # <<>>
  /\ current' = [current EXCEPT ![c] = Head(queue[c])]
  /\ queue' = [queue EXCEPT ![c] = Tail(@)]
  /\ main' = [main EXCEPT ![c] = "writing"]
  /\ UNCHANGED <<published, client, reader, done, listening, sent, since, lossy,
                 budget>>

\* The write returns: the event is on its way to the client, or, with the
\* client gone, there is an error that nobody looks at.  No deadline is set: a
\* client that stays without reading can keep this from happening.
Written(c) ==
  /\ main[c] = "writing"
  /\ sent' = [sent EXCEPT ![c] =
       IF client[c] = "here" THEN Append(@, current[c]) ELSE @]
  /\ current' = [current EXCEPT ![c] = 0]
  /\ main' = [main EXCEPT ![c] = "loop"]
  /\ UNCHANGED <<published, client, reader, done, listening, queue, since, lossy,
                 budget>>

\* Mutation: the reader goes on after an error.
ReaderGoesOn(c) ==
  reader[c] = "running" /\ client[c] = "gone" /\ UNCHANGED vars

\* ReadMessage fails, the client being gone: the reader closes done.
ReaderEnds(c) ==
  /\ reader[c] = "running" /\ client[c] = "gone"
  /\ reader' = [reader EXCEPT ![c] = "ended"]
  /\ done' = [done EXCEPT ![c] = TRUE]
  /\ UNCHANGED <<published, client, main, listening, queue, current, sent, since,
                 lossy, budget>>

\* The select takes done: ServeWS returns, and the subscription and the
\* connection are closed.
SeeDone(c) ==
  /\ main[c] = "loop" /\ done[c]
  /\ main' = [main EXCEPT ![c] = "ended"]
  /\ listening' = [listening EXCEPT ![c] = FALSE]
  /\ queue' = [queue EXCEPT ![c] = <<>>]
  /\ UNCHANGED <<published, client, reader, done, current, sent, since, lossy,
                 budget>>

\* The slot is free for another connection of the user.
Forget(c) ==
  /\ main[c] = "ended" /\ reader[c] = "ended"
  /\ client' = [client EXCEPT ![c] = "none"]
  /\ main' = [main EXCEPT ![c] = "none"]
  /\ reader' = [reader EXCEPT ![c] = "none"]
  /\ done' = [done EXCEPT ![c] = FALSE]
  /\ sent' = [sent EXCEPT ![c] = <<>>]
  /\ since' = [since EXCEPT ![c] = 0]
  /\ lossy' = [lossy EXCEPT ![c] = FALSE]
  /\ UNCHANGED <<published, listening, queue, current, budget>>

-----------------------------------------------------------------------------

ConnStep(c) ==
  \/ Leave(c) \/ Listen(c) \/ DropEvent(c) \/ LoseRedis(c)
  \/ Upgrade(c) \/ Subscribe(c) \/ Take(c) \/ Written(c) \/ ReaderEnds(c)
  \/ SeeDone(c) \/ Forget(c)

Next == PublishEvent \/ \E c \in Conns : ConnStep(c)

Spec == Init /\ [][Next]_vars

\* The handler goes on and the reader notices that the client has gone.  A
\* write to a client that is gone returns.  A select that finds both an event
\* and done picks either, at random: done, found again and again, is picked.
Fairness == \A c \in Conns :
  /\ WF_vars(Subscribe(c))
  /\ WF_vars(Written(c) /\ client[c] = "gone")
  /\ WF_vars(ReaderEnds(c))
  /\ SF_vars(SeeDone(c))

FairSpec == Spec /\ Fairness

-----------------------------------------------------------------------------
(* Properties *)

\* No client is sent an event twice, out of order, or from before it was
\* listening, although go-redis, the select and the write each hold some and
\* the link may be lost and made again.  (feed.go:73)
InOrderOnce ==
  \A c \in Conns :
    /\ \A i \in 1..Len(sent[c]) : sent[c][i] > since[c]
    /\ \A i, j \in 1..Len(sent[c]) : i < j => sent[c][i] < sent[c][j]

\* While the client stays and neither go-redis nor the link to Redis fails, no
\* event is missing: what was sent, what is being written and what is waiting
\* are all the events since the subscription took effect.  (feed.go:56)
NothingMissing ==
  \A c \in Conns : client[c] = "here" /\ listening[c] /\ ~lossy[c] =>
    Len(sent[c]) + (IF current[c] = 0 THEN 0 ELSE 1) + Len(queue[c])
      = published - since[c]

\* When the client has gone both goroutines of its connection end, even if the
\* handler was writing or events keep coming.  (feed.go:61, 85)
HandlerEnds ==
  \A c \in Conns :
    client[c] = "gone" ~> (main[c] \in {"ended", "none"} /\ reader[c] \in {"ended", "none"})

\* The client is sent a stream as EventStream describes it: what go-redis, the
\* select and the write hold between the publication and the client, and the
\* order in which connection, subscription and reader come and go, do not show.
\* (feed.go:32)
Phase(c) == IF main[c] = "ended" THEN "closed"
            ELSE IF listening[c] \/ lossy[c] THEN "open" ELSE "opening"
Promise == INSTANCE EventStream WITH
             Streams <- Conns, phase <- [c \in Conns |-> Phase(c)],
             base <- since
ImplementsStream == Promise!Spec
=============================================================================
