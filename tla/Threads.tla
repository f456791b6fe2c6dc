------------------------------ MODULE Threads -------------------------------
(***************************************************************************)
(* The conversation of two users and its human takeover.                   *)
(*                                                                         *)
(*   Send     upserts the thread of sender and recipient, reads who has    *)
(*            taken it over, and writes what it read into the message      *)
(*   Takeover, ReleaseTakeover                                             *)
(*            change who has taken it over, then tell both participants    *)
(*   Deliver  skips the bot of a message that says so                      *)
(*                                                                         *)
(* What becomes of the row, the queue and the retries is Delivery's: here  *)
(* a message is what its sender's call has put together so far.            *)
(***************************************************************************)
EXTENDS Naturals

CONSTANTS
  Users,        \* ids of users
  Sends,        \* concurrent calls of Send, each with its message
  Requests,     \* concurrent calls of Takeover and ReleaseTakeover
  MaxThreads,   \* bound: rows of threads
  Faults,       \* the kinds of failure this instance suffers
  MaxFaults     \* bound: how many failures a behaviour may contain

ASSUME ThreadsAssumption ==
  /\ Users \subseteq Nat \ {0}
  /\ MaxThreads \in Nat
  /\ MaxFaults \in Nat
  /\ Faults \subseteq {"dbError", "redisError", "apiCrash"}

VARIABLES
  threads,    \* threads[t]: a row of threads; a row with a = 0 is still free
  count,      \* rows of threads in use: 1..count
  send,       \* send[s]: the call s and its message
  held,       \* ghost: held[s] is who has held the thread of s since the
              \* call found it
  blind,      \* ghost: s could not read who holds its thread
  request,    \* request[r]: the event the call r has yet to publish
  shown,      \* shown[u][t]: the holder of t by the last event sent to the
              \* feed of u
  alone,      \* ghost: alone[t]: the last takeover or release of t came when
              \* no other had an event of t to publish
  budget      \* failures left

vars == <<threads, count, send, held, blind, request, shown, alone,
          budget>>

Nobody    == 0      \* NULL, and the id an empty row leaves in a variable
ThreadIds == 1..MaxThreads
Ids       == Users \cup {Nobody}
Row       == [a : Ids, b : Ids, holder : Ids]
SendSteps == {"idle", "read", "insert", "queued", "bot", "skipped"}
Message   == [step : SendSteps, from : Ids, to : Ids,
              thread : ThreadIds \cup {0}, by : Ids, override : BOOLEAN]
NoMessage == [step |-> "idle", from |-> Nobody, to |-> Nobody, thread |-> 0,
              by |-> Nobody, override |-> FALSE]
Event     == [thread : ThreadIds \cup {0}, by : Ids, holder : Ids]
NoEvent   == [thread |-> 0, by |-> Nobody, holder |-> Nobody]

TypeOK ==
  /\ threads \in [ThreadIds -> Row]
  /\ count \in 0..MaxThreads
  /\ send \in [Sends -> Message]
  /\ held \in [Sends -> SUBSET Ids]
  /\ blind \in [Sends -> BOOLEAN]
  /\ request \in [Requests -> Event]
  /\ shown \in [Users -> [ThreadIds -> Ids]]
  /\ alone \in [ThreadIds -> BOOLEAN]
  /\ budget \in 0..MaxFaults

Init ==
  /\ threads = [t \in ThreadIds |-> [a |-> Nobody, b |-> Nobody, holder |-> Nobody]]
  /\ count = 0
  /\ send = [s \in Sends |-> NoMessage]
  /\ held = [s \in Sends |-> {}]
  /\ blind = [s \in Sends |-> FALSE]
  /\ request = [r \in Requests |-> NoEvent]
  /\ shown = [u \in Users |-> [t \in ThreadIds |-> Nobody]]
  /\ alone = [t \in ThreadIds |-> TRUE]
  /\ budget = MaxFaults

Fault(f) == f \in Faults /\ budget > 0 /\ budget' = budget - 1
NoFault  == UNCHANGED budget

-----------------------------------------------------------------------------
(* Send *)

\* participant_a is the smaller id.
Normalised(u, v) == IF u > v THEN <<v, u>> ELSE <<u, v>>

\* Mutation: sender and recipient as they come.
AsTheyCome(u, v) == <<u, v>>

\* The thread of a sender and a recipient.
Pair(u, v) == Normalised(u, v)

Rows(p) == {t \in 1..count : threads[t].a = p[1] /\ threads[t].b = p[2]}

\* What the call is left with when it goes on with thread t.
Found(s, u, v, t) ==
  /\ send' = [send EXCEPT ![s] = [step |-> "read", from |-> u, to |-> v,
                                   thread |-> t, by |-> Nobody, override |-> FALSE]]
  /\ held' = [held EXCEPT ![s] = {threads'[t].holder}]
  /\ blind' = [blind EXCEPT ![s] = FALSE]

\* INSERT INTO threads ... ON CONFLICT DO UPDATE ... RETURNING id.  A call that
\* fails may have committed; then the handler returns.
FindThread(s, u, v) ==
  LET p == Pair(u, v) IN
  /\ send[s].step = "idle"
  /\ \/ \E t \in Rows(p) :
          /\ UNCHANGED <<threads, count>>
          /\ \/ NoFault /\ Found(s, u, v, t)
             \/ Fault("dbError") /\ UNCHANGED <<send, held, blind>>
     \/ /\ Rows(p) = {} /\ count < MaxThreads
        /\ count' = count + 1
        /\ threads' = [threads EXCEPT ![count + 1] =
             [a |-> p[1], b |-> p[2], holder |-> Nobody]]
        /\ \/ NoFault /\ Found(s, u, v, count + 1)
           \/ Fault("dbError") /\ UNCHANGED <<send, held, blind>>
  /\ UNCHANGED <<request, shown, alone>>

threadsUnchanged == UNCHANGED <<threads, count, held, request, shown, alone>>

\* SELECT human_takeover_by.  An error is logged, and nobody holds the thread.
ReadTakeover(s) ==
  /\ send[s].step = "read"
  /\ \/ /\ NoFault /\ UNCHANGED blind
        /\ send' = [send EXCEPT ![s].step = "insert",
                                ![s].by = threads[send[s].thread].holder]
     \/ /\ Fault("dbError") /\ blind' = [blind EXCEPT ![s] = TRUE]
        /\ send' = [send EXCEPT ![s].step = "insert"]
  /\ threadsUnchanged

\* Mutation: any takeover will do.
OverridesWhoever(m) == m.by # Nobody

\* human_override: the recipient has taken the thread over.
Overrides(m) == m.by # Nobody /\ m.by = m.to

\* INSERT INTO messages, and the publication.
InsertMessage(s) ==
  /\ send[s].step = "insert"
  /\ \/ /\ NoFault
        /\ send' = [send EXCEPT ![s].step = "queued",
                                ![s].override = Overrides(send[s])]
     \/ Fault("dbError") /\ send' = [send EXCEPT ![s] = NoMessage]
  /\ UNCHANGED blind /\ threadsUnchanged

\* Deliver: the message says whether the bot is skipped.
HandleMessage(s) ==
  /\ send[s].step = "queued"
  /\ send' = [send EXCEPT ![s].step =
       IF send[s].override THEN "skipped" ELSE "bot"]
  /\ UNCHANGED <<blind, budget>> /\ threadsUnchanged

\* The message has its final status; the slot is free for another.
ForgetMessage(s) ==
  /\ send[s].step \in {"bot", "skipped"}
  /\ send' = [send EXCEPT ![s] = NoMessage]
  /\ held' = [held EXCEPT ![s] = {}]
  /\ blind' = [blind EXCEPT ![s] = FALSE]
  /\ UNCHANGED <<threads, count, request, shown, alone, budget>>

-----------------------------------------------------------------------------
(* Takeover and ReleaseTakeover *)

\* What the calls that are putting a message together live through when
\* thread t passes to u.
Witnessed(t, u) ==
  held' = [s \in Sends |->
    IF send[s].thread = t /\ send[s].step \in {"read", "insert"}
      THEN held[s] \cup {u} ELSE held[s]]

\* The UPDATE of user u hands thread t to h, and the event is yet to be
\* published.  A call that fails may have committed; no event follows it.
Passes(r, t, u, h) ==
  /\ threads' = [threads EXCEPT ![t].holder = h]
  /\ Witnessed(t, h)
  /\ \/ NoFault /\ request' = [request EXCEPT ![r] =
                      [thread |-> t, by |-> u, holder |-> h]]
     \/ Fault("dbError") /\ UNCHANGED request
  /\ alone' = [alone EXCEPT ![t] = \A x \in Requests : request[x].thread # t]
  /\ UNCHANGED <<count, send, blind, shown>>

\* Mutation: anybody who knows the id.
TakeoverByAnybody(r, t, u) ==
  request[r] = NoEvent /\ t <= count /\ Passes(r, t, u, u)

\* Mutation: the two arguments of the UPDATE swapped.
TakeoverSwapped(r, t, u) ==
  /\ request[r] = NoEvent
  /\ t <= count /\ u \in {threads[t].a, threads[t].b}
  /\ Passes(r, t, u, t)

\* UPDATE threads SET human_takeover_by = u, for a participant, whoever holds
\* the thread now.  No row is a 404.
Takeover(r, t, u) ==
  /\ request[r] = NoEvent
  /\ t <= count /\ u \in {threads[t].a, threads[t].b}
  /\ Passes(r, t, u, u)

\* Mutation: either participant may release the thread.
ReleaseByEither(r, t, u) ==
  /\ request[r] = NoEvent
  /\ t <= count /\ u \in {threads[t].a, threads[t].b}
  /\ Passes(r, t, u, Nobody)

\* UPDATE threads SET human_takeover_by = NULL, for the holder only.
ReleaseTakeover(r, t, u) ==
  /\ request[r] = NoEvent
  /\ t <= count /\ threads[t].holder = u
  /\ Passes(r, t, u, Nobody)

\* Mutation: only the participant with the smaller id.
FirstOnly(t) == {threads[t].a}

\* Whom publishFeedEvent tells.
Audience(t) == {threads[t].a, threads[t].b}

\* publishFeedEvent.  No error is looked at: a failed SELECT leaves both ids 0,
\* and the event goes to a feed nobody follows.
PublishFeedEvent(r) ==
  LET e == request[r]
      show(us) == shown' = [u \in Users |->
        IF u \in us THEN [shown[u] EXCEPT ![e.thread] = e.holder] ELSE shown[u]]
  IN
  /\ e # NoEvent
  /\ request' = [request EXCEPT ![r] = NoEvent]
  /\ \/ NoFault /\ show(Audience(e.thread))
     \/ Fault("dbError") /\ show({})
     \/ Fault("redisError") /\ \E us \in SUBSET Audience(e.thread) :
          us # Audience(e.thread) /\ show(us)
  /\ UNCHANGED <<threads, count, send, held, blind, alone>>

\* The API process dies with its handlers; what is queued stays queued.
CrashApi ==
  /\ Fault("apiCrash")
  /\ send' = [s \in Sends |->
       IF send[s].step \in {"read", "insert"} THEN NoMessage ELSE send[s]]
  /\ request' = [r \in Requests |-> NoEvent]
  /\ UNCHANGED <<threads, count, held, blind, shown, alone>>

-----------------------------------------------------------------------------

SendStep(s) ==
  \/ \E u, v \in Users : FindThread(s, u, v)
  \/ ReadTakeover(s) \/ InsertMessage(s) \/ HandleMessage(s) \/ ForgetMessage(s)

RequestStep(r) ==
  \/ \E t \in ThreadIds, u \in Users : Takeover(r, t, u) \/ ReleaseTakeover(r, t, u)
  \/ PublishFeedEvent(r)

Next ==
  \/ \E s \in Sends : SendStep(s)
  \/ \E r \in Requests : RequestStep(r)
  \/ CrashApi

Spec == Init /\ [][Next]_vars

-----------------------------------------------------------------------------
(* Properties *)

\* Two users have one conversation, whoever writes first and even if both
\* write at once.  (messages.go:56)
OneThreadPerPair ==
  \A t, x \in 1..count :
    {threads[t].a, threads[t].b} = {threads[x].a, threads[x].b} => t = x

\* What a message says of the takeover was true of its own thread at some
\* moment between the time its sender's call found the thread and the INSERT:
\* it overrides the bot only if the recipient, not anybody, held the thread,
\* and goes to the bot only if there was a moment when the recipient did not, or
\* nobody could tell.  (messages.go:83)
OverrideWasTrue ==
  \A s \in Sends : send[s].step \in {"queued", "bot", "skipped"} =>
    /\ send[s].override => send[s].to \in held[s]
    /\ ~send[s].override => held[s] # {send[s].to} \/ blind[s]

\* Unless a call fails that had committed: a human who has taken a thread over
\* keeps it until he releases it himself or the other participant takes it:
\* nobody is put out by a release of the other, and no message, not even the
\* first of a thread, resets it.  (threads.go:140, messages.go:64)
PassesByRight(t) ==
  \/ budget' < budget
  \/ threads'[t].holder \in {threads[t].a, threads[t].b}
  \/ threads'[t].holder = Nobody /\ \E r \in Requests :
       request[r] = NoEvent /\ request'[r].by = threads[t].holder
TakeoverEndsByRight ==
  [][\A t \in 1..count : threads'[t].holder # threads[t].holder => PassesByRight(t)]_vars

\* If the last takeover or release of a thread did not overlap with another of
\* that thread, and nothing has failed, both participants were last told who
\* holds it, whatever overlapped before and on other threads.
\* (threads.go:125, 152 and 172)
ToldWhoHolds ==
  budget = MaxFaults =>
    \A t \in 1..count : alone[t] /\ (\A r \in Requests : request[r].thread # t) =>
      \A u \in {threads[t].a, threads[t].b} : shown[u][t] = threads[t].holder

\* The rows, their ids and the statements of Send, Takeover and ReleaseTakeover,
\* interleaved, are a conversation of each pair of users, whoever writes first,
\* and a message that is routed by who holds it at one moment of its call: the
\* read of the takeover.  (messages.go:53 to 92, threads.go:107 and 140)
PairOf(t) == {threads[t].a, threads[t].b}
RowOf(p) == CHOOSE t \in 1..count : PairOf(t) = p
Routed(m) == [step |-> m.step, from |-> m.from, to |-> m.to,
              skips |-> m.override \/ (m.step = "insert" /\ Overrides(m))]
Holder == [p \in {PairOf(t) : t \in 1..count} |-> threads[RowOf(p)].holder]
Messages == [s \in Sends |-> Routed(send[s])]
Promise == INSTANCE Conversations WITH
             holder <- Holder, message <- Messages, faults <- MaxFaults - budget
ImplementsConversations == Promise!Spec

\* "If the thread is in human takeover or recipient is a regular user, skip bot
\* delivery" (deliverer.go:80).
BotSkippedInTakeover ==
  [][\A s \in Sends : send[s].step = "queued" /\ send'[s].step = "bot" =>
       threads[send[s].thread].holder # send[s].to]_vars
=============================================================================
