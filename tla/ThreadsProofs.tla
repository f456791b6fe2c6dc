--------------------------- MODULE ThreadsProofs ----------------------------
(***************************************************************************)
(* Theorems about Threads, for any users, threads and concurrent calls,    *)
(* and any failures.                                                       *)
(***************************************************************************)
EXTENDS Threads, TLAPS

USE ThreadsAssumption

\* What OneThreadPerPair needs to be inductive: the pairs are in order.
RowsInOrder ==
  \A t \in 1..count :
    /\ threads[t].a \in Users /\ threads[t].b \in Users
    /\ threads[t].a <= threads[t].b
    /\ \A x \in 1..count : threads[t].a = threads[x].a /\ threads[t].b = threads[x].b => t = x

\* What OverrideWasTrue needs: who the call knows to hold its thread has held it
\* since the call found it.
SendInv(s) ==
  /\ send[s].step # "idle" => send[s].thread \in 1..count /\ send[s].to \in Users
  /\ send[s].step = "read" => /\ threads[send[s].thread].holder \in held[s]
                              /\ send[s].by = Nobody
  /\ send[s].step = "insert" => \/ send[s].by \in held[s]
                                \/ blind[s] /\ send[s].by = Nobody
  /\ send[s].step \in {"queued", "bot", "skipped"} =>
       /\ send[s].override => send[s].to \in held[s]
       /\ ~send[s].override => held[s] # {send[s].to} \/ blind[s]

\* What ToldWhoHolds needs: an event on its way says who holds the thread now,
\* unless it overlaps with another.
EventsOfRows ==
  /\ \A r \in Requests : request[r] # NoEvent => request[r].thread \in 1..count
  /\ \A t \in ThreadIds : t > count => \A u \in Users : shown[u][t] = Nobody

EventsAreTrue ==
  budget = MaxFaults =>
    \A t \in 1..count : alone[t] =>
      \A r \in Requests : request[r].thread = t => request[r].holder = threads[t].holder

SendsInv == \A s \in Sends : SendInv(s)
EventsInv == EventsOfRows /\ EventsAreTrue /\ ToldWhoHolds

ThreadsInv == TypeOK /\ RowsInOrder /\ SendsInv /\ EventsInv

LEMMA ThreadsInit == Init => ThreadsInv
<1> SUFFICES ASSUME Init PROVE ThreadsInv
  OBVIOUS
<1>1. blind \in [Sends -> BOOLEAN] /\ alone \in [ThreadIds -> BOOLEAN]
  BY DEF Init
<1>2. NoMessage \in Message /\ NoEvent \in Event
  BY DEF NoMessage, Message, NoEvent, Event, Ids, SendSteps, Nobody
<1>3. TypeOK
  BY <1>1, <1>2 DEF Init, TypeOK, Row, Ids, Nobody
<1>4. RowsInOrder
  BY DEF Init, RowsInOrder
<1>5. SendsInv
  BY DEF Init, SendsInv, SendInv, NoMessage
<1>6. EventsInv
  BY DEF Init, EventsInv, EventsOfRows, EventsAreTrue, ToldWhoHolds, Ids, NoEvent
<1> QED BY <1>3, <1>4, <1>5, <1>6 DEF ThreadsInv

-----------------------------------------------------------------------------
(* Send *)

LEMMA BudgetStep ==
  ASSUME TypeOK, NEW f, NoFault \/ Fault(f)
  PROVE  budget' \in 0..MaxFaults /\ budget' <= budget
  BY DEF TypeOK, Fault, NoFault

\* The sender and the recipient in either order.
LEMMA PairInOrder ==
  ASSUME NEW u \in Users, NEW v \in Users
  PROVE  /\ Pair(u, v)[1] \in Users /\ Pair(u, v)[2] \in Users
         /\ Pair(u, v)[1] <= Pair(u, v)[2]
  BY DEF Pair, Normalised

\* A call of Send that changes no row and no event.
LEMMA RowsKept ==
  ASSUME ThreadsInv, UNCHANGED <<threads, count, request, shown, alone>>,
         budget' \in 0..MaxFaults, budget' <= budget
  PROVE  RowsInOrder' /\ EventsInv'
<1>1. RowsInOrder'
  BY DEF ThreadsInv, RowsInOrder
<1>2. budget' = MaxFaults => budget = MaxFaults
  BY DEF ThreadsInv, TypeOK
<1>3. EventsInv'
  BY <1>2 DEF ThreadsInv, EventsInv, EventsOfRows, EventsAreTrue, ToldWhoHolds
<1> QED BY <1>1, <1>3

\* What a step of one call leaves of the others.
LEMMA OtherSends ==
  ASSUME ThreadsInv, NEW s \in Sends,
         \A x \in Sends \ {s} :
           send'[x] = send[x] /\ held'[x] = held[x] /\ blind'[x] = blind[x],
         UNCHANGED threads, count' = count,
         SendInv(s)'
  PROVE  SendsInv'
  BY DEF ThreadsInv, SendsInv, SendInv

\* What the call is left with.
LEMMA FoundMessage ==
  ASSUME TypeOK, NEW s \in Sends, NEW u \in Users, NEW v \in Users,
         NEW t \in 1..count', Found(s, u, v, t), count' \in 0..MaxThreads,
         threads' \in [ThreadIds -> Row]
  PROVE  /\ send' \in [Sends -> Message] /\ held' \in [Sends -> SUBSET Ids]
         /\ blind' \in [Sends -> BOOLEAN]
         /\ SendInv(s)'
         /\ \A x \in Sends \ {s} :
              send'[x] = send[x] /\ held'[x] = held[x] /\ blind'[x] = blind[x]
<1> DEFINE m == [step |-> "read", from |-> u, to |-> v, thread |-> t,
                 by |-> Nobody, override |-> FALSE]
<1>1. send' = [send EXCEPT ![s] = m]
  BY DEF Found
<1>2. m \in Message
  BY DEF Message, SendSteps, ThreadIds, Ids
<1>3. held' = [held EXCEPT ![s] = {threads'[t].holder}] /\ threads'[t].holder \in Ids
  BY DEF Found, ThreadIds, Row
<1>4. blind' = [blind EXCEPT ![s] = FALSE]
  BY DEF Found
<1>5. send' \in [Sends -> Message] /\ held' \in [Sends -> SUBSET Ids]
  BY <1>1, <1>2, <1>3 DEF TypeOK
<1>6. blind' \in [Sends -> BOOLEAN]
  BY <1>4 DEF TypeOK
<1>7. send'[s] = m /\ threads'[t].holder \in held'[s]
  BY <1>1, <1>3 DEF TypeOK
<1>8. SendInv(s)'
  BY <1>7 DEF SendInv
<1>9. \A x \in Sends \ {s} :
        send'[x] = send[x] /\ held'[x] = held[x] /\ blind'[x] = blind[x]
  BY <1>1, <1>3, <1>4 DEF TypeOK
<1> QED BY <1>5, <1>6, <1>8, <1>9

LEMMA FindPreserves ==
  ASSUME ThreadsInv, NEW s \in Sends, NEW u \in Users, NEW v \in Users,
         FindThread(s, u, v)
  PROVE  ThreadsInv'
<1> DEFINE p == Pair(u, v)
<1>0. TypeOK /\ RowsInOrder /\ SendsInv /\ EventsInv
  BY DEF ThreadsInv
<1>1. budget' \in 0..MaxFaults /\ budget' <= budget
  BY <1>0, BudgetStep DEF FindThread
<1>2. UNCHANGED <<request, shown, alone>>
  BY DEF FindThread
<1>3. ASSUME NEW t \in Rows(p), UNCHANGED <<threads, count>>,
             Found(s, u, v, t) \/ UNCHANGED <<send, held, blind>>
      PROVE  ThreadsInv'
  <2>1. t \in 1..count' /\ count' \in 0..MaxThreads /\ threads' \in [ThreadIds -> Row]
    BY <1>0, <1>3 DEF Rows, TypeOK
  <2>2. RowsInOrder' /\ EventsInv'
    BY <1>1, <1>2, <1>3, RowsKept
  <2>3. CASE Found(s, u, v, t)
    <3>1. /\ send' \in [Sends -> Message] /\ held' \in [Sends -> SUBSET Ids]
          /\ blind' \in [Sends -> BOOLEAN] /\ SendsInv'
      BY <1>0, <1>3, <2>1, <2>3, FoundMessage, OtherSends
    <3>2. TypeOK'
      BY <1>0, <1>1, <1>2, <1>3, <3>1 DEF TypeOK
    <3> QED BY <2>2, <3>1, <3>2 DEF ThreadsInv
  <2>4. CASE UNCHANGED <<send, held, blind>>
    <3>1. SendsInv'
      BY <1>0, <1>3, <2>4 DEF SendsInv, SendInv
    <3>2. TypeOK'
      BY <1>0, <1>1, <1>2, <1>3, <2>4 DEF TypeOK
    <3> QED BY <2>2, <3>1, <3>2 DEF ThreadsInv
  <2> QED BY <1>3, <2>3, <2>4
<1>4. ASSUME Rows(p) = {}, count < MaxThreads, count' = count + 1,
             threads' = [threads EXCEPT ![count + 1] =
               [a |-> p[1], b |-> p[2], holder |-> Nobody]],
             Found(s, u, v, count + 1) \/ UNCHANGED <<send, held, blind>>
      PROVE  ThreadsInv'
  <2> DEFINE n == count + 1
  <2>1. /\ n \in ThreadIds /\ n \in 1..count' /\ count \in Nat
        /\ count' \in 0..MaxThreads /\ count' = n
    BY <1>0, <1>4 DEF TypeOK, ThreadIds
  <2>2. p[1] \in Users /\ p[2] \in Users /\ p[1] <= p[2]
    BY PairInOrder
  <2>3. [a |-> p[1], b |-> p[2], holder |-> Nobody] \in Row
    BY <2>2 DEF Row, Ids
  <2>4. threads' \in [ThreadIds -> Row]
    BY <1>0, <1>4, <2>3 DEF TypeOK
  <2>5. /\ threads'[n].a = p[1] /\ threads'[n].b = p[2] /\ threads'[n].holder = Nobody
        /\ \A t \in 1..count : t # n /\ t \in 1..count' /\ threads'[t] = threads[t]
        /\ \A t \in 1..count' : t \in 1..count \/ t = n
    BY <1>0, <1>4, <2>1 DEF TypeOK, ThreadIds
  <2>6. RowsInOrder'
    <3>1. \A t \in 1..count : ~(threads[t].a = p[1] /\ threads[t].b = p[2])
      BY <1>4 DEF Rows
    <3> QED BY <1>0, <2>2, <2>5, <3>1 DEF RowsInOrder
  <2>7. EventsInv'
    <3>1. \A r \in Requests : request[r] # NoEvent => request[r].thread # n
      BY <1>0, <2>1 DEF EventsInv, EventsOfRows
    <3>2. NoEvent.thread = 0 /\ n # 0
      BY <2>1 DEF NoEvent
    <3>3. \A r \in Requests : request[r].thread # n
      BY <3>1, <3>2
    <3>4. \A x \in Users : shown[x][n] = Nobody
      BY <1>0, <2>1 DEF EventsInv, EventsOfRows
    <3>5. EventsOfRows'
      <4>1. \A r \in Requests : request[r] # NoEvent => request[r].thread \in 1..count'
        BY <1>0, <2>1 DEF EventsInv, EventsOfRows
      <4>2. \A t \in ThreadIds : t > count' => t > count
        BY <2>1 DEF ThreadIds
      <4> QED BY <1>0, <1>2, <4>1, <4>2 DEF EventsInv, EventsOfRows
    <3>6. budget' = MaxFaults => budget = MaxFaults
      BY <1>0, <1>1 DEF TypeOK
    <3>7. EventsAreTrue'
      BY <1>0, <1>2, <2>5, <3>3, <3>6 DEF EventsInv, EventsAreTrue
    <3>8. ToldWhoHolds'
      <4> SUFFICES ASSUME budget = MaxFaults, NEW t \in 1..count', alone[t],
                          \A r \in Requests : request[r].thread # t,
                          NEW x \in {threads'[t].a, threads'[t].b}
                   PROVE  shown[x][t] = threads'[t].holder
        BY <1>2, <3>6 DEF ToldWhoHolds
      <4>1. CASE t = n
        BY <2>2, <2>5, <3>4, <4>1 DEF Ids
      <4>2. CASE t \in 1..count
        BY <1>0, <2>5, <4>2 DEF EventsInv, ToldWhoHolds
      <4> QED BY <2>5, <4>1, <4>2
    <3> QED BY <3>5, <3>7, <3>8 DEF EventsInv
  <2>8. ASSUME NEW x \in Sends, send'[x] = send[x], held'[x] = held[x], blind'[x] = blind[x]
        PROVE  SendInv(x)'
    BY <1>0, <2>5, <2>8 DEF SendsInv, SendInv
  <2>9. CASE Found(s, u, v, n)
    <3>1. /\ send' \in [Sends -> Message] /\ held' \in [Sends -> SUBSET Ids]
          /\ blind' \in [Sends -> BOOLEAN] /\ SendInv(s)'
          /\ \A x \in Sends \ {s} :
               send'[x] = send[x] /\ held'[x] = held[x] /\ blind'[x] = blind[x]
      BY <1>0, <2>1, <2>4, <2>9, FoundMessage
    <3>2. SendsInv'
      BY <2>8, <3>1 DEF SendsInv
    <3>3. TypeOK'
      BY <1>0, <1>1, <1>2, <2>1, <2>4, <3>1 DEF TypeOK
    <3> QED BY <2>6, <2>7, <3>2, <3>3 DEF ThreadsInv
  <2>10. CASE UNCHANGED <<send, held, blind>>
    <3>1. SendsInv'
      BY <2>8, <2>10 DEF SendsInv
    <3>2. TypeOK'
      BY <1>0, <1>1, <1>2, <2>1, <2>4, <2>10 DEF TypeOK
    <3> QED BY <2>6, <2>7, <3>1, <3>2 DEF ThreadsInv
  <2> QED BY <1>4, <2>9, <2>10
<1> QED BY <1>3, <1>4 DEF FindThread

\* The other steps of Send change one message only.
LEMMA SendPreserves ==
  ASSUME ThreadsInv, NEW s \in Sends,
         \/ ReadTakeover(s) \/ InsertMessage(s) \/ HandleMessage(s) \/ ForgetMessage(s)
  PROVE  ThreadsInv'
<1>0. TypeOK /\ RowsInOrder /\ SendInv(s) /\ EventsInv /\ send[s] \in Message
  BY DEF ThreadsInv, SendsInv, TypeOK
<1>1. UNCHANGED <<threads, count, request, shown, alone>>
  BY DEF ReadTakeover, InsertMessage, HandleMessage, ForgetMessage, threadsUnchanged
<1>2. budget' \in 0..MaxFaults /\ budget' <= budget
  BY <1>0, BudgetStep DEF ReadTakeover, InsertMessage, HandleMessage, ForgetMessage, NoFault
<1>3. RowsInOrder' /\ EventsInv'
  BY <1>1, <1>2, RowsKept
<1>4. NoMessage \in Message
  BY DEF NoMessage, Message, SendSteps, Ids, Nobody
<1>5. SUFFICES /\ send' \in [Sends -> Message] /\ held' \in [Sends -> SUBSET Ids]
               /\ blind' \in [Sends -> BOOLEAN]
               /\ \A x \in Sends \ {s} :
                    send'[x] = send[x] /\ held'[x] = held[x] /\ blind'[x] = blind[x]
               /\ SendInv(s)'
  <2> SUFFICES ASSUME send' \in [Sends -> Message], held' \in [Sends -> SUBSET Ids],
                      blind' \in [Sends -> BOOLEAN],
                      \A x \in Sends \ {s} :
                        send'[x] = send[x] /\ held'[x] = held[x] /\ blind'[x] = blind[x],
                      SendInv(s)'
               PROVE  ThreadsInv'
    OBVIOUS
  <2>1. SendsInv'
    BY <1>1, OtherSends
  <2>2. TypeOK'
    BY <1>0, <1>1, <1>2 DEF TypeOK
  <2> QED BY <1>3, <2>1, <2>2 DEF ThreadsInv
<1>6. CASE ReadTakeover(s)
  <2>1. UNCHANGED held
    BY <1>6 DEF ReadTakeover, threadsUnchanged
  <2>2. send[s].step = "read" /\ send[s].thread \in ThreadIds /\ send[s].thread \in 1..count
    BY <1>0, <1>6 DEF ReadTakeover, SendInv, TypeOK, ThreadIds
  <2>3. CASE /\ UNCHANGED blind
             /\ send' = [send EXCEPT ![s].step = "insert",
                                     ![s].by = threads[send[s].thread].holder]
    <3> DEFINE h == threads[send[s].thread].holder
    <3>1. h \in Ids
      BY <1>0, <2>2 DEF TypeOK, Row
    <3>2. [send[s] EXCEPT !.step = "insert", !.by = h] \in Message
      BY <1>0, <3>1 DEF Message, SendSteps
    <3>3. send' \in [Sends -> Message] /\ \A x \in Sends \ {s} : send'[x] = send[x]
      BY <1>0, <2>3, <3>2 DEF TypeOK
    <3>4. /\ send'[s].step = "insert" /\ send'[s].by = h
          /\ send'[s].thread = send[s].thread /\ send'[s].to = send[s].to
      BY <1>0, <2>3 DEF TypeOK, Message
    <3>5. SendInv(s)'
      BY <1>0, <1>1, <2>1, <2>2, <3>4 DEF SendInv
    <3> QED BY <1>0, <2>1, <2>3, <3>3, <3>5 DEF TypeOK
  <2>4. CASE /\ blind' = [blind EXCEPT ![s] = TRUE]
             /\ send' = [send EXCEPT ![s].step = "insert"]
    <3>1. [send[s] EXCEPT !.step = "insert"] \in Message
      BY <1>0 DEF Message, SendSteps
    <3>2. send' \in [Sends -> Message] /\ \A x \in Sends \ {s} : send'[x] = send[x]
      BY <1>0, <2>4, <3>1 DEF TypeOK
    <3>3. /\ send'[s].step = "insert" /\ send'[s].by = send[s].by
          /\ send'[s].thread = send[s].thread /\ send'[s].to = send[s].to
      BY <1>0, <2>4 DEF TypeOK, Message
    <3>4. /\ blind' \in [Sends -> BOOLEAN] /\ blind'[s]
          /\ \A x \in Sends \ {s} : blind'[x] = blind[x]
      BY <1>0, <2>4 DEF TypeOK
    <3>5. SendInv(s)'
      BY <1>0, <1>1, <2>1, <2>2, <3>3, <3>4 DEF SendInv
    <3> QED BY <1>0, <2>1, <3>2, <3>4, <3>5 DEF TypeOK
  <2> QED BY <1>6, <2>3, <2>4 DEF ReadTakeover
<1>7. CASE InsertMessage(s)
  <2>1. UNCHANGED <<held, blind>> /\ send[s].step = "insert"
    BY <1>7 DEF InsertMessage, threadsUnchanged
  <2>2. CASE send' = [send EXCEPT ![s].step = "queued",
                                  ![s].override = Overrides(send[s])]
    <3>1. Overrides(send[s]) \in BOOLEAN
      BY DEF Overrides
    <3>2. [send[s] EXCEPT !.step = "queued", !.override = Overrides(send[s])] \in Message
      BY <1>0, <3>1 DEF Message, SendSteps
    <3>3. send' \in [Sends -> Message] /\ \A x \in Sends \ {s} : send'[x] = send[x]
      BY <1>0, <2>2, <3>2 DEF TypeOK
    <3>4. /\ send'[s].step = "queued" /\ send'[s].by = send[s].by
          /\ send'[s].thread = send[s].thread /\ send'[s].to = send[s].to
      BY <1>0, <2>2 DEF TypeOK, Message
    <3>5. send'[s].override = Overrides(send[s])
      BY <1>0, <2>2 DEF TypeOK, Message
    <3>6. /\ send[s].thread \in 1..count /\ send[s].to \in Users
          /\ send[s].by \in held[s] \/ (blind[s] /\ send[s].by = Nobody)
      BY <1>0, <2>1 DEF SendInv
    <3>7. /\ Overrides(send[s]) => send[s].to \in held[s]
          /\ ~Overrides(send[s]) => held[s] # {send[s].to} \/ blind[s]
      BY <3>6 DEF Overrides, Nobody
    <3>8. SendInv(s)'
      BY <1>1, <2>1, <3>4, <3>5, <3>6, <3>7 DEF SendInv
    <3> QED BY <1>0, <2>1, <3>3, <3>8 DEF TypeOK
  <2>3. CASE send' = [send EXCEPT ![s] = NoMessage]
    <3>1. send'[s].step = "idle"
      BY <1>0, <2>3 DEF TypeOK, NoMessage
    <3>2. SendInv(s)'
      BY <3>1 DEF SendInv
    <3> QED BY <1>0, <1>4, <2>1, <2>3, <3>2 DEF TypeOK
  <2> QED BY <1>7, <2>2, <2>3 DEF InsertMessage
<1>8. CASE HandleMessage(s)
  <2> DEFINE st == IF send[s].override THEN "skipped" ELSE "bot"
  <2>1. UNCHANGED <<held, blind>> /\ send[s].step = "queued"
        /\ send' = [send EXCEPT ![s].step = st]
    BY <1>8 DEF HandleMessage, threadsUnchanged
  <2>2. st \in {"bot", "skipped"}
    OBVIOUS
  <2>3. [send[s] EXCEPT !.step = st] \in Message
    BY <1>0, <2>2 DEF Message, SendSteps
  <2>4. send' \in [Sends -> Message] /\ \A x \in Sends \ {s} : send'[x] = send[x]
    BY <1>0, <2>1, <2>3 DEF TypeOK
  <2>5. /\ send'[s].step \in {"bot", "skipped"} /\ send'[s].override = send[s].override
        /\ send'[s].thread = send[s].thread /\ send'[s].to = send[s].to
    BY <1>0, <2>1, <2>2 DEF TypeOK, Message
  <2>6. SendInv(s)'
    BY <1>0, <1>1, <2>1, <2>5 DEF SendInv
  <2> QED BY <1>0, <2>1, <2>4, <2>6 DEF TypeOK
<1>9. CASE ForgetMessage(s)
  <2>1. /\ send' = [send EXCEPT ![s] = NoMessage]
        /\ held' = [held EXCEPT ![s] = {}] /\ blind' = [blind EXCEPT ![s] = FALSE]
    BY <1>9 DEF ForgetMessage
  <2>2. send' \in [Sends -> Message] /\ held' \in [Sends -> SUBSET Ids]
    BY <1>0, <1>4, <2>1 DEF TypeOK
  <2>3. blind' \in [Sends -> BOOLEAN]
    BY <1>0, <2>1 DEF TypeOK
  <2>4. send'[s].step = "idle"
    BY <1>0, <2>1 DEF TypeOK, NoMessage
  <2>5. SendInv(s)'
    BY <2>4 DEF SendInv
  <2> QED BY <1>0, <2>1, <2>2, <2>3, <2>5 DEF TypeOK
<1> QED BY <1>6, <1>7, <1>8, <1>9

-----------------------------------------------------------------------------
(* Takeover, ReleaseTakeover and the death of the API *)

LEMMA PassesPreserves ==
  ASSUME ThreadsInv, NEW r \in Requests, NEW t \in 1..count, NEW u \in Ids, NEW h \in Ids,
         request[r] = NoEvent, Passes(r, t, u, h)
  PROVE  ThreadsInv'
<1>0. TypeOK /\ RowsInOrder /\ SendsInv /\ EventsInv /\ t \in ThreadIds /\ t # 0
  BY DEF ThreadsInv, TypeOK, ThreadIds
<1>1. /\ threads' = [threads EXCEPT ![t].holder = h]
      /\ held' = [s \in Sends |->
           IF send[s].thread = t /\ send[s].step \in {"read", "insert"}
             THEN held[s] \cup {h} ELSE held[s]]
      /\ alone' = [alone EXCEPT ![t] = \A x \in Requests : request[x].thread # t]
      /\ UNCHANGED <<count, send, blind, shown>>
  BY DEF Passes, Witnessed
<1>2. \/ budget' = budget /\ request' = [request EXCEPT ![r] = [thread |-> t, by |-> u, holder |-> h]]
      \/ budget' < budget /\ request' = request
  BY <1>0 DEF Passes, NoFault, Fault, TypeOK
<1>3. budget' \in 0..MaxFaults /\ budget' <= budget
  BY <1>0, BudgetStep DEF Passes
<1>4. /\ \A x \in 1..count : threads'[x].a = threads[x].a /\ threads'[x].b = threads[x].b
      /\ \A x \in 1..count : x # t => threads'[x].holder = threads[x].holder
      /\ threads'[t].holder = h
  BY <1>0, <1>1 DEF TypeOK, Row, ThreadIds
<1>5. TypeOK'
  <2>1. threads' \in [ThreadIds -> Row]
    BY <1>0, <1>1 DEF TypeOK, Row
  <2>2. held' \in [Sends -> SUBSET Ids]
    BY <1>0, <1>1 DEF TypeOK
  <2>3. [thread |-> t, by |-> u, holder |-> h] \in Event
    BY <1>0 DEF Event
  <2>4. request' \in [Requests -> Event]
    BY <1>0, <1>2, <2>3 DEF TypeOK
  <2>5. alone' \in [ThreadIds -> BOOLEAN]
    <3> DEFINE free == \A x \in Requests : request[x].thread # t
    <3>1. free \in BOOLEAN
      OBVIOUS
    <3>2. alone' = [alone EXCEPT ![t] = free]
      BY <1>1
    <3> HIDE DEF free
    <3> QED BY <1>0, <3>1, <3>2 DEF TypeOK
  <2> QED BY <1>0, <1>1, <1>3, <2>1, <2>2, <2>4, <2>5 DEF TypeOK
<1>6. RowsInOrder'
  BY <1>0, <1>1, <1>4 DEF RowsInOrder
<1>7. SendsInv'
  <2> SUFFICES ASSUME NEW s \in Sends PROVE SendInv(s)'
    BY DEF SendsInv
  <2>1. SendInv(s) /\ UNCHANGED <<count, send, blind>>
    BY <1>0, <1>1 DEF SendsInv
  <2>2. /\ held[s] \subseteq held'[s]
        /\ send[s].step \notin {"read", "insert"} => held'[s] = held[s]
        /\ send[s].step \in {"read", "insert"} /\ send[s].thread = t => h \in held'[s]
    BY <1>1
  <2>3. send[s].step = "read" => threads'[send[s].thread].holder \in held'[s]
    BY <1>4, <2>1, <2>2 DEF SendInv
  <2> QED BY <2>1, <2>2, <2>3 DEF SendInv
<1>8. EventsOfRows'
  <2>1. \A x \in Requests : request'[x] # NoEvent => request'[x].thread \in 1..count
    BY <1>0, <1>2 DEF EventsInv, EventsOfRows, TypeOK
  <2> QED BY <1>0, <1>1, <2>1 DEF EventsInv, EventsOfRows
<1>9. EventsAreTrue' /\ ToldWhoHolds'
  <2>1. CASE budget' < budget
    BY <1>0, <1>3, <2>1 DEF TypeOK, EventsAreTrue, ToldWhoHolds
  <2>2. CASE /\ budget' = budget
             /\ request' = [request EXCEPT ![r] = [thread |-> t, by |-> u, holder |-> h]]
    <3>1. /\ request'[r].thread = t /\ request'[r].holder = h
          /\ \A x \in Requests : x # r => request'[x] = request[x]
          /\ request[r].thread = 0
      BY <1>0, <2>2 DEF TypeOK, NoEvent
    <3>2. /\ alone'[t] => \A x \in Requests : request[x].thread # t
          /\ \A x \in 1..count : x # t => alone'[x] = alone[x]
      BY <1>0, <1>1 DEF TypeOK
    <3>3. EventsAreTrue'
      <4> SUFFICES ASSUME budget = MaxFaults, NEW x \in 1..count, alone'[x],
                          NEW q \in Requests, request'[q].thread = x
                   PROVE  request'[q].holder = threads'[x].holder
        BY <1>1, <2>2 DEF EventsAreTrue
      <4>1. CASE x = t
        BY <1>4, <3>1, <3>2, <4>1
      <4>2. CASE x # t
        BY <1>0, <1>4, <3>1, <3>2, <4>2 DEF EventsInv, EventsAreTrue
      <4> QED BY <4>1, <4>2
    <3>4. ToldWhoHolds'
      <4> SUFFICES ASSUME budget = MaxFaults, NEW x \in 1..count, alone'[x],
                          \A q \in Requests : request'[q].thread # x,
                          NEW v \in {threads'[x].a, threads'[x].b}
                   PROVE  shown[v][x] = threads'[x].holder
        BY <1>1, <2>2 DEF ToldWhoHolds
      <4>1. x # t
        BY <3>1
      <4>2. \A q \in Requests : request[q].thread # x
        BY <3>1, <1>0
      <4> QED BY <1>0, <1>4, <3>2, <4>1, <4>2 DEF EventsInv, ToldWhoHolds
    <3> QED BY <3>3, <3>4
  <2> QED BY <1>2, <2>1, <2>2
<1> QED BY <1>5, <1>6, <1>7, <1>8, <1>9 DEF ThreadsInv, EventsInv

LEMMA RequestPreserves ==
  ASSUME ThreadsInv, NEW r \in Requests, NEW t \in ThreadIds, NEW u \in Users,
         Takeover(r, t, u) \/ ReleaseTakeover(r, t, u)
  PROVE  ThreadsInv'
<1>1. t \in 1..count /\ u \in Ids /\ Nobody \in Ids /\ request[r] = NoEvent
  BY DEF ThreadsInv, TypeOK, ThreadIds, Ids, Takeover, ReleaseTakeover
<1>2. Passes(r, t, u, u) \/ Passes(r, t, u, Nobody)
  BY DEF Takeover, ReleaseTakeover
<1> QED BY <1>1, <1>2, PassesPreserves

\* An event that reaches the feeds us: its thread has a row, and its call has no
\* other on its way.
LEMMA PublishPreserves ==
  ASSUME ThreadsInv, NEW r \in Requests, PublishFeedEvent(r)
  PROVE  ThreadsInv'
<1> DEFINE e == request[r]
<1>0. TypeOK /\ RowsInOrder /\ SendsInv /\ EventsInv
  BY DEF ThreadsInv
<1>1. /\ e.thread \in 1..count /\ e.thread \in ThreadIds /\ e.thread # 0
      /\ e.holder \in Ids
  <2>1. e # NoEvent
    BY DEF PublishFeedEvent
  <2>2. e.thread \in 1..count /\ e \in Event
    BY <1>0, <2>1 DEF EventsInv, EventsOfRows, TypeOK
  <2>3. e.holder \in Ids
    BY <2>2 DEF Event
  <2>4. count \in 0..MaxThreads
    BY <1>0 DEF TypeOK
  <2> HIDE DEF e
  <2> QED BY <2>2, <2>3, <2>4 DEF ThreadIds
<1>2. /\ request' = [request EXCEPT ![r] = NoEvent]
      /\ UNCHANGED <<threads, count, send, held, blind, alone>>
  BY DEF PublishFeedEvent
<1>3. budget' \in 0..MaxFaults /\ budget' <= budget
  BY <1>0, BudgetStep DEF PublishFeedEvent
<1>4. PICK us : /\ shown' = [u \in Users |->
                     IF u \in us THEN [shown[u] EXCEPT ![e.thread] = e.holder] ELSE shown[u]]
                /\ budget' = budget => us = Audience(e.thread)
  <2> DEFINE show(us) == shown' = [u \in Users |->
        IF u \in us THEN [shown[u] EXCEPT ![e.thread] = e.holder] ELSE shown[u]]
  <2>1. \/ show(Audience(e.thread))
        \/ Fault("dbError") /\ show({})
        \/ Fault("redisError") /\ \E us \in SUBSET Audience(e.thread) : show(us)
    BY Zenon DEF PublishFeedEvent
  <2>2. ASSUME NEW f, Fault(f) PROVE budget' # budget
    BY <1>0, <2>2 DEF Fault, TypeOK
  <2> QED BY <2>1, <2>2
<1>5. /\ \A q \in Requests : q # r => request'[q] = request[q]
      /\ request'[r] = NoEvent /\ NoEvent.thread = 0
  BY <1>0, <1>2 DEF TypeOK, NoEvent
<1>6. \A u \in Users, t \in ThreadIds :
        shown'[u][t] = IF u \in us /\ t = e.thread THEN e.holder ELSE shown[u][t]
  BY <1>0, <1>4 DEF TypeOK
<1>7. TypeOK'
  <2>1. NoEvent \in Event
    BY DEF NoEvent, Event, Ids, Nobody
  <2>2. request' \in [Requests -> Event]
    BY <1>0, <1>2, <2>1 DEF TypeOK
  <2>3. shown' \in [Users -> [ThreadIds -> Ids]]
    BY <1>0, <1>1, <1>4 DEF TypeOK
  <2> QED BY <1>0, <1>2, <1>3, <2>2, <2>3 DEF TypeOK
<1>8. RowsInOrder' /\ SendsInv'
  BY <1>0, <1>2 DEF RowsInOrder, SendsInv, SendInv
<1>9. EventsOfRows'
  <2>1. \A q \in Requests : request'[q] # NoEvent => request'[q].thread \in 1..count'
    BY <1>0, <1>2, <1>5 DEF EventsInv, EventsOfRows
  <2>2. \A t \in ThreadIds : t > count => t # e.thread
    BY <1>0, <1>1 DEF TypeOK, ThreadIds
  <2>3. \A t \in ThreadIds : t > count' => \A u \in Users : shown'[u][t] = Nobody
    BY <1>0, <1>2, <1>6, <2>2 DEF EventsInv, EventsOfRows
  <2> QED BY <2>1, <2>3 DEF EventsOfRows
<1>10. budget' = MaxFaults => budget = MaxFaults /\ us = Audience(e.thread)
  BY <1>0, <1>3, <1>4 DEF TypeOK
<1>11. EventsAreTrue'
  <2> SUFFICES ASSUME budget = MaxFaults, NEW t \in 1..count, alone[t],
                      NEW q \in Requests, request'[q].thread = t
               PROVE  request'[q].holder = threads[t].holder
    BY <1>2, <1>10 DEF EventsAreTrue
  <2>1. q # r
    BY <1>5
  <2> QED BY <1>0, <1>5, <2>1 DEF EventsInv, EventsAreTrue
<1>12. ToldWhoHolds'
  <2> SUFFICES ASSUME budget = MaxFaults, us = Audience(e.thread),
                      NEW t \in 1..count, alone[t],
                      \A q \in Requests : request'[q].thread # t,
                      NEW u \in {threads[t].a, threads[t].b}
               PROVE  shown'[u][t] = threads[t].holder
    BY <1>2, <1>10 DEF ToldWhoHolds
  <2>1. t \in ThreadIds /\ u \in Users
    BY <1>0 DEF TypeOK, ThreadIds, RowsInOrder
  <2>2. CASE t = e.thread
    <3>1. u \in us
      BY <2>2 DEF Audience
    <3>2. e.holder = threads[t].holder
      BY <1>0, <2>2 DEF EventsInv, EventsAreTrue
    <3> QED BY <1>6, <2>1, <2>2, <3>1, <3>2
  <2>3. CASE t # e.thread
    <3>1. \A q \in Requests : request[q].thread # t
      BY <1>5, <2>3
    <3>2. shown[u][t] = threads[t].holder
      BY <1>0, <3>1 DEF EventsInv, ToldWhoHolds
    <3> QED BY <1>6, <2>1, <2>3, <3>2
  <2> QED BY <2>2, <2>3
<1> QED BY <1>7, <1>8, <1>9, <1>11, <1>12 DEF ThreadsInv, EventsInv

LEMMA CrashPreserves == ASSUME ThreadsInv, CrashApi PROVE ThreadsInv'
<1>0. TypeOK /\ RowsInOrder /\ SendsInv /\ EventsInv
  BY DEF ThreadsInv
<1>1. /\ send' = [s \in Sends |->
           IF send[s].step \in {"read", "insert"} THEN NoMessage ELSE send[s]]
      /\ request' = [r \in Requests |-> NoEvent]
      /\ UNCHANGED <<threads, count, held, blind, shown, alone>>
  BY DEF CrashApi
<1>2. budget' \in 0..MaxFaults /\ budget' # MaxFaults
  BY <1>0 DEF CrashApi, Fault, TypeOK
<1>3. NoMessage \in Message /\ NoMessage.step = "idle" /\ NoEvent \in Event
  BY DEF NoMessage, Message, SendSteps, Ids, Nobody, NoEvent, Event
<1>4. TypeOK'
  <2>1. send' \in [Sends -> Message] /\ request' \in [Requests -> Event]
    BY <1>0, <1>1, <1>3 DEF TypeOK
  <2> QED BY <1>0, <1>1, <1>2, <2>1 DEF TypeOK
<1>5. RowsInOrder'
  BY <1>0, <1>1 DEF RowsInOrder
<1>6. SendsInv'
  <2> SUFFICES ASSUME NEW s \in Sends PROVE SendInv(s)'
    BY DEF SendsInv
  <2>1. SendInv(s)
    BY <1>0 DEF SendsInv
  <2>2. send'[s].step = "idle" \/ send'[s] = send[s]
    BY <1>1, <1>3
  <2> QED BY <1>1, <2>1, <2>2 DEF SendInv
<1>7. EventsInv'
  BY <1>0, <1>1, <1>2 DEF EventsInv, EventsOfRows, EventsAreTrue, ToldWhoHolds
<1> QED BY <1>4, <1>5, <1>6, <1>7 DEF ThreadsInv

-----------------------------------------------------------------------------

LEMMA ThreadsStep == ThreadsInv /\ [Next]_vars => ThreadsInv'
<1> SUFFICES ASSUME ThreadsInv, [Next]_vars
             PROVE  ThreadsInv'
  OBVIOUS
<1>1. CASE UNCHANGED vars
  <2>1. TypeOK' /\ RowsInOrder' /\ SendsInv'
    BY <1>1 DEF vars, ThreadsInv, TypeOK, RowsInOrder, SendsInv, SendInv
  <2>2. EventsInv'
    BY <1>1 DEF vars, ThreadsInv, EventsInv, EventsOfRows, EventsAreTrue, ToldWhoHolds
  <2> QED BY <2>1, <2>2 DEF ThreadsInv
<1>2. ASSUME NEW s \in Sends, SendStep(s) PROVE ThreadsInv'
  BY <1>2, FindPreserves, SendPreserves DEF SendStep
<1>3. ASSUME NEW r \in Requests, RequestStep(r) PROVE ThreadsInv'
  BY <1>3, RequestPreserves, PublishPreserves DEF RequestStep
<1> QED BY <1>1, <1>2, <1>3, CrashPreserves DEF Next

LEMMA ThreadsAlways == Spec => []ThreadsInv
  BY ThreadsInit, ThreadsStep, PTL DEF Spec

\* Every variable keeps its type.
THEOREM TypeCorrect == Spec => []TypeOK
<1>1. ThreadsInv => TypeOK
  BY DEF ThreadsInv
<1> QED BY <1>1, ThreadsAlways, PTL

LEMMA PairsUnique == ThreadsInv => OneThreadPerPair
<1> SUFFICES ASSUME ThreadsInv, NEW t \in 1..count, NEW x \in 1..count,
                    {threads[t].a, threads[t].b} = {threads[x].a, threads[x].b}
             PROVE  t = x
  BY DEF OneThreadPerPair
<1>1. /\ threads[t].a \in Nat /\ threads[t].b \in Nat /\ threads[t].a <= threads[t].b
      /\ threads[x].a \in Nat /\ threads[x].b \in Nat /\ threads[x].a <= threads[x].b
  BY DEF ThreadsInv, RowsInOrder
<1>2. threads[t].a = threads[x].a /\ threads[t].b = threads[x].b
  <2>1. /\ threads[t].a \in {threads[x].a, threads[x].b}
        /\ threads[t].b \in {threads[x].a, threads[x].b}
        /\ threads[x].a \in {threads[t].a, threads[t].b}
        /\ threads[x].b \in {threads[t].a, threads[t].b}
    BY Zenon
  <2> QED BY <1>1, <2>1
<1> QED BY <1>2 DEF ThreadsInv, RowsInOrder

\* Two users have one conversation, however many calls of Send look for it at
\* once.  (Send)
THEOREM PairsCorrect == Spec => []OneThreadPerPair
  BY PairsUnique, ThreadsAlways, PTL

\* A message overrides the bot only for a takeover by its recipient, and goes to
\* the bot only if there was a moment without one.  (Send)
THEOREM OverrideCorrect == Spec => []OverrideWasTrue
<1>1. ThreadsInv => OverrideWasTrue
  BY DEF ThreadsInv, SendsInv, SendInv, OverrideWasTrue
<1> QED BY <1>1, ThreadsAlways, PTL

\* Without failures the feeds end up with the holder of every thread whose last
\* takeover or release overlapped with none.  (publishFeedEvent)
THEOREM ToldCorrect == Spec => []ToldWhoHolds
<1>1. ThreadsInv => ToldWhoHolds
  BY DEF ThreadsInv, EventsInv
<1> QED BY <1>1, ThreadsAlways, PTL

\* A takeover ends by the holder's own release or by the other participant's
\* takeover.  (Takeover, ReleaseTakeover)
THEOREM TakeoverCorrect == Spec => TakeoverEndsByRight
<1> DEFINE ByRight == \A t \in 1..count :
                        threads'[t].holder # threads[t].holder => PassesByRight(t)
<1>1. ASSUME ThreadsInv, NEW r \in Requests, NEW x \in ThreadIds, NEW u \in Users,
             Takeover(r, x, u) \/ ReleaseTakeover(r, x, u)
      PROVE  ByRight
  <2> SUFFICES ASSUME NEW t \in 1..count, threads'[t].holder # threads[t].holder
               PROVE  PassesByRight(t)
    OBVIOUS
  <2>0. TypeOK /\ t \in ThreadIds
    BY <1>1 DEF ThreadsInv, TypeOK, ThreadIds
  <2>1. PICK h : /\ threads' = [threads EXCEPT ![x].holder = h]
                 /\ \/ h = u /\ u \in {threads[x].a, threads[x].b}
                    \/ h = Nobody /\ u = threads[x].holder
                 /\ Passes(r, x, u, h) /\ request[r] = NoEvent
    BY <1>1 DEF Takeover, ReleaseTakeover, Passes
  <2>2. t = x /\ threads'[t].holder = h
    BY <2>0, <2>1 DEF TypeOK, Row
  <2>3. \/ budget' < budget
        \/ request'[r].by = u
    BY <2>0, <2>1 DEF Passes, Fault, TypeOK
  <2> QED BY <2>1, <2>2, <2>3 DEF PassesByRight
<1>2. ASSUME ThreadsInv, NEW s \in Sends, NEW u \in Users, NEW v \in Users,
             FindThread(s, u, v)
      PROVE  ByRight
  <2>1. \A t \in 1..count : threads'[t] = threads[t]
    BY <1>2 DEF FindThread, Rows, ThreadsInv, TypeOK, ThreadIds
  <2> QED BY <2>1
<1>3. ThreadsInv /\ [Next]_vars => [ByRight]_vars
  <2> SUFFICES ASSUME ThreadsInv, Next PROVE ByRight \/ UNCHANGED vars
    OBVIOUS
  <2>1. ASSUME NEW s \in Sends, SendStep(s) PROVE ByRight
    BY <1>2, <2>1 DEF SendStep, ReadTakeover, InsertMessage, HandleMessage,
                      ForgetMessage, threadsUnchanged
  <2>2. ASSUME NEW r \in Requests, RequestStep(r) PROVE ByRight
    BY <1>1, <2>2 DEF RequestStep, PublishFeedEvent
  <2>3. CrashApi => ByRight
    BY DEF CrashApi
  <2> QED BY <2>1, <2>2, <2>3 DEF Next
<1> QED BY <1>3, ThreadsAlways, PTL DEF Spec, TakeoverEndsByRight
-----------------------------------------------------------------------------
(* Threads implements Conversations *)

\* What the refinement needs besides: a message is of the thread of its sender
\* and its recipient, and nothing is decided before the read.
RoutedRight ==
  \A s \in Sends : send[s].step # "idle" =>
    /\ PairOf(send[s].thread) = {send[s].from, send[s].to}
    /\ send[s].step \in {"read", "insert"} => ~send[s].override

ConversationsInv == ThreadsInv /\ RoutedRight

\* Rows that no two of which have the same two users are a function of pairs.
LEMMA RowsAreAMap ==
  ASSUME NEW rows, NEW n,
         \A t, x \in 1..n : {rows[t].a, rows[t].b} = {rows[x].a, rows[x].b} => t = x
  PROVE  \A t \in 1..n :
           rows[CHOOSE x \in 1..n : {rows[x].a, rows[x].b} = {rows[t].a, rows[t].b}] = rows[t]
<1> SUFFICES ASSUME NEW t \in 1..n
             PROVE  (CHOOSE x \in 1..n : {rows[x].a, rows[x].b} = {rows[t].a, rows[t].b}) = t
  OBVIOUS
<1> QED BY Zenon

\* The holder of a pair is that of its row.
LEMMA HolderOfRow ==
  ThreadsInv => \A t \in 1..count : Holder[PairOf(t)] = threads[t].holder
<1> SUFFICES ASSUME ThreadsInv, NEW t \in 1..count
             PROVE  Holder[PairOf(t)] = threads[t].holder
  OBVIOUS
<1>1. threads[RowOf(PairOf(t))] = threads[t]
  BY PairsUnique, RowsAreAMap DEF OneThreadPerPair, RowOf, PairOf
<1> QED BY <1>1, Zenon DEF Holder

LEMMA HolderOfRowNext ==
  ASSUME ThreadsInv'
  PROVE  \A t \in 1..count' : Holder'[PairOf(t)'] = threads'[t].holder
<1>1. (ThreadsInv => \A t \in 1..count : Holder[PairOf(t)] = threads[t].holder)'
  BY HolderOfRow, PTL
<1> QED BY <1>1

\* The faults of Conversations are the failures spent.
LEMMA FailuresCount ==
  ASSUME ThreadsInv
  PROVE  /\ NoFault => MaxFaults - budget' = MaxFaults - budget
         /\ \A f : Fault(f) => MaxFaults - budget' = (MaxFaults - budget) + 1
  BY DEF ThreadsInv, TypeOK, NoFault, Fault

\* The users of a row stay; a pair of users is the same in either order.
LEMMA RowsStay ==
  ASSUME ThreadsInv, [Next]_vars
  PROVE  \A t \in 1..count : t \in 1..count' /\ PairOf(t)' = PairOf(t)
<1> SUFFICES ASSUME NEW t \in 1..count
             PROVE  t \in 1..count' /\ threads'[t].a = threads[t].a /\ threads'[t].b = threads[t].b
  BY DEF PairOf
<1>1. /\ count \in Nat /\ t \in ThreadIds /\ t \in Nat /\ threads \in [ThreadIds -> Row]
  BY DEF ThreadsInv, TypeOK, ThreadIds
<1>2. ASSUME NEW s \in Sends, SendStep(s)
      PROVE  t \in 1..count' /\ threads'[t] = threads[t]
  <2>1. ASSUME NEW u, NEW v, FindThread(s, u, v)
        PROVE  t \in 1..count' /\ threads'[t] = threads[t]
    <3>1. \/ UNCHANGED <<threads, count>>
          \/ /\ count' = count + 1
             /\ threads' = [threads EXCEPT ![count + 1] =
                  [a |-> Pair(u, v)[1], b |-> Pair(u, v)[2], holder |-> Nobody]]
      BY <2>1 DEF FindThread
    <3> QED BY <1>1, <3>1
  <2>2. ReadTakeover(s) \/ InsertMessage(s) \/ HandleMessage(s) \/ ForgetMessage(s)
          => UNCHANGED <<threads, count>>
    BY DEF ReadTakeover, InsertMessage, HandleMessage, ForgetMessage, threadsUnchanged
  <2> QED BY <1>2, <2>1, <2>2 DEF SendStep
<1>3. ASSUME NEW r \in Requests, NEW x \in ThreadIds, NEW u \in Users,
             Takeover(r, x, u) \/ ReleaseTakeover(r, x, u)
      PROVE  /\ t \in 1..count' /\ threads'[t].a = threads[t].a
             /\ threads'[t].b = threads[t].b
  BY <1>1, <1>3 DEF Takeover, ReleaseTakeover, Passes, Row
<1>4. ASSUME NEW r \in Requests, PublishFeedEvent(r)
      PROVE  UNCHANGED <<threads, count>>
  BY <1>4 DEF PublishFeedEvent
<1>5. CrashApi \/ UNCHANGED vars => UNCHANGED <<threads, count>>
  BY DEF CrashApi, vars
<1> QED BY <1>2, <1>3, <1>4, <1>5 DEF Next, RequestStep

LEMMA EitherOrder ==
  ASSUME NEW u \in Users, NEW v \in Users
  PROVE  {Pair(u, v)[1], Pair(u, v)[2]} = {u, v}
  BY DEF Pair, Normalised

\* The thread a call goes on with is that of its users.
LEMMA FindsItsPair ==
  ASSUME ThreadsInv, NEW s \in Sends, NEW u \in Users, NEW v \in Users,
         FindThread(s, u, v), send' # send
  PROVE  \E t \in 1..count' : Found(s, u, v, t) /\ {threads'[t].a, threads'[t].b} = {u, v}
<1>1. {Pair(u, v)[1], Pair(u, v)[2]} = {u, v}
  BY EitherOrder
<1>2. count \in Nat /\ threads \in [ThreadIds -> Row] /\ count \in 0..MaxThreads
  BY DEF ThreadsInv, TypeOK
<1>3. ASSUME NEW t \in Rows(Pair(u, v)), UNCHANGED <<threads, count>>, Found(s, u, v, t)
      PROVE  t \in 1..count' /\ {threads'[t].a, threads'[t].b} = {u, v}
  BY <1>1, <1>3 DEF Rows
<1>4. ASSUME count < MaxThreads, count' = count + 1,
             threads' = [threads EXCEPT ![count + 1] =
               [a |-> Pair(u, v)[1], b |-> Pair(u, v)[2], holder |-> Nobody]]
      PROVE  /\ count + 1 \in 1..count'
             /\ {threads'[count + 1].a, threads'[count + 1].b} = {u, v}
  <2>1. count + 1 \in ThreadIds /\ count + 1 \in 1..count'
    BY <1>2, <1>4 DEF ThreadIds
  <2>2. threads'[count + 1] = [a |-> Pair(u, v)[1], b |-> Pair(u, v)[2], holder |-> Nobody]
    BY <1>2, <1>4, <2>1
  <2> QED BY <1>1, <2>1, <2>2
<1>5. \/ \E t \in Rows(Pair(u, v)) : UNCHANGED <<threads, count>> /\ Found(s, u, v, t)
      \/ /\ count < MaxThreads /\ count' = count + 1
         /\ threads' = [threads EXCEPT ![count + 1] =
               [a |-> Pair(u, v)[1], b |-> Pair(u, v)[2], holder |-> Nobody]]
         /\ Found(s, u, v, count + 1)
  BY DEF FindThread
<1> QED BY <1>3, <1>4, <1>5

LEMMA RoutedStep ==
  ASSUME ConversationsInv, [Next]_vars
  PROVE  RoutedRight'
<1> DEFINE PairAt(t) == {threads'[t].a, threads'[t].b}
<1> SUFFICES ASSUME NEW s \in Sends, send'[s].step # "idle"
             PROVE  /\ PairAt(send'[s].thread) = {send'[s].from, send'[s].to}
                    /\ send'[s].step \in {"read", "insert"} => ~send'[s].override
  BY DEF RoutedRight, PairOf
<1>0. /\ ThreadsInv /\ send \in [Sends -> Message] /\ NoMessage.step = "idle"
      /\ send[s].step # "idle" =>
           /\ send[s].thread \in 1..count
           /\ PairOf(send[s].thread) = {send[s].from, send[s].to}
           /\ send[s].step \in {"read", "insert"} => ~send[s].override
  BY DEF ConversationsInv, ThreadsInv, TypeOK, SendsInv, SendInv, RoutedRight, NoMessage
<1>1. ASSUME send[s].step # "idle",
             /\ send'[s].thread = send[s].thread /\ send'[s].from = send[s].from
             /\ send'[s].to = send[s].to
             /\ \/ send'[s].step \notin {"read", "insert"}
                \/ send'[s].step \in {"read", "insert"} /\ send[s].step \in {"read", "insert"}
                     /\ send'[s].override = send[s].override
      PROVE  /\ PairAt(send'[s].thread) = {send'[s].from, send'[s].to}
             /\ send'[s].step \in {"read", "insert"} => ~send'[s].override
  BY <1>0, <1>1, RowsStay DEF PairOf
<1>2. CASE send'[s] = send[s]
  BY <1>0, <1>1, <1>2
<1>3. ASSUME NEW u \in Users, NEW v \in Users, FindThread(s, u, v), send' # send
      PROVE  /\ PairAt(send'[s].thread) = {send'[s].from, send'[s].to}
             /\ send'[s].step \in {"read", "insert"} => ~send'[s].override
  <2>1. PICK t \in 1..count' : Found(s, u, v, t) /\ PairAt(t) = {u, v}
    BY <1>0, <1>3, FindsItsPair
  <2>2. send'[s] = [step |-> "read", from |-> u, to |-> v, thread |-> t,
                    by |-> Nobody, override |-> FALSE]
    BY <1>0, <2>1 DEF Found
  <2> QED BY <2>1, <2>2
<1>4. ASSUME ReadTakeover(s) \/ InsertMessage(s) \/ HandleMessage(s) \/ ForgetMessage(s)
      PROVE  /\ PairAt(send'[s].thread) = {send'[s].from, send'[s].to}
             /\ send'[s].step \in {"read", "insert"} => ~send'[s].override
  <2>1. /\ send[s] \in Message
        /\ \/ ReadTakeover(s) /\ send'[s].step = "insert" /\ send'[s].override = send[s].override
           \/ ~ReadTakeover(s) /\ send'[s].step \notin {"read", "insert"}
    BY <1>0, <1>4 DEF ReadTakeover, InsertMessage, HandleMessage, ForgetMessage, Message
  <2>2. send[s].step # "idle" /\ (ReadTakeover(s) => send[s].step = "read")
    BY <1>4 DEF ReadTakeover, InsertMessage, HandleMessage, ForgetMessage
  <2>3. /\ send'[s].thread = send[s].thread /\ send'[s].from = send[s].from
        /\ send'[s].to = send[s].to
    BY <1>0, <1>4, <2>1 DEF ReadTakeover, InsertMessage, HandleMessage, ForgetMessage, Message
  <2> QED BY <1>1, <2>1, <2>2, <2>3
<1>5. ASSUME NEW x \in Sends \ {s}, SendStep(x)
      PROVE  send'[s] = send[s]
  BY <1>0, <1>5 DEF SendStep, FindThread, Found, ReadTakeover, InsertMessage, HandleMessage,
                    ForgetMessage
<1>6. ASSUME NEW r \in Requests, RequestStep(r)
      PROVE  send' = send
  BY <1>6 DEF RequestStep, Takeover, ReleaseTakeover, Passes, PublishFeedEvent
<1>7. CrashApi => send'[s] = send[s]
  BY <1>0 DEF CrashApi
<1>8. CASE UNCHANGED vars
  BY <1>2, <1>8 DEF vars
<1> QED BY <1>2, <1>3, <1>4, <1>5, <1>6, <1>7, <1>8 DEF Next, SendStep

LEMMA ConversationsAlways == Spec => []ConversationsInv
<1>1. Init => ConversationsInv
  BY ThreadsInit DEF Init, ConversationsInv, RoutedRight, NoMessage
<1>2. ConversationsInv /\ [Next]_vars => ConversationsInv'
  BY ThreadsStep, RoutedStep DEF ConversationsInv
<1> QED BY <1>1, <1>2, PTL DEF Spec

LEMMA SameRowsSameHolder == UNCHANGED <<threads, count>> => UNCHANGED Holder
  BY DEF Holder, RowOf, PairOf

\* A call that finds its row begins the conversation or finds it begun.
LEMMA FindBegins ==
  ASSUME ThreadsInv, ThreadsInv', NEW s \in Sends, NEW u \in Users, NEW v \in Users,
         FindThread(s, u, v)
  PROVE  Holder' = [p \in DOMAIN Holder \cup {{u, v}} |->
                      IF p \in DOMAIN Holder THEN Holder[p] ELSE Nobody]
<1>1. {Pair(u, v)[1], Pair(u, v)[2]} = {u, v}
  BY EitherOrder
<1>2. /\ count \in Nat /\ threads \in [ThreadIds -> Row] /\ count \in 0..MaxThreads
      /\ count < MaxThreads => count + 1 \in ThreadIds
  BY DEF ThreadsInv, TypeOK, ThreadIds
<1>3. /\ DOMAIN Holder = {PairOf(t) : t \in 1..count}
      /\ Holder = [p \in DOMAIN Holder |-> Holder[p]]
  BY DEF Holder
<1>4. CASE \E t \in Rows(Pair(u, v)) : UNCHANGED <<threads, count>>
  <2>1. {u, v} \in DOMAIN Holder
    BY <1>1, <1>3, <1>4 DEF Rows, PairOf
  <2>2. Holder' = Holder
    BY <1>4, SameRowsSameHolder
  <2>3. DOMAIN Holder \cup {{u, v}} = DOMAIN Holder
    BY <2>1
  <2> QED BY <1>3, <2>2, <2>3
<1>5. CASE /\ Rows(Pair(u, v)) = {} /\ count < MaxThreads /\ count' = count + 1
           /\ threads' = [threads EXCEPT ![count + 1] =
                [a |-> Pair(u, v)[1], b |-> Pair(u, v)[2], holder |-> Nobody]]
  <2> DEFINE n == count + 1
             Users2(t) == {threads'[t].a, threads'[t].b}
             new == [p \in DOMAIN Holder \cup {{u, v}} |->
                       IF p \in DOMAIN Holder THEN Holder[p] ELSE Nobody]
  <2>1. /\ Users2(n) = {u, v} /\ threads'[n].holder = Nobody
        /\ \A t \in 1..count : threads'[t] = threads[t] /\ Users2(t) = PairOf(t)
        /\ 1..count' = (1..count) \cup {n}
    <3>1. threads'[n] = [a |-> Pair(u, v)[1], b |-> Pair(u, v)[2], holder |-> Nobody]
      BY <1>2, <1>5
    <3>2. \A t \in 1..count : threads'[t] = threads[t]
      BY <1>2, <1>5
    <3>3. \A t \in 1..count : Users2(t) = PairOf(t)
      BY <3>2 DEF PairOf
    <3>4. 1..count' = (1..count) \cup {n}
      BY <1>2, <1>5
    <3> QED BY <1>1, <3>1, <3>2, <3>3, <3>4
  <2>2. DOMAIN Holder' = {Users2(t) : t \in 1..count'}
    BY DEF Holder, PairOf
  <2>3. /\ \A t \in 1..count : Holder[PairOf(t)] = threads[t].holder
        /\ \A t \in 1..count' : Holder'[Users2(t)] = threads'[t].holder
    BY HolderOfRow, HolderOfRowNext DEF PairOf
  <2>4. {u, v} \notin DOMAIN Holder
    <3>1. ASSUME NEW t \in 1..count, PairOf(t) = {u, v}
          PROVE  FALSE
      <4>1. \A x \in 1..count' : Users2(x) = Users2(n) => x = n
        <5>1. ThreadsInv' => OneThreadPerPair'
          BY PairsUnique, PTL
        <5> QED BY <2>1, <5>1 DEF OneThreadPerPair
      <4>2. t \in 1..count' /\ t # n
        BY <1>2, <2>1
      <4> QED BY <2>1, <3>1, <4>1, <4>2
    <3> QED BY <1>3, <3>1
  <2>5. DOMAIN Holder' = DOMAIN Holder \cup {{u, v}}
    <3> DEFINE old == {PairOf(t) : t \in 1..count}
    <3>1. \A t \in 1..count' : Users2(t) \in old \cup {{u, v}}
      BY <2>1
    <3>2. \A q \in old \cup {{u, v}} : \E t \in 1..count' : q = Users2(t)
      <4>1. n \in 1..count' /\ \A t \in 1..count : t \in 1..count'
        BY <2>1
      <4> QED BY <2>1, <4>1
    <3> HIDE DEF Users2
    <3>3. {Users2(t) : t \in 1..count'} = old \cup {{u, v}}
      BY <3>1, <3>2
    <3> QED BY <1>3, <2>2, <3>3
  <2>6. ASSUME NEW p \in DOMAIN Holder'
        PROVE  Holder'[p] = new[p]
    <3>1. PICK t \in 1..count' : p = Users2(t)
      BY <2>2
    <3>2. CASE t = n
      BY <2>1, <2>3, <2>4, <2>5, <3>1, <3>2
    <3>3. CASE t \in 1..count
      <4>1. p = PairOf(t) /\ p \in DOMAIN Holder
        BY <1>3, <2>1, <3>1, <3>3
      <4>2. Holder'[p] = threads[t].holder /\ Holder[p] = threads[t].holder
        BY <2>1, <2>3, <3>1, <3>3, <4>1
      <4> QED BY <4>1, <4>2
    <3> QED BY <2>1, <3>2, <3>3
  <2>7. Holder' = [p \in DOMAIN Holder' |-> Holder'[p]]
    BY DEF Holder
  <2> QED BY <2>5, <2>6, <2>7
<1> QED BY <1>4, <1>5 DEF FindThread

\* A takeover or a release passes the conversation of the pair.
LEMMA PassesHolder ==
  ASSUME ThreadsInv, ThreadsInv', NEW r \in Requests, NEW t \in 1..count, NEW u, NEW h,
         Passes(r, t, u, h)
  PROVE  Holder' = [Holder EXCEPT ![PairOf(t)] = h]
<1>1. /\ threads' = [threads EXCEPT ![t].holder = h] /\ count' = count
      /\ threads \in [ThreadIds -> Row] /\ 1..count \subseteq ThreadIds
  BY DEF Passes, ThreadsInv, TypeOK, ThreadIds
<1>2. \A x \in 1..count : /\ PairOf(x)' = PairOf(x)
                          /\ threads'[x].holder = IF x = t THEN h ELSE threads[x].holder
  BY <1>1 DEF PairOf, Row
<1>3. /\ DOMAIN Holder = {PairOf(x) : x \in 1..count}
      /\ DOMAIN Holder' = {PairOf(x) : x \in 1..count}'
      /\ Holder' = [p \in DOMAIN Holder' |-> Holder'[p]]
      /\ Holder = [p \in DOMAIN Holder |-> Holder[p]]
  BY DEF Holder
<1>4. DOMAIN Holder' = DOMAIN Holder
  BY <1>1, <1>2, <1>3
<1>5. /\ \A x \in 1..count : Holder[PairOf(x)] = threads[x].holder
      /\ \A x \in 1..count' : Holder'[PairOf(x)'] = threads'[x].holder
  BY HolderOfRow, HolderOfRowNext
<1>6. \A x \in 1..count : PairOf(x) = PairOf(t) => x = t
  BY PairsUnique DEF OneThreadPerPair, PairOf
<1>7. ASSUME NEW p \in DOMAIN Holder
      PROVE  Holder'[p] = IF p = PairOf(t) THEN h ELSE Holder[p]
  <2>1. PICK x \in 1..count : p = PairOf(x)
    BY <1>3
  <2>2. Holder'[p] = threads'[x].holder /\ Holder[p] = threads[x].holder
    BY <1>1, <1>2, <1>5, <2>1
  <2> QED BY <1>2, <1>6, <2>1, <2>2
<1> QED BY <1>3, <1>4, <1>7

\* A step of one call is a step of one message of Conversations.
LEMMA OneMessage ==
  ASSUME NEW s \in Sends, \A x \in Sends \ {s} : send'[x] = send[x]
  PROVE  /\ Messages' = [Messages EXCEPT ![s] = Routed(send[s])']
         /\ Messages[s] = Routed(send[s])
         /\ send'[s] = send[s] => Messages' = Messages
  BY DEF Messages, Routed, Overrides

LEMMA FindKeepsPromise ==
  ASSUME ConversationsInv, ConversationsInv', NEW s \in Sends, NEW u \in Users,
         NEW v \in Users, FindThread(s, u, v)
  PROVE  Promise!Next
<1>0. ThreadsInv /\ ThreadsInv' /\ send \in [Sends -> Message]
  BY DEF ConversationsInv, ThreadsInv, TypeOK
<1>1. send[s].step = "idle" /\ Messages[s].step = "idle"
  BY DEF FindThread, Messages, Routed
<1>2. Holder' = [p \in DOMAIN Holder \cup {{u, v}} |->
                   IF p \in DOMAIN Holder THEN Holder[p] ELSE Nobody]
  BY <1>0, FindBegins
<1>3. ASSUME NEW t, NoFault, Found(s, u, v, t)
      PROVE  Promise!Next
  <2>1. /\ send'[s] = [step |-> "read", from |-> u, to |-> v, thread |-> t,
                       by |-> Nobody, override |-> FALSE]
        /\ \A x \in Sends \ {s} : send'[x] = send[x]
    BY <1>0, <1>3 DEF Found
  <2>2. Routed(send[s])' = [step |-> "read", from |-> u, to |-> v, skips |-> FALSE]
    <3>1. /\ send'[s].step = "read" /\ send'[s].from = u /\ send'[s].to = v
          /\ send'[s].override = FALSE
      BY <2>1
    <3>2. (send'[s].override \/ (send'[s].step = "insert" /\ Overrides(send'[s]))) = FALSE
      BY <3>1
    <3> QED BY <3>1, <3>2 DEF Routed
  <2>3. Messages' = [Messages EXCEPT ![s] =
          [step |-> "read", from |-> u, to |-> v, skips |-> FALSE]]
    BY <2>1, <2>2, OneMessage
  <2>4. Promise!Write(s, u, v)
    BY <1>1, <1>2, <2>3 DEF Promise!Write
  <2> QED BY <1>0, <1>3, <2>4, FailuresCount DEF Promise!Next
<1>4. ASSUME Fault("dbError"), UNCHANGED send
      PROVE  Promise!Next
  <2>1. Messages' = Messages
    BY <1>4 DEF Messages, Routed, Overrides
  <2>2. MaxFaults - budget' = (MaxFaults - budget) + 1
    BY <1>0, <1>4, FailuresCount
  <2>3. Promise!Write(s, u, v)
    BY <1>1, <1>2, <2>1, <2>2 DEF Promise!Write, Promise!Failed
  <2> QED BY <2>2, <2>3 DEF Promise!Next
<1> QED BY <1>3, <1>4 DEF FindThread

\* A message of Conversations that goes one step on.
LEMMA StepsOn ==
  ASSUME NEW s \in Sends, NEW b
  PROVE  [Messages EXCEPT ![s].step = b]
           = [Messages EXCEPT ![s] = [Messages[s] EXCEPT !.step = b]]
  BY DEF Messages

LEMMA SendKeepsPromise ==
  ASSUME ConversationsInv, NEW s \in Sends,
         \/ ReadTakeover(s) \/ InsertMessage(s) \/ HandleMessage(s) \/ ForgetMessage(s)
  PROVE  Promise!Next
<1> DEFINE m == send[s]
           clean == MaxFaults - budget' = MaxFaults - budget
           faulty == MaxFaults - budget' = (MaxFaults - budget) + 1
<1>0. /\ ThreadsInv /\ send \in [Sends -> Message] /\ m \in Message
      /\ m.step # "idle" => /\ m.thread \in 1..count /\ m.to \in Users
                            /\ PairOf(m.thread) = {m.from, m.to}
      /\ m.step \in {"read", "insert"} => m.override = FALSE
      /\ m.step = "read" => m.by = Nobody
  BY DEF ConversationsInv, RoutedRight, ThreadsInv, TypeOK, SendsInv, SendInv, Message
<1>1. UNCHANGED Holder
  <2>1. UNCHANGED <<threads, count>>
    BY DEF ReadTakeover, InsertMessage, HandleMessage, ForgetMessage, threadsUnchanged
  <2> QED BY <2>1, SameRowsSameHolder
<1>2. /\ \A x \in Sends \ {s} : send'[x] = send[x]
      /\ Messages' = [Messages EXCEPT ![s] = Routed(send[s])']
      /\ Messages[s] = Routed(m)
  <2>1. \A x \in Sends \ {s} : send'[x] = send[x]
    BY <1>0 DEF ReadTakeover, InsertMessage, HandleMessage, ForgetMessage
  <2> QED BY <2>1, OneMessage
<1>3. /\ NoFault => clean
      /\ \A f : Fault(f) => faulty
  BY <1>0, FailuresCount
<1> HIDE DEF clean, faulty
<1>4. ASSUME ReadTakeover(s)
      PROVE  Promise!Next
  <2> DEFINE h == threads[m.thread].holder
             skips == h # Nobody /\ h = m.to
  <2>1. m.step = "read" /\ Routed(m) = [step |-> "read", from |-> m.from, to |-> m.to, skips |-> FALSE]
    BY <1>0, <1>4 DEF ReadTakeover, Routed
  <2>2. Holder[{m.from, m.to}] = h
    <3>1. \A t \in 1..count : Holder[PairOf(t)] = threads[t].holder
      BY <1>0, HolderOfRow
    <3> QED BY <1>0, <2>1, <3>1
  <2>3. skips = (h = m.to)
    BY <1>0, <2>1 DEF Nobody
  <2>4. Messages[s].step = "read" /\ Messages[s].from = m.from /\ Messages[s].to = m.to
    BY <1>2, <2>1
  <2>5. CASE NoFault /\ send' = [send EXCEPT ![s].step = "insert", ![s].by = h]
    <3>1. /\ send'[s].step = "insert" /\ send'[s].from = m.from /\ send'[s].to = m.to
          /\ send'[s].override = FALSE /\ send'[s].by = h
      BY <1>0, <2>1, <2>5 DEF Message
    <3>2. Routed(send[s])' = [step |-> "insert", from |-> m.from, to |-> m.to, skips |-> skips]
      BY <3>1 DEF Routed, Overrides
    <3>3. Messages' = [Messages EXCEPT ![s] =
            [step |-> "insert", from |-> m.from, to |-> m.to, skips |-> skips]]
      BY <1>2, <3>2, Zenon
    <3>4. skips \in BOOLEAN
      OBVIOUS
    <3> HIDE DEF skips, h
    <3>5. Promise!Decide(s)
      BY <1>1, <2>2, <2>3, <2>4, <3>3, <3>4 DEF Promise!Decide
    <3> QED BY <1>3, <2>5, <3>5 DEF Promise!Next, clean
  <2>6. CASE Fault("dbError") /\ send' = [send EXCEPT ![s].step = "insert"]
    <3>1. /\ send'[s].step = "insert" /\ send'[s].from = m.from /\ send'[s].to = m.to
          /\ send'[s].override = FALSE /\ send'[s].by = Nobody
      BY <1>0, <2>1, <2>6 DEF Message
    <3>2. Routed(send[s])' = [step |-> "insert", from |-> m.from, to |-> m.to, skips |-> FALSE]
      BY <3>1 DEF Routed, Overrides
    <3>3. Messages' = [Messages EXCEPT ![s] =
            [step |-> "insert", from |-> m.from, to |-> m.to, skips |-> FALSE]]
      BY <1>2, <3>2, Zenon
    <3>4. Promise!Failed
      BY <1>3, <2>6 DEF Promise!Failed, faulty
    <3>5. Promise!Decide(s)
      BY <1>1, <2>4, <3>3, <3>4 DEF Promise!Decide
    <3> QED BY <3>4, <3>5 DEF Promise!Next, Promise!Failed
  <2> QED BY <1>4, <2>5, <2>6 DEF ReadTakeover
<1>5. ASSUME InsertMessage(s)
      PROVE  Promise!Next
  <2>1. m.step = "insert" /\ Routed(m) = [step |-> "insert", from |-> m.from, to |-> m.to,
                                          skips |-> Overrides(m)]
    BY <1>0, <1>5 DEF InsertMessage, Routed, Overrides
  <2>2. CASE NoFault /\ send' = [send EXCEPT ![s].step = "queued",
                                             ![s].override = Overrides(send[s])]
    <3>1. /\ send'[s].step = "queued" /\ send'[s].from = m.from /\ send'[s].to = m.to
          /\ send'[s].override = Overrides(m)
      BY <1>0, <2>1, <2>2 DEF Message
    <3>2. Routed(send[s])' = [step |-> "queued", from |-> m.from, to |-> m.to,
                              skips |-> Overrides(m)]
      BY <3>1 DEF Routed, Overrides
    <3>3. Messages' = [Messages EXCEPT ![s].step = "queued"]
      <4> DEFINE k == Overrides(m)
      <4>1. Messages[s] = [step |-> "insert", from |-> m.from, to |-> m.to, skips |-> k]
        BY <1>2, <2>1, Zenon
      <4>2. Messages' = [Messages EXCEPT ![s] =
              [step |-> "queued", from |-> m.from, to |-> m.to, skips |-> k]]
        BY <1>2, <3>2, Zenon
      <4> HIDE DEF k
      <4>3. [Messages[s] EXCEPT !.step = "queued"]
              = [step |-> "queued", from |-> m.from, to |-> m.to, skips |-> k]
        BY <4>1
      <4> QED BY <4>2, <4>3, StepsOn
    <3>4. Messages[s].step = "insert"
      BY <1>2, <2>1
    <3>5. Promise!Queue(s)
      BY <1>1, <3>3, <3>4 DEF Promise!Queue
    <3> QED BY <1>3, <2>2, <3>5 DEF Promise!Next, clean
  <2>3. CASE Fault("dbError") /\ send' = [send EXCEPT ![s] = NoMessage]
    <3>1. Routed(send[s])' = Promise!NoMessage
      BY <1>0, <2>3 DEF Routed, NoMessage, Promise!NoMessage
    <3>2. Messages' = [x \in Sends |-> IF x \in {s} THEN Promise!NoMessage ELSE Messages[x]]
      BY <1>2, <3>1 DEF Messages
    <3>3. s \in {x \in Sends : Messages[x].step \in {"read", "insert"}}
      BY <1>2, <2>1
    <3>4. Promise!Failed
      BY <1>3, <2>3 DEF Promise!Failed, faulty
    <3>5. Promise!Lose
      BY <1>1, <3>2, <3>3, <3>4 DEF Promise!Lose
    <3> QED BY <3>4, <3>5 DEF Promise!Next, Promise!Failed
  <2> QED BY <1>5, <2>2, <2>3 DEF InsertMessage
<1>6. ASSUME HandleMessage(s)
      PROVE  Promise!Next
  <2>1. m.step = "queued" /\ Routed(m) = [step |-> "queued", from |-> m.from, to |-> m.to,
                                          skips |-> m.override]
    BY <1>0, <1>6 DEF HandleMessage, Routed, Message
  <2> DEFINE e == IF m.override THEN "skipped" ELSE "bot"
  <2>2. /\ send'[s].step = e /\ send'[s].from = m.from /\ send'[s].to = m.to
        /\ send'[s].override = m.override
    BY <1>0, <1>6 DEF HandleMessage, Message
  <2>3. Routed(send[s])' = [step |-> e, from |-> m.from, to |-> m.to, skips |-> m.override]
    BY <1>0, <2>2 DEF Routed, Overrides, Message
  <2>4. Messages' = [Messages EXCEPT ![s].step = e]
    <3>1. Messages[s] = [step |-> "queued", from |-> m.from, to |-> m.to,
                         skips |-> m.override]
      BY <1>2, <2>1, Zenon
    <3>2. Messages' = [Messages EXCEPT ![s] =
            [step |-> e, from |-> m.from, to |-> m.to, skips |-> m.override]]
      BY <1>2, <2>3, Zenon
    <3> HIDE DEF e
    <3>3. [Messages[s] EXCEPT !.step = e]
            = [step |-> e, from |-> m.from, to |-> m.to, skips |-> m.override]
      BY <3>1
    <3> QED BY <3>2, <3>3, StepsOn
  <2>5. Promise!Handle(s)
    <3>1. Messages[s].step = "queued" /\ Messages[s].skips = m.override
      BY <1>2, <2>1
    <3> QED BY <1>1, <2>4, <3>1, Zenon DEF Promise!Handle
  <2>6. clean
    BY <1>3, <1>6 DEF HandleMessage, NoFault
  <2> QED BY <2>5, <2>6 DEF Promise!Next, clean
<1>7. ASSUME ForgetMessage(s)
      PROVE  Promise!Next
  <2>1. Routed(send[s])' = Promise!NoMessage
    BY <1>0, <1>7 DEF ForgetMessage, Routed, NoMessage, Promise!NoMessage
  <2>2. Messages' = [Messages EXCEPT ![s] = Promise!NoMessage]
    BY <1>2, <2>1
  <2>3. Messages[s].step \in {"bot", "skipped"}
    BY <1>2, <1>7 DEF ForgetMessage, Routed
  <2>4. Promise!Forget(s)
    BY <1>1, <2>2, <2>3 DEF Promise!Forget
  <2>5. clean
    BY <1>3, <1>7 DEF ForgetMessage, NoFault
  <2> QED BY <2>4, <2>5 DEF Promise!Next, clean
<1> QED BY <1>4, <1>5, <1>6, <1>7

\* A failure that shows in neither the holders nor the messages.
LEMMA NothingShows ==
  ASSUME UNCHANGED <<Holder, Messages>>,
         MaxFaults - budget' \in {MaxFaults - budget, (MaxFaults - budget) + 1}
  PROVE  [Promise!Next]_(Promise!vars)
<1>1. CASE MaxFaults - budget' = MaxFaults - budget
  BY <1>1 DEF Promise!vars
<1>2. CASE MaxFaults - budget' = (MaxFaults - budget) + 1
  <2>1. Messages' = [s \in Sends |-> IF s \in {} THEN Promise!NoMessage ELSE Messages[s]]
    BY DEF Messages
  <2>2. Promise!Lose
    <3>1. {} \in SUBSET {s \in Sends : Messages[s].step \in {"read", "insert"}}
      OBVIOUS
    <3> QED BY <1>2, <2>1, <3>1, Zenon DEF Promise!Lose, Promise!Failed
  <2> QED BY <2>2 DEF Promise!Next
<1> QED BY <1>1, <1>2

LEMMA RequestKeepsPromise ==
  ASSUME ConversationsInv, ConversationsInv', NEW r \in Requests, RequestStep(r)
  PROVE  [Promise!Next]_(Promise!vars)
<1>0. ThreadsInv /\ ThreadsInv'
  BY DEF ConversationsInv
<1>1. UNCHANGED Messages
  <2>1. UNCHANGED send
    BY DEF RequestStep, Takeover, ReleaseTakeover, Passes, PublishFeedEvent
  <2> QED BY <2>1 DEF Messages, Routed, Overrides
<1>2. MaxFaults - budget' \in {MaxFaults - budget, (MaxFaults - budget) + 1}
  <2>1. NoFault \/ \E f : Fault(f)
    BY DEF RequestStep, Takeover, ReleaseTakeover, Passes, PublishFeedEvent
  <2> QED BY <1>0, <2>1, FailuresCount
<1>3. ASSUME NEW t \in ThreadIds, NEW u \in Users, Takeover(r, t, u) \/ ReleaseTakeover(r, t, u)
      PROVE  [Promise!Next]_(Promise!vars)
  <2>1. t \in 1..count
    BY <1>0, <1>3 DEF ThreadsInv, TypeOK, ThreadIds, Takeover, ReleaseTakeover
  <2>2. PICK h \in PairOf(t) \cup {Nobody} : Passes(r, t, u, h)
    BY <1>3 DEF Takeover, ReleaseTakeover, PairOf
  <2>3. Holder' = [Holder EXCEPT ![PairOf(t)] = h]
    BY <1>0, <2>1, <2>2, PassesHolder
  <2>4. PairOf(t) \in DOMAIN Holder
    BY <2>1 DEF Holder
  <2>5. Promise!Pass
    BY <1>1, <2>3, <2>4 DEF Promise!Pass
  <2> QED BY <1>2, <2>5 DEF Promise!Next
<1>4. CASE PublishFeedEvent(r)
  <2>1. UNCHANGED Holder
    BY <1>4, SameRowsSameHolder DEF PublishFeedEvent
  <2> QED BY <1>1, <1>2, <2>1, NothingShows
<1> QED BY <1>3, <1>4 DEF RequestStep

LEMMA CrashKeepsPromise ==
  ASSUME ConversationsInv, CrashApi
  PROVE  Promise!Next
<1>1. UNCHANGED Holder
  BY SameRowsSameHolder DEF CrashApi
<1> DEFINE S == {s \in Sends : send[s].step \in {"read", "insert"}}
<1>2. \A s \in Sends : Messages[s] = Routed(send[s])
  BY DEF Messages
<1>3. S \in SUBSET {s \in Sends : Messages[s].step \in {"read", "insert"}}
  <2>1. \A m : Routed(m).step = m.step
    BY DEF Routed
  <2> QED BY <1>2, <2>1
<1>4. Messages' = [s \in Sends |-> IF s \in S THEN Promise!NoMessage ELSE Messages[s]]
  <2>1. \A s \in Sends : send'[s] = IF s \in S THEN NoMessage ELSE send[s]
    BY DEF CrashApi
  <2>2. Routed(NoMessage) = Promise!NoMessage
    BY DEF Routed, NoMessage, Promise!NoMessage
  <2>3. Messages' = [s \in Sends |-> Routed(send'[s])]
    BY DEF Messages, Routed, Overrides
  <2> QED BY <1>2, <2>1, <2>2, <2>3
<1>5. Promise!Failed
  BY FailuresCount DEF CrashApi, ConversationsInv, Promise!Failed
<1> HIDE DEF S
<1>6. Promise!Lose
  BY <1>1, <1>3, <1>4, <1>5 DEF Promise!Lose
<1> QED BY <1>5, <1>6 DEF Promise!Next, Promise!Failed

\* Rows, ids and statements do not show: two users have one conversation, and a
\* message is routed by who holds it at one moment of its call, whatever else is
\* under way.  (Send, Takeover, ReleaseTakeover)
THEOREM Refinement == Spec => ImplementsConversations
<1>1. Init => Promise!Init
  <2> SUFFICES ASSUME Init PROVE Promise!Init
    OBVIOUS
  <2>1. Holder = <<>>
    <3>1. {PairOf(t) : t \in 1..count} = {}
      BY DEF Init
    <3> QED BY <3>1 DEF Holder
  <2>2. Messages = [s \in Sends |-> Promise!NoMessage]
    BY DEF Init, Messages, Routed, NoMessage, Promise!NoMessage
  <2> QED BY <2>1, <2>2 DEF Init, Promise!Init
<1>2. ConversationsInv /\ ConversationsInv' /\ [Next]_vars => [Promise!Next]_(Promise!vars)
  <2> SUFFICES ASSUME ConversationsInv, ConversationsInv', [Next]_vars
               PROVE  [Promise!Next]_(Promise!vars)
    OBVIOUS
  <2>1. ASSUME NEW s \in Sends, SendStep(s) PROVE Promise!Next
    BY <2>1, FindKeepsPromise, SendKeepsPromise DEF SendStep
  <2>2. ASSUME NEW r \in Requests, RequestStep(r) PROVE [Promise!Next]_(Promise!vars)
    BY <2>2, RequestKeepsPromise
  <2>3. CASE UNCHANGED vars
    <3>1. UNCHANGED <<Holder, Messages>>
      BY <2>3, SameRowsSameHolder DEF vars, Messages, Routed, Overrides
    <3> QED BY <2>3, <3>1 DEF vars, Promise!vars
  <2> QED BY <2>1, <2>2, <2>3, CrashKeepsPromise DEF Next
<1> QED
  BY <1>1, <1>2, ConversationsAlways, PTL DEF Spec, ImplementsConversations, Promise!Spec
=============================================================================
