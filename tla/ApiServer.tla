------------------------------ MODULE ApiServer ------------------------------
(***************************************************************************)
(* The life of the processes that run cmd/api and cmd/migrate: they bring  *)
(* the schema up to date, each on its own and perhaps at the same time; an *)
(* API process then connects to Redis and RabbitMQ, serves, and at a       *)
(* signal closes its connections and ends, whatever its handlers are       *)
(* doing.  A handler is a call of Send from its INSERT to its answer; what *)
(* comes before is in Threads, what comes after in Delivery.               *)
(*                                                                         *)
(* RunMigrations runs its statements one by one, in no transaction.  In    *)
(* PostgreSQL two CREATE ... IF NOT EXISTS of one object that overlap may  *)
(* both find it missing, and then the second fails; an ALTER TABLE waits   *)
(* for the lock of the table first.                                        *)
(***************************************************************************)
EXTENDS Naturals

CONSTANTS
  Servers,     \* processes of cmd/api
  Commands,    \* processes of cmd/migrate
  Sends,       \* calls of POST /messages
  Statements,  \* number of statements of RunMigrations
  Creates,     \* those that are CREATE TABLE or CREATE INDEX
  MaxStarts,   \* bound: starts of processes
  MaxFaults    \* bound: failures

ASSUME ApiAssumption ==
  /\ Servers \cap Commands = {}
  /\ Statements \in Nat /\ MaxStarts \in Nat /\ MaxFaults \in Nat

Procs == Servers \cup Commands
All == 1..Statements

VARIABLES
  stage,     \* stage[p]: the next statement of main
  next,      \* next[p]: the statement of RunMigrations that p is at
  saw,       \* saw[p]: whether it has found the object: "no", "yes", "?" before
  applied,   \* the statements whose object exists in the database
  link,      \* link[p]: the channel to RabbitMQ can be used
  shutdown,  \* shutdown[p]: the call of srv.Shutdown in the goroutine
  handler,   \* handler[s]: the next statement of Send, or how it ended
  by,        \* by[s]: the process that handles s
  row,       \* row[s]: status in the table messages, "none" for no row
  queued,    \* the messages that RabbitMQ has
  hurt,      \* ghost: hurt[s]: what has befallen s or its process meanwhile
  starts,    \* starts so far
  budget     \* failures left

mains == <<stage, next, saw, shutdown, starts>>
calls == <<handler, by, row, queued>>
vars == <<mains, applied, link, calls, hurt, budget>>

InFlight == {"insert", "publish", "mark", "accept", "refuse"}
Over == {"accepted", "refused", "cut"}
Harms == {"stop", "crash", "database", "void"}

TypeOK ==
  /\ stage \in [Procs -> {"down", "connect", "migrate", "redis", "queue", "serve",
                          "closeQueue", "closeRedis", "closeDB", "exit"}]
  /\ next \in [Procs -> Nat \ {0}]
  /\ saw \in [Procs -> {"?", "no", "yes"}]
  /\ applied \subseteq All
  /\ link \in [Procs -> BOOLEAN]
  /\ shutdown \in [Procs -> {"none", "waiting", "clean", "late"}]
  /\ handler \in [Sends -> {"none"} \cup InFlight \cup Over]
  /\ by \in [Sends -> Procs \cup {"nobody"}]
  /\ row \in [Sends -> {"none", "queued", "failed"}]
  /\ queued \subseteq Sends
  /\ hurt \in [Sends -> SUBSET Harms]
  /\ starts \in 0..MaxStarts
  /\ budget \in 0..MaxFaults

Init ==
  /\ stage = [p \in Procs |-> "down"]
  /\ next = [p \in Procs |-> 1]
  /\ saw = [p \in Procs |-> "?"]
  /\ applied = {}
  /\ link = [p \in Procs |-> FALSE]
  /\ shutdown = [p \in Procs |-> "none"]
  /\ handler = [s \in Sends |-> "none"]
  /\ by = [s \in Sends |-> "nobody"]
  /\ row = [s \in Sends |-> "none"]
  /\ queued = {}
  /\ hurt = [s \in Sends |-> {}]
  /\ starts = 0
  /\ budget = MaxFaults

Fails == budget > 0 /\ budget' = budget - 1
Runs(p) == {s \in Sends : by[s] = p /\ handler[s] \in InFlight}
Befalls(S, harm) ==
  hurt' = [s \in Sends |-> IF s \in S THEN hurt[s] \cup {harm} ELSE hurt[s]]

-----------------------------------------------------------------------------
(* Start *)

Goto(p, s) == stage' = [stage EXCEPT ![p] = s]

Start(p) ==
  /\ stage[p] = "down" /\ starts < MaxStarts
  /\ Goto(p, "connect")
  /\ starts' = starts + 1
  /\ next' = [next EXCEPT ![p] = 1]
  /\ saw' = [saw EXCEPT ![p] = "?"]
  /\ shutdown' = [shutdown EXCEPT ![p] = "none"]
  /\ UNCHANGED <<applied, link, calls, hurt, budget>>

ConnectDB(p) ==
  /\ stage[p] = "connect" /\ Goto(p, "migrate")
  /\ UNCHANGED <<next, saw, shutdown, starts, applied, link, calls, hurt, budget>>

\* A statement looks for its object...
BeginStatement(p) ==
  /\ stage[p] = "migrate" /\ next[p] \in All /\ saw[p] = "?"
  /\ saw' = [saw EXCEPT ![p] = IF next[p] \in applied THEN "yes" ELSE "no"]
  /\ UNCHANGED <<stage, next, shutdown, starts, applied, link, calls, hurt, budget>>

\* The object has been created by another process since p looked for it.
LosesRace(p) == saw[p] = "no" /\ next[p] \in applied /\ next[p] \in Creates

\* Mutation: the error of a statement is not looked at, nor what it did.
ApplyAnyway(p) ==
  /\ stage[p] = "migrate" /\ saw[p] # "?" /\ ~LosesRace(p)
  /\ \/ applied' = applied \cup {next[p]}
     \/ applied' = applied
  /\ next' = [next EXCEPT ![p] = @ + 1]
  /\ saw' = [saw EXCEPT ![p] = "?"]
  /\ UNCHANGED <<stage, shutdown, starts, link, calls, hurt, budget>>

\* ... and creates it, or has nothing to do.
EndStatement(p) ==
  /\ stage[p] = "migrate" /\ saw[p] # "?" /\ ~LosesRace(p)
  /\ applied' = applied \cup {next[p]}
  /\ next' = [next EXCEPT ![p] = @ + 1]
  /\ saw' = [saw EXCEPT ![p] = "?"]
  /\ UNCHANGED <<stage, shutdown, starts, link, calls, hurt, budget>>

\* Mutation: where two run at the same time the one that is ahead may fail too,
\* for a lock the other holds.
FailAhead(p) ==
  /\ stage[p] = "migrate" /\ saw[p] = "no"
  /\ LosesRace(p) \/ \E q \in Procs \ {p} : stage[q] = "migrate"
  /\ Goto(p, "down")
  /\ UNCHANGED <<next, saw, shutdown, starts, applied, link, calls, hurt, budget>>

\* RunMigrations returns the error of the statement and main exits.
FailStatement(p) ==
  /\ stage[p] = "migrate" /\ LosesRace(p)
  /\ Goto(p, "down")
  /\ UNCHANGED <<next, saw, shutdown, starts, applied, link, calls, hurt, budget>>

\* Mutation: the loop stops before the last statement.
StopEarly(p) ==
  /\ stage[p] = "migrate" /\ next[p] = Statements
  /\ Goto(p, IF p \in Commands THEN "closeDB" ELSE "redis")
  /\ UNCHANGED <<next, saw, shutdown, starts, applied, link, calls, hurt, budget>>

\* cmd/migrate is done; the API server goes on.
EndMigrations(p) ==
  /\ stage[p] = "migrate" /\ next[p] \notin All
  /\ Goto(p, IF p \in Commands THEN "closeDB" ELSE "redis")
  /\ UNCHANGED <<next, saw, shutdown, starts, applied, link, calls, hurt, budget>>

ConnectRedis(p) ==
  /\ stage[p] = "redis" /\ Goto(p, "queue")
  /\ UNCHANGED <<next, saw, shutdown, starts, applied, link, calls, hurt, budget>>

ConnectQueue(p) ==
  /\ stage[p] = "queue" /\ Goto(p, "serve")
  /\ link' = [link EXCEPT ![p] = TRUE]
  /\ UNCHANGED <<next, saw, shutdown, starts, applied, calls, hurt, budget>>

-----------------------------------------------------------------------------
(* End *)

\* The signal: srv.Shutdown begins to wait for the handlers in a goroutine,
\* ListenAndServe returns at once and main goes on to its deferred calls.
Signal(p) ==
  /\ stage[p] = "serve" /\ Goto(p, "closeQueue")
  /\ shutdown' = [shutdown EXCEPT ![p] = "waiting"]
  /\ Befalls(Runs(p), "stop")
  /\ UNCHANGED <<next, saw, starts, applied, link, calls, budget>>

\* Shutdown returns when no handler is left or ten seconds are over.
ShutdownReturns(p) ==
  /\ stage[p] # "down" /\ shutdown[p] = "waiting"
  /\ shutdown' = [shutdown EXCEPT ![p] = IF Runs(p) = {} THEN "clean" ELSE "late"]
  /\ UNCHANGED <<stage, next, saw, starts, applied, link, calls, hurt, budget>>

\* The deferred calls, the last first.
After == [closeQueue |-> "closeRedis", closeRedis |-> "closeDB", closeDB |-> "exit"]

Close(p) ==
  /\ stage[p] \in DOMAIN After
  /\ Goto(p, After[stage[p]])
  /\ link' = [link EXCEPT ![p] = FALSE]
  /\ UNCHANGED <<next, saw, shutdown, starts, applied, calls, hurt, budget>>

Cut(p) ==
  handler' = [s \in Sends |-> IF s \in Runs(p) THEN "cut" ELSE handler[s]]

\* main returns: the process ends, and its goroutines with it.
Exit(p) ==
  /\ stage[p] = "exit" /\ Goto(p, "down")
  /\ Cut(p)
  /\ UNCHANGED <<next, saw, shutdown, starts, applied, link, by, row, queued, hurt,
                 budget>>

\* os.Exit(1) where a connection or the listener fails, a signal nobody is
\* notified of yet, or a crash: nothing deferred runs.
Die(p) ==
  /\ stage[p] # "down" /\ Fails
  /\ Goto(p, "down")
  /\ link' = [link EXCEPT ![p] = FALSE]
  /\ Befalls(Runs(p), "crash")
  /\ Cut(p)
  /\ UNCHANGED <<next, saw, shutdown, starts, applied, by, row, queued>>

\* The connection to RabbitMQ is lost; nothing makes another.
LoseLink(p) ==
  /\ link[p] /\ Fails
  /\ link' = [link EXCEPT ![p] = FALSE]
  /\ UNCHANGED <<mains, applied, calls, hurt>>

-----------------------------------------------------------------------------
(* Send *)

PoolOpen(p) == stage[p] \in {"serve", "closeQueue", "closeRedis", "closeDB"}

Step(s, from, to) ==
  handler[s] = from /\ handler' = [handler EXCEPT ![s] = to]

\* A call arrives while the listener is open.
Arrive(s, p) ==
  /\ stage[p] = "serve" /\ Step(s, "none", "insert")
  /\ by' = [by EXCEPT ![s] = p]
  /\ UNCHANGED <<mains, applied, link, row, queued, hurt, budget>>

\* The INSERT.
InsertRow(s) ==
  /\ Step(s, "insert", "publish") /\ PoolOpen(by[s])
  /\ row' = [row EXCEPT ![s] = "queued"]
  /\ UNCHANGED <<mains, applied, link, by, queued, hurt, budget>>

\* Mutation: the handler answers 500 and leaves the row as it is.
RefuseUnmarked(s) ==
  /\ Step(s, "publish", "refuse") /\ ~link[by[s]]
  /\ UNCHANGED <<mains, applied, link, by, row, queued, hurt, budget>>

\* Mutation: the error of Publish is not looked at.
AcceptUnpublished(s) ==
  /\ Step(s, "publish", "accept") /\ ~link[by[s]]
  /\ UNCHANGED <<mains, applied, link, by, row, queued, hurt, budget>>

\* The channel is closed: the row is to be marked.
PublishFails(s) ==
  /\ Step(s, "publish", "mark") /\ ~link[by[s]]
  /\ UNCHANGED <<mains, applied, link, by, row, queued, hurt, budget>>

Publish(s) ==
  /\ Step(s, "publish", "accept") /\ link[by[s]]
  /\ queued' = queued \cup {s}
  /\ UNCHANGED <<mains, applied, link, by, row, hurt, budget>>

\* Nothing is confirmed: Publish returns nil and the connection is lost before
\* the broker has the message.
PublishIntoVoid(s) ==
  /\ Step(s, "publish", "accept") /\ link[by[s]] /\ Fails
  /\ link' = [link EXCEPT ![by[s]] = FALSE]
  /\ Befalls({s}, "void")
  /\ UNCHANGED <<mains, applied, by, row, queued>>

\* Mutation: a status the table does not know.
MarkError(s) ==
  /\ Step(s, "mark", "refuse") /\ PoolOpen(by[s])
  /\ row' = [row EXCEPT ![s] = "error"]
  /\ UNCHANGED <<mains, applied, link, by, queued, hurt, budget>>

\* UPDATE messages SET status = 'failed'.
MarkRow(s) ==
  /\ Step(s, "mark", "refuse") /\ PoolOpen(by[s])
  /\ row' = [row EXCEPT ![s] = "failed"]
  /\ UNCHANGED <<mains, applied, link, by, queued, hurt, budget>>

\* The INSERT or the UPDATE fails: the pool is closed, the client has left, with
\* whom the context of the request ends, or the database is not there.  The
\* error of the UPDATE is only logged.
StatementFails(s) ==
  /\ Step(s, "insert", "refuse") \/ Step(s, "mark", "refuse")
  /\ \/ ~PoolOpen(by[s]) /\ UNCHANGED <<hurt, budget>>
     \/ PoolOpen(by[s]) /\ Fails /\ Befalls({s}, "database")
  /\ UNCHANGED <<mains, applied, link, by, row, queued>>

\* The answer.  The two events before the 202, whose errors are only logged, are
\* in Delivery.
Answer(s) ==
  /\ Step(s, "accept", "accepted") \/ Step(s, "refuse", "refused")
  /\ UNCHANGED <<mains, applied, link, by, row, queued, hurt, budget>>

-----------------------------------------------------------------------------

Advance(p) ==
  \/ ConnectDB(p) \/ BeginStatement(p) \/ EndStatement(p) \/ FailStatement(p)
  \/ EndMigrations(p) \/ ConnectRedis(p) \/ ConnectQueue(p)
  \/ Close(p) \/ Exit(p)

ProcStep(p) ==
  \/ Start(p) \/ Advance(p) \/ Die(p) \/ LoseLink(p)
  \/ Signal(p) \/ ShutdownReturns(p)

SendStep(s) ==
  \/ \E p \in Servers : Arrive(s, p)
  \/ InsertRow(s) \/ PublishFails(s) \/ Publish(s) \/ PublishIntoVoid(s)
  \/ MarkRow(s) \/ StatementFails(s) \/ Answer(s)

Next == (\E p \in Procs : ProcStep(p)) \/ (\E s \in Sends : SendStep(s))

Spec == Init /\ [][Next]_vars

\* main goes on; nobody has to start a process, stop it or call it.
Fairness == \A p \in Procs : WF_vars(Advance(p))

FairSpec == Spec /\ Fairness

-----------------------------------------------------------------------------
(* Properties *)

\* RunMigrations is neither locked nor in a transaction and any number of
\* processes may be in it, dying anywhere: what exists is always what some
\* first statements made, so that a statement finds what it builds on.
\* (db.go:107)
AppliedInOrder == \A i \in applied : 1..i \subseteq applied

\* Nobody is served, and nothing is written, on half a schema, although the
\* process that serves may have found most of it made by others. (main.go:49)
ServesOnFullSchema ==
  /\ \A p \in Servers :
       stage[p] \in {"redis", "queue", "serve", "closeQueue", "closeRedis"} => applied = All
  /\ \A s \in Sends : handler[s] # "none" => applied = All

Stranded(s) == row[s] = "queued" /\ s \notin queued /\ handler[s] \in Over

\* A row that says queued while RabbitMQ never had the message is left behind
\* only where the process stopped or died under the handler, a statement
\* failed or an unconfirmed publication was lost; the lost connection to
\* RabbitMQ, on which every Send fails until a restart, never leaves one.
\* (messages.go:128)
StrandedOnlyByHarm == \A s \in Sends : Stranded(s) => hurt[s] # {}

\* Refused means that the message is not on the queue, a row marked failed that it
\* is not on its way to a bot, and accepted that the row is queued and RabbitMQ
\* has the message, with one exception: a publication that returned nil is not
\* confirmed, and one that was lost with the connection is answered 202 too.
\* (messages.go:128, 171, rabbitmq.go:111)
AnswerIsTrue ==
  \A s \in Sends :
    /\ handler[s] = "accepted" => row[s] = "queued" /\ (s \in queued \/ "void" \in hurt[s])
    /\ handler[s] = "refused" \/ row[s] = "failed" => s \notin queued

\* A schema that has been begun and is not complete is never abandoned: unless
\* something else failed, one of those that migrate is at a statement nobody
\* has run, where it cannot lose the race.  (db.go:107)
RaceHasSurvivor ==
  budget = MaxFaults /\ applied \notin {{}, All} =>
    \E p \in Procs : stage[p] = "migrate" /\ next[p] \in All \ applied

\* Processes that migrate at the same time may fail each other, but not all:
\* unless something else fails the schema gets complete. (db.go:107)
RaceHasWinner ==
  (\E p \in Procs : stage[p] = "migrate") ~> (applied = All \/ budget < MaxFaults)

\* Graceful shutdown (main.go:84): the process does not end under a handler
\* before the ten seconds of srv.Shutdown are over.
ExitWaits ==
  [][\A p \in Servers : Exit(p) => Runs(p) = {} \/ shutdown[p] = "late"]_vars
=============================================================================
