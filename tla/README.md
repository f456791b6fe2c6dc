# Verification of the Alter server

TLA+ modules, TLC configurations and TLAPS proofs about the message server in
this repository: an HTTP API that stores and queues messages between users'
bots, and delivery workers that call those bots.

## The system

| Component | Source | State it keeps | Operations |
|---|---|---|---|
| Send handler | `internal/api/handlers/messages.go` | none of its own: rows of `threads` and `messages`, the queue message, feed events | `Send` |
| Threads handler | `internal/api/handlers/threads.go` | `threads.human_takeover_by`, feed events | `List`, `GetMessages`, `Takeover`, `ReleaseTakeover` |
| Queue | `internal/queue/rabbitmq.go` | exchange and queue `messages.deliver`, dead-letter exchange and queue `messages.dead`, prefetch window | `Connect`, `setupTopology`, `Publish`, `Consume`, `Close` |
| Delivery worker | `internal/worker/*.go`, `cmd/worker/main.go` | `messages.status`, `messages.retry_count`, the delivery in hand, two Redis caches | `Start`, `Deliver`, `handleFailure`, `updateStatus`, `resolveBotEndpoint`, `getBotEndpoint` |
| Bot registration | `internal/api/handlers/user.go`, `managedbot.go`, `internal/database/db.go` | `bot_endpoints`, the managed bot columns of `users`, Redis `bot:<id>` | `UpdateBot`, `GetBot`, `Provision`, `SetManagedBot` |
| Feed | `internal/api/handlers/feed.go`, `internal/redis/redis.go` | a Redis subscription and a WebSocket per client | `ServeWS`, `Publish`, `Subscribe` |
| API process | `cmd/api/main.go`, `cmd/migrate/main.go`, `internal/database/db.go`, `internal/api/router.go` | the schema, connections to PostgreSQL, Redis and RabbitMQ, handlers in flight | start, `RunMigrations`, serving, graceful shutdown, the deferred `Close` calls |
| Contacts and login | `internal/api/handlers/contacts.go`, `auth.go` | `users`, `contacts`, the connection pool | `FirebaseVerify`, `Sync`, `List` |
| Tokens, OTP, profile | `internal/auth/*.go`, `internal/api/middleware.go`, `handlers/user.go` | tokens, OTP codes in Redis, `users.display_name` | `DualAuth`, OTP, `GetMe`, `UpdateMe` |
| Configuration, logging, data types | `internal/config`, `internal/logger`, `internal/models`, `internal/api/dto` | none | – |
| Chat client | `cmd/chatclient` | a console | – |

### How the components interact

- `Send` writes `threads` and `messages` in PostgreSQL, publishes one persistent
  queue message to RabbitMQ, then `new_message` on the two feeds. It never
  waits for a bot. The queue message carries everything the worker needs except
  `retry_count` and the endpoint.
- A worker process reads deliveries one at a time from the channel of the AMQP
  client (prefetch 10), so what is behind a slow delivery waits. `Deliver`
  reads `retry_count`, resolves the endpoint (Redis, PostgreSQL), POSTs to the
  bot, writes the row, publishes `status_update`, and the consumer answers the
  broker with Ack or Nack-with-requeue.
- The API writes `bot_endpoints` and `bot:<id>`; provisioning writes `users` and
  touches no cache; workers fill `managed_bot_config:<id>` and `bot:<id>`.
- Every feed event is a Redis publication; `ServeWS` forwards what it hears.
- Every API process, and `cmd/migrate`, runs all migrations when it starts. All
  handlers of a process share one pool of 20 connections, one Redis client and
  one RabbitMQ channel, which `main` closes when it returns.

Nothing is locked and there are no transactions over two statements: each SQL
statement, Redis command, publication, acknowledgement and HTTP call is atomic,
and anything may happen between two of them. The modules have one action per
such statement.

### What is hard

| Behaviour | Where | Properties |
|---|---|---|
| A message out with two workers at once after a lost channel; `retry_count` read before the call and overwritten after it | `deliverer.go:72`, `194` | `OneCopy`, `CountNeverOverstates`, `RetryMonotone`, `NoEarlyGiveUp` |
| A worker dies, or the answer is late, after the bot took the message | `deliverer.go:150` | `NoDuplicateDelivery`, `DeliveredIsFinal` |
| Who is left to change a row that says `queued` | `messages.go:128`, `consumer.go:50` | `QueuedHasOwner` |
| A message its bot never accepts, requeued at the head of the queue | `consumer.go:57` | `EveryMessageSettles`, finding `ExhaustedLeavesQueue` |
| The feed and the row disagree: the UPDATE fails and its event does not, `new_message` comes after the `status_update` | `deliverer.go:224`, `messages.go:158` | `ImplementsLifecycle`, `FeedAgreesWhenSettled`, finding `AnnouncedBeforeSkip` |
| Two caches and two tables, written by the API and by every worker in any order | `deliverer.go:256-338` | `PairsMatch`, `EndpointFresh`, `CacheBehindRow`, `ManagedInUseInTheEnd`, `ImplementsDirectory` |
| A managed configuration issued by the bot service and not stored | `managedbot.go:100` | `ImplementsDirectory` |
| The takeover is read at send time and used at delivery time | `messages.go:76`, `deliverer.go:91` | `OverrideWasTrue`, `ImplementsConversations`, finding `BotSkippedInTakeover` |
| First messages of a pair at once, takeovers of both participants at once | `messages.go:61`, `threads.go:112` | `OneThreadPerPair`, `TakeoverEndsByRight`, `ToldWhoHolds`, `ImplementsConversations` |
| A client that leaves while an event is being written to it | `feed.go:84` | `HandlerEnds`, `InOrderOnce`, `NothingMissing`, `ImplementsStream` |
| Several processes migrate at once, without lock or transaction, and die anywhere | `db.go:107` | `AppliedInOrder`, `ServesOnFullSchema`, `RaceHasSurvivor`, `RaceHasWinner` |
| The API process stops, dies or loses RabbitMQ under a `Send` | `messages.go:128`, `main.go:96`, `rabbitmq.go:40` | `StrandedOnlyByHarm`, `AnswerIsTrue`, finding `ExitWaits` |
| `Sync` waits for a second connection while it keeps its first | `contacts.go:58` | `JamNeedsFullPool`, `EveryCallEnds`, `NoConnLeaks`, `AnswerIsWhole` |

The complete list is under `hazards` in `PROJECT.json`, with the hazards no
property covers and why. Many of these hazards are behaviours of the code that a
property can only delimit: it names the failure as its exception and shows that
nothing else has the same effect. The notes say where this is so.

## The modules

| Module | Models | Checked by | Proved in |
|---|---|---|---|
| `Delivery` | Send from the INSERT on, RabbitMQ, the worker processes, consumer and deliverer | `MCDelivery` | `DeliveryProofs`, `DeliveryCopies` |
| `Lifecycle` | what the platform promises about a message, without saying how | as the property `ImplementsLifecycle` of the run `delivery` | `DeliveryRefinement` |
| `BotEndpoint` | registration, provisioning and `resolveBotEndpoint` of one user | `MCBotEndpoint` | `BotEndpointProofs` |
| `Directory` | what a look-up of an endpoint promises, without caches | as `ImplementsDirectory` of the run `endpoint` | `BotEndpointProofs` |
| `Threads` | Send up to the INSERT, Takeover, ReleaseTakeover, publishFeedEvent, the skip in Deliver | `MCThreads` | `ThreadsProofs` |
| `Conversations` | what two users may rely on about their conversation and its takeover | as `ImplementsConversations` of the run `threads` | `ThreadsProofs` |
| `Feed` | ServeWS, its reader, go-redis and pub/sub | `MCFeed` | `FeedProofs` |
| `EventStream` | what a client of the feed may rely on | as `ImplementsStream` of the run `feed` | `FeedProofs` |
| `ApiServer` | cmd/api and cmd/migrate from start to end, RunMigrations, and Send over their connections | `MCApiServer` | `ApiServerProofs` |
| `Contacts` | FirebaseVerify, Sync and List over the connection pool | `MCContacts` | `ContactsProofs` |

Three modules look at `Send`, each from where its hazards are: `Threads` up to
the INSERT, `ApiServer` at the process and the connections under it,
`Delivery` at the message. In `Delivery` the end of the process is one step
(`CrashApi`) that leaves a handler where it is; `ApiServer` has the steps by
which `main` gets there.

### Delivery

One message is one call of `Send`. `sent[m]` is how far its handler is: `none`,
`stored` (row inserted), `rejected` (publication failed, the UPDATE to `failed`
still to come), `enqueued`, `refused`, `accepted` (new_message published) or
`gone` (the handler died or the INSERT failed). `body[m]` is what the worker can
tell apart in the queue message: `human_override` and whether the intent is the
terminal `reply`. `status` and `retry` are the columns of the row.

RabbitMQ is `ready`, `held[w]`, `acked`, `dead`. A requeued message returns to
its old place in the queue: `ahead[m]` is the set of messages published before
`m`, and `Dispatch(m)` needs none of them ready. `buf[w]` is the Go channel of
deliveries, `Prefetch` bounds `held[w]`. A closed channel or a dead process
makes the broker requeue `held[w]`, while a worker whose channel closed still
finishes the delivery in its hand: that is how one message gets two workers.

`pc[w]` is the next statement of the consumer loop:

| `pc` | Action | Code |
|---|---|---|
| `idle` | `TakeDelivery`, `Exit` | `consumer.go:34-48` |
| `load` | `LoadRetryCount` | `deliverer.go:70-78` |
| `resolve` | `ResolveEndpoint` | `deliverer.go:80-113` |
| `post` | `PostToBot` | `deliverer.go:115-183` |
| `count` | `HandleFailure` | `deliverer.go:185-203` |
| `sleep` | `Backoff` | `deliverer.go:205-217` |
| `mark`, `tell` | `UpdateStatus`, `PublishStatus` | `deliverer.go:219-245` |
| `settle` | `Settle` | `consumer.go:50-61` |

`life[w]` is `running`, `stopping` (SIGTERM: the context is cancelled) or
`down`; `StartWorker` restarts a process. Once the context is cancelled every
call that takes it fails, though a POST in flight may still have been taken.

Failures are the nine kinds of `FaultKinds`. Each failure is a disjunct of the
statement it hits or an action of its own, spends one unit of `budget` and is
remembered in `suffered`; a property that holds only until some kinds of failure
happen says so with `Spared`. `attempts` and `accepted` are ghosts that count how
often the bot was tried, a request that could not be built included, and how
often it took the message.

The feeds are `pushed[m]`, the status in the last event about `m` of either kind,
and `announced[m]`, what has become of its `new_message`, which always says
`queued`. The handler publishes it after it has given the message away, so a
worker may have pushed the final status before: `announced[m]` is then `last`,
until another `status_update` follows.

Decisions a reader should know:

- `maxRetries` (5) and the prefetch count (10) are constants. `attempts`,
  `accepted` and `retry` saturate at `RetryCap`: past `MaxRetries` the code
  compares `retry_count` with nothing else.
- The two publications of one event, to sender and recipient, are one step.
- A queue message that does not parse (`deliverer.go:62`) cannot come from
  `Send` and is left out. A disconnected client cancels its request's context
  and is a `dbError`, `redisError` or `publishError` of the handler.
- An UPDATE or INSERT that fails may have committed where that matters
  (`InsertMessage` leaves the handler `gone` with the row
  stored; had it not committed, there would be no message).
- Backoff is a step without duration: only its place before the Nack matters.
  Its 60 s limit is never reached, 2^4 = 16 s being the longest wait.
- The connection of the API to RabbitMQ, which is never made again, is here a
  failed publication; what it does to every later `Send` is in `ApiServer`.

### Lifecycle

The abstract specification: a message is created, may be refused, tried, and
then its row may show an end that is `Founded`: `delivered` if its bot took it,
`client_delivered`, or `failed` after `MaxRetries` tries. The participants are told
such an end under the same condition, or that the message is queued, and what
they were last told need not be what the row shows. `Delivery` implements it with
`state <- status`, `told <- pushed`, `tries <- attempts`, `taken <- accepted` and
the refused messages as those whose handler is `refused`. `mishap` says that a
call of the database has failed: from then on a message may be given up too
early, because an error in `resolveBotEndpoint` marks it failed at once, and a
refused row may keep its status. Everything else is promised whatever fails; that
`updateStatus` publishes its event although its UPDATE has failed makes the feed
differ from the row, never say what did not happen.

### BotEndpoint

A registration is a number that stands for a URL and its secret. `botRow` is
the row of `bot_endpoints`, `userRow` the managed columns of `users`, `issued`
what the bot service has handed out, `botKey` and `confKey` the two Redis keys
with their TTL. `call[c]` is a handler between its two statements; `at[w]` is
the next statement of `resolveBotEndpoint` or `getBotEndpoint` in a worker,
`found[w]` what it returns. `floor[w]` (a ghost) is `botRow` when the look-up
began, `kept` (a ghost) the managed configurations that `userRow` has held. One
user is enough: no statement touches two users' data.

`Directory` is the same without Redis: a row that registrations replace and
look-ups that are answered in one step, with the registration of that step, with
a managed configuration that users has held at some time, with "regular" only
while there is no registration, or with an error by a step that fails.
`BotEndpoint` implements it with `row <- botRow` and `answer <- found`; failures
are counted by `MaxFaults - budget`. That a managed configuration may be an old
one is part of the promise; that it is not old for ever is
`ManagedInUseInTheEnd`.

### Threads

`threads[t]` is a row, `send[s]` a call of `Send` and its message until the worker
has handled it, `request[r]` a takeover or release between its UPDATE and its
event, `shown[u][t]` the last takeover event on the feed of the user
`u`; when its SELECT fails `publishFeedEvent` publishes to `user:0:feed`, which no
user follows, so nothing is shown. The recipient's
existence is checked in the code by a SELECT of rows that are never deleted: it
is the choice of `v` in `FindThread`. A retry does not read the thread again,
so one handling of the message stands for all. Ghosts: `held[s]` (who has held
the thread since the call found it), `blind[s]` (its SELECT failed), `alone[t]`
(the last change of the holder overlapped with no other).

`Conversations` is the same without rows, ids and statements: at most one
conversation for each pair of users, held by nobody or one of the two, and
messages whose way, to the bot of the recipient or past it, is decided by who
holds the conversation at one moment of the call, unless that decision fails, and
never changed afterwards. `Threads` implements it with
the rows as a function from pairs to holders (`Holder`) and a message that skips
the bot once its call has read so (`Routed`). When the takeover passes and who is
told is not part of it: that is `TakeoverEndsByRight` and `ToldWhoHolds`.

### Feed

`queue[c]` is everything between PUBLISH and the select of `ServeWS`; the first
`Buffer` (100 in go-redis) are in the Go channel, the next one is at its door and
may be dropped, the rest is in the socket. Events are numbered as they are
published, so order and gaps can be seen. `listening[c]` begins some time after
`Subscribe` returned, because `ServeWS` does not wait for Redis. The case
`<-ctx.Done()` and the closed channel do not occur while the handler runs: a
hijacked connection's context is not cancelled, and only the handler closes the
subscription.

`EventStream` is what the client sees: a stream that opens at some event, goes on
without a gap until something is lost, skips what is lost and never goes back.
In `Feed` it is open from the moment Redis has the subscription (`Phase`), and
closed when the handler has ended.

### ApiServer

`stage[p]` is where `main` of process `p` is: it connects, runs `RunMigrations`
(`next[p]` is its statement, `saw[p]` what the statement found before it
creates its object), connects to Redis and RabbitMQ, serves, and after a signal
goes through its deferred calls, the last one first, to its end. `Start` may
come again: a restart. `applied` is the schema, shared by all processes. Two
`CREATE ... IF NOT EXISTS` of one object that overlap may fail the second
(`FailStatement`), while `ALTER TABLE` waits for the lock of the table.
`shutdown[p]` is the goroutine in `srv.Shutdown`, which nobody waits for.

`handler[s]` is the next statement of a call of `Send`, `row[s]` and `queued`
what PostgreSQL and RabbitMQ have of it, `link[p]` whether the channel of its
process works. A statement fails when the pool is closed, or as a failure that
stands for the database and for a client that left. `hurt[s]` (a ghost)
remembers what befell the call: its process was told to stop or crashed, a
statement of it failed, its publication was lost. `Exit` ends the handlers in
flight where they are.

### Contacts

`rowsOf[c]` is the call that is reading its rows from connection `c` of the
pool; a statement without rows takes a connection and gives it back in one
step. `Sync` is at `scan` between two rows and at `insert` when it needs a
second connection for the INSERT of a row; `left[r]` and `told[r]` are the rows
before and behind the cursor. `alive[r]` is the context of the request: it ends
when the client leaves or when the `ReadTimeout` of the server (15 s,
`main.go:79`) ends the read that net/http keeps running beside a handler. A
call whose context is over fails its next statement, and its error is dropped
where the code drops it (`InsertFails`, `EndRows`). A user is his number: the
upsert gives a number one row and no row is deleted.

## The runs

| Run | Instance | Shows |
|---|---|---|
| `delivery` | 1 message of any kind, 2 workers, three failures of all nine kinds | `TypeOK`, `OneCopy`, `CountNeverOverstates`, `FeedAgreesWhenSettled`, `QueuedHasOwner`, `NoEarlyGiveUp`, `NoDuplicateDelivery`, `RetryMonotone`, `DeliveredIsFinal`, `ImplementsLifecycle` |
| `delivery_liveness` | 2 messages, 2 workers, window of 2, one crash, fairness | `EveryMessageSettles` |
| `delivery_dead_letter` | 1 message, 1 worker, no failure | violated: `ExhaustedLeavesQueue` |
| `delivery_shutdown` | 1 message, 1 worker, one shutdown | violated: `AckedMeansHandled` |
| `delivery_announce` | 1 message, 1 worker, no failure | violated: `AnnouncedBeforeSkip` |
| `endpoint` | 2 calls, 2 workers, 2 registrations of each kind, one failure of four kinds, fairness | `TypeOK`, `PairsMatch`, `EndpointFresh`, `CacheBehindRow`, `ManagedInUseInTheEnd`, `ImplementsDirectory` |
| `threads` | 2 users, 2 threads, 1 message, 2 requests, one failure | `TypeOK`, `OneThreadPerPair`, `OverrideWasTrue`, `ToldWhoHolds`, `TakeoverEndsByRight`, `ImplementsConversations` |
| `threads_snapshot` | 2 users, 1 message | violated: `BotSkippedInTakeover` |
| `feed` | 2 connections, 3 events, a channel of 1, one lost link, fairness | `TypeOK`, `InOrderOnce`, `NothingMissing`, `HandlerEnds`, `ImplementsStream` |
| `api` | 1 server and 1 migration command, 3 statements, 2 Sends, 3 starts, two failures, fairness | `TypeOK`, `AppliedInOrder`, `ServesOnFullSchema`, `RaceHasSurvivor`, `StrandedOnlyByHarm`, `AnswerIsTrue`, `RaceHasWinner` |
| `api_graceful` | as `api` | violated: `ExitWaits` |
| `contacts` | 2 numbers, a pool of 2, 2 calls, one failure, fairness | `TypeOK`, `NoConnLeaks`, `JamNeedsFullPool`, `AnswerIsWhole`, `EveryCallEnds` |

Bounds. Two workers are enough for every interleaving the code can have about
one message: the broker has a message out with one consumer, and a second copy
in a worker's hand needs a lost channel, so three workers need two of these.
One message is enough for safety: no statement touches two messages, and what
one message does to another, by its place in the queue and in the window, is
about liveness and in `delivery_liveness`. Three failures show failures on top
of each other. `MaxRetries = 2` has a failure that is retried and one that
exhausts, `RetryCap` is one more, for the failures after exhaustion.
`Prefetch = 1` makes the workers take turns; in `delivery_liveness` it is 2, as
many as the messages that may fail for ever. Two registrations of each kind are
an old and a new one. Two threads show that a call on one does not touch the
other. Three statements of a migration are a CREATE before and after an ALTER,
and three starts have two processes that overlap and one that comes again. Two
calls on a pool of two are the smallest jam, and a caller with one other user is
the smallest `Sync` with an INSERT.

The proofs below need none of these bounds.

`CHECK_DEADLOCK FALSE` stands in the configurations of `Delivery` and
`ApiServer`: when every message is acknowledged or gone and no failure is left,
or when all processes are down and no start is left, the system is idle.

### Fairness

`Delivery`: a handler of the API and a worker that has something to do go on
(weak fairness per handler and per worker step). `Dispatch(m)` is strongly fair:
the broker does not pass over one message for ever while its window has room now
and then. Weak fairness is not enough, and no fairness is enough when the
messages that always fail fill the window: requeued messages return to the head.
No fairness on failures, restarts, or what bots answer.

`BotEndpoint`: a look-up that has begun goes on, and Redis drops
`managed_bot_config:<id>` when its five minutes are over; this expiry is the only
thing that ends a stale configuration. No call and no message has to come.

`Feed`: the handler and the reader go on, a write to a client that is gone
returns, and a select that finds `done` again and again takes it (Go chooses at
random among the ready cases: strong fairness). A write to a client that is
there need not return, for no deadline is set.

`ApiServer`: `main` goes on. Nobody has to start a process, signal it or call it.

`Contacts`: a handler goes on, and the pool serves those who wait in the order
in which they came (pgxpool), hence strong fairness for what needs a connection.
A context does not outlive the `ReadTimeout`, and a call whose context is over
returns an error. Without the last two the jam of `Sync` would stand for ever.

## What is proved

All theorems are about every value of the constants: any number of messages,
workers, calls and failures. The only assumptions are those of the modules on
their constants.

`DeliveryProofs`:

- `TypeCorrect`. The invariant `TypeInv` adds `Busy`, a worker past `idle` has a
  delivery in hand, without which the SELECT of `retry_count` has no row.
- `CountCorrect` (`CountNeverOverstates`). `retry_count <= attempts` is not
  inductive: between the read and the write the worker holds a number. The
  invariant adds `CountsCovered`: the count read, and after a failed try its
  successor, is covered by the tries made so far. It survives two workers on one
  message because `attempts` only grows.
- `GiveUpCorrect` (`NoEarlyGiveUp`). Under `Spared({"dbError", "shutdown"})` the
  invariant adds `NeverStopping` and `GivesUpAfterRetries`: a worker about to
  write `failed` has `MaxRetries` tries behind it, which needs `CountCorrect`.
- `CustodyCorrect` (`QueuedHasOwner`). Under the absence of the four failures that
  lose a message the invariant adds `OnlyStored` (broker and workers only have
  messages that Send has stored), `MarksAreFinal` and `AckedIsMarked`: a worker
  that is about to acknowledge has already changed the row.

The properties that hold only until some failures are conditional on `suffered`,
which only grows (`SufferedGrows`).

`DeliveryCopies` has what rests on the broker's custody of a message:

- `CopiesCorrect` (`OneCopy`), whatever fails. A settlement moves the message in
  hand, so the invariant `CopyInv` must say that a worker whose channel is open
  has in `held` what it has in hand and in its buffer, all different (`Custody`);
  a publication is new to the broker because nobody has a message that Send
  has not handed over (`OnlySent`).
- `MonotoneCorrect` (`RetryMonotone`). While no channel closes (`LinksStay`) no
  two workers have the same message in hand (`Alone`), so the count read is still
  the one in the row when it is written (`CountsCurrent`).
- `OnceCorrect` and `FinalCorrect` (`NoDuplicateDelivery`, `DeliveredIsFinal`), from
  `OnceInv`: a message its bot has taken does not wait in the queue, and whoever
  holds it is on the way from its UPDATE to its Ack (`TakenIsSettling`).
- `ToldCorrect` (`FeedAgreesWhenSettled`), from `ToldInv`: after the UPDATE the row
  shows what is about to be told, and before the Ack it has been (`Told`). From
  then on only a late `new_message` can change the feeds, and it leaves `announced`
  at `last`: the exception the property states.

`DeliveryRefinement`: `Refinement`, that `Delivery` implements `Lifecycle`. Every
step of `Next` is a step of `Lifecycle`'s `Next` under the mapping, which the
invariant `ReasonInv` makes possible: a row exists once its handler has stored it
and says `queued` until the message is handed over (`RowsFollowHandlers`), and a
worker about to write a status, or to publish it, has a reason that `Lifecycle`
accepts (`MarksHaveReasons`), unless its context is cancelled and it will do
neither.

`BotEndpointProofs`, from one invariant `EndpointInv`: `TypeCorrect`,
`PairsCorrect`, `FreshCorrect`, `CacheCorrect`. What makes it inductive is that
a worker about to write `bot:<id>` has a row's registration to write
(`FoundIsCurrent`), that handlers write to Redis only what they have stored
(`CallsAreStored`), and that the row only moves on. `Refinement`, that
`BotEndpoint` implements `Directory`, adds that every managed configuration in
Redis or in a worker's hand is one that users has held (`ConfsWereKept`): this is
where it matters that `Provision` writes the row and no cache, so that a
configuration which the bot service issued and nobody stored is never in use.

`ThreadsProofs`, from `ThreadsInv`: `TypeCorrect`, `PairsCorrect`,
`OverrideCorrect`, `ToldCorrect`, `TakeoverCorrect`. A pair has one row because
rows keep their participants in order (`RowsInOrder`), a call knows a holder the
thread has had since the call found it (`SendInv`), and an event that overlaps
with no other says who holds the thread (`EventsAreTrue`). `Refinement`, that
`Threads` implements `Conversations`, needs that rows are a function of pairs
(`RowsAreAMap`), and adds that a message belongs to the thread of its two users
and decides nothing before it reads (`RoutedRight`).

`FeedProofs`, from `FeedInv`: `TypeCorrect`, `OrderCorrect`, `MissingCorrect`. What
was sent, what is being written and what waits ascend one after the other
(`InOrder`), they are there only while the handler is in its loop (`Placed`), and
without a loss they are every event since the subscription (`Complete`).
`Refinement`, that `Feed` implements `EventStream`, needs for the same that each of
them is the successor of the one before (`Exact`), because the abstract stream
delivers one event at a time.

`ApiServerProofs`, from `ApiInv`: `TypeCorrect`, `OrderCorrect`, `SchemaCorrect`,
`StrandedCorrect`, `AnswerCorrect` (an accepted message is on the queue, unless its
unconfirmed publication was lost). What a process has behind it in
`RunMigrations` exists (`MigrationInv`), and how far a call has come tells where
its message is, unless the call has been hurt (`SendInv`). `SurvivorCorrect`
(`RaceHasSurvivor`) is the safety half of `RaceHasWinner`: of the processes that
migrate one is at a statement that nobody has run. When it runs its statement
it is ahead again or the schema is complete (`SurvivorAdvances`), and no other
process can take its place away (`SurvivorStays`). That it then goes on is
fairness, and is model-checked.

`ContactsProofs`: `TypeCorrect`, `PoolCorrect`, `OthersCorrect`, `WholeCorrect` and
`JamCorrect`, which maps the connections one to one into the calls that are
between a row and its INSERT, for a pool of any size. `WholeCorrect` rests on
`OthersCorrect` (`ContactsAreOthers`: what `List` reads are other users) and on
`RowsAreWhole`: what is told and what is left are the result.

Model-checked only: liveness (`EveryMessageSettles`, `ManagedInUseInTheEnd`,
`HandlerEnds`, `RaceHasWinner`, `EveryCallEnds`). Liveness under fairness, ENABLED
and induction over recursive data are outside the prover's reach. Every other
property of a passing run is proved.

## What the code does and a comment does not say

- An exhausted message never reaches `messages.dead`: the consumer requeues
  after every failure, and past five failures without any backoff
  (`delivery_dead_letter`).
- A delivery taken while the worker shuts down is acknowledged unhandled, its
  row `queued` (`delivery_shutdown`).
- A message can be marked `client_delivered` before its `new_message` event
  (`delivery_announce`), which then tells the participants last that it is queued
  (the exception of `FeedAgreesWhenSettled`).
- A takeover does not stop the bot from getting what is already queued
  (`threads_snapshot`).
- `main` does not wait for `srv.Shutdown`: the process ends while handlers are at
  work (`api_graceful`).

## What is not modelled

- Tokens: a pure function of a request and a key, checked by library code. The
  OTP service has no caller. `GetMe` and `UpdateMe` read and write
  `users.display_name`, which decides nothing.
- The read-only handlers (`List` and `GetMessages` of threads,
  `GetThreadMessages`, `GetBot`): they change no state, and a SELECT sees one.
- Routes: each is the entry of a handler and is in the module of its component.
- Configuration, logging, data types. The constraints of the tables are in the
  modules that write them.
- The chat client: its first request goes to `/auth/otp/request`, which
  `router.go` does not have, so it ends there.
- Data: payloads, names, signatures, the wording of events and answers.

## What is left

The order was: `Delivery` with `Lifecycle`, because it is where messages are lost,
repeated or given up; `BotEndpoint`, the one step `Delivery` takes as atomic;
`Threads`, what comes before the INSERT; `Feed`, what comes after every
publication; then the process under all handlers, and its pool. What would come
next:

1. A composition of `Threads` and `Delivery`, so that the takeover is read and
   used in one behaviour with its retries.
2. An abstract specification for `Contacts`, and the refinement.
3. Hazards without a property, for which the code does nothing: an event sent to
   `user:0:feed` (`threads.go:162`), a client that does not read (`feed.go:84`).
