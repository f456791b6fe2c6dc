---------------------------- MODULE BotEndpoint -----------------------------
(***************************************************************************)
(* Where the messages of one user go: the bot the user registered, the     *)
(* managed bot provisioned for the user, or no bot.                        *)
(*                                                                         *)
(*   UpdateBot   --UPSERT-->  bot_endpoints   --SET, no TTL-->  bot:<id>   *)
(*   Provision   --POST-->  bot service, then UPDATE users                 *)
(*   resolveBotEndpoint, in every worker: managed_bot_config:<id>, users,  *)
(*   bot:<id>, bot_endpoints, filling the two Redis keys as it goes.       *)
(*                                                                         *)
(* A registration stands for the URL and the secret that belong together;  *)
(* those of bot_endpoints are numbered as they commit, those of the bot    *)
(* service as it issues them, and 0 is none.                               *)
(***************************************************************************)
EXTENDS Naturals

CONSTANTS
  Calls,        \* concurrent calls of UpdateBot and Provision
  Workers,      \* concurrent calls of resolveBotEndpoint
  MaxVersion,   \* bound: registrations of either kind
  Faults,       \* the kinds of failure this instance suffers
  MaxFaults     \* bound: how many failures a behaviour may contain

ASSUME EndpointAssumption ==
  /\ MaxVersion \in Nat
  /\ MaxFaults \in Nat
  /\ Faults \subseteq {"dbError", "redisError", "apiCrash", "eviction"}

VARIABLES
  botRow,     \* bot_endpoints: the registration stored for the user
  userRow,    \* users: the managed configuration stored for the user
  kept,       \* ghost: what userRow has been so far
  issued,     \* the bot service: configurations handed out
  botKey,     \* Redis bot:<id>
  confKey,    \* Redis managed_bot_config:<id>; v = 0 is is_managed = false
  call,       \* call[c]: what the handler c has left to do
  at,         \* at[w]: the next statement of resolveBotEndpoint
  conf,       \* conf[w]: the configuration w read in users
  found,      \* found[w]: what resolveBotEndpoint returns
  floor,      \* ghost: floor[w] is botRow as w began
  budget      \* failures left

vars == <<botRow, userRow, kept, issued, botKey, confKey, call, at, conf,
          found, floor, budget>>

Versions == 0..MaxVersion
Key      == [hit : BOOLEAN, v : Versions, ttl : BOOLEAN]
Absent   == [hit |-> FALSE, v |-> 0, ttl |-> FALSE]
Kinds    == {"none", "managed", "self", "regular", "error"}
Found    == [kind : Kinds, url : Versions, secret : Versions]
Steps    == {"idle", "users", "setConf", "bot", "hit", "miss", "setBot", "done"}
NoCall   == [op |-> "none", v |-> 0]

TypeOK ==
  /\ botRow \in Versions /\ userRow \in Versions /\ issued \in Versions
  /\ kept \subseteq Versions
  /\ botKey \in Key /\ confKey \in Key
  /\ call \in [Calls -> [op : {"none", "update", "provision"}, v : Versions]]
  /\ at \in [Workers -> Steps]
  /\ conf \in [Workers -> Versions]
  /\ found \in [Workers -> Found]
  /\ floor \in [Workers -> Versions]
  /\ budget \in 0..MaxFaults

Returned(kind, u, s) == [kind |-> kind, url |-> u, secret |-> s]
Nothing == Returned("none", 0, 0)

Init ==
  /\ botRow = 0 /\ userRow = 0 /\ kept = {0} /\ issued = 0
  /\ botKey = Absent /\ confKey = Absent
  /\ call = [c \in Calls |-> NoCall]
  /\ at = [w \in Workers |-> "idle"]
  /\ conf = [w \in Workers |-> 0]
  /\ found = [w \in Workers |-> Nothing]
  /\ floor = [w \in Workers |-> 0]
  /\ budget = MaxFaults

Fault(f) == f \in Faults /\ budget > 0 /\ budget' = budget - 1
NoFault  == UNCHANGED budget

WithTTL(n) == [hit |-> TRUE, v |-> n, ttl |-> TRUE]
Lasting(n) == [hit |-> TRUE, v |-> n, ttl |-> FALSE]

-----------------------------------------------------------------------------
(* UpdateBot and Provision *)

apiUnchanged == UNCHANGED <<at, conf, found, floor>>

\* Mutation: an error of the UPSERT is logged and the handler goes on.
RegisterOrLog(c) ==
  /\ call[c] = NoCall /\ botRow < MaxVersion
  /\ call' = [call EXCEPT ![c] = [op |-> "update", v |-> botRow + 1]]
  /\ \/ NoFault /\ botRow' = botRow + 1
     \/ Fault("dbError") /\ UNCHANGED botRow
  /\ UNCHANGED <<userRow, kept, issued, botKey, confKey>> /\ apiUnchanged

\* UpdateBot, the UPSERT with a fresh secret.  When it fails the handler
\* returns, whether it had committed or not.
Register(c) ==
  /\ call[c] = NoCall /\ botRow < MaxVersion
  /\ botRow' = botRow + 1
  /\ \/ NoFault /\ call' = [call EXCEPT ![c] = [op |-> "update", v |-> botRow + 1]]
     \/ Fault("dbError") /\ UNCHANGED call
  /\ UNCHANGED <<userRow, kept, issued, botKey, confKey>> /\ apiUnchanged

\* UpdateBot, the SET of bot:<id>: its failure is logged.
CacheUrl(c) ==
  /\ call[c].op = "update"
  /\ call' = [call EXCEPT ![c] = NoCall]
  /\ \/ NoFault /\ botKey' = Lasting(call[c].v)
     \/ Fault("redisError") /\ UNCHANGED botKey
  /\ UNCHANGED <<botRow, userRow, kept, issued, confKey>> /\ apiUnchanged

\* Provision, the call of the bot service.  If it fails nothing is stored.
CallService(c) ==
  /\ call[c] = NoCall /\ issued < MaxVersion
  /\ issued' = issued + 1
  /\ call' = [call EXCEPT ![c] = [op |-> "provision", v |-> issued + 1]]
  /\ UNCHANGED <<botRow, userRow, kept, botKey, confKey, budget>> /\ apiUnchanged

\* Mutation: the configuration goes to Redis whether it is stored or not.
CacheAndStore(c) ==
  /\ call[c].op = "provision"
  /\ call' = [call EXCEPT ![c] = NoCall]
  /\ confKey' = WithTTL(call[c].v)
  /\ \/ NoFault /\ userRow' = call[c].v
     \/ Fault("dbError") /\ userRow' \in {userRow, call[c].v}
  /\ kept' = kept \cup {userRow'}
  /\ UNCHANGED <<botRow, issued, botKey>> /\ apiUnchanged

\* Provision, SetManagedBot.  Neither Redis key is touched.  A call that fails
\* may have committed.
SetManagedBot(c) ==
  /\ call[c].op = "provision"
  /\ call' = [call EXCEPT ![c] = NoCall]
  /\ \/ NoFault /\ userRow' = call[c].v
     \/ Fault("dbError") /\ userRow' \in {userRow, call[c].v}
  /\ kept' = kept \cup {userRow'}
  /\ UNCHANGED <<botRow, issued, botKey, confKey>> /\ apiUnchanged

\* The API process dies with its handlers.
CrashApi ==
  /\ Fault("apiCrash")
  /\ \E c \in Calls : call[c] # NoCall
  /\ call' = [c \in Calls |-> NoCall]
  /\ UNCHANGED <<botRow, userRow, kept, issued, botKey, confKey>> /\ apiUnchanged

-----------------------------------------------------------------------------
(* Redis *)

redisUnchanged == UNCHANGED <<botRow, userRow, kept, issued, call, at, conf,
                              found, floor>>

ExpireConf ==
  /\ confKey.hit /\ confKey.ttl
  /\ confKey' = Absent
  /\ UNCHANGED <<botKey, budget>> /\ redisUnchanged

ExpireBot ==
  /\ botKey.hit /\ botKey.ttl
  /\ botKey' = Absent
  /\ UNCHANGED <<confKey, budget>> /\ redisUnchanged

\* Redis restarts or makes room: keys without a TTL can go as well.
Evict ==
  /\ Fault("eviction")
  /\ botKey' = Absent /\ confKey' = Absent
  /\ redisUnchanged

-----------------------------------------------------------------------------
(* resolveBotEndpoint *)

At(w, s) == at[w] = s
Goto(w, s) == at' = [at EXCEPT ![w] = s] /\ UNCHANGED found
Return(w, r) ==
  /\ at' = [at EXCEPT ![w] = "done"]
  /\ found' = [found EXCEPT ![w] = r]

rowsUnchanged == UNCHANGED <<botRow, userRow, kept, issued, call>>
keysUnchanged == UNCHANGED <<botKey, confKey>>

\* GET managed_bot_config:<id>.  An error of Redis is a miss.
GetConf(w) ==
  /\ At(w, "idle")
  /\ floor' = [floor EXCEPT ![w] = botRow]
  /\ \/ NoFault /\ confKey.hit /\ confKey.v > 0
          /\ Return(w, Returned("managed", confKey.v, confKey.v))
     \/ NoFault /\ confKey.hit /\ confKey.v = 0 /\ Goto(w, "bot")
     \/ NoFault /\ ~confKey.hit /\ Goto(w, "users")
     \/ Fault("redisError") /\ Goto(w, "users")
  /\ UNCHANGED conf /\ rowsUnchanged /\ keysUnchanged

\* SELECT is_managed_bot, managed_bot_url, managed_bot_secret FROM users.
QueryUser(w) ==
  /\ At(w, "users")
  /\ \/ NoFault /\ conf' = [conf EXCEPT ![w] = userRow] /\ Goto(w, "setConf")
     \/ Fault("dbError") /\ Return(w, Returned("error", 0, 0)) /\ UNCHANGED conf
  /\ UNCHANGED floor /\ rowsUnchanged /\ keysUnchanged

\* The entry SetConf leaves in Redis.
EntryForEver(n) == Lasting(n)
ConfEntry(n) == WithTTL(n)

\* SET managed_bot_config:<id> to what was read, for five minutes.
SetConf(w) ==
  /\ At(w, "setConf")
  /\ \/ NoFault /\ confKey' = ConfEntry(conf[w])
     \/ Fault("redisError") /\ UNCHANGED confKey
  /\ IF conf[w] > 0 THEN Return(w, Returned("managed", conf[w], conf[w]))
                    ELSE Goto(w, "bot")
  /\ UNCHANGED <<botKey, conf, floor>> /\ rowsUnchanged

\* Mutation: a hit is the answer.
TrustBotKey(w) ==
  /\ At(w, "bot")
  /\ NoFault
  /\ IF botKey.hit THEN Return(w, Returned("self", botKey.v, botKey.v))
                   ELSE Goto(w, "miss")
  /\ UNCHANGED <<conf, floor>> /\ rowsUnchanged /\ keysUnchanged

\* getBotEndpoint: GET bot:<id>.
GetBot(w) ==
  /\ At(w, "bot")
  /\ \/ NoFault /\ Goto(w, IF botKey.hit THEN "hit" ELSE "miss")
     \/ Fault("redisError") /\ Goto(w, "miss")
  /\ UNCHANGED <<conf, floor>> /\ rowsUnchanged /\ keysUnchanged

\* Mutation: a hit saves the URL, and only the secret is looked up.
QueryHitSecret(w) ==
  /\ At(w, "hit")
  /\ NoFault
  /\ IF botRow > 0 /\ botKey.hit
       THEN Return(w, Returned("self", botKey.v, botRow))
       ELSE Goto(w, "miss")
  /\ UNCHANGED <<conf, floor>> /\ rowsUnchanged /\ keysUnchanged

\* After a hit: SELECT url, secret_key.  The cached URL is not used, and both
\* an error and a missing row lead to the query of a miss.
QueryHit(w) ==
  /\ At(w, "hit")
  /\ \/ NoFault /\ botRow > 0 /\ Return(w, Returned("self", botRow, botRow))
     \/ NoFault /\ botRow = 0 /\ Goto(w, "miss")
     \/ Fault("dbError") /\ Goto(w, "miss")
  /\ UNCHANGED <<conf, floor>> /\ rowsUnchanged /\ keysUnchanged

\* What a user without a bot is taken for.
UnknownUser == Returned("unknown", 0, 0)
RegularUser == Returned("regular", 0, 0)

\* After a miss: the same SELECT.  No row makes a regular user.
QueryMiss(w) ==
  /\ At(w, "miss")
  /\ \/ /\ NoFault /\ botRow > 0
        /\ at' = [at EXCEPT ![w] = "setBot"]
        /\ found' = [found EXCEPT ![w] = Returned("self", botRow, botRow)]
     \/ NoFault /\ botRow = 0 /\ Return(w, RegularUser)
     \/ Fault("dbError") /\ Return(w, Returned("error", 0, 0))
  /\ UNCHANGED <<conf, floor>> /\ rowsUnchanged /\ keysUnchanged

\* SET bot:<id> to the URL read, for five minutes.
SetBot(w) ==
  /\ At(w, "setBot")
  /\ \/ NoFault /\ botKey' = WithTTL(found[w].url)
     \/ Fault("redisError") /\ UNCHANGED botKey
  /\ Goto(w, "done")
  /\ UNCHANGED <<confKey, conf, floor>> /\ rowsUnchanged

\* Deliver has used what it was given; the worker turns to the next message.
Finish(w) ==
  /\ At(w, "done")
  /\ at' = [at EXCEPT ![w] = "idle"]
  /\ found' = [found EXCEPT ![w] = Nothing]
  /\ conf' = [conf EXCEPT ![w] = 0]
  /\ floor' = [floor EXCEPT ![w] = 0]
  /\ UNCHANGED budget /\ rowsUnchanged /\ keysUnchanged

-----------------------------------------------------------------------------

ApiStep(c) ==
  Register(c) \/ CacheUrl(c) \/ CallService(c) \/ SetManagedBot(c)

ResolveStep(w) ==
  \/ GetConf(w) \/ QueryUser(w) \/ SetConf(w) \/ GetBot(w) \/ QueryHit(w)
  \/ QueryMiss(w) \/ SetBot(w) \/ Finish(w)

Next ==
  \/ \E c \in Calls : ApiStep(c)
  \/ \E w \in Workers : ResolveStep(w)
  \/ CrashApi \/ ExpireConf \/ ExpireBot \/ Evict

Spec == Init /\ [][Next]_vars

\* A resolution that has begun goes on, and Redis drops a key whose five
\* minutes are over.  No message has to come and no owner has to call.
Fairness ==
  /\ \A w \in Workers : WF_vars(ResolveStep(w) /\ ~At(w, "idle"))
  /\ WF_vars(ExpireConf)

FairSpec == Spec /\ Fairness

-----------------------------------------------------------------------------
(* Properties *)

\* The URL a message is sent to and the secret it is signed with belong to one
\* registration, however the caches and the rows change meanwhile: a bot that
\* verifies the signature could not tell a mixture from a forgery.
\* (deliverer.go:128 and 314)
PairsMatch ==
  \A w \in Workers :
    found[w].kind \in {"managed", "self"} =>
      found[w].url = found[w].secret /\ found[w].url > 0

\* A bot the user registered is in use at once: what a resolution finds in
\* bot_endpoints is no older than the row as the resolution began, and no user
\* who had a row by then is taken for a regular user.  (deliverer.go:316)
EndpointFresh ==
  \A w \in Workers :
    /\ found[w].kind = "self" => found[w].url \in floor[w]..botRow
    /\ found[w].kind = "regular" => floor[w] = 0

\* bot:<id> never holds a registration that bot_endpoints does not have: the
\* owner's handler, and workers that read the row meanwhile, write what is
\* stored.  An UPSERT that committed although its caller read 500 counts as
\* stored, and a worker may cache it.  (user.go:112 before 124)
CacheBehindRow == botKey.v <= botRow

\* A managed bot provisioned for the user is in use in the end: the cached
\* configuration may be older than the row, even after a slow worker has put
\* an old one back over a newer one, but not for ever.  (deliverer.go:296)
ManagedInUseInTheEnd == <>[](confKey.hit => confKey.v = userRow)

\* The owner and the workers see no more than Directory allows: a look-up, four
\* queries and two caches that other look-ups fill meanwhile, is one step of a
\* register.  (deliverer.go:256)
Promise == INSTANCE Directory WITH
             row <- botRow, answer <- found, faults <- MaxFaults - budget
ImplementsDirectory == Promise!Spec
=============================================================================
