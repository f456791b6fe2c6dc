------------------------- MODULE BotEndpointProofs --------------------------
(***************************************************************************)
(* Theorems about BotEndpoint, for any number of concurrent calls of the   *)
(* API and of the workers and any failures.                                *)
(***************************************************************************)
EXTENDS BotEndpoint, TLAPS

USE EndpointAssumption

\* What PairsMatch needs to be inductive: nothing but itself.  What
\* EndpointFresh needs: the row only moves on, and a worker that is about to
\* write bot:<id> has a registration of its own to write.
FoundIsCurrent ==
  \A w \in Workers :
    /\ floor[w] <= botRow
    /\ at[w] = "setBot" => found[w].kind = "self"
    /\ at[w] = "idle" => found[w].kind = "none"

\* What CacheBehindRow needs: the handlers write what they have stored.
CallsAreStored == \A c \in Calls : call[c].op = "update" => call[c].v <= botRow

EndpointInv ==
  /\ TypeOK /\ PairsMatch /\ EndpointFresh /\ FoundIsCurrent
  /\ CacheBehindRow /\ CallsAreStored

LEMMA EndpointInit == Init => EndpointInv
  BY DEF Init, EndpointInv, TypeOK, PairsMatch, EndpointFresh, FoundIsCurrent,
         CacheBehindRow, CallsAreStored, Versions, Key, Absent, Kinds, Found,
         Steps, NoCall, Nothing, Returned

LEMMA BudgetStep ==
  ASSUME EndpointInv, NEW f, NoFault \/ Fault(f)
  PROVE  budget' \in 0..MaxFaults
  BY DEF EndpointInv, TypeOK, Fault, NoFault

\* The two ways a key is set.
LEMMA KeySet ==
  ASSUME NEW n \in Versions
  PROVE  /\ WithTTL(n) \in Key /\ WithTTL(n).v = n
         /\ Lasting(n) \in Key /\ Lasting(n).v = n
         /\ Absent \in Key /\ Absent.v = 0
  BY DEF WithTTL, Lasting, Absent, Key, Versions

LEMMA ApiPreserves ==
  ASSUME EndpointInv, NEW c \in Calls, ApiStep(c)
  PROVE  EndpointInv'
<1> USE DEF EndpointInv, TypeOK, Versions, apiUnchanged, PairsMatch,
            EndpointFresh, FoundIsCurrent, CacheBehindRow, CallsAreStored
<1>1. CASE Register(c)
  <2>1. budget' \in 0..MaxFaults
    BY <1>1, BudgetStep DEF Register
  <2>2. botRow' = botRow + 1 /\ botRow' \in Versions
    BY <1>1 DEF Register
  <2>3. /\ call' \in [Calls -> [op : {"none", "update", "provision"}, v : Versions]]
        /\ CallsAreStored'
    <3>1. \/ call' = [call EXCEPT ![c] = [op |-> "update", v |-> botRow']]
          \/ UNCHANGED call
      BY <1>1, <2>2 DEF Register
    <3>2. CASE UNCHANGED call
      BY <2>2, <3>2
    <3>3. CASE call' = [call EXCEPT ![c] = [op |-> "update", v |-> botRow']]
      BY <2>2, <3>3
    <3> QED BY <3>1, <3>2, <3>3
  <2>4. UNCHANGED <<userRow, kept, issued, botKey, confKey, at, conf, found, floor>>
    BY <1>1 DEF Register
  <2>5. TypeOK'
    BY <2>1, <2>2, <2>3, <2>4
  <2>6. PairsMatch' /\ EndpointFresh' /\ FoundIsCurrent' /\ CacheBehindRow'
    BY <2>2, <2>4 DEF Key, Found
  <2> QED BY <2>3, <2>5, <2>6
<1>2. CASE CacheUrl(c)
  <2>1. budget' \in 0..MaxFaults
    BY <1>2, BudgetStep DEF CacheUrl
  <2>2. botKey' \in Key /\ CacheBehindRow'
    <3>1. call[c].v \in Versions /\ call[c].v <= botRow /\ botRow' = botRow
      BY <1>2 DEF CacheUrl
    <3>2. CASE botKey' = Lasting(call[c].v)
      BY <3>1, <3>2, KeySet
    <3>3. CASE botKey' = botKey
      BY <3>1, <3>3
    <3> QED BY <1>2, <3>2, <3>3 DEF CacheUrl
  <2>3. call' \in [Calls -> [op : {"none", "update", "provision"}, v : Versions]]
    BY <1>2 DEF CacheUrl, NoCall
  <2>4. CallsAreStored'
    BY <1>2 DEF CacheUrl, NoCall
  <2>5. UNCHANGED <<botRow, userRow, kept, issued, confKey, at, conf, found, floor>>
    BY <1>2 DEF CacheUrl
  <2>6. TypeOK'
    BY <2>1, <2>2, <2>3, <2>5
  <2>7. PairsMatch' /\ EndpointFresh' /\ FoundIsCurrent'
    BY <2>5
  <2> QED BY <2>2, <2>4, <2>6, <2>7
<1>3. CASE CallService(c)
  <2>1. /\ issued' \in Versions
        /\ call' = [call EXCEPT ![c] = [op |-> "provision", v |-> issued']]
    BY <1>3 DEF CallService
  <2>2. UNCHANGED <<botRow, userRow, kept, botKey, confKey, at, conf, found,
                    floor, budget>>
    BY <1>3 DEF CallService
  <2>3. TypeOK' /\ CallsAreStored'
    BY <2>1, <2>2
  <2>4. PairsMatch' /\ EndpointFresh' /\ FoundIsCurrent' /\ CacheBehindRow'
    BY <2>2
  <2> QED BY <2>3, <2>4
<1>4. CASE SetManagedBot(c)
  <2>1. budget' \in 0..MaxFaults
    BY <1>4, BudgetStep DEF SetManagedBot
  <2>2. userRow' \in Versions /\ kept' \subseteq Versions
    BY <1>4 DEF SetManagedBot
  <2>3. call' \in [Calls -> [op : {"none", "update", "provision"}, v : Versions]]
    BY <1>4 DEF SetManagedBot, NoCall
  <2>4. UNCHANGED <<botRow, issued, botKey, confKey, at, conf, found, floor>>
    BY <1>4 DEF SetManagedBot
  <2>5. CallsAreStored'
    BY <1>4 DEF SetManagedBot, NoCall
  <2>6. TypeOK'
    BY <2>1, <2>2, <2>3, <2>4
  <2>7. PairsMatch' /\ EndpointFresh' /\ FoundIsCurrent' /\ CacheBehindRow'
    BY <2>4
  <2> QED BY <2>5, <2>6, <2>7
<1> QED BY <1>1, <1>2, <1>3, <1>4 DEF ApiStep

LEMMA RedisPreserves ==
  ASSUME EndpointInv, CrashApi \/ ExpireConf \/ ExpireBot \/ Evict
  PROVE  EndpointInv'
<1> USE DEF EndpointInv, TypeOK, Versions, Absent, Key, PairsMatch,
            EndpointFresh, FoundIsCurrent, CacheBehindRow, CallsAreStored
<1>1. CASE CrashApi
  BY <1>1, BudgetStep DEF CrashApi, apiUnchanged, NoCall
<1>2. CASE ExpireConf
  BY <1>2 DEF ExpireConf, redisUnchanged
<1>3. CASE ExpireBot
  BY <1>3 DEF ExpireBot, redisUnchanged
<1>4. CASE Evict
  BY <1>4, BudgetStep DEF Evict, redisUnchanged
<1> QED BY <1>1, <1>2, <1>3, <1>4

\* A step of one resolution: what it returns, if it returns, is right, and the
\* registration it writes to bot:<id>, if it writes one, is its own.
LEMMA ResolvePreserves ==
  ASSUME EndpointInv, NEW w \in Workers, ResolveStep(w)
  PROVE  EndpointInv'
<1> USE DEF EndpointInv
<1>0. budget' \in 0..MaxFaults
  BY BudgetStep
     DEF ResolveStep, GetConf, QueryUser, SetConf, GetBot, QueryHit, QueryMiss,
         SetBot, Finish, NoFault
<1>1. UNCHANGED <<botRow, userRow, kept, issued, call>> /\ CallsAreStored'
  BY DEF ResolveStep, GetConf, QueryUser, SetConf, GetBot, QueryHit, QueryMiss,
         SetBot, Finish, rowsUnchanged, CallsAreStored
<1>2. ASSUME botKey' \in Key, confKey' \in Key, CacheBehindRow',
             conf' \in [Workers -> Versions],
             NEW s \in Steps, at' = [at EXCEPT ![w] = s],
             NEW n \in Versions, floor' = [floor EXCEPT ![w] = n], n <= botRow,
             NEW r \in Found, found' = [found EXCEPT ![w] = r],
             r.kind \in {"managed", "self"} => r.url = r.secret /\ r.url > 0,
             r.kind = "self" => r.url \in n..botRow,
             r.kind = "regular" => n = 0,
             s = "setBot" => r.kind = "self",
             s = "idle" => r.kind = "none"
      PROVE  EndpointInv'
  <2>1. TypeOK'
    BY <1>0, <1>1, <1>2 DEF TypeOK
  <2>2. PairsMatch'
    BY <1>2 DEF PairsMatch, TypeOK
  <2>3. EndpointFresh'
    BY <1>1, <1>2 DEF EndpointFresh, TypeOK
  <2>4. FoundIsCurrent'
    BY <1>1, <1>2 DEF FoundIsCurrent, TypeOK
  <2> QED BY <1>1, <1>2, <2>1, <2>2, <2>3, <2>4
<1>3. /\ at \in [Workers -> Steps] /\ conf \in [Workers -> Versions]
      /\ found \in [Workers -> Found] /\ floor \in [Workers -> Versions]
      /\ botRow \in Versions /\ userRow \in Versions
      /\ botKey \in Key /\ confKey \in Key /\ botKey.v <= botRow
  BY DEF TypeOK, CacheBehindRow
<1>4. /\ found[w].kind \in {"managed", "self"} =>
           found[w].url = found[w].secret /\ found[w].url > 0
      /\ found[w].kind = "self" => found[w].url \in floor[w]..botRow
      /\ found[w].kind = "regular" => floor[w] = 0
      /\ floor[w] <= botRow
      /\ at[w] = "setBot" => found[w].kind = "self"
      /\ at[w] = "idle" => found[w].kind = "none"
  BY DEF PairsMatch, EndpointFresh, FoundIsCurrent
\* A step that reads no more than Redis and returns nothing.
<1>5. ASSUME NEW s \in Steps \ {"idle", "setBot"},
             at' = [at EXCEPT ![w] = s], found' = found,
             \/ floor' = floor
             \/ at[w] = "idle" /\ floor' = [floor EXCEPT ![w] = botRow],
             botKey' \in Key, confKey' \in Key, CacheBehindRow',
             conf' \in [Workers -> Versions]
      PROVE  EndpointInv'
  <2>1. PICK n \in Versions :
             /\ floor' = [floor EXCEPT ![w] = n] /\ n <= botRow
             /\ n = floor[w] \/ at[w] = "idle"
    <3>1. CASE UNCHANGED floor
      <4>1. floor[w] \in Versions /\ floor' = [floor EXCEPT ![w] = floor[w]]
        BY <1>3, <3>1
      <4> QED BY <1>4, <4>1
    <3>2. CASE at[w] = "idle" /\ floor' = [floor EXCEPT ![w] = botRow]
      <4>1. botRow \in Versions /\ botRow <= botRow
        BY <1>3 DEF Versions
      <4> QED BY <3>2, <4>1
    <3> QED BY <1>5, <3>1, <3>2
  <2>2. found' = [found EXCEPT ![w] = found[w]] /\ at' = [at EXCEPT ![w] = s]
    BY <1>3, <1>5
  <2>3. /\ found[w] \in Found /\ s \in Steps /\ s # "setBot" /\ s # "idle"
        /\ found[w].kind = "self" => found[w].url \in n..botRow
        /\ found[w].kind = "regular" => n = 0
    BY <1>3, <1>4, <1>5, <2>1
  <2> QED BY <1>2, <1>4, <1>5, <2>1, <2>2, <2>3
\* A step that returns.
<1>6. ASSUME NEW r \in Found, NEW s \in {"done", "setBot"},
             at' = [at EXCEPT ![w] = s], found' = [found EXCEPT ![w] = r],
             NEW n \in Versions, floor' = [floor EXCEPT ![w] = n], n <= botRow,
             r.kind \in {"managed", "self"} => r.url = r.secret /\ r.url > 0,
             r.kind = "self" => r.url \in n..botRow,
             r.kind = "regular" => n = 0,
             s = "setBot" => r.kind = "self",
             botKey' = botKey, confKey' \in Key,
             conf' \in [Workers -> Versions]
      PROVE  EndpointInv'
  BY <1>1, <1>2, <1>3, <1>6 DEF CacheBehindRow, Steps
<1>7. UNCHANGED botKey => CacheBehindRow'
  BY <1>1 DEF CacheBehindRow
<1>8. UNCHANGED floor =>
        /\ floor' = [floor EXCEPT ![w] = floor[w]] /\ floor[w] \in Versions
  BY <1>3
<1>9. UNCHANGED conf => conf' \in [Workers -> Versions]
  BY <1>3
<1> HIDE DEF EndpointInv
<1>10. CASE GetConf(w)
  <2>1. CASE confKey.hit /\ confKey.v > 0
             /\ Return(w, Returned("managed", confKey.v, confKey.v))
    <3>1. /\ Returned("managed", confKey.v, confKey.v) \in Found
          /\ floor' = [floor EXCEPT ![w] = botRow]
          /\ UNCHANGED <<botKey, confKey, conf>>
      BY <1>3, <1>10, <2>1
         DEF GetConf, keysUnchanged, Returned, Found, Kinds, Key
    <3>2. /\ Returned("managed", confKey.v, confKey.v).kind = "managed"
          /\ Returned("managed", confKey.v, confKey.v).url = confKey.v
          /\ Returned("managed", confKey.v, confKey.v).secret = confKey.v
      BY DEF Returned
    <3>3. botRow <= botRow
      BY <1>3 DEF Versions
    <3> QED BY <1>3, <1>6, <1>9, <2>1, <3>1, <3>2, <3>3 DEF Return
  <2>2. ASSUME NEW s \in {"bot", "users"}, Goto(w, s)
        PROVE  EndpointInv'
    BY <1>3, <1>5, <1>7, <1>9, <1>10, <2>2
       DEF GetConf, At, Goto, keysUnchanged, Steps
  <2> QED BY <1>10, <2>1, <2>2 DEF GetConf
<1>11. CASE QueryUser(w)
  <2>1. UNCHANGED <<botKey, confKey, floor>>
    BY <1>11 DEF QueryUser, keysUnchanged
  <2>2. CASE conf' = [conf EXCEPT ![w] = userRow] /\ Goto(w, "setConf")
    BY <1>3, <1>5, <1>7, <2>1, <2>2 DEF Goto, Steps
  <2>3. CASE Return(w, Returned("error", 0, 0)) /\ UNCHANGED conf
    <3>1. Returned("error", 0, 0) \in Found
      BY DEF Returned, Found, Kinds, Versions
    <3> QED BY <1>3, <1>4, <1>6, <1>8, <1>9, <2>1, <2>3, <3>1 DEF Return, Returned
  <2> QED BY <1>11, <2>2, <2>3 DEF QueryUser
<1>12. CASE SetConf(w)
  <2>1. UNCHANGED <<botKey, floor, conf>> /\ confKey' \in Key /\ conf[w] \in Versions
    BY <1>3, <1>12, KeySet DEF SetConf, ConfEntry
  <2>2. CASE conf[w] > 0 /\ Return(w, Returned("managed", conf[w], conf[w]))
    <3>1. Returned("managed", conf[w], conf[w]) \in Found
      BY <2>1 DEF Returned, Found, Kinds
    <3> QED BY <1>3, <1>4, <1>6, <1>8, <1>9, <2>1, <2>2, <3>1 DEF Return, Returned
  <2>3. CASE Goto(w, "bot")
    BY <1>3, <1>5, <1>7, <1>9, <2>1, <2>3 DEF Goto, Steps
  <2> QED BY <1>12, <2>2, <2>3 DEF SetConf
<1>13. CASE GetBot(w)
  <2>1. UNCHANGED <<botKey, confKey, floor, conf>>
    BY <1>13 DEF GetBot, keysUnchanged
  <2>2. ASSUME NEW s \in {"hit", "miss"}, Goto(w, s)
        PROVE  EndpointInv'
    BY <1>3, <1>5, <1>7, <1>9, <2>1, <2>2 DEF Goto, Steps
  <2> QED BY <1>13, <2>2 DEF GetBot
\* Both queries of bot_endpoints return the row as it is.
<1>14. ASSUME botRow > 0
       PROVE  /\ Returned("self", botRow, botRow) \in Found
              /\ Returned("self", botRow, botRow).kind = "self"
              /\ Returned("self", botRow, botRow).url = botRow
              /\ Returned("self", botRow, botRow).secret = botRow
              /\ botRow \in floor[w]..botRow
  BY <1>3, <1>4, <1>14 DEF Returned, Found, Kinds, Versions
<1>15. CASE QueryHit(w)
  <2>1. UNCHANGED <<botKey, confKey, floor, conf>>
    BY <1>15 DEF QueryHit, keysUnchanged
  <2>2. CASE botRow > 0 /\ Return(w, Returned("self", botRow, botRow))
    BY <1>3, <1>4, <1>6, <1>8, <1>9, <1>14, <2>1, <2>2 DEF Return
  <2>3. CASE Goto(w, "miss")
    BY <1>3, <1>5, <1>7, <1>9, <2>1, <2>3 DEF Goto, Steps
  <2> QED BY <1>15, <2>2, <2>3 DEF QueryHit
<1>16. CASE QueryMiss(w)
  <2>1. UNCHANGED <<botKey, confKey, floor, conf>>
    BY <1>16 DEF QueryMiss, keysUnchanged
  <2>2. CASE /\ botRow > 0 /\ at' = [at EXCEPT ![w] = "setBot"]
             /\ found' = [found EXCEPT ![w] = Returned("self", botRow, botRow)]
    BY <1>3, <1>4, <1>6, <1>8, <1>9, <1>14, <2>1, <2>2
  <2>3. CASE botRow = 0 /\ Return(w, RegularUser)
    <3>1. RegularUser \in Found /\ RegularUser.kind = "regular" /\ floor[w] = 0
      BY <1>3, <1>4, <2>3 DEF RegularUser, Returned, Found, Kinds, Versions
    <3> QED BY <1>3, <1>4, <1>6, <1>8, <1>9, <2>1, <2>3, <3>1 DEF Return
  <2>4. CASE Return(w, Returned("error", 0, 0))
    <3>1. Returned("error", 0, 0) \in Found
      BY DEF Returned, Found, Kinds, Versions
    <3> QED BY <1>3, <1>4, <1>6, <1>8, <1>9, <2>1, <2>4, <3>1 DEF Return, Returned
  <2> QED BY <1>16, <2>2, <2>3, <2>4 DEF QueryMiss
<1>17. CASE SetBot(w)
  <2>1. found[w].url \in Versions /\ found[w].url <= botRow
    BY <1>3, <1>4, <1>17 DEF SetBot, At, Found, Versions
  <2>2. botKey' \in Key /\ CacheBehindRow'
    <3>1. CASE botKey' = WithTTL(found[w].url)
      BY <1>1, <2>1, <3>1, KeySet DEF CacheBehindRow
    <3>2. CASE UNCHANGED botKey
      BY <1>3, <1>7, <3>2
    <3> QED BY <1>17, <3>1, <3>2 DEF SetBot
  <2> QED BY <1>3, <1>5, <1>9, <1>17, <2>2 DEF SetBot, Goto, Steps
<1>18. CASE Finish(w)
  <2>1. Nothing \in Found /\ Nothing.kind = "none" /\ 0 \in Versions
    BY DEF Nothing, Returned, Found, Kinds, Versions
  <2>2. /\ at' = [at EXCEPT ![w] = "idle"] /\ "idle" \in Steps
        /\ found' = [found EXCEPT ![w] = Nothing]
        /\ floor' = [floor EXCEPT ![w] = 0]
        /\ botKey' \in Key /\ confKey' \in Key /\ CacheBehindRow'
        /\ conf' \in [Workers -> Versions]
    BY <1>3, <1>7, <1>18, <2>1 DEF Finish, keysUnchanged, Steps
  <2>3. 0 <= botRow
    BY <1>3 DEF Versions
  <2> QED BY <1>2, <2>1, <2>2, <2>3
<1> QED
  BY <1>10, <1>11, <1>12, <1>13, <1>15, <1>16, <1>17, <1>18 DEF ResolveStep

LEMMA EndpointStep == EndpointInv /\ [Next]_vars => EndpointInv'
<1> SUFFICES ASSUME EndpointInv, [Next]_vars
             PROVE  EndpointInv'
  OBVIOUS
<1>1. CASE UNCHANGED vars
  BY <1>1 DEF vars, EndpointInv, TypeOK, PairsMatch, EndpointFresh,
              FoundIsCurrent, CacheBehindRow, CallsAreStored
<1> QED BY <1>1, ApiPreserves, RedisPreserves, ResolvePreserves DEF Next

LEMMA EndpointAlways == Spec => []EndpointInv
  BY EndpointInit, EndpointStep, PTL DEF Spec

\* Every variable keeps its type.
THEOREM TypeCorrect == Spec => []TypeOK
<1>1. EndpointInv => TypeOK
  BY DEF EndpointInv
<1> QED BY <1>1, EndpointAlways, PTL

\* A message is never signed with a secret that does not belong to the URL it
\* is sent to, whatever the caches and the rows do while the endpoint is looked
\* up.  (resolveBotEndpoint)
THEOREM PairsCorrect == Spec => []PairsMatch
<1>1. EndpointInv => PairsMatch
  BY DEF EndpointInv
<1> QED BY <1>1, EndpointAlways, PTL

\* A registration that was stored before a message is handled is used for it:
\* the cached URL never decides.  (resolveBotEndpoint, UpdateBot)
THEOREM FreshCorrect == Spec => []EndpointFresh
<1>1. EndpointInv => EndpointFresh
  BY DEF EndpointInv
<1> QED BY <1>1, EndpointAlways, PTL

\* bot:<id> is never ahead of bot_endpoints, although two handlers and every
\* worker write it in any order.  (UpdateBot, resolveBotEndpoint)
THEOREM CacheCorrect == Spec => []CacheBehindRow
<1>1. EndpointInv => CacheBehindRow
  BY DEF EndpointInv
<1> QED BY <1>1, EndpointAlways, PTL

-----------------------------------------------------------------------------
(* The refinement of Directory *)

\* A managed configuration anybody holds is one that users has held.
ConfsWereKept ==
  /\ 0 \in kept /\ userRow \in kept /\ confKey.v \in kept
  /\ \A w \in Workers : conf[w] \in kept

\* A look-up is answered once.
AnsweredOnce ==
  \A w \in Workers : at[w] \notin {"setBot", "done"} => found[w] = Nothing

DirectoryInv == EndpointInv /\ ConfsWereKept /\ AnsweredOnce

LEMMA DirectoryInitially == Init => DirectoryInv
<1> SUFFICES ASSUME Init PROVE DirectoryInv
  OBVIOUS
<1>1. EndpointInv
  BY EndpointInit
<1>2. ConfsWereKept /\ AnsweredOnce
  BY DEF Init, ConfsWereKept, AnsweredOnce, Absent
<1> QED BY <1>1, <1>2 DEF DirectoryInv

LEMMA ConfsStep ==
  ASSUME DirectoryInv, [Next]_vars
  PROVE  ConfsWereKept'
<1> USE DEF ConfsWereKept
<1>0. /\ ConfsWereKept /\ conf \in [Workers -> Versions] /\ botKey \in Key /\ confKey \in Key
  BY DEF DirectoryInv, EndpointInv, TypeOK
<1>1. ASSUME NEW c \in Calls, ApiStep(c)
      PROVE  ConfsWereKept'
  <2>1. kept \subseteq kept' /\ userRow' \in kept'
    BY <1>0, <1>1 DEF ApiStep, Register, CacheUrl, CallService, SetManagedBot
  <2>2. UNCHANGED <<confKey, conf>>
    BY <1>1 DEF ApiStep, Register, CacheUrl, CallService, SetManagedBot, apiUnchanged
  <2> QED BY <1>0, <2>1, <2>2
<1>2. CASE CrashApi \/ ExpireConf \/ ExpireBot \/ Evict
  <2>1. UNCHANGED <<userRow, kept, conf>>
    BY <1>2 DEF CrashApi, ExpireConf, ExpireBot, Evict, redisUnchanged, apiUnchanged
  <2>2. confKey' = confKey \/ confKey' = Absent
    BY <1>2 DEF CrashApi, ExpireConf, ExpireBot, Evict, redisUnchanged, apiUnchanged
  <2> QED BY <1>0, <2>1, <2>2 DEF Absent
<1>3. ASSUME NEW w \in Workers, ResolveStep(w)
      PROVE  ConfsWereKept'
  <2>1. UNCHANGED <<userRow, kept>>
    BY <1>3 DEF ResolveStep, GetConf, QueryUser, SetConf, GetBot, QueryHit,
                QueryMiss, SetBot, Finish, rowsUnchanged
  <2>2. PICK n \in kept : conf' = [conf EXCEPT ![w] = n]
    <3>1. \/ conf' = [conf EXCEPT ![w] = userRow]
          \/ conf' = [conf EXCEPT ![w] = 0]
          \/ conf' = conf
      BY <1>3 DEF ResolveStep, GetConf, QueryUser, SetConf, GetBot, QueryHit,
                  QueryMiss, SetBot, Finish
    <3>2. conf = [conf EXCEPT ![w] = conf[w]]
      BY <1>0
    <3> QED BY <1>0, <3>1, <3>2
  <2>3. confKey'.v \in kept
    <3>1. \/ confKey' = confKey
          \/ confKey' = WithTTL(conf[w])
      BY <1>3 DEF ResolveStep, GetConf, QueryUser, SetConf, ConfEntry, GetBot,
                  QueryHit, QueryMiss, SetBot, Finish, keysUnchanged
    <3>2. WithTTL(conf[w]).v = conf[w]
      BY DEF WithTTL
    <3> QED BY <1>0, <3>1, <3>2
  <2> QED BY <1>0, <2>1, <2>2, <2>3
<1>4. CASE UNCHANGED vars
  BY <1>0, <1>4 DEF vars
<1> QED BY <1>1, <1>2, <1>3, <1>4 DEF Next

LEMMA AnsweredStep ==
  ASSUME DirectoryInv, [Next]_vars
  PROVE  AnsweredOnce'
<1>0. /\ AnsweredOnce /\ at \in [Workers -> Steps] /\ found \in [Workers -> Found]
  BY DEF DirectoryInv, EndpointInv, TypeOK
<1>1. ASSUME UNCHANGED <<at, found>>
      PROVE  AnsweredOnce'
  BY <1>0, <1>1 DEF AnsweredOnce
<1>2. ASSUME NEW w \in Workers, ResolveStep(w)
      PROVE  AnsweredOnce'
  <2>1. PICK s, r : /\ at' = [at EXCEPT ![w] = s]
                    /\ found' = [found EXCEPT ![w] = r]
                    /\ s \notin {"setBot", "done"} => r = Nothing
    <3>1. found = [found EXCEPT ![w] = found[w]]
      BY <1>0
    <3>2. ASSUME NEW s, Goto(w, s), at[w] \notin {"setBot", "done"} \/ s = "done"
          PROVE  /\ at' = [at EXCEPT ![w] = s]
                 /\ found' = [found EXCEPT ![w] = found[w]]
                 /\ s \notin {"setBot", "done"} => found[w] = Nothing
      BY <1>0, <3>1, <3>2 DEF Goto, AnsweredOnce
    <3>3. ASSUME NEW r, Return(w, r)
          PROVE  /\ at' = [at EXCEPT ![w] = "done"]
                 /\ found' = [found EXCEPT ![w] = r]
                 /\ "done" \notin {"setBot", "done"} => r = Nothing
      BY <3>3 DEF Return
    <3>4. CASE GetConf(w) \/ QueryUser(w) \/ SetConf(w)
      BY <3>2, <3>3, <3>4 DEF GetConf, QueryUser, SetConf, At
    <3>5. CASE GetBot(w) \/ QueryHit(w) \/ SetBot(w)
      BY <3>2, <3>3, <3>5 DEF GetBot, QueryHit, SetBot, At
    <3>6. CASE QueryMiss(w)
      BY <3>3, <3>6 DEF QueryMiss
    <3>7. CASE Finish(w)
      BY <3>7 DEF Finish
    <3> QED BY <1>2, <3>4, <3>5, <3>6, <3>7 DEF ResolveStep
  <2> QED BY <1>0, <2>1 DEF AnsweredOnce
<1>3. ASSUME NEW c \in Calls, ApiStep(c)
      PROVE  UNCHANGED <<at, found>>
  BY <1>3 DEF ApiStep, Register, CacheUrl, CallService, SetManagedBot, apiUnchanged
<1>4. CASE CrashApi \/ ExpireConf \/ ExpireBot \/ Evict
  BY <1>1, <1>4 DEF CrashApi, ExpireConf, ExpireBot, Evict, redisUnchanged, apiUnchanged
<1>5. CASE UNCHANGED vars
  BY <1>1, <1>5 DEF vars
<1> QED BY <1>1, <1>2, <1>3, <1>4, <1>5 DEF Next

LEMMA DirectoryAlways == Spec => []DirectoryInv
<1>1. DirectoryInv /\ [Next]_vars => DirectoryInv'
  BY EndpointStep, ConfsStep, AnsweredStep DEF DirectoryInv
<1> QED BY <1>1, DirectoryInitially, PTL DEF Spec

LEMMA FaultsCount ==
  ASSUME DirectoryInv
  PROVE  /\ NoFault => MaxFaults - budget' = MaxFaults - budget
         /\ \A f : Fault(f) => MaxFaults - budget' = (MaxFaults - budget) + 1
  BY DEF DirectoryInv, EndpointInv, TypeOK, NoFault, Fault

\* The owner: a registration, a configuration stored, or nothing that shows.
LEMMA ApiKeepsPromise ==
  ASSUME DirectoryInv, NEW c \in Calls, ApiStep(c)
  PROVE  Promise!Next
<1>0. MaxFaults - budget' \in {MaxFaults - budget, (MaxFaults - budget) + 1}
  BY FaultsCount
     DEF ApiStep, Register, CacheUrl, CallService, SetManagedBot, NoFault
<1>1. CASE Register(c)
  BY <1>0, <1>1 DEF Register, apiUnchanged, Promise!Next, Promise!Register
<1>2. CASE CacheUrl(c) \/ CallService(c)
  BY <1>0, <1>2 DEF CacheUrl, CallService, apiUnchanged, Promise!Next
<1>3. CASE SetManagedBot(c)
  <2>1. \E n \in kept' : kept' = kept \cup {n}
    BY <1>3 DEF SetManagedBot
  <2> QED
    BY <1>0, <1>3, <2>1
       DEF SetManagedBot, apiUnchanged, Promise!Next, Promise!Store
<1> QED BY <1>1, <1>2, <1>3 DEF ApiStep

\* A worker: an answer, the end of a look-up, or nothing that shows.
LEMMA ResolveKeepsPromise ==
  ASSUME DirectoryInv, NEW w \in Workers, ResolveStep(w)
  PROVE  Promise!Next
<1> DEFINE Faulty == MaxFaults - budget' = (MaxFaults - budget) + 1
           Clean  == MaxFaults - budget' = MaxFaults - budget
<1>0. /\ botRow \in Nat /\ confKey.v \in Nat /\ conf[w] \in Nat
      /\ found \in [Workers -> Found]
      /\ confKey.v \in kept /\ conf[w] \in kept
      /\ at[w] \notin {"setBot", "done"} => found[w] = Promise!Unanswered
  BY DEF DirectoryInv, EndpointInv, TypeOK, Versions, Key, ConfsWereKept,
         AnsweredOnce, Nothing, Returned, Promise!Unanswered
<1>1. UNCHANGED <<botRow, kept>>
  BY DEF ResolveStep, GetConf, QueryUser, SetConf, GetBot, QueryHit, QueryMiss,
         SetBot, Finish, rowsUnchanged
<1>2. Clean \/ Faulty
  BY FaultsCount
     DEF ResolveStep, GetConf, QueryUser, SetConf, GetBot, QueryHit, QueryMiss,
         SetBot, Finish, NoFault
<1>3. ASSUME UNCHANGED found
      PROVE  Promise!Next
  BY <1>1, <1>2, <1>3 DEF Promise!Next
<1>4. ASSUME NEW kind, NEW n, at[w] \notin {"setBot", "done"},
             found' = [found EXCEPT ![w] = Returned(kind, n, n)],
             \/ kind = "self" /\ n = botRow /\ botRow > 0
             \/ kind = "regular" /\ n = 0 /\ botRow = 0
             \/ kind = "managed" /\ n \in kept \ {0}
             \/ kind = "error" /\ n = 0 /\ Faulty
      PROVE  Promise!Next
  <2>1. Promise!Reply(w, kind, n)
    BY <1>0, <1>4 DEF Promise!Reply, Returned
  <2>2. Promise!Answer(w)
    BY <1>1, <1>4, <2>1 DEF Promise!Answer
  <2> QED BY <1>2, <2>2 DEF Promise!Next
<1>5. ASSUME NEW f, Fault(f) PROVE Faulty
  BY <1>5, FaultsCount
<1> HIDE DEF Faulty, Clean
<1>6. CASE GetConf(w)
  <2>1. CASE confKey.v > 0 /\ Return(w, Returned("managed", confKey.v, confKey.v))
    <3>1. confKey.v \in kept \ {0}
      BY <1>0, <2>1
    <3> QED BY <1>4, <1>6, <2>1, <3>1 DEF GetConf, At, Return
  <2>2. CASE UNCHANGED found
    BY <1>3, <2>2
  <2> QED BY <1>6, <2>1, <2>2 DEF GetConf, Goto
<1>7. CASE QueryUser(w)
  <2>1. CASE Fault("dbError") /\ Return(w, Returned("error", 0, 0))
    BY <1>4, <1>5, <1>7, <2>1 DEF QueryUser, At, Return
  <2>2. CASE UNCHANGED found
    BY <1>3, <2>2
  <2> QED BY <1>7, <2>1, <2>2 DEF QueryUser, Goto
<1>8. CASE SetConf(w)
  <2>1. CASE conf[w] > 0 /\ Return(w, Returned("managed", conf[w], conf[w]))
    <3>1. conf[w] \in kept \ {0}
      BY <1>0, <2>1
    <3> QED BY <1>4, <1>8, <2>1, <3>1 DEF SetConf, At, Return
  <2>2. CASE UNCHANGED found
    BY <1>3, <2>2
  <2> QED BY <1>8, <2>1, <2>2 DEF SetConf, Goto
<1>9. CASE GetBot(w) \/ SetBot(w)
  BY <1>3, <1>9 DEF GetBot, SetBot, Goto
<1>10. CASE QueryHit(w)
  <2>1. CASE botRow > 0 /\ Return(w, Returned("self", botRow, botRow))
    BY <1>4, <1>10, <2>1 DEF QueryHit, At, Return
  <2>2. CASE UNCHANGED found
    BY <1>3, <2>2
  <2> QED BY <1>10, <2>1, <2>2 DEF QueryHit, Goto
<1>11. CASE QueryMiss(w)
  <2>1. at[w] = "miss"
    BY <1>11 DEF QueryMiss, At
  <2>2. CASE /\ botRow > 0
             /\ found' = [found EXCEPT ![w] = Returned("self", botRow, botRow)]
    BY <1>4, <2>1, <2>2
  <2>3. CASE botRow = 0 /\ Return(w, RegularUser)
    BY <1>4, <2>1, <2>3 DEF Return, RegularUser
  <2>4. CASE Fault("dbError") /\ Return(w, Returned("error", 0, 0))
    BY <1>4, <1>5, <2>1, <2>4 DEF Return
  <2> QED BY <1>11, <2>2, <2>3, <2>4 DEF QueryMiss
<1>12. CASE Finish(w)
  <2>1. Promise!Forget(w)
    BY <1>1, <1>12
       DEF Finish, Promise!Forget, Promise!Unanswered, Nothing, Returned
  <2> QED BY <1>2, <2>1 DEF Promise!Next, Clean, Faulty
<1> QED
  BY <1>6, <1>7, <1>8, <1>9, <1>10, <1>11, <1>12 DEF ResolveStep

\* What a look-up answers is what a register and a set of configurations would
\* have answered at one step of it: neither cache, neither crash nor eviction
\* and no other look-up can be told from the answers, but for the age of a
\* managed configuration.  (resolveBotEndpoint, UpdateBot, Provision)
THEOREM Refinement == Spec => ImplementsDirectory
<1>1. Init => Promise!Init
  BY DEF Init, Promise!Init, Promise!Unanswered, Nothing, Returned
<1>2. DirectoryInv /\ [Next]_vars => [Promise!Next]_(Promise!vars)
  <2> SUFFICES ASSUME DirectoryInv, [Next]_vars
               PROVE  [Promise!Next]_(Promise!vars)
    OBVIOUS
  <2>1. CASE CrashApi \/ ExpireConf \/ ExpireBot \/ Evict
    <3>1. MaxFaults - budget' \in {MaxFaults - budget, (MaxFaults - budget) + 1}
      BY <2>1, FaultsCount DEF CrashApi, ExpireConf, ExpireBot, Evict, NoFault
    <3>2. UNCHANGED <<botRow, kept, found>>
      BY <2>1 DEF CrashApi, ExpireConf, ExpireBot, Evict, apiUnchanged, redisUnchanged
    <3> QED BY <3>1, <3>2 DEF Promise!Next
  <2>2. CASE UNCHANGED vars
    BY <2>2 DEF vars, Promise!vars
  <2> QED BY <2>1, <2>2, ApiKeepsPromise, ResolveKeepsPromise DEF Next
<1> QED
  BY <1>1, <1>2, DirectoryAlways, PTL DEF Spec, ImplementsDirectory, Promise!Spec
=============================================================================
