-------------------------- MODULE ApiServerProofs ---------------------------
(***************************************************************************)
(* Theorems about ApiServer, for any number of processes, of statements    *)
(* and of calls of Send, and for any failures.                             *)
(***************************************************************************)
EXTENDS ApiServer, TLAPS

USE ApiAssumption

\* What RunMigrations has behind it exists: this makes AppliedInOrder and
\* ServesOnFullSchema inductive.
MigrationInv ==
  /\ \A p \in Procs : stage[p] = "connect" => next[p] = 1 /\ saw[p] = "?"
  /\ \A p \in Procs : stage[p] = "migrate" =>
       /\ saw[p] # "?" => next[p] \in All
       /\ 1..(next[p] - 1) \subseteq applied
  /\ AppliedInOrder /\ ServesOnFullSchema

\* How far a call of Send has come tells where its message is; a call whose
\* process no longer serves has been hurt.
SendInv(s) ==
  /\ handler[s] \in {"none", "insert"} => row[s] = "none"
  /\ handler[s] \in {"publish", "mark"} => row[s] = "queued"
  /\ handler[s] \in {"accept", "accepted"} =>
       row[s] = "queued" /\ (s \in queued \/ "void" \in hurt[s])
  /\ handler[s] \in {"none", "insert", "publish", "mark", "refuse", "refused"} =>
       s \notin queued
  /\ row[s] = "failed" => s \notin queued
  /\ handler[s] \in {"refuse", "refused", "cut"} /\ row[s] = "queued" /\ s \notin queued
       => hurt[s] # {}
  /\ handler[s] \in InFlight =>
       by[s] \in Procs /\ (stage[by[s]] # "serve" => hurt[s] # {})

ApiInv == TypeOK /\ MigrationInv /\ \A s \in Sends : SendInv(s)

LEMMA ApiInit == Init => ApiInv
<1> SUFFICES ASSUME Init PROVE ApiInv
  OBVIOUS
<1>1. /\ stage = [p \in Procs |-> "down"]
      /\ next = [p \in Procs |-> 1]
      /\ saw = [p \in Procs |-> "?"]
      /\ link = [p \in Procs |-> FALSE]
      /\ shutdown = [p \in Procs |-> "none"]
      /\ handler = [s \in Sends |-> "none"]
      /\ by = [s \in Sends |-> "nobody"]
      /\ row = [s \in Sends |-> "none"]
      /\ starts = 0 /\ budget = MaxFaults
  BY Zenon DEF Init
<1>2. applied = {} /\ queued = {} /\ hurt \in [Sends -> SUBSET Harms]
  BY DEF Init
<1>3. TypeOK
  <2>1. link \in [Procs -> BOOLEAN]
    BY <1>1
  <2> QED BY <1>1, <1>2, <2>1 DEF TypeOK
<1>4. MigrationInv
  BY <1>1, <1>2 DEF MigrationInv, AppliedInOrder, ServesOnFullSchema, Procs
<1>5. \A s \in Sends : SendInv(s)
  BY <1>1, <1>2 DEF SendInv, InFlight
<1> QED BY <1>3, <1>4, <1>5 DEF ApiInv

-----------------------------------------------------------------------------
(* The processes *)

\* What a step of a process leaves of the calls it does not cut.
LEMMA SendsUntouched ==
  ASSUME TypeOK, \A s \in Sends : SendInv(s),
         UNCHANGED <<calls, hurt>>,
         \A p \in Procs : stage[p] = "serve" => stage'[p] = "serve"
  PROVE  \A s \in Sends : SendInv(s)'
<1> TAKE s \in Sends
<1>1. UNCHANGED <<handler, by, row, queued, hurt>>
  BY DEF calls
<1>2. SendInv(s)
  OBVIOUS
<1> QED BY <1>1, <1>2 DEF SendInv

\* A step of main, or of the goroutine beside it, that takes no process out of
\* service.
LEMMA MainPreserves ==
  ASSUME ApiInv, NEW p \in Procs,
         \/ Start(p) \/ ConnectDB(p) \/ BeginStatement(p) \/ EndStatement(p)
         \/ FailStatement(p) \/ EndMigrations(p) \/ ConnectRedis(p)
         \/ ConnectQueue(p) \/ ShutdownReturns(p) \/ LoseLink(p) \/ Close(p)
  PROVE  ApiInv'
<1> USE DEF ApiInv, Goto, AppliedInOrder, ServesOnFullSchema, All, Procs
<1>1. CASE Start(p)
  <2>1. TypeOK'
    BY <1>1 DEF Start, TypeOK, calls, mains
  <2>2. MigrationInv'
    BY <1>1 DEF Start, MigrationInv, TypeOK, calls, mains
  <2> QED BY <1>1, <2>1, <2>2, SendsUntouched DEF Start, TypeOK, mains
<1>2. CASE ConnectDB(p)
  <2>1. TypeOK'
    BY <1>2 DEF ConnectDB, TypeOK, calls, mains
  <2>2. MigrationInv'
    BY <1>2 DEF ConnectDB, MigrationInv, TypeOK, calls, mains
  <2> QED BY <1>2, <2>1, <2>2, SendsUntouched DEF ConnectDB, TypeOK, mains
<1>3. CASE BeginStatement(p)
  <2>1. TypeOK'
    BY <1>3 DEF BeginStatement, TypeOK, calls, mains
  <2>2. MigrationInv'
    BY <1>3 DEF BeginStatement, MigrationInv, TypeOK, calls, mains
  <2> QED BY <1>3, <2>1, <2>2, SendsUntouched DEF BeginStatement, TypeOK, mains
<1>4. CASE EndStatement(p)
  <2> DEFINE n == next[p]
  <2>1. n \in All /\ n \in Nat \ {0} /\ 1..(n - 1) \subseteq applied
    BY <1>4 DEF EndStatement, MigrationInv, TypeOK
  <2>2. /\ applied' = applied \cup {n}
        /\ next' = [next EXCEPT ![p] = n + 1]
        /\ saw' = [saw EXCEPT ![p] = "?"]
        /\ UNCHANGED <<stage, shutdown, starts, link, handler, by, row, queued,
                       hurt, budget>>
    BY <1>4 DEF EndStatement, calls
  <2>3. TypeOK'
    <3>1. next' \in [Procs -> Nat \ {0}]
      BY <2>1, <2>2 DEF TypeOK
    <3>2. saw' \in [Procs -> {"?", "no", "yes"}] /\ applied' \subseteq All
      BY <2>1, <2>2 DEF TypeOK
    <3> QED BY <2>2, <3>1, <3>2 DEF TypeOK
  <2>4. AppliedInOrder'
    <3> SUFFICES ASSUME NEW i \in applied', NEW j \in 1..i PROVE j \in applied'
      OBVIOUS
    <3>1. applied \subseteq 1..Statements /\ Statements \in Nat
      BY DEF TypeOK
    <3>2. CASE i = n
      BY <2>1, <2>2, <3>2
    <3>3. CASE i \in applied
      BY <2>2, <3>3 DEF MigrationInv
    <3> QED BY <2>2, <3>2, <3>3
  <2>5. \A q \in Procs : stage'[q] = "migrate" =>
          /\ saw'[q] # "?" => next'[q] \in All
          /\ 1..(next'[q] - 1) \subseteq applied'
    <3> SUFFICES ASSUME NEW q \in Procs, stage[q] = "migrate"
                 PROVE  /\ saw'[q] # "?" => next'[q] \in All
                        /\ 1..(next'[q] - 1) \subseteq applied'
      BY <2>2
    <3>1. CASE q = p
      <4>1. next'[q] = n + 1 /\ saw'[q] = "?"
        BY <2>2, <3>1 DEF TypeOK
      <4>2. 1..n \subseteq applied'
        BY <2>1, <2>2
      <4> QED BY <2>1, <4>1, <4>2
    <3>2. CASE q # p
      BY <2>2, <3>2 DEF MigrationInv, TypeOK
    <3> QED BY <3>1, <3>2
  <2>6. applied = All => applied' = All
    BY <2>1, <2>2
  <2>7. MigrationInv'
    <3>1. ServesOnFullSchema'
      BY <2>2, <2>6 DEF MigrationInv
    <3>2. \A q \in Procs : stage'[q] = "connect" => next'[q] = 1 /\ saw'[q] = "?"
      BY <1>4, <2>2 DEF EndStatement, MigrationInv, TypeOK
    <3> QED BY <2>4, <2>5, <3>1, <3>2 DEF MigrationInv
  <2> QED BY <2>2, <2>3, <2>7, SendsUntouched DEF calls
<1>5. CASE FailStatement(p)
  <2>1. TypeOK'
    BY <1>5 DEF FailStatement, TypeOK, calls, mains
  <2>2. MigrationInv'
    BY <1>5 DEF FailStatement, MigrationInv, TypeOK, calls, mains
  <2> QED BY <1>5, <2>1, <2>2, SendsUntouched DEF FailStatement, TypeOK, mains
<1>6. CASE EndMigrations(p)
  <2>1. TypeOK'
    BY <1>6 DEF EndMigrations, TypeOK, calls, mains
  <2>2. applied = All
    <3>1. next[p] \in Nat \ {0} /\ next[p] \notin 1..Statements
      BY <1>6 DEF EndMigrations, TypeOK
    <3>2. 1..(next[p] - 1) \subseteq applied /\ applied \subseteq 1..Statements
      BY <1>6 DEF EndMigrations, MigrationInv, TypeOK
    <3>3. 1..Statements \subseteq 1..(next[p] - 1)
      BY <3>1
    <3> QED BY <3>2, <3>3
  <2>3. MigrationInv'
    BY <1>6, <2>2 DEF EndMigrations, MigrationInv, TypeOK, calls, mains
  <2> QED BY <1>6, <2>1, <2>3, SendsUntouched DEF EndMigrations, TypeOK, mains
<1>7. CASE ConnectRedis(p)
  <2>1. TypeOK'
    BY <1>7 DEF ConnectRedis, TypeOK, calls, mains
  <2>2. MigrationInv'
    BY <1>7 DEF ConnectRedis, MigrationInv, TypeOK, calls, mains
  <2> QED BY <1>7, <2>1, <2>2, SendsUntouched DEF ConnectRedis, TypeOK, mains
<1>8. CASE ConnectQueue(p)
  <2>1. TypeOK'
    BY <1>8 DEF ConnectQueue, TypeOK, calls, mains
  <2>2. MigrationInv'
    BY <1>8 DEF ConnectQueue, MigrationInv, TypeOK, calls, mains
  <2> QED BY <1>8, <2>1, <2>2, SendsUntouched DEF ConnectQueue, TypeOK, mains
<1>9. CASE ShutdownReturns(p)
  <2>1. TypeOK'
    BY <1>9 DEF ShutdownReturns, TypeOK, calls, mains
  <2>2. MigrationInv'
    BY <1>9 DEF ShutdownReturns, MigrationInv, TypeOK, calls, mains
  <2> QED BY <1>9, <2>1, <2>2, SendsUntouched DEF ShutdownReturns, TypeOK, mains
<1>10. CASE LoseLink(p)
  <2>1. TypeOK'
    BY <1>10 DEF LoseLink, TypeOK, calls, mains, Fails
  <2>2. MigrationInv'
    BY <1>10 DEF LoseLink, MigrationInv, TypeOK, calls, mains
  <2> QED BY <1>10, <2>1, <2>2, SendsUntouched DEF LoseLink, TypeOK, mains
<1>11. CASE Close(p)
  <2>1. \/ stage[p] = "closeQueue" /\ stage' = [stage EXCEPT ![p] = "closeRedis"]
        \/ stage[p] = "closeRedis" /\ stage' = [stage EXCEPT ![p] = "closeDB"]
        \/ stage[p] = "closeDB" /\ stage' = [stage EXCEPT ![p] = "exit"]
    <3>1. stage[p] \in {"closeQueue", "closeRedis", "closeDB"}
      BY <1>11 DEF Close, After
    <3>2. /\ After["closeQueue"] = "closeRedis" /\ After["closeRedis"] = "closeDB"
          /\ After["closeDB"] = "exit"
      BY DEF After
    <3> QED BY <1>11, <3>1, <3>2 DEF Close
  <2>2. /\ link' = [link EXCEPT ![p] = FALSE]
        /\ UNCHANGED <<next, saw, shutdown, starts, applied, handler, by, row,
                       queued, hurt, budget>>
    BY <1>11 DEF Close, calls
  <2>3. TypeOK'
    BY <2>1, <2>2 DEF TypeOK
  <2>4. MigrationInv'
    BY <2>1, <2>2 DEF MigrationInv, TypeOK
  <2> QED BY <2>1, <2>2, <2>3, <2>4, SendsUntouched DEF TypeOK, calls
<1> QED BY <1>1, <1>2, <1>3, <1>4, <1>5, <1>6, <1>7, <1>8, <1>9, <1>10, <1>11

\* The steps that take a process out of service, or end it: each hurts the calls
\* it leaves in flight, or finds them hurt.
LEMMA EndPreserves ==
  ASSUME ApiInv, NEW p \in Procs, Signal(p) \/ Exit(p) \/ Die(p)
  PROVE  ApiInv'
<1> USE DEF ApiInv, Goto, AppliedInOrder, ServesOnFullSchema, All, Procs
<1>1. CASE Signal(p)
  <2>1. /\ stage[p] = "serve" /\ stage' = [stage EXCEPT ![p] = "closeQueue"]
        /\ shutdown' = [shutdown EXCEPT ![p] = "waiting"]
        /\ hurt' = [s \in Sends |-> IF s \in Runs(p) THEN hurt[s] \cup {"stop"} ELSE hurt[s]]
        /\ UNCHANGED <<next, saw, starts, applied, link, handler, by, row, queued,
                       budget>>
    BY <1>1 DEF Signal, Befalls, calls
  <2>2. hurt' \in [Sends -> SUBSET Harms]
    BY <2>1 DEF TypeOK, Harms
  <2>3. TypeOK'
    BY <2>1, <2>2 DEF TypeOK
  <2>4. MigrationInv'
    BY <2>1 DEF MigrationInv, TypeOK
  <2>5. \A s \in Sends : SendInv(s)'
    <3> TAKE s \in Sends
    <3>1. hurt[s] \subseteq hurt'[s] /\ (s \in Runs(p) => hurt'[s] # {})
      BY <2>1
    <3>2. handler[s] \in InFlight /\ by[s] = p => s \in Runs(p)
      BY DEF Runs
    <3>3. \A q \in Procs : q # p => stage'[q] = stage[q]
      BY <2>1 DEF TypeOK
    <3>4. SendInv(s)
      OBVIOUS
    <3> QED BY <2>1, <3>1, <3>2, <3>3, <3>4 DEF SendInv
  <2> QED BY <2>3, <2>4, <2>5
<1>2. CASE Exit(p)
  <2>1. /\ stage[p] = "exit" /\ stage' = [stage EXCEPT ![p] = "down"]
        /\ handler' = [s \in Sends |-> IF s \in Runs(p) THEN "cut" ELSE handler[s]]
        /\ UNCHANGED <<next, saw, shutdown, starts, applied, link, by, row, queued,
                       hurt, budget>>
    BY <1>2 DEF Exit, Cut
  <2>2. TypeOK'
    BY <2>1 DEF TypeOK, Over
  <2>3. \A s \in Sends : handler'[s] # "none" => handler[s] # "none"
    BY <2>1 DEF Runs, InFlight
  <2>4. MigrationInv'
    BY <2>1, <2>3 DEF MigrationInv, TypeOK
  <2>5. \A s \in Sends : SendInv(s)'
    <3> TAKE s \in Sends
    <3>1. SendInv(s)
      OBVIOUS
    <3>2. CASE s \in Runs(p)
      <4>1. handler'[s] = "cut" /\ hurt[s] # {}
        BY <2>1, <3>1, <3>2 DEF Runs, SendInv
      <4> QED BY <2>1, <3>1, <4>1 DEF SendInv, InFlight
    <3>3. CASE s \notin Runs(p)
      <4>1. handler'[s] = handler[s] /\ (handler[s] \in InFlight => by[s] # p)
        BY <2>1, <3>3 DEF Runs
      <4>2. \A q \in Procs : q # p => stage'[q] = stage[q]
        BY <2>1 DEF TypeOK
      <4> QED BY <2>1, <3>1, <4>1, <4>2 DEF SendInv
    <3> QED BY <3>2, <3>3
  <2> QED BY <2>2, <2>4, <2>5
<1>3. CASE Die(p)
  <2>1. /\ stage' = [stage EXCEPT ![p] = "down"]
        /\ budget > 0 /\ budget' = budget - 1
        /\ link' = [link EXCEPT ![p] = FALSE]
        /\ hurt' = [s \in Sends |-> IF s \in Runs(p) THEN hurt[s] \cup {"crash"} ELSE hurt[s]]
        /\ handler' = [s \in Sends |-> IF s \in Runs(p) THEN "cut" ELSE handler[s]]
        /\ UNCHANGED <<next, saw, shutdown, starts, applied, by, row, queued>>
    BY <1>3 DEF Die, Cut, Befalls, Fails
  <2>2. hurt' \in [Sends -> SUBSET Harms]
    BY <2>1 DEF TypeOK, Harms
  <2>3. handler' \in [Sends -> {"none"} \cup InFlight \cup Over]
    BY <2>1 DEF TypeOK, Over
  <2>4. TypeOK'
    BY <2>1, <2>2, <2>3 DEF TypeOK
  <2>5. \A s \in Sends : handler'[s] # "none" => handler[s] # "none"
    BY <2>1 DEF Runs, InFlight
  <2>6. MigrationInv'
    BY <2>1, <2>5 DEF MigrationInv, TypeOK
  <2>7. \A s \in Sends : SendInv(s)'
    <3> TAKE s \in Sends
    <3>1. SendInv(s)
      OBVIOUS
    <3>2. CASE s \in Runs(p)
      <4>1. handler'[s] = "cut" /\ hurt'[s] # {}
        BY <2>1, <3>2
      <4> QED BY <2>1, <3>1, <4>1 DEF SendInv, InFlight
    <3>3. CASE s \notin Runs(p)
      <4>1. /\ handler'[s] = handler[s] /\ hurt'[s] = hurt[s]
            /\ handler[s] \in InFlight => by[s] # p
        BY <2>1, <3>3 DEF Runs
      <4>2. \A q \in Procs : q # p => stage'[q] = stage[q]
        BY <2>1 DEF TypeOK
      <4> QED BY <2>1, <3>1, <4>1, <4>2 DEF SendInv
    <3> QED BY <3>2, <3>3
  <2> QED BY <2>4, <2>6, <2>7
<1> QED BY <1>1, <1>2, <1>3

-----------------------------------------------------------------------------
(* Send *)

\* What a step of one call leaves of the rest.
LEMMA OtherSends ==
  ASSUME ApiInv, NEW s \in Sends,
         \A x \in Sends \ {s} :
           /\ handler'[x] = handler[x] /\ by'[x] = by[x] /\ row'[x] = row[x]
           /\ (x \in queued') = (x \in queued) /\ hurt'[x] = hurt[x],
         UNCHANGED stage, SendInv(s)'
  PROVE  \A x \in Sends : SendInv(x)'
<1> TAKE x \in Sends
<1>1. SendInv(x)
  BY DEF ApiInv
<1>2. CASE x = s
  BY <1>2
<1>3. CASE x # s
  BY <1>1, <1>3 DEF SendInv
<1> QED BY <1>2, <1>3

\* A step of one call leaves the schema and main alone, and comes after the
\* schema is complete.
LEMMA SendsAfterMigration ==
  ASSUME ApiInv, UNCHANGED <<stage, next, saw, applied>>,
         \A x \in Sends : handler'[x] # "none" => handler[x] # "none" \/ applied = All
  PROVE  MigrationInv'
  BY DEF ApiInv, MigrationInv, AppliedInOrder, ServesOnFullSchema

LEMMA SendPreserves ==
  ASSUME ApiInv, NEW s \in Sends, SendStep(s)
  PROVE  ApiInv'
<1> USE DEF ApiInv, Step
<1>0. SendInv(s)
  OBVIOUS
<1>1. CASE \E p \in Servers : Arrive(s, p)
  <2>1. PICK p \in Servers : Arrive(s, p)
    BY <1>1
  <2>2. TypeOK'
    BY <2>1 DEF Arrive, TypeOK, mains, InFlight, Procs
  <2>3. applied = All
    BY <2>1 DEF Arrive, MigrationInv, ServesOnFullSchema
  <2>4. MigrationInv'
    BY <2>1, <2>3, SendsAfterMigration DEF Arrive, mains
  <2>5. SendInv(s)'
    BY <1>0, <2>1 DEF Arrive, SendInv, TypeOK, mains, InFlight, Procs
  <2>6. \A x \in Sends : SendInv(x)'
    BY <2>1, <2>5, OtherSends DEF Arrive, mains, TypeOK
  <2> QED BY <2>2, <2>4, <2>6
<1>2. CASE InsertRow(s)
  <2>1. TypeOK'
    BY <1>2 DEF InsertRow, TypeOK, mains, InFlight, Over
  <2>2. MigrationInv'
    BY <1>2, SendsAfterMigration DEF InsertRow, mains, TypeOK
  <2>3. SendInv(s)'
    BY <1>0, <1>2 DEF InsertRow, SendInv, TypeOK, mains, InFlight
  <2>4. \A x \in Sends : SendInv(x)'
    BY <1>2, <2>3, OtherSends DEF InsertRow, mains, TypeOK
  <2> QED BY <2>1, <2>2, <2>4
<1>3. CASE PublishFails(s)
  <2>1. TypeOK'
    BY <1>3 DEF PublishFails, TypeOK, mains, InFlight, Over
  <2>2. MigrationInv'
    BY <1>3, SendsAfterMigration DEF PublishFails, mains, TypeOK
  <2>3. SendInv(s)'
    BY <1>0, <1>3 DEF PublishFails, SendInv, TypeOK, mains, InFlight
  <2>4. \A x \in Sends : SendInv(x)'
    BY <1>3, <2>3, OtherSends DEF PublishFails, mains, TypeOK
  <2> QED BY <2>1, <2>2, <2>4
<1>4. CASE Publish(s)
  <2>1. TypeOK'
    BY <1>4 DEF Publish, TypeOK, mains, InFlight, Over
  <2>2. MigrationInv'
    BY <1>4, SendsAfterMigration DEF Publish, mains, TypeOK
  <2>3. SendInv(s)'
    BY <1>0, <1>4 DEF Publish, SendInv, TypeOK, mains, InFlight
  <2>4. \A x \in Sends : SendInv(x)'
    BY <1>4, <2>3, OtherSends DEF Publish, mains, TypeOK
  <2> QED BY <2>1, <2>2, <2>4
<1>5. CASE PublishIntoVoid(s)
  <2>1. TypeOK'
    <3>1. hurt' \in [Sends -> SUBSET Harms] /\ budget' \in 0..MaxFaults
      BY <1>5 DEF PublishIntoVoid, TypeOK, Fails, Befalls, Harms
    <3>2. handler' \in [Sends -> {"none"} \cup InFlight \cup Over]
      BY <1>5 DEF PublishIntoVoid, TypeOK, InFlight
    <3> QED BY <1>5, <3>1, <3>2 DEF PublishIntoVoid, TypeOK, mains
  <2>2. MigrationInv'
    BY <1>5, SendsAfterMigration DEF PublishIntoVoid, mains, TypeOK
  <2>3. SendInv(s)'
    BY <1>0, <1>5 DEF PublishIntoVoid, SendInv, TypeOK, mains, InFlight, Fails, Befalls
  <2>4. \A x \in Sends : SendInv(x)'
    BY <1>5, <2>3, OtherSends DEF PublishIntoVoid, mains, TypeOK, Fails, Befalls
  <2> QED BY <2>1, <2>2, <2>4
<1>6. CASE MarkRow(s)
  <2>1. TypeOK'
    BY <1>6 DEF MarkRow, TypeOK, mains, InFlight, Over
  <2>2. MigrationInv'
    BY <1>6, SendsAfterMigration DEF MarkRow, mains, TypeOK
  <2>3. SendInv(s)'
    BY <1>0, <1>6 DEF MarkRow, SendInv, TypeOK, mains, InFlight
  <2>4. \A x \in Sends : SendInv(x)'
    BY <1>6, <2>3, OtherSends DEF MarkRow, mains, TypeOK
  <2> QED BY <2>1, <2>2, <2>4
<1>7. CASE StatementFails(s)
  <2>1. TypeOK'
    <3>1. hurt' \in [Sends -> SUBSET Harms] /\ budget' \in 0..MaxFaults
      BY <1>7 DEF StatementFails, TypeOK, Fails, Befalls, Harms
    <3>2. handler' \in [Sends -> {"none"} \cup InFlight \cup Over]
      BY <1>7 DEF StatementFails, TypeOK, InFlight
    <3> QED BY <1>7, <3>1, <3>2 DEF StatementFails, TypeOK, mains
  <2>2. MigrationInv'
    BY <1>7, SendsAfterMigration DEF StatementFails, mains, TypeOK
  <2>3. SendInv(s)'
    <3>1. /\ handler[s] \in {"insert", "mark"} /\ handler'[s] = "refuse"
          /\ UNCHANGED <<stage, by, row, queued>>
      BY <1>7 DEF StatementFails, TypeOK, mains
    <3>2. hurt'[s] # {}
      <4>1. CASE ~PoolOpen(by[s])
        BY <1>0, <1>7, <3>1, <4>1 DEF StatementFails, SendInv, InFlight, PoolOpen
      <4>2. CASE PoolOpen(by[s])
        BY <1>7, <4>2 DEF StatementFails, Befalls, TypeOK
      <4> QED BY <4>1, <4>2
    <3> QED BY <1>0, <3>1, <3>2 DEF SendInv, InFlight
  <2>4. \A x \in Sends : SendInv(x)'
    BY <1>7, <2>3, OtherSends DEF StatementFails, mains, TypeOK, Fails, Befalls, PoolOpen
  <2> QED BY <2>1, <2>2, <2>4
<1>8. CASE Answer(s)
  <2>1. TypeOK'
    BY <1>8 DEF Answer, TypeOK, mains, InFlight, Over
  <2>2. MigrationInv'
    BY <1>8, SendsAfterMigration DEF Answer, mains, TypeOK
  <2>3. SendInv(s)'
    BY <1>0, <1>8 DEF Answer, SendInv, TypeOK, mains, InFlight
  <2>4. \A x \in Sends : SendInv(x)'
    BY <1>8, <2>3, OtherSends DEF Answer, mains, TypeOK
  <2> QED BY <2>1, <2>2, <2>4
<1> QED BY <1>1, <1>2, <1>3, <1>4, <1>5, <1>6, <1>7, <1>8 DEF SendStep

-----------------------------------------------------------------------------

LEMMA ApiStep == ApiInv /\ [Next]_vars => ApiInv'
<1> SUFFICES ASSUME ApiInv, [Next]_vars
             PROVE  ApiInv'
  OBVIOUS
<1>1. CASE UNCHANGED vars
  <2>1. TypeOK' /\ MigrationInv'
    BY <1>1 DEF vars, mains, calls, ApiInv, TypeOK, MigrationInv, AppliedInOrder,
                ServesOnFullSchema
  <2>2. \A s \in Sends : SendInv(s)'
    BY <1>1, SendsUntouched DEF vars, mains, calls, ApiInv
  <2> QED BY <2>1, <2>2 DEF ApiInv
<1>2. ASSUME NEW p \in Procs, ProcStep(p) PROVE ApiInv'
  BY <1>2, MainPreserves, EndPreserves DEF ProcStep, Advance
<1>3. ASSUME NEW s \in Sends, SendStep(s) PROVE ApiInv'
  BY <1>3, SendPreserves
<1> QED BY <1>1, <1>2, <1>3 DEF Next

LEMMA ApiAlways == Spec => []ApiInv
  BY ApiInit, ApiStep, PTL DEF Spec

\* Every variable keeps its type.
THEOREM TypeCorrect == Spec => []TypeOK
<1>1. ApiInv => TypeOK
  BY DEF ApiInv
<1> QED BY <1>1, ApiAlways, PTL

\* Any number of processes may run the statements at the same time, fail each
\* other and die anywhere: what exists is what some first statements made.
\* (RunMigrations)
THEOREM OrderCorrect == Spec => []AppliedInOrder
<1>1. ApiInv => AppliedInOrder
  BY DEF ApiInv, MigrationInv
<1> QED BY <1>1, ApiAlways, PTL

\* No process serves, and no call runs, before the last statement.  (main)
THEOREM SchemaCorrect == Spec => []ServesOnFullSchema
<1>1. ApiInv => ServesOnFullSchema
  BY DEF ApiInv, MigrationInv
<1> QED BY <1>1, ApiAlways, PTL

\* A queued row that RabbitMQ never had is only left by a stop, a crash, a
\* failure of the database or an unconfirmed publication.  (Send)
THEOREM StrandedCorrect == Spec => []StrandedOnlyByHarm
<1>1. ApiInv => StrandedOnlyByHarm
  BY DEF ApiInv, SendInv, StrandedOnlyByHarm, Stranded, Over
<1> QED BY <1>1, ApiAlways, PTL

\* A message that was refused, or whose row is marked failed, is not on the
\* queue; one that was accepted is, unless its unconfirmed publication was lost
\* with the connection to RabbitMQ.  (Send)
THEOREM AnswerCorrect == Spec => []AnswerIsTrue
<1>1. ApiInv => AnswerIsTrue
  BY DEF ApiInv, SendInv, AnswerIsTrue
<1> QED BY <1>1, ApiAlways, PTL

-----------------------------------------------------------------------------
(* The race of the migrations *)

\* A step that runs no statement and takes nobody out of RunMigrations who was
\* ahead leaves the one who is.
LEMMA SurvivorStays ==
  ASSUME RaceHasSurvivor, NEW p \in Procs, UNCHANGED applied,
         budget' = MaxFaults => budget = MaxFaults,
         \A q \in Procs \ {p} : stage'[q] = stage[q] /\ next'[q] = next[q],
         stage[p] = "migrate" =>
           \/ next[p] \notin All \ applied
           \/ stage'[p] = "migrate" /\ next'[p] = next[p]
  PROVE  RaceHasSurvivor'
<1> SUFFICES ASSUME budget' = MaxFaults, applied \notin {{}, All}
             PROVE  \E q \in Procs : stage'[q] = "migrate" /\ next'[q] \in All \ applied
  BY DEF RaceHasSurvivor, All
<1>1. PICK q \in Procs : stage[q] = "migrate" /\ next[q] \in All \ applied
  BY DEF RaceHasSurvivor
<1> QED BY <1>1

\* The statement that the leader has run makes it the leader again, or was the
\* last; a statement that has been run before changes nothing.
LEMMA SurvivorAdvances ==
  ASSUME ApiInv, RaceHasSurvivor, NEW p \in Procs, EndStatement(p)
  PROVE  RaceHasSurvivor'
<1> DEFINE n == next[p]
<1>1. /\ n \in All /\ n \in Nat \ {0} /\ 1..(n - 1) \subseteq applied
      /\ applied \subseteq All
  BY DEF EndStatement, ApiInv, MigrationInv, TypeOK
<1>2. /\ stage[p] = "migrate" /\ applied' = applied \cup {n}
      /\ next' = [next EXCEPT ![p] = n + 1]
      /\ UNCHANGED <<stage, budget>>
  BY DEF EndStatement
<1>3. \A q \in Procs : next'[q] = IF q = p THEN n + 1 ELSE next[q]
  BY <1>2 DEF ApiInv, TypeOK
<1>4. CASE n \in applied
  <2>1. UNCHANGED applied
    BY <1>2, <1>4
  <2>2. n \notin All \ applied
    BY <1>4
  <2>3. \A q \in Procs \ {p} : stage'[q] = stage[q] /\ next'[q] = next[q]
    BY <1>2, <1>3
  <2> HIDE DEF n
  <2>4. stage[p] = "migrate" => next[p] \notin All \ applied
    BY <2>2 DEF n
  <2> QED BY <1>2, <2>1, <2>3, <2>4, SurvivorStays
<1>5. CASE n \notin applied
  <2> SUFFICES ASSUME applied' # All
               PROVE  \E q \in Procs : stage'[q] = "migrate" /\ next'[q] \in All \ applied'
    BY DEF RaceHasSurvivor, All
  <2>1. n + 1 \notin applied
    <3>1. \A i \in applied : 1..i \subseteq applied
      BY DEF ApiInv, MigrationInv, AppliedInOrder
    <3>2. n \in 1..(n + 1)
      BY <1>1
    <3> QED BY <1>5, <3>1, <3>2
  <2>2. n + 1 \in All
    <3>1. n \in 1..Statements /\ Statements \in Nat
      BY <1>1 DEF All
    <3>2. CASE n = Statements
      <4>1. 1..Statements \subseteq applied \cup {n}
        BY <1>1, <3>1, <3>2
      <4> QED BY <1>1, <1>2, <4>1 DEF All
    <3>3. CASE n # Statements
      BY <3>1, <3>3 DEF All
    <3> QED BY <3>2, <3>3
  <2>3. next'[p] = n + 1 /\ n + 1 \notin applied'
    BY <1>1, <1>2, <1>3, <2>1
  <2> QED BY <1>2, <2>2, <2>3
<1> QED BY <1>4, <1>5

SurvivorInv == ApiInv /\ RaceHasSurvivor

LEMMA SurvivorStep == SurvivorInv /\ [Next]_vars => SurvivorInv'
<1> SUFFICES ASSUME ApiInv, RaceHasSurvivor, [Next]_vars
             PROVE  RaceHasSurvivor'
  BY ApiStep DEF SurvivorInv
<1>0. /\ stage \in [Procs -> {"down", "connect", "migrate", "redis", "queue", "serve",
                              "closeQueue", "closeRedis", "closeDB", "exit"}]
      /\ next \in [Procs -> Nat \ {0}]
      /\ budget \in 0..MaxFaults
  BY DEF ApiInv, TypeOK
<1>1. ASSUME UNCHANGED <<stage, next, applied>>, budget' = MaxFaults => budget = MaxFaults
      PROVE  RaceHasSurvivor'
  BY <1>1 DEF RaceHasSurvivor, All
<1>2. CASE UNCHANGED vars
  BY <1>1, <1>2 DEF vars, mains
<1>3. ASSUME NEW s \in Sends, SendStep(s)
      PROVE  RaceHasSurvivor'
  <2>1. UNCHANGED <<stage, next, applied>>
    BY <1>3 DEF SendStep, Arrive, InsertRow, PublishFails, Publish, PublishIntoVoid,
                MarkRow, StatementFails, Answer, mains
  <2>2. budget' = budget \/ budget' = budget - 1
    BY <1>3 DEF SendStep, Arrive, InsertRow, PublishFails, Publish, PublishIntoVoid,
                MarkRow, StatementFails, Answer, Fails
  <2>3. budget' = MaxFaults => budget = MaxFaults
    BY <1>0, <2>2
  <2> QED BY <1>1, <2>1, <2>3
<1>4. ASSUME NEW p \in Procs, ProcStep(p)
      PROVE  RaceHasSurvivor'
  <2>1. CASE Start(p)
    <3>1. /\ stage[p] = "down" /\ UNCHANGED <<applied, budget>>
          /\ \A q \in Procs \ {p} : stage'[q] = stage[q] /\ next'[q] = next[q]
      BY <1>0, <2>1 DEF Start, Goto
    <3> QED BY <3>1, SurvivorStays
  <2>2. CASE ConnectDB(p) \/ ConnectRedis(p) \/ ConnectQueue(p) \/ Signal(p) \/ Exit(p)
    <3>1. /\ stage[p] # "migrate" /\ UNCHANGED <<next, applied, budget>>
          /\ \A q \in Procs \ {p} : stage'[q] = stage[q]
      BY <1>0, <2>2 DEF ConnectDB, ConnectRedis, ConnectQueue, Signal, Exit, Goto
    <3> QED BY <3>1, SurvivorStays
  <2>3. CASE Close(p)
    <3>1. /\ stage[p] # "migrate" /\ UNCHANGED <<next, applied, budget>>
      BY <2>3 DEF Close, After
    <3>2. stage' = [stage EXCEPT ![p] = After[stage[p]]]
      BY <2>3 DEF Close, Goto
    <3>3. \A q \in Procs \ {p} : stage'[q] = stage[q]
      BY <1>0, <3>2
    <3> QED BY <3>1, <3>3, SurvivorStays
  <2>4. CASE BeginStatement(p) \/ ShutdownReturns(p)
    BY <1>1, <2>4 DEF BeginStatement, ShutdownReturns
  <2>5. CASE EndStatement(p)
    BY <2>5, SurvivorAdvances
  <2>6. CASE FailStatement(p) \/ EndMigrations(p)
    <3>1. next[p] \notin All \ applied
      BY <2>6 DEF FailStatement, EndMigrations, LosesRace
    <3>2. /\ UNCHANGED <<next, applied, budget>>
          /\ \A q \in Procs \ {p} : stage'[q] = stage[q]
      BY <1>0, <2>6 DEF FailStatement, EndMigrations, Goto
    <3> QED BY <3>1, <3>2, SurvivorStays
  <2>7. CASE Die(p) \/ LoseLink(p)
    <3>1. budget' # MaxFaults
      BY <1>0, <2>7 DEF Die, LoseLink, Fails
    <3> QED BY <3>1 DEF RaceHasSurvivor
  <2> QED BY <1>4, <2>1, <2>2, <2>3, <2>4, <2>5, <2>6, <2>7 DEF ProcStep, Advance
<1> QED BY <1>2, <1>3, <1>4 DEF Next

\* Of the processes that run the statements at the same time, and fail each other,
\* there is always one that nobody can fail, until the schema is complete; the
\* core of RaceHasWinner.  (RunMigrations)
THEOREM SurvivorCorrect == Spec => []RaceHasSurvivor
<1>1. Init => SurvivorInv
  <2>1. Init => RaceHasSurvivor
    BY DEF Init, RaceHasSurvivor
  <2> QED BY <2>1, ApiInit DEF SurvivorInv
<1>2. Spec => []SurvivorInv
  BY <1>1, SurvivorStep, PTL DEF Spec
<1>3. SurvivorInv => RaceHasSurvivor
  BY DEF SurvivorInv
<1> QED BY <1>2, <1>3, PTL
=============================================================================
