--------------------------- MODULE ContactsProofs ---------------------------
(***************************************************************************)
(* Theorems about Contacts, for any pool, any number of calls and any      *)
(* failures.                                                               *)
(***************************************************************************)
EXTENDS Contacts, FiniteSetTheorems, TLAPS

USE PoolAssumption

\* Contacts are between users, nobody is his own: what List reads.
ContactsAreOthers ==
  \A p, q \in Phones : <<p, q>> \in contacts => p # q /\ {p, q} \subseteq users

\* Who calls is a user, and his rows are other users.
RowsAreOthers(r) ==
  /\ pc[r] # "idle" /\ kind[r] # "verify" => me[r] \in users
  /\ pc[r] = "insert" => kind[r] = "sync"
  /\ pc[r] \in {"scan", "insert"} => kind[r] # "verify"
  /\ pc[r] \in {"scan", "insert"} /\ kind[r] = "sync" => left[r] \subseteq users \ {me[r]}
  /\ pc[r] \in {"scan", "insert", "ok"} /\ kind[r] # "verify" =>
       result[r] \subseteq users \ {me[r]}

\* What AnswerIsWhole needs: what is told and what is left are the result, and
\* what Sync has passed is in the table.
RowsAreWhole(r) ==
  /\ pc[r] \in {"idle", "begin"} => told[r] = {}
  /\ pc[r] \in {"scan", "insert"} => told[r] \cup left[r] = result[r]
  /\ pc[r] = "scan" /\ kind[r] = "sync" /\ ~spoiled[r] => {me[r]} \X told[r] \subseteq contacts
  /\ pc[r] = "insert" /\ ~spoiled[r] => {me[r]} \X (told[r] \ left[r]) \subseteq contacts
  /\ pc[r] = "ok" /\ kind[r] # "verify" => told[r] \subseteq result[r]
  /\ pc[r] = "ok" /\ kind[r] # "verify" /\ ~spoiled[r] =>
       told[r] = result[r] /\ (kind[r] = "sync" => {me[r]} \X told[r] \subseteq contacts)

PoolInv == TypeOK /\ NoConnLeaks

RowInv == ContactsAreOthers /\ \A r \in Calls : RowsAreOthers(r) /\ RowsAreWhole(r)

LEMMA ContactsInit == Init => PoolInv /\ RowInv
<1> SUFFICES ASSUME Init PROVE PoolInv /\ RowInv
  OBVIOUS
<1>1. Someone \in Phones
  BY DEF Someone
<1>2. /\ alive \in [Calls -> BOOLEAN] /\ spoiled \in [Calls -> BOOLEAN]
  BY DEF Init
<1>3. TypeOK
  BY <1>1, <1>2 DEF Init, TypeOK
<1>4. NoConnLeaks
  BY DEF Init, NoConnLeaks
<1>5. ContactsAreOthers
  BY DEF Init, ContactsAreOthers
<1>6. \A r \in Calls : RowsAreOthers(r) /\ RowsAreWhole(r)
  BY DEF Init, RowsAreOthers, RowsAreWhole
<1> QED BY <1>3, <1>4, <1>5, <1>6 DEF PoolInv, RowInv

-----------------------------------------------------------------------------
(* The pool *)

LEMMA BudgetStep ==
  ASSUME TypeOK, NEW r \in Calls, Fails(r)
  PROVE  budget' \in 0..MaxFaults
  BY DEF TypeOK, Fails

\* Connections change hands only where a call begins or ends to read its rows.
LEMMA PoolUntouched ==
  ASSUME PoolInv, UNCHANGED rowsOf,
         \A r \in Calls : pc'[r] \in {"scan", "insert"} <=> pc[r] \in {"scan", "insert"}
  PROVE  NoConnLeaks'
  BY DEF PoolInv, NoConnLeaks, TypeOK

LEMMA PoolStep == ASSUME PoolInv, NEW r \in Calls, CallStep(r) PROVE PoolInv'
<1> USE DEF PoolInv, Step, request, tables
<1>1. CASE Arrive(r)
  <2>1. PICK k \in {"verify", "sync", "list"}, p \in Phones :
          kind' = [kind EXCEPT ![r] = k] /\ me' = [me EXCEPT ![r] = p]
    BY <1>1 DEF Arrive
  <2>2. TypeOK'
    BY <1>1, <2>1 DEF Arrive, TypeOK, InFlight
  <2> QED BY <1>1, <2>2, PoolUntouched DEF Arrive, TypeOK
<1>2. CASE Cancel(r)
  <2>1. alive' \in [Calls -> BOOLEAN] /\ spoiled' \in [Calls -> BOOLEAN]
    BY <1>2 DEF Cancel, TypeOK
  <2>2. TypeOK'
    BY <1>2, <2>1 DEF Cancel, TypeOK
  <2> QED BY <1>2, <2>2, PoolUntouched DEF Cancel
<1>3. CASE Verify(r)
  <2>1. TypeOK'
    BY <1>3 DEF Verify, TypeOK, Over
  <2> QED BY <1>3, <2>1, PoolUntouched DEF Verify, TypeOK
<1>4. CASE Query(r)
  <2>1. PICK c \in Conns : rowsOf[c] = Nobody /\ rowsOf' = [rowsOf EXCEPT ![c] = r]
    <3>1. (CHOOSE c \in Idle : TRUE) \in Idle
      BY <1>4 DEF Query, Acquires
    <3> QED BY <1>4, <3>1 DEF Query, Idle
  <2>2. PICK rows \in SUBSET Phones :
          left' = [left EXCEPT ![r] = rows] /\ result' = [result EXCEPT ![r] = rows]
    BY <1>4 DEF Query, Matching, ContactsOf
  <2>3. /\ pc[r] = "begin" /\ pc' = [pc EXCEPT ![r] = "scan"]
        /\ UNCHANGED <<users, contacts, kind, me, alive, told, spoiled, budget>>
    BY <1>4 DEF Query
  <2>4. TypeOK'
    BY <2>1, <2>2, <2>3 DEF TypeOK, InFlight
  <2>5. NoConnLeaks'
    <3>1. \A d \in Conns : rowsOf[d] # r
      BY <2>3 DEF NoConnLeaks, TypeOK
    <3>2. \A d \in Conns : rowsOf'[d] = IF d = c THEN r ELSE rowsOf[d]
      BY <2>1 DEF TypeOK
    <3>3. \A x \in Calls : pc'[x] = IF x = r THEN "scan" ELSE pc[x]
      BY <2>3 DEF TypeOK
    <3>4. \A d \in Conns : rowsOf'[d] # Nobody => pc'[rowsOf'[d]] \in {"scan", "insert"}
      BY <3>2, <3>3 DEF NoConnLeaks, TypeOK
    <3>5. \A d, e \in Conns : rowsOf'[d] = rowsOf'[e] => d = e \/ rowsOf'[d] = Nobody
      BY <3>1, <3>2 DEF NoConnLeaks
    <3>6. \A x \in Calls : pc'[x] \in {"scan", "insert"} => \E d \in Conns : rowsOf'[d] = x
      <4> SUFFICES ASSUME NEW x \in Calls, pc'[x] \in {"scan", "insert"}
                   PROVE  \E d \in Conns : rowsOf'[d] = x
        OBVIOUS
      <4>1. CASE x = r
        BY <3>2, <4>1
      <4>2. CASE x # r
        <5>1. PICK d \in Conns : rowsOf[d] = x
          BY <3>3, <4>2 DEF NoConnLeaks
        <5>2. d # c
          BY <2>1, <5>1
        <5> QED BY <3>2, <5>1, <5>2
      <4> QED BY <4>1, <4>2
    <3> QED BY <3>4, <3>5, <3>6 DEF NoConnLeaks
  <2> QED BY <2>4, <2>5
<1>5. CASE Refuse(r)
  <2>1. TypeOK'
    BY <1>5, BudgetStep DEF Refuse, TypeOK, Over
  <2> QED BY <1>5, <2>1, PoolUntouched DEF Refuse, TypeOK
<1>6. CASE NextRow(r)
  <2>1. PICK p \in left[r] :
          /\ told' = [told EXCEPT ![r] = @ \cup {p}]
          /\ \/ pc' = [pc EXCEPT ![r] = "insert"] /\ left' = left
             \/ pc' = pc /\ left' = [left EXCEPT ![r] = @ \ {p}]
    BY <1>6 DEF NextRow
  <2>2. told' \in [Calls -> SUBSET Phones] /\ left' \in [Calls -> SUBSET Phones]
    BY <2>1 DEF TypeOK
  <2>3. pc' \in [Calls -> {"idle"} \cup InFlight \cup Over]
    BY <2>1 DEF TypeOK, InFlight
  <2>4. TypeOK'
    BY <1>6, <2>2, <2>3 DEF NextRow, TypeOK
  <2> QED BY <1>6, <2>1, <2>4, PoolUntouched DEF NextRow, TypeOK
<1>7. CASE Insert(r)
  <2>1. contacts' \subseteq Phones \X Phones
    BY <1>7 DEF Insert, TypeOK
  <2>2. TypeOK'
    BY <1>7, <2>1 DEF Insert, PassRow, TypeOK, InFlight
  <2> QED BY <1>7, <2>2, PoolUntouched DEF Insert, TypeOK
<1>8. CASE InsertFails(r)
  <2>1. spoiled' \in [Calls -> BOOLEAN]
    BY <1>8 DEF InsertFails, TypeOK
  <2>2. TypeOK'
    BY <1>8, <2>1, BudgetStep DEF InsertFails, PassRow, TypeOK, InFlight
  <2> QED BY <1>8, <2>2, PoolUntouched DEF InsertFails, TypeOK
<1>9. CASE EndRows(r)
  <2>1. spoiled' \in [Calls -> BOOLEAN]
    BY <1>9 DEF EndRows, TypeOK
  <2>2. budget' \in 0..MaxFaults
    BY <1>9, BudgetStep DEF EndRows, TypeOK
  <2>3. TypeOK'
    BY <1>9, <2>1, <2>2 DEF EndRows, Release, TypeOK, Over
  <2>4. NoConnLeaks'
    BY <1>9 DEF EndRows, Release, NoConnLeaks, TypeOK
  <2> QED BY <2>3, <2>4
<1>10. CASE Forget(r)
  <2>1. alive' \in [Calls -> BOOLEAN] /\ spoiled' \in [Calls -> BOOLEAN]
    BY <1>10 DEF Forget, TypeOK
  <2>2. Someone \in Phones
    BY DEF Someone
  <2>3. TypeOK'
    BY <1>10, <2>1, <2>2 DEF Forget, TypeOK
  <2> QED BY <1>10, <2>3, PoolUntouched DEF Forget, TypeOK, Over
<1> QED BY <1>1, <1>2, <1>3, <1>4, <1>5, <1>6, <1>7, <1>8, <1>9, <1>10 DEF CallStep

-----------------------------------------------------------------------------
(* The rows *)

\* What a step of one call leaves of the others, tables only growing.
LEMMA OtherCalls ==
  ASSUME PoolInv, RowInv, NEW r \in Calls,
         \A x \in Calls \ {r} :
           /\ pc'[x] = pc[x] /\ kind'[x] = kind[x] /\ me'[x] = me[x]
           /\ left'[x] = left[x] /\ told'[x] = told[x]
           /\ result'[x] = result[x] /\ spoiled'[x] = spoiled[x],
         users \subseteq users', contacts \subseteq contacts',
         RowsAreOthers(r)', RowsAreWhole(r)', ContactsAreOthers'
  PROVE  RowInv'
<1> SUFFICES ASSUME NEW x \in Calls PROVE RowsAreOthers(x)' /\ RowsAreWhole(x)'
  BY DEF RowInv
<1>1. CASE x = r
  BY <1>1
<1>2. CASE x # r
  <2>1. RowsAreOthers(x) /\ RowsAreWhole(x)
    BY DEF RowInv
  <2>2. RowsAreOthers(x)'
    BY <1>2, <2>1 DEF RowsAreOthers
  <2>3. RowsAreWhole(x)'
    BY <1>2, <2>1 DEF RowsAreWhole
  <2> QED BY <2>2, <2>3
<1> QED BY <1>1, <1>2

LEMMA ContactsKept ==
  ASSUME RowInv, users \subseteq users', UNCHANGED contacts
  PROVE  ContactsAreOthers'
  BY DEF RowInv, ContactsAreOthers

LEMMA RowStep == ASSUME PoolInv, RowInv, NEW r \in Calls, CallStep(r) PROVE RowInv'
<1> USE DEF Step, request, tables
<1>0. TypeOK /\ RowsAreOthers(r) /\ RowsAreWhole(r)
  BY DEF PoolInv, RowInv
<1>1. CASE Arrive(r)
  <2>1. RowsAreOthers(r)'
    BY <1>0, <1>1 DEF Arrive, RowsAreOthers, TypeOK
  <2>2. RowsAreWhole(r)'
    BY <1>0, <1>1 DEF Arrive, RowsAreWhole, RowsAreOthers, TypeOK
  <2> QED BY <1>0, <1>1, <2>1, <2>2, OtherCalls, ContactsKept DEF Arrive, TypeOK
<1>2. CASE Cancel(r)
  <2>1. RowsAreOthers(r)'
    BY <1>0, <1>2 DEF Cancel, RowsAreOthers, TypeOK, InFlight
  <2>2. RowsAreWhole(r)'
    BY <1>0, <1>2 DEF Cancel, RowsAreWhole, RowsAreOthers, TypeOK, InFlight
  <2> QED BY <1>0, <1>2, <2>1, <2>2, OtherCalls, ContactsKept DEF Cancel, TypeOK, InFlight
<1>3. CASE Verify(r)
  <2>1. RowsAreOthers(r)'
    BY <1>0, <1>3 DEF Verify, RowsAreOthers, TypeOK
  <2>2. RowsAreWhole(r)'
    BY <1>0, <1>3 DEF Verify, RowsAreWhole, RowsAreOthers, TypeOK
  <2> QED BY <1>0, <1>3, <2>1, <2>2, OtherCalls, ContactsKept DEF Verify, TypeOK
<1>4. CASE Query(r)
  <2>1. RowsAreOthers(r)'
    <3>1. /\ kind[r] # "verify" /\ pc[r] = "begin" /\ pc'[r] = "scan"
          /\ UNCHANGED <<users, kind, me>>
      BY <1>0, <1>4 DEF Query, TypeOK
    <3>2. kind[r] = "sync" => left'[r] \subseteq users \ {me[r]}
      BY <1>0, <1>4 DEF Query, Matching, TypeOK
    <3>3. result'[r] \subseteq users \ {me[r]}
      <4>1. CASE kind[r] = "sync"
        BY <1>0, <1>4, <4>1 DEF Query, Matching, TypeOK
      <4>2. CASE kind[r] # "sync"
        <5>1. kind[r] = "list" /\ me[r] \in Phones
          BY <1>0, <3>1, <4>2 DEF TypeOK
        <5>2. result'[r] = ContactsOf(me[r])
          BY <1>0, <1>4, <5>1 DEF Query, TypeOK
        <5> QED BY <5>1, <5>2 DEF RowInv, ContactsAreOthers, ContactsOf
      <4> QED BY <4>1, <4>2
    <3> QED BY <1>0, <3>1, <3>2, <3>3 DEF RowsAreOthers
  <2>2. RowsAreWhole(r)'
    BY <1>0, <1>4 DEF Query, RowsAreWhole, RowsAreOthers, TypeOK, Matching, ContactsOf
  <2> QED BY <1>0, <1>4, <2>1, <2>2, OtherCalls, ContactsKept DEF Query, TypeOK, Matching, ContactsOf
<1>5. CASE Refuse(r)
  <2>1. RowsAreOthers(r)'
    BY <1>0, <1>5 DEF Refuse, RowsAreOthers, TypeOK
  <2>2. RowsAreWhole(r)'
    BY <1>0, <1>5 DEF Refuse, RowsAreWhole, RowsAreOthers, TypeOK
  <2> QED BY <1>0, <1>5, <2>1, <2>2, OtherCalls, ContactsKept DEF Refuse, TypeOK
<1>6. CASE NextRow(r)
  <2>1. RowsAreOthers(r)'
    BY <1>0, <1>6 DEF NextRow, RowsAreOthers, TypeOK
  <2>2. RowsAreWhole(r)'
    BY <1>0, <1>6 DEF NextRow, RowsAreWhole, RowsAreOthers, TypeOK
  <2> QED BY <1>0, <1>6, <2>1, <2>2, OtherCalls, ContactsKept DEF NextRow, TypeOK
<1>7. CASE Insert(r)
  <2>1. ContactsAreOthers'
    <3>1. pc[r] = "insert" /\ me[r] \in users /\ left[r] \subseteq users \ {me[r]}
      BY <1>0, <1>7 DEF Insert, RowsAreOthers
    <3>2. users' = users /\ contacts' = contacts \cup ({me[r]} \X (left[r] \cap told[r]))
      BY <1>7 DEF Insert
    <3> QED BY <3>1, <3>2 DEF RowInv, ContactsAreOthers
  <2>2. RowsAreOthers(r)'
    BY <1>0, <1>7 DEF Insert, PassRow, RowsAreOthers, TypeOK
  <2>3. RowsAreWhole(r)'
    <3>1. /\ pc[r] = "insert" /\ pc'[r] = "scan"
          /\ told'[r] = told[r] /\ left'[r] = left[r] \ told[r]
          /\ me'[r] = me[r] /\ spoiled'[r] = spoiled[r] /\ result'[r] = result[r]
          /\ contacts' = contacts \cup ({me[r]} \X (left[r] \cap told[r]))
      BY <1>0, <1>7 DEF Insert, PassRow, TypeOK
    <3> QED BY <1>0, <3>1 DEF RowsAreWhole
  <2> QED BY <1>0, <1>7, <2>1, <2>2, <2>3, OtherCalls DEF Insert, PassRow, TypeOK
<1>8. CASE InsertFails(r)
  <2>1. RowsAreOthers(r)'
    BY <1>0, <1>8 DEF InsertFails, RowsAreOthers, TypeOK, PassRow
  <2>2. RowsAreWhole(r)'
    BY <1>0, <1>8 DEF InsertFails, RowsAreWhole, RowsAreOthers, TypeOK, PassRow
  <2> QED BY <1>0, <1>8, <2>1, <2>2, OtherCalls, ContactsKept DEF InsertFails, TypeOK, PassRow
<1>9. CASE EndRows(r)
  <2>1. RowsAreOthers(r)'
    BY <1>0, <1>9 DEF EndRows, RowsAreOthers, TypeOK
  <2>2. RowsAreWhole(r)'
    BY <1>0, <1>9 DEF EndRows, RowsAreWhole, RowsAreOthers, TypeOK
  <2> QED BY <1>0, <1>9, <2>1, <2>2, OtherCalls, ContactsKept DEF EndRows, TypeOK
<1>10. CASE Forget(r)
  <2>1. RowsAreOthers(r)'
    BY <1>0, <1>10 DEF Forget, RowsAreOthers, TypeOK, Over
  <2>2. RowsAreWhole(r)'
    BY <1>0, <1>10 DEF Forget, RowsAreWhole, RowsAreOthers, TypeOK, Over
  <2> QED BY <1>0, <1>10, <2>1, <2>2, OtherCalls, ContactsKept DEF Forget, TypeOK, Over
<1> QED BY <1>1, <1>2, <1>3, <1>4, <1>5, <1>6, <1>7, <1>8, <1>9, <1>10 DEF CallStep

-----------------------------------------------------------------------------

LEMMA ContactsStep == PoolInv /\ RowInv /\ [Next]_vars => PoolInv' /\ RowInv'
<1> SUFFICES ASSUME PoolInv, RowInv, [Next]_vars
             PROVE  PoolInv' /\ RowInv'
  OBVIOUS
<1>1. CASE UNCHANGED vars
  <2>1. PoolInv'
    BY <1>1 DEF vars, tables, request, PoolInv, TypeOK, NoConnLeaks
  <2>2. RowInv'
    BY <1>1 DEF vars, tables, request, RowInv, ContactsAreOthers, RowsAreOthers,
                RowsAreWhole
  <2> QED BY <2>1, <2>2
<1> QED BY <1>1, PoolStep, RowStep DEF Next

LEMMA ContactsAlways == Spec => [](PoolInv /\ RowInv)
  BY ContactsInit, ContactsStep, PTL DEF Spec

\* Every variable keeps its type.
THEOREM TypeCorrect == Spec => []TypeOK
<1>1. PoolInv /\ RowInv => TypeOK
  BY DEF PoolInv
<1> QED BY <1>1, ContactsAlways, PTL

\* A connection is with a call exactly while it reads its rows.  (Sync, List)
THEOREM PoolCorrect == Spec => []NoConnLeaks
<1>1. PoolInv /\ RowInv => NoConnLeaks
  BY DEF PoolInv
<1> QED BY <1>1, ContactsAlways, PTL

\* The table contacts has users and never a user as his own contact.  (Sync)
THEOREM OthersCorrect == Spec => []ContactsAreOthers
<1>1. PoolInv /\ RowInv => ContactsAreOthers
  BY DEF RowInv
<1> QED BY <1>1, ContactsAlways, PTL

\* An answer is of other users, and without a failure all that was found, and is
\* stored.  (Sync, List)
THEOREM WholeCorrect == Spec => []AnswerIsWhole
<1>1. PoolInv /\ RowInv => AnswerIsWhole
  BY DEF RowInv, RowsAreOthers, RowsAreWhole, AnswerIsWhole
<1> QED BY <1>1, ContactsAlways, PTL

\* In a jam every connection is with a call between a row and its INSERT, and no
\* two with one: the connections map one to one into those calls.
LEMMA JamBound == PoolInv => JamNeedsFullPool
<1> SUFFICES ASSUME PoolInv, NEW w \in Calls, Waits(w), \A r \in Calls : ~CanMove(r)
             PROVE  Cardinality(Inserting) >= Cardinality(Conns)
  BY DEF JamNeedsFullPool
<1>1. Idle = {}
  BY DEF Waits, CanMove, InFlight, Acquires
<1>2. \A c \in Conns : rowsOf[c] # Nobody
  BY <1>1 DEF Idle
<1>3. \A c \in Conns : rowsOf[c] \in Inserting
  BY <1>2 DEF PoolInv, TypeOK, NoConnLeaks, CanMove, Inserting
<1>4. rowsOf \in Injection(Conns, Inserting)
  BY <1>2, <1>3 DEF PoolInv, TypeOK, NoConnLeaks, Injection, IsInjective
<1>5. Inserting \in SUBSET Calls
  BY DEF Inserting
<1>6. IsFiniteSet(Inserting)
  BY <1>5, FS_Subset
<1>7. Cardinality(Conns) <= Cardinality(Inserting)
  BY <1>4, <1>6, FS_Injection
<1>8. Cardinality(Conns) \in Nat /\ Cardinality(Inserting) \in Nat
  BY <1>6, FS_CardinalityType
<1> QED BY <1>7, <1>8

\* The API stands still over its pool only when as many Syncs as the pool has
\* connections wait for one more.  (Sync)
THEOREM JamCorrect == Spec => []JamNeedsFullPool
<1>1. PoolInv /\ RowInv => JamNeedsFullPool
  BY JamBound
<1> QED BY <1>1, ContactsAlways, PTL
=============================================================================
