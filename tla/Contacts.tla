------------------------------ MODULE Contacts ------------------------------
(***************************************************************************)
(* Login (FirebaseVerify) and contacts (Sync, List) over the connection    *)
(* pool of the API process.  Query keeps a connection until its last row   *)
(* has been read; Sync needs a second connection for the INSERT it makes   *)
(* for each row.  A statement without rows, once it has a connection, uses *)
(* it and gives it back in one step.                                       *)
(*                                                                         *)
(* A user is his phone number: the upsert of FirebaseVerify gives a number *)
(* one row of users, and no row is ever deleted.                           *)
(***************************************************************************)
EXTENDS Naturals, FiniteSets

CONSTANTS
  Phones,     \* phone numbers
  Conns,      \* connections of the pool (20)
  Calls,      \* handlers at work at a time
  Nobody,     \* the owner of an idle connection
  MaxFaults   \* bound: failures of the database

ASSUME PoolAssumption ==
  /\ IsFiniteSet(Conns) /\ IsFiniteSet(Calls)
  /\ Nobody \notin Calls /\ Phones # {} /\ MaxFaults \in Nat

VARIABLES
  users,      \* table users
  contacts,   \* table contacts
  rowsOf,     \* rowsOf[c]: the call that reads its rows from connection c
  kind,       \* kind[r]: the handler of call r
  me,         \* me[r]: who calls: the claims, or the number being verified
  pc,         \* pc[r]: the next statement of the handler, or how it ended
  alive,      \* alive[r]: the context of the request
  left,       \* left[r]: rows the cursor has not passed
  told,       \* told[r]: what the answer will list
  result,     \* ghost: result[r]: what the SELECT found
  spoiled,    \* ghost: spoiled[r]: a failure or a cancellation has hit r
  budget      \* failures left

request == <<kind, me, result>>
tables == <<users, contacts>>
vars == <<tables, rowsOf, request, pc, alive, left, told, spoiled, budget>>

InFlight == {"begin", "scan", "insert"}
Over == {"ok", "error"}

TypeOK ==
  /\ users \subseteq Phones
  /\ contacts \subseteq Phones \X Phones
  /\ rowsOf \in [Conns -> Calls \cup {Nobody}]
  /\ kind \in [Calls -> {"verify", "sync", "list"}]
  /\ me \in [Calls -> Phones]
  /\ pc \in [Calls -> {"idle"} \cup InFlight \cup Over]
  /\ alive \in [Calls -> BOOLEAN]
  /\ left \in [Calls -> SUBSET Phones]
  /\ told \in [Calls -> SUBSET Phones]
  /\ result \in [Calls -> SUBSET Phones]
  /\ spoiled \in [Calls -> BOOLEAN]
  /\ budget \in 0..MaxFaults

Someone == CHOOSE p \in Phones : TRUE

Init ==
  /\ users = {} /\ contacts = {}
  /\ rowsOf = [c \in Conns |-> Nobody]
  /\ kind = [r \in Calls |-> "verify"]
  /\ me = [r \in Calls |-> Someone]
  /\ pc = [r \in Calls |-> "idle"]
  /\ alive = [r \in Calls |-> TRUE]
  /\ left = [r \in Calls |-> {}]
  /\ told = [r \in Calls |-> {}]
  /\ result = [r \in Calls |-> {}]
  /\ spoiled = [r \in Calls |-> FALSE]
  /\ budget = MaxFaults

-----------------------------------------------------------------------------

Idle == {c \in Conns : rowsOf[c] = Nobody}
Acquires == Idle # {}

\* A call of the pool or the database fails: the context is cancelled, or the
\* database is at fault.
Fails(r) == \/ ~alive[r] /\ UNCHANGED budget
            \/ budget > 0 /\ budget' = budget - 1

Step(r, from, to) == pc[r] = from /\ pc' = [pc EXCEPT ![r] = to]

\* A request with a token, which only FirebaseVerify hands out, or to it.
Arrive(r) ==
  /\ Step(r, "idle", "begin")
  /\ \E k \in {"verify", "sync", "list"}, p \in Phones :
       /\ k = "verify" \/ p \in users
       /\ kind' = [kind EXCEPT ![r] = k]
       /\ me' = [me EXCEPT ![r] = p]
  /\ UNCHANGED <<tables, rowsOf, alive, left, told, result, spoiled, budget>>

\* The client leaves, or net/http cancels the context when the ReadTimeout of
\* the server is over.
Cancel(r) ==
  /\ pc[r] \in InFlight /\ alive[r]
  /\ alive' = [alive EXCEPT ![r] = FALSE]
  /\ spoiled' = [spoiled EXCEPT ![r] = TRUE]
  /\ UNCHANGED <<tables, rowsOf, request, pc, left, told, budget>>

\* Mutation: a token without a number is let in.
VerifyAnonymous(r) ==
  /\ kind[r] = "verify" /\ alive[r] /\ Acquires /\ Step(r, "begin", "ok")
  /\ users' = users \cup {Nobody}
  /\ UNCHANGED <<contacts, rowsOf, request, alive, left, told, spoiled, budget>>

\* The upsert of FirebaseVerify.
Verify(r) ==
  /\ kind[r] = "verify" /\ alive[r] /\ Acquires /\ Step(r, "begin", "ok")
  /\ users' = users \cup {me[r]}
  /\ UNCHANGED <<contacts, rowsOf, request, alive, left, told, spoiled, budget>>

\* The rows a handler asks for: the users with one of the numbers sent, without
\* the caller, or the caller's contacts.
Matching(r, numbers) == (numbers \cap users) \ {me[r]}
ContactsOf(p) == {q \in Phones : <<p, q>> \in contacts}

Query(r) ==
  /\ kind[r] # "verify" /\ alive[r] /\ Step(r, "begin", "scan")
  /\ Acquires /\ rowsOf' = [rowsOf EXCEPT ![CHOOSE c \in Idle : TRUE] = r]
  /\ \E rows \in IF kind[r] = "list" THEN {ContactsOf(me[r])}
                 ELSE {Matching(r, numbers) : numbers \in SUBSET Phones \ {{}}} :
       /\ left' = [left EXCEPT ![r] = rows]
       /\ result' = [result EXCEPT ![r] = rows]
  /\ UNCHANGED <<tables, kind, me, alive, told, spoiled, budget>>

\* The first statement fails: 500.
Refuse(r) ==
  /\ Step(r, "begin", "error") /\ Fails(r)
  /\ UNCHANGED <<tables, rowsOf, request, alive, left, told, spoiled>>

\* rows.Next and Scan.  List goes on to the next row; Sync has an INSERT to
\* make first, and until then the row is both told and left.
NextRow(r) ==
  /\ pc[r] = "scan"
  /\ \E p \in left[r] :
       /\ told' = [told EXCEPT ![r] = @ \cup {p}]
       /\ IF kind[r] = "sync"
          THEN pc' = [pc EXCEPT ![r] = "insert"] /\ left' = left
          ELSE pc' = pc /\ left' = [left EXCEPT ![r] = @ \ {p}]
  /\ UNCHANGED <<tables, rowsOf, request, alive, spoiled, budget>>

PassRow(r) == left' = [left EXCEPT ![r] = @ \ told[r]]

\* Mutation: the arguments of the INSERT are swapped.
InsertSwapped(r) ==
  /\ alive[r] /\ Acquires /\ Step(r, "insert", "scan")
  /\ contacts' = contacts \cup ((left[r] \cap told[r]) \X {me[r]})
  /\ PassRow(r)
  /\ UNCHANGED <<users, rowsOf, request, alive, told, spoiled, budget>>

\* INSERT INTO contacts, on a second connection.
Insert(r) ==
  /\ alive[r] /\ Acquires /\ Step(r, "insert", "scan")
  /\ contacts' = contacts \cup ({me[r]} \X (left[r] \cap told[r]))
  /\ PassRow(r)
  /\ UNCHANGED <<users, rowsOf, request, alive, told, spoiled, budget>>

\* Mutation: the INSERT does not use the context of the request.
InsertFailsDetached(r) ==
  /\ Step(r, "insert", "scan") /\ budget > 0 /\ budget' = budget - 1
  /\ PassRow(r)
  /\ spoiled' = [spoiled EXCEPT ![r] = TRUE]
  /\ UNCHANGED <<tables, rowsOf, request, alive, told>>

\* Its error is dropped and the row stays in the answer.
InsertFails(r) ==
  /\ Step(r, "insert", "scan") /\ Fails(r)
  /\ PassRow(r)
  /\ spoiled' = [spoiled EXCEPT ![r] = TRUE]
  /\ UNCHANGED <<tables, rowsOf, request, alive, told>>

\* Mutation: the last row does not give the connection back.
KeepConn(r) == rowsOf' = rowsOf

\* Mutation: an error of the cursor does not give it back.
KeepOnError(r) ==
  rowsOf' = [c \in Conns |-> IF rowsOf[c] = r /\ left[r] = {} THEN Nobody ELSE rowsOf[c]]

\* The connection goes back to the pool when rows.Next returns false.
Release(r) ==
  rowsOf' = [c \in Conns |-> IF rowsOf[c] = r THEN Nobody ELSE rowsOf[c]]

\* rows.Next returns false, after the last row or for an error that nobody asks
\* for; the answer is 200.
EndRows(r) ==
  /\ Step(r, "scan", "ok") /\ Release(r)
  /\ \/ left[r] = {} /\ UNCHANGED <<spoiled, budget>>
     \/ left[r] # {} /\ Fails(r) /\ spoiled' = [spoiled EXCEPT ![r] = TRUE]
  /\ UNCHANGED <<tables, request, alive, left, told>>

\* The call is over, its slot free for another.
Forget(r) ==
  /\ pc[r] \in Over /\ pc' = [pc EXCEPT ![r] = "idle"]
  /\ alive' = [alive EXCEPT ![r] = TRUE]
  /\ left' = [left EXCEPT ![r] = {}]
  /\ told' = [told EXCEPT ![r] = {}]
  /\ result' = [result EXCEPT ![r] = {}]
  /\ spoiled' = [spoiled EXCEPT ![r] = FALSE]
  /\ kind' = [kind EXCEPT ![r] = "verify"]
  /\ me' = [me EXCEPT ![r] = Someone]
  /\ UNCHANGED <<tables, rowsOf, budget>>

-----------------------------------------------------------------------------

CallStep(r) ==
  \/ Arrive(r) \/ Cancel(r) \/ Verify(r) \/ Query(r) \/ Refuse(r) \/ NextRow(r)
  \/ Insert(r) \/ InsertFails(r) \/ EndRows(r) \/ Forget(r)

Next == \E r \in Calls : CallStep(r)

Spec == Init /\ [][Next]_vars

\* Handlers go on; the pool serves those that wait in turn (strong fairness); a
\* context does not outlive the ReadTimeout, and a call whose context is over
\* returns an error.
Fairness == \A r \in Calls :
  /\ SF_vars(Verify(r) \/ Query(r) \/ Insert(r))
  /\ WF_vars(NextRow(r) \/ EndRows(r))
  /\ WF_vars(Cancel(r))
  /\ WF_vars((Refuse(r) \/ InsertFails(r)) /\ ~alive[r])

FairSpec == Spec /\ Fairness

-----------------------------------------------------------------------------
(* Properties *)

\* A connection is with a call exactly while it reads its rows, whatever fails
\* or is cancelled on the way, and no call has two of them. (contacts.go:51)
NoConnLeaks ==
  /\ \A c \in Conns : rowsOf[c] # Nobody => pc[rowsOf[c]] \in {"scan", "insert"}
  /\ \A c, d \in Conns : rowsOf[c] = rowsOf[d] => c = d \/ rowsOf[c] = Nobody
  /\ \A r \in Calls : pc[r] \in {"scan", "insert"} => \E c \in Conns : rowsOf[c] = r

\* A call that can go on with no failure and no cancellation.
CanMove(r) == pc[r] = "scan" \/ (pc[r] \in {"begin", "insert"} /\ alive[r] /\ Acquires)
Inserting == {r \in Calls : pc[r] = "insert"}
Waits(r) == pc[r] \in InFlight /\ alive[r]

\* Sync waits for a connection while it has one.  The whole API stands still,
\* with nothing but cancellations to end it, only when as many Syncs as the
\* pool has connections are between a row and its INSERT. (contacts.go:62)
JamNeedsFullPool ==
  (\E r \in Calls : Waits(r)) /\ (\A r \in Calls : ~CanMove(r)) =>
    Cardinality(Inserting) >= Cardinality(Conns)

\* An answer lists other users that its SELECT found, whatever has failed; unless
\* something has, all of them, and what Sync lists are contacts now.
\* (contacts.go:37-68)
AnswerIsWhole ==
  \A r \in Calls : pc[r] = "ok" /\ kind[r] # "verify" =>
    /\ told[r] \subseteq (result[r] \cap users) \ {me[r]}
    /\ ~spoiled[r] => told[r] = result[r]
    /\ ~spoiled[r] /\ kind[r] = "sync" => {me[r]} \X told[r] \subseteq contacts

\* Every call ends, even when Syncs have taken the pool from each other: the
\* end of their contexts lets the jam go. (contacts.go:62, main.go:78)
EveryCallEnds == \A r \in Calls : pc[r] \in InFlight ~> pc[r] \in Over
=============================================================================
