--------------------------- MODULE Conversations ----------------------------
(***************************************************************************)
(* What two users may rely on about their conversation and its takeover,   *)
(* without rows, ids and statements.  There is one conversation for each   *)
(* pair of users who have written to each other; nobody holds it, or one   *)
(* of the two does; and who holds it at one moment of a call decides       *)
(* whether the message of the call skips the bot of its recipient:         *)
(*                                                                         *)
(*  - it does if and only if the recipient holds the conversation then,    *)
(*    unless the decision itself fails, and then it does not;              *)
(*  - nothing changes the decision afterwards.                             *)
(***************************************************************************)
EXTENDS Naturals

CONSTANTS Users, Sends, Nobody

VARIABLES
  holder,    \* holder[p]: who holds the conversation of the users p
  message,   \* message[s]: the message of the call s
  faults     \* failures so far

vars == <<holder, message, faults>>

NoMessage == [step |-> "idle", from |-> Nobody, to |-> Nobody, skips |-> FALSE]

Init ==
  /\ holder = <<>>
  /\ message = [s \in Sends |-> NoMessage]
  /\ faults = 0

Failed == faults' = faults + 1

\* A first message begins the conversation, which nobody holds.  The call that
\* fails may have begun it.
Write(s, u, v) ==
  /\ message[s].step = "idle"
  /\ \/ message' = [message EXCEPT ![s] =
          [step |-> "read", from |-> u, to |-> v, skips |-> FALSE]]
     \/ Failed /\ UNCHANGED message
  /\ holder' = [p \in DOMAIN holder \cup {{u, v}} |->
                  IF p \in DOMAIN holder THEN holder[p] ELSE Nobody]

Decide(s) ==
  LET m == message[s] IN
  /\ m.step = "read"
  /\ \E skips \in BOOLEAN :
       /\ skips = (holder[{m.from, m.to}] = m.to) \/ (Failed /\ ~skips)
       /\ message' = [message EXCEPT ![s] =
            [step |-> "insert", from |-> m.from, to |-> m.to, skips |-> skips]]
  /\ UNCHANGED holder

Queue(s) ==
  /\ message[s].step = "insert"
  /\ message' = [message EXCEPT ![s].step = "queued"]
  /\ UNCHANGED holder

Handle(s) ==
  /\ message[s].step = "queued"
  /\ message' = [message EXCEPT ![s].step =
       IF message[s].skips THEN "skipped" ELSE "bot"]
  /\ UNCHANGED holder

Forget(s) ==
  /\ message[s].step \in {"bot", "skipped"}
  /\ message' = [message EXCEPT ![s] = NoMessage]
  /\ UNCHANGED holder

\* A conversation passes to one of the two, or to nobody.
Pass ==
  /\ UNCHANGED message
  /\ \E p \in DOMAIN holder : \E h \in p \cup {Nobody} :
       holder' = [holder EXCEPT ![p] = h]

\* Messages are lost before they are queued, and only by a failure.
Lose ==
  /\ Failed
  /\ \E S \in SUBSET {s \in Sends : message[s].step \in {"read", "insert"}} :
       message' = [s \in Sends |-> IF s \in S THEN NoMessage ELSE message[s]]
  /\ UNCHANGED holder

Next ==
  /\ faults' \in {faults, faults + 1}
  /\ \/ Pass
     \/ \E s \in Sends :
          \/ Decide(s) \/ Queue(s) \/ Handle(s) \/ Forget(s)
          \/ \E u, v \in Users : Write(s, u, v)
     \/ Lose

Spec == Init /\ [][Next]_vars
=============================================================================
