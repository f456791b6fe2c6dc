----------------------------- MODULE Lifecycle ------------------------------
(***************************************************************************)
(* What the platform promises about one message, without saying how: the   *)
(* status its row shows, the last status its participants were told, how   *)
(* often the recipient's bot was tried, how often it took the message, and *)
(* whether the sender was refused.                                         *)
(*                                                                         *)
(*  - "delivered" is only ever shown, or told, once the bot has taken the  *)
(*    message;                                                             *)
(*  - "failed" is only shown, or told, after MaxRetries tries, until the   *)
(*    first mishap of the database, which may hide the recipient's bot;    *)
(*    before any try it is shown to a sender who is refused;               *)
(*  - a refused message is never tried, never changes again and is never   *)
(*    told about;                                                          *)
(*  - a row never goes back to "queued".                                   *)
(*                                                                         *)
(* Nothing here makes a status final, and what is told may differ from     *)
(* what the row shows: the code may mark a failed message delivered, and   *)
(* the other way round, and tells of an UPDATE that failed.                *)
(***************************************************************************)
EXTENDS Naturals

CONSTANTS Msgs, MaxRetries, RetryCap

VARIABLES state, told, tries, taken, refused, mishap

vars == <<state, told, tries, taken, refused, mishap>>

Init ==
  /\ state = [m \in Msgs |-> "none"]
  /\ told = [m \in Msgs |-> "none"]
  /\ tries = [m \in Msgs |-> 0]
  /\ taken = [m \in Msgs |-> 0]
  /\ refused = {}
  /\ mishap = FALSE

\* One more, up to the bound RetryCap.
More(n) == IF n < RetryCap THEN n + 1 ELSE n

Live(m) == state[m] # "none" /\ m \notin refused
Show(m, s) == state' = [state EXCEPT ![m] = s]

\* What may be said of the end of m.
Founded(m, s) ==
  \/ s = "client_delivered"
  \/ s = "delivered" /\ taken[m] > 0
  \/ s = "failed" /\ (tries[m] >= MaxRetries \/ mishap)

Create(m) ==
  /\ state[m] = "none"
  /\ Show(m, "queued")
  /\ UNCHANGED <<told, tries, taken, refused>>

Refuse(m) ==
  /\ state[m] = "queued" /\ tries[m] = 0 /\ m \notin refused
  /\ Show(m, "failed") \/ (mishap' /\ UNCHANGED state)
  /\ refused' = refused \cup {m}
  /\ UNCHANGED <<told, tries, taken>>

Try(m) ==
  /\ Live(m)
  /\ tries' = [tries EXCEPT ![m] = More(@)]
  /\ taken' \in {taken, [taken EXCEPT ![m] = More(@)]}
  /\ UNCHANGED <<state, told, refused>>

\* The row shows an end.
Conclude(m) ==
  /\ Live(m)
  /\ \E s \in {"delivered", "client_delivered", "failed"} :
       Founded(m, s) /\ Show(m, s)
  /\ UNCHANGED <<told, tries, taken, refused>>

\* The participants are told that the message is queued, or of an end.
Tell(m) ==
  /\ Live(m)
  /\ \E s \in {"queued", "delivered", "client_delivered", "failed"} :
       /\ s = "queued" \/ Founded(m, s)
       /\ told' = [told EXCEPT ![m] = s]
  /\ UNCHANGED <<state, tries, taken, refused>>

MessageStep(m) ==
  Create(m) \/ Refuse(m) \/ Try(m) \/ Conclude(m) \/ Tell(m)

\* A mishap comes with a step or alone, and is not forgotten.
Next ==
  /\ mishap' \in {mishap, TRUE}
  /\ \/ \E m \in Msgs : MessageStep(m)
     \/ UNCHANGED <<state, told, tries, taken, refused>>

Spec == Init /\ [][Next]_vars
=============================================================================
