----------------------------- MODULE Directory ------------------------------
(***************************************************************************)
(* Where the messages of one user go, as the owner of the bot and the      *)
(* workers may rely on it, without Redis: a row that registrations         *)
(* replace, the managed configurations that users has held, and look-ups   *)
(* that are answered in one step.                                          *)
(*                                                                         *)
(*  - a bot of the user's own is answered as the row has it in that step;  *)
(*  - "regular" is answered only while there is no row;                    *)
(*  - a managed bot is answered only if users held it at some time, so     *)
(*    that a configuration the bot service issued and nobody stored is     *)
(*    never in use;                                                        *)
(*  - an error is answered only by a step that fails itself.               *)
(***************************************************************************)
EXTENDS Naturals

CONSTANTS Workers

VARIABLES
  row,      \* the registration stored for the user, 0 for none
  kept,     \* the managed configurations users has held, 0 for none
  answer,   \* answer[w]: what the look-up of w was answered
  faults    \* failures so far

vars == <<row, kept, answer, faults>>

Unanswered == [kind |-> "none", url |-> 0, secret |-> 0]

Init ==
  /\ row = 0 /\ kept = {0} /\ faults = 0
  /\ answer = [w \in Workers |-> Unanswered]

Register == row' = row + 1 /\ UNCHANGED <<kept, answer>>

Store == (\E n \in kept' : kept' = kept \cup {n}) /\ UNCHANGED <<row, answer>>

Reply(w, kind, n) ==
  /\ answer[w] = Unanswered
  /\ answer' = [answer EXCEPT ![w] = [kind |-> kind, url |-> n, secret |-> n]]

Answer(w) ==
  /\ \/ row > 0 /\ Reply(w, "self", row)
     \/ row = 0 /\ Reply(w, "regular", 0)
     \/ \E n \in kept \ {0} : Reply(w, "managed", n)
     \/ faults' = faults + 1 /\ Reply(w, "error", 0)
  /\ UNCHANGED <<row, kept>>

Forget(w) ==
  /\ answer' = [answer EXCEPT ![w] = Unanswered]
  /\ UNCHANGED <<row, kept>>

Next ==
  /\ faults' \in {faults, faults + 1}
  /\ \/ Register \/ Store \/ UNCHANGED <<row, kept, answer>>
     \/ \E w \in Workers : Answer(w) \/ Forget(w)

Spec == Init /\ [][Next]_vars
=============================================================================
