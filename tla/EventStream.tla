---------------------------- MODULE EventStream -----------------------------
(***************************************************************************)
(* What a client of the real-time feed may rely on, without Redis, queues  *)
(* and goroutines: a stream that begins at some event and goes on without  *)
(* a gap until something is lost, and never goes back.                     *)
(*                                                                         *)
(*  - the first event of a stream is the next to be published when the     *)
(*    stream opens;                                                        *)
(*  - while nothing is lost each event is the successor of the one before; *)
(*  - what is lost is skipped: no event comes late or twice;               *)
(*  - a stream that has been closed delivers nothing any more.             *)
(***************************************************************************)
EXTENDS Naturals, Sequences

CONSTANTS Streams

VARIABLES
  published,   \* events published so far
  phase,       \* phase[c]: "opening", "open" or "closed"
  base,        \* base[c]: the last event before the stream opened
  lossy,       \* lossy[c]: something of c may have been lost
  sent         \* sent[c]: what the client has been sent

vars == <<published, phase, base, lossy, sent>>

Init ==
  /\ published = 0
  /\ phase = [c \in Streams |-> "opening"]
  /\ base = [c \in Streams |-> 0]
  /\ lossy = [c \in Streams |-> FALSE]
  /\ sent = [c \in Streams |-> <<>>]

Publish == published' = published + 1 /\ UNCHANGED <<phase, base, lossy, sent>>

Open(c) ==
  /\ phase[c] = "opening"
  /\ phase' = [phase EXCEPT ![c] = "open"]
  /\ base' = [base EXCEPT ![c] = published]
  /\ UNCHANGED <<published, lossy, sent>>

Lose(c) ==
  /\ phase[c] = "open"
  /\ lossy' = [lossy EXCEPT ![c] = TRUE]
  /\ UNCHANGED <<published, phase, base, sent>>

\* The last event of c, sent or from before it opened.
Latest(c) == IF sent[c] = <<>> THEN base[c] ELSE sent[c][Len(sent[c])]

\* An event that is due: the next one, or any later one after a loss.
Due(c, e) == e = Latest(c) + 1 \/ (lossy[c] /\ e > Latest(c))

Deliver(c) ==
  /\ phase[c] = "open"
  /\ \E e \in 1..published :
       Due(c, e) /\ sent' = [sent EXCEPT ![c] = Append(@, e)]
  /\ UNCHANGED <<published, phase, base, lossy>>

Close(c) ==
  /\ phase' = [phase EXCEPT ![c] = "closed"]
  /\ UNCHANGED <<published, base, lossy, sent>>

\* The client connects anew.
Reset(c) ==
  /\ phase[c] = "closed"
  /\ phase' = [phase EXCEPT ![c] = "opening"]
  /\ base' = [base EXCEPT ![c] = 0]
  /\ lossy' = [lossy EXCEPT ![c] = FALSE]
  /\ sent' = [sent EXCEPT ![c] = <<>>]
  /\ UNCHANGED published

Next ==
  \/ Publish
  \/ \E c \in Streams : Open(c) \/ Lose(c) \/ Deliver(c) \/ Close(c) \/ Reset(c)

Spec == Init /\ [][Next]_vars
=============================================================================
