----------------------------- MODULE MCThreads ------------------------------
(***************************************************************************)
(* Small instances of Threads for TLC.                                     *)
(***************************************************************************)
EXTENDS Threads, TLC

Symmetry == Permutations(Sends) \cup Permutations(Requests)
=============================================================================
