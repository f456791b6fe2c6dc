--------------------------- MODULE MCBotEndpoint ----------------------------
(***************************************************************************)
(* Small instances of BotEndpoint for TLC.                                 *)
(***************************************************************************)
EXTENDS BotEndpoint, TLC

Symmetry == Permutations(Calls) \cup Permutations(Workers)
=============================================================================
