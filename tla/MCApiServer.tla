----------------------------- MODULE MCApiServer -----------------------------
(***************************************************************************)
(* Small instances of ApiServer for TLC.                                   *)
(***************************************************************************)
EXTENDS ApiServer, TLC

\* The second of three statements is an ALTER TABLE.
CreatesOf3 == {1, 3}
=============================================================================
