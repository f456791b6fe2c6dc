----------------------------- MODULE MCContacts -----------------------------
(***************************************************************************)
(* Small instances of Contacts for TLC.                                    *)
(***************************************************************************)
EXTENDS Contacts, TLC

Symmetry == Permutations(Conns)
=============================================================================
