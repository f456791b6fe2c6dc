---------------------------- MODULE MCDelivery ------------------------------
(***************************************************************************)
(* Small instances of Delivery for TLC.                                    *)
(***************************************************************************)
EXTENDS Delivery, TLC

AllBodies == {[override |-> FALSE, reply |-> FALSE],
              [override |-> TRUE, reply |-> FALSE],
              [override |-> FALSE, reply |-> TRUE]}
PlainBodies == {NoBody}

Symmetry == Permutations(Msgs) \cup Permutations(Workers)
=============================================================================
