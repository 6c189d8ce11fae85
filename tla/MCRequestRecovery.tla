------------------------- MODULE MCRequestRecovery -------------------------
(***************************************************************************)
(* An instance of RequestRecovery: an order and two market-data reads.     *)
(***************************************************************************)
EXTENDS RequestRecovery, TLC

CONSTANTS order, market1, market2

Symmetry == Permutations({market1, market2})
=============================================================================
