----------------------------- MODULE MCRegistry -----------------------------
(***************************************************************************)
(* A small instance of Registry: one symbol that is evaluated and another  *)
(* one that can be on the whitelist instead.                               *)
(***************************************************************************)
EXTENDS Registry, TLC

CONSTANTS call1, call2, evaluation, caller1, caller2, caller3

Symmetry == Permutations({call1, call2})
=============================================================================
