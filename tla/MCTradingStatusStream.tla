----------------------- MODULE MCTradingStatusStream -----------------------
(***************************************************************************)
(* Small instances of TradingStatusStream.                                 *)
(***************************************************************************)
EXTENDS TradingStatusStream, TLC

Symmetry == Permutations(Slots)
=============================================================================
