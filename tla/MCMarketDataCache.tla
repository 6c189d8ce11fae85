------------------------- MODULE MCMarketDataCache -------------------------
(***************************************************************************)
(* A small instance of MarketDataCache: two requests for one key, and one  *)
(* for another key of the same symbol, in a cache of one entry.            *)
(***************************************************************************)
EXTENDS MarketDataCache, TLC

CONSTANTS r1, r2, r3, bars, quotes, aapl

KeyOfValue == [r \in Requests |-> IF r = r3 THEN quotes ELSE bars]
SymbolOfValue == [k \in Keys |-> aapl]
TtlValue == [r \in Requests |-> 1]
Symmetry == Permutations({r1, r2})
=============================================================================
