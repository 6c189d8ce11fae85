------------------------------- MODULE Lease -------------------------------
(***************************************************************************)
(* What a lease service promises, without tables, clocks or messages: at   *)
(* any time a key has at most one holder; a key is granted only while      *)
(* nobody holds it, and a holding can end at any moment, by expiry or by   *)
(* release.  PersistentLock implements this specification.                 *)
(***************************************************************************)
CONSTANTS Keys, Owners

VARIABLE holdings

Holding == [key : Keys, owner : Owners]

Init == holdings = {}

Grant(k, o) ==
  /\ \A h \in holdings : h.key # k
  /\ holdings' = holdings \cup {[key |-> k, owner |-> o]}

End == holdings' \in SUBSET holdings

Next == End \/ \E k \in Keys, o \in Owners : Grant(k, o)

Spec == Init /\ [][Next]_holdings
=============================================================================
