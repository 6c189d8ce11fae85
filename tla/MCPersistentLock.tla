-------------------------- MODULE MCPersistentLock --------------------------
(***************************************************************************)
(* Instance of PersistentLock: two owners whose clocks run one unit behind *)
(* and on time, so that a lease can be computed with less life than Ttl.   *)
(***************************************************************************)
EXTENDS PersistentLock, TLC

CONSTANTS o1, o2, k1, k2

MCSkew == (o1 :> 0) @@ (o2 :> -1)
=============================================================================
