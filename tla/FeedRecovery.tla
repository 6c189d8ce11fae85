---------------------------- MODULE FeedRecovery ----------------------------
(***************************************************************************)
(* MarketDataFeedRecoveryService and the MarketDataHealthService it drives, *)
(* as operators on the fields the block of new entries depends on.  The     *)
(* operational components both services set repeat the two statuses.       *)
(***************************************************************************)
EXTENDS Integers

CONSTANT MaxAge   \* marketData.maxAgeMs
ASSUME MaxAgeAssumption == MaxAge \in Nat

NotReconnected == -1

Feed == [status        : {"STABLE", "OUTAGE", "RECOVERING"},
         reconnectedAt : Nat \cup {NotReconnected},
         health        : {"HEALTHY", "STALE", "UNAVAILABLE"}]

\* A process starts with a stable feed whose health nobody has evaluated.
InitialFeed == [status |-> "STABLE", reconnectedAt |-> NotReconnected,
                health |-> "UNAVAILABLE"]

\* MarketDataHealthService.isEntryBlocked
EntryBlocked(f) == f.health \in {"STALE", "UNAVAILABLE"}

\* recordUnavailable
Unavailable == [status |-> "OUTAGE", reconnectedAt |-> NotReconnected,
                health |-> "UNAVAILABLE"]

\* recordSuccessfulRequest
Reconnected(f, t) ==
  IF f.status = "OUTAGE"
    THEN [status |-> "RECOVERING", reconnectedAt |-> t, health |-> "STALE"]
    ELSE f

\* Mutation: data that predates the reconnection completes the warm-up.
WarmupAcceptsAny(f, validated, t) == t - validated <= MaxAge

\* The data completeWarmup accepts: not older than the reconnection or MaxAge.
WarmupAccepts(f, validated, t) ==
  validated >= f.reconnectedAt /\ t - validated <= MaxAge

\* completeWarmup
WarmedUp(f, validated, t) ==
  IF f.status # "RECOVERING" THEN f
  ELSE IF WarmupAccepts(f, validated, t)
       THEN [f EXCEPT !.status = "STABLE", !.health = "HEALTHY"]
       ELSE [f EXCEPT !.health = "STALE"]
=============================================================================
