----------------------------- MODULE RateLimit -----------------------------
(***************************************************************************)
(* What the rate-limit services know of the budget of one API, learnt from *)
(* the headers of its answers: AlpacaRateLimitService for trading,         *)
(* MarketDataRateLimitService for market data.  Of the requests that       *)
(* remain it only matters whether there are any; a reset time includes     *)
(* the margin of 50 ms.  The counters of requests and waits are left out.  *)
(***************************************************************************)
EXTENDS Integers

NotSet == -1

Budget == [remaining : {"unknown", "none", "some"}, resetAt : Nat \cup {NotSet}]

\* No header has been seen, or the window it was about is over.
NoBudget == [remaining |-> "unknown", resetAt |-> NotSet]

\* updateFromHeaders: a field changes if its header is there and can be read.
Updated(b, headers) ==
  [remaining |-> IF headers.remaining = "unknown" THEN b.remaining ELSE headers.remaining,
   resetAt   |-> IF headers.resetAt = NotSet THEN b.resetAt ELSE headers.resetAt]

\* waitIfExhausted, before its timer.
Exhausted(b) == b.remaining = "none" /\ b.resetAt # NotSet
AwaitsReset(b, t) == Exhausted(b) /\ t < b.resetAt

\* Mutation: the budget is forgotten before the wait.
AfterCheckForgetting(b, t) == IF Exhausted(b) THEN NoBudget ELSE b

AfterCheck(b, t) == IF Exhausted(b) /\ t >= b.resetAt THEN NoBudget ELSE b
=============================================================================
