-------------------------- MODULE RequestRecovery --------------------------
(***************************************************************************)
(* AlpacaRequestRecoveryService.execute and its market-data counterpart:   *)
(* concurrent requests of one process over the circuit breaker they share, *)
(* the budget of each of the two APIs, and the feed recovery that the      *)
(* market-data requests drive.                                             *)
(*                                                                         *)
(* The back-off before a retry may take any time, none included.  The end  *)
(* of the wait for a reset, the breaker's beforeRequest and the start of   *)
(* the HTTP call are one synchronous step, and so are the handling of the  *)
(* answer and the decision to retry.  Answers arrive in any order, however *)
(* late.                                                                   *)
(***************************************************************************)
EXTENDS CircuitBreaker, FeedRecovery, RateLimit

CONSTANTS
  Requests,         \* calls of execute
  Reads,            \* those whose HTTP method is GET
  MarketRequests,   \* those of the market-data client
  MaxRetries,       \* operational.maxRetries
  Reporting,        \* bound: the requests whose answers have rate-limit headers
  MaxNow            \* bound: the clock stops here

ASSUME RequestsAssumption ==
  /\ Reads \subseteq Requests
  /\ MarketRequests \subseteq Reads
  /\ Reporting \subseteq Requests
  /\ MaxRetries \in Nat
  /\ MaxNow \in Nat

VARIABLES
  breaker,   \* the fields of AlpacaCircuitBreakerService
  feed,      \* the fields of the feed recovery and health services
  budget,    \* the fields of the two rate-limit services
  now,       \* the clock
  pc,        \* per request: "new", "waiting", "sent", "backoff", "done" or "failed"
  until,     \* per request, the reset it waits for, or NotSet
  retries,   \* per request, retriesPerformed
  \* History, which no step reads.
  openings,      \* how often the circuit has opened
  probeOf,       \* per request, the opening its current attempt probes, or 0
  streak,        \* counted failures since the circuit last closed
  lastFailure,   \* time of the last of them
  lastOutage,    \* time of the last recordUnavailable
  newestData,    \* newest data that completed a warm-up
  closedUntil,   \* per API, the reset before which its last headers left nothing
  due            \* per request, closedUntil when it came to its check

history == <<openings, probeOf, streak, lastFailure, lastOutage, newestData>>
words == <<closedUntil, due>>
vars == <<breaker, feed, budget, now, pc, until, retries, history, words>>

Apis == {"trading", "market"}
Api(r) == IF r \in MarketRequests THEN "market" ELSE "trading"

TypeOK ==
  /\ breaker \in Breaker
  /\ feed \in Feed
  /\ budget \in [Apis -> Budget]
  /\ now \in Nat
  /\ pc \in [Requests -> {"new", "waiting", "sent", "backoff", "done", "failed"}]
  /\ until \in [Requests -> Nat \cup {NotSet}]
  /\ retries \in [Requests -> 0..MaxRetries]
  /\ openings \in Nat
  /\ probeOf \in [Requests -> Nat]
  /\ streak \in Nat
  /\ lastFailure \in Nat \cup {Never}
  /\ lastOutage \in Nat \cup {Never}
  /\ newestData \in Nat \cup {Never}
  /\ closedUntil \in [Apis -> Nat \cup {NotSet}]
  /\ due \in [Requests -> Nat \cup {NotSet}]

Init ==
  /\ breaker = Closed
  /\ feed = InitialFeed
  /\ budget = [a \in Apis |-> NoBudget]
  /\ now = 0
  /\ pc = [r \in Requests |-> "new"]
  /\ until = [r \in Requests |-> NotSet]
  /\ retries = [r \in Requests |-> 0]
  /\ openings = 0
  /\ probeOf = [r \in Requests |-> 0]
  /\ streak = 0
  /\ lastFailure = Never
  /\ lastOutage = Never
  /\ newestData = Never
  /\ closedUntil = [a \in Apis |-> NotSet]
  /\ due = [r \in Requests |-> NotSet]

-----------------------------------------------------------------------------
Goto(r, step) == pc' = [pc EXCEPT ![r] = step]

FeedUnavailable(r) ==
  IF r \in MarketRequests
    THEN feed' = Unavailable /\ lastOutage' = now
    ELSE UNCHANGED <<feed, lastOutage>>

\* The history of a step that closes the circuit, and of one that counts an error.
CircuitCloses == streak' = 0 /\ lastFailure' = Never /\ UNCHANGED openings
FailureCounts ==
  /\ streak' = streak + 1
  /\ lastFailure' = now
  /\ openings' = IF breaker'.state = "OPEN" THEN openings + 1 ELSE openings

\* waitIfExhausted until its timer is set: a window that is over is forgotten.
Check(r) ==
  LET b == budget[Api(r)] IN
  /\ Goto(r, "waiting")
  /\ until' = [until EXCEPT ![r] = IF AwaitsReset(b, now) THEN b.resetAt ELSE NotSet]
  /\ budget' = [budget EXCEPT ![Api(r)] = AfterCheck(b, now)]
  /\ due' = [due EXCEPT ![r] = closedUntil[Api(r)]]
  /\ UNCHANGED <<breaker, feed, now, retries, history, closedUntil>>

\* execute is called; a retry comes to the same check after its back-off.
Call(r) == pc[r] = "new" /\ Check(r)
Resume(r) == pc[r] = "backoff" /\ Check(r)

\* The request is past the wait: one that had to wait for a reset forgets the
\* budget, whatever has been heard of it meanwhile.
Proceeds(r) ==
  /\ pc[r] = "waiting" /\ now >= until[r]
  /\ until' = [until EXCEPT ![r] = NotSet]
  /\ IF until[r] = NotSet THEN UNCHANGED <<budget, closedUntil>>
     ELSE /\ budget' = [budget EXCEPT ![Api(r)] = NoBudget]
          /\ closedUntil' = [closedUntil EXCEPT ![Api(r)] = NotSet]

\* The breaker admits the request, which is sent at once.
Send(r) ==
  /\ Proceeds(r)
  /\ Admits(breaker, now)
  /\ breaker' = AfterAdmit(breaker)
  /\ Goto(r, "sent")
  /\ probeOf' = [probeOf EXCEPT ![r] = IF breaker.state = "CLOSED" THEN 0 ELSE openings]
  /\ UNCHANGED <<feed, now, retries, openings, streak, lastFailure, lastOutage,
                 newestData, due>>

\* Mutation: a refused request goes back to waiting.
RefuseWaiting(r) ==
  /\ Proceeds(r)
  /\ ~Admits(breaker, now)
  /\ FeedUnavailable(r)
  /\ UNCHANGED <<breaker, now, pc, retries, openings, probeOf, streak, lastFailure,
                 newestData, due>>

\* The breaker throws: execute fails without an attempt and without a retry.
Refuse(r) ==
  /\ Proceeds(r)
  /\ ~Admits(breaker, now)
  /\ Goto(r, "failed")
  /\ FeedUnavailable(r)
  /\ UNCHANGED <<breaker, now, retries, openings, probeOf, streak, lastFailure,
                 newestData, due>>

\* The headers of an answer, of which any may be missing; Alpaca's windows end in
\* the future.  Bound: by the next tick and before the clock stops, and no headers
\* once a failure has been counted.
Headers(r) ==
  {NoBudget} \cup
  {h \in [remaining : {"unknown", "none", "some"}, resetAt : {NotSet, now + 1}] :
     r \in Reporting /\ streak + openings = 0 /\ h.resetAt < MaxNow}

\* updateFromHeaders, and what the headers say to one who knows nothing else.
Hears(r, headers) ==
  /\ budget' = [budget EXCEPT ![Api(r)] = Updated(@, headers)]
  /\ closedUntil' =
       IF headers = NoBudget THEN closedUntil
       ELSE [closedUntil EXCEPT ![Api(r)] =
               IF headers.remaining = "none" THEN headers.resetAt ELSE NotSet]
  /\ UNCHANGED <<until, due>>

\* A 2xx answer, whenever its request was sent.
Succeed(r) ==
  /\ pc[r] = "sent"
  /\ breaker' = Closed
  /\ CircuitCloses
  /\ Goto(r, "done")
  /\ feed' = IF r \in MarketRequests THEN Reconnected(feed, now) ELSE feed
  /\ \E headers \in Headers(r) : Hears(r, headers)
  /\ UNCHANGED <<now, retries, probeOf, lastOutage, newestData>>

\* AlpacaRetryPolicy.evaluate
Retries(r, error) ==
  retries[r] < MaxRetries /\ r \in Reads /\ error # "client"

\* The attempt ends in an error, or in no answer within the client's timeout.
Fail(r, error) ==
  /\ pc[r] = "sent"
  /\ breaker' = AfterError(breaker, error, now)
  /\ IF Counted(error) THEN FailureCounts ELSE CircuitCloses
  /\ \E headers \in IF error = "network" THEN {NoBudget} ELSE Headers(r) : Hears(r, headers)
  /\ IF Retries(r, error)
       THEN /\ Goto(r, "backoff")
            /\ retries' = [retries EXCEPT ![r] = @ + 1]
            /\ UNCHANGED <<feed, lastOutage>>
       ELSE Goto(r, "failed") /\ FeedUnavailable(r) /\ UNCHANGED retries
  /\ UNCHANGED <<now, probeOf, newestData>>

\* completeWarmup, with the timestamp of some data received by now.
CompleteWarmup ==
  \E validated \in 0..now :
    /\ feed' = WarmedUp(feed, validated, now)
    /\ newestData' = IF feed.status = "RECOVERING" /\ feed'.status = "STABLE"
                       THEN validated ELSE newestData
    /\ UNCHANGED <<breaker, budget, now, pc, until, retries, openings, probeOf, streak,
                   lastFailure, lastOutage, words>>

Tick ==
  /\ now < MaxNow
  /\ now' = now + 1
  /\ UNCHANGED <<breaker, feed, budget, pc, until, retries, history, words>>

-----------------------------------------------------------------------------
Attempt(r) == Send(r) \/ Refuse(r)
Answer(r) == Succeed(r) \/ \E error \in Errors : Fail(r, error)

Next ==
  \/ \E r \in Requests : Call(r) \/ Resume(r) \/ Attempt(r) \/ Answer(r)
  \/ CompleteWarmup
  \/ Tick

Spec == Init /\ [][Next]_vars

\* Time passes, timers fire, and the HTTP client's timeout ends every attempt.
Fairness ==
  /\ WF_vars(Tick)
  /\ \A r \in Requests : WF_vars(Resume(r)) /\ WF_vars(Attempt(r)) /\ WF_vars(Answer(r))

FairSpec == Spec /\ Fairness

-----------------------------------------------------------------------------
InFlight == {r \in Requests : pc[r] = "sent"}

\* Each opening of the circuit lets at most one request through until the next
\* one, however many late answers close and reopen it meanwhile; and a half-open
\* circuit always has its probe in flight, so that something will end it
\* (beforeRequest, lines 32-53, and the three writers of halfOpenProbeInFlight).
OneProbePerOpening ==
  /\ \A r, q \in InFlight :
       r # q /\ probeOf[r] # 0 => probeOf[r] # probeOf[q]
  /\ breaker.state = "HALF_OPEN" =>
       breaker.probing /\ \E r \in InFlight : probeOf[r] = openings

\* A circuit that is not closed has seen the threshold of counted failures since
\* it was last closed, and one that is closed has not (recordFailure).
OpensAtThreshold ==
  (breaker.state = "CLOSED") <=> (streak < FailureThreshold)

\* While the circuit is not closed nothing is sent before OpenDuration has passed
\* since the last counted failure, late ones included (getRetryAt).
SilentWhileOpen ==
  [][\A r \in Requests :
       breaker.state # "CLOSED" /\ pc[r] # "sent" /\ pc'[r] = "sent"
         => now >= lastFailure + OpenDuration]_vars

\* A request that comes to its check when the last headers of its API left nothing
\* until a reset is not sent before that reset.  Only if a request that waited for
\* another reset has ended its wait since those headers, they are forgotten and
\* nothing is said (waitIfExhausted, which clears what it did not wait for).
NothingSentBeforeReset ==
  [][\A r \in Requests :
       pc[r] = "waiting" /\ pc'[r] = "sent" => now >= due[r]]_vars

\* New entries are possible only with a stable feed, and after data at least as
\* recent as the last outage has been validated: the late success of a request
\* sent before the outage does not open the door (completeWarmup, lines 84-144).
EntriesNeedFreshData ==
  ~EntryBlocked(feed) => feed.status = "STABLE" /\ newestData >= lastOutage

\* Every call of execute ends, however often it has to wait.
EveryRequestSettles ==
  \A r \in Requests : pc[r] = "waiting" ~> pc[r] \in {"done", "failed"}

\* A circuit does not stay half open: its probe, or a late answer, ends it.
HalfOpenEnds == breaker.state = "HALF_OPEN" ~> breaker.state # "HALF_OPEN"
=============================================================================
