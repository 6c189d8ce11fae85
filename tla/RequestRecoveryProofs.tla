----------------------- MODULE RequestRecoveryProofs -----------------------
(***************************************************************************)
(* Theorems of RequestRecovery, for any number of requests, any threshold  *)
(* and durations, and an unbounded clock.                                  *)
(***************************************************************************)
EXTENDS RequestRecovery, TLAPS

\* What the breaker's fields say about its history.
BreakerHistory ==
  /\ breaker.state = "CLOSED" =>
       breaker.failures = streak /\ streak < FailureThreshold
  /\ breaker.state # "CLOSED" =>
       /\ streak >= FailureThreshold
       /\ breaker.failures >= FailureThreshold
       /\ breaker.openedAt = lastFailure
       /\ lastFailure \in Nat
       /\ openings > 0

\* No request probes a later opening than the last, and none probes an open circuit.
Probes ==
  /\ \A r \in Requests : probeOf[r] <= openings
  /\ breaker.state = "OPEN" =>
       \A r \in InFlight : probeOf[r] # openings
  /\ OneProbePerOpening

\* A service remembers the last headers until the reset they named, and a request
\* at its check waits for the reset that is due.
BudgetsKept ==
  /\ \A a \in Apis :
       \/ closedUntil[a] <= now
       \/ budget[a].remaining = "none" /\ budget[a].resetAt = closedUntil[a]
  /\ \A r \in Requests :
       pc[r] = "waiting" => due[r] <= now \/ until[r] = due[r]

\* What the feed's fields say about outages and validated data.
FeedHistory ==
  /\ lastOutage <= now
  /\ feed.status = "RECOVERING" => feed.reconnectedAt >= lastOutage
  /\ EntriesNeedFreshData

Inv == TypeOK /\ BreakerHistory /\ Probes /\ BudgetsKept /\ FeedHistory

-----------------------------------------------------------------------------
LEMMA BreakerTypes ==
  ASSUME NEW b \in Breaker, NEW t \in Nat, NEW error
  PROVE  /\ Closed \in Breaker
         /\ Opened(b, t) \in Breaker
         /\ AfterAdmit(b) \in Breaker
         /\ AfterError(b, error, t) \in Breaker
<1>1. Closed \in Breaker
  BY DEF Breaker, Closed, Never
<1>2. ASSUME NEW c \in Breaker PROVE Opened(c, t) \in Breaker
  BY DEF Breaker, Opened
<1>3. AfterAdmit(b) \in Breaker
  <2>1. [b EXCEPT !.state = "HALF_OPEN", !.probing = TRUE] \in Breaker
    BY DEF Breaker
  <2> QED BY <2>1, Zenon DEF AfterAdmit
<1>4. /\ [b EXCEPT !.failures = @ + 1] \in Breaker
      /\ [b EXCEPT !.failures = @ + 1, !.probing = FALSE] \in Breaker
  <2>1. b.failures + 1 \in Nat
    BY DEF Breaker
  <2> QED BY <2>1, Zenon DEF Breaker
<1>5. AfterError(b, error, t) \in Breaker
  BY <1>1, <1>2, <1>4, Zenon DEF AfterError
<1> QED
  BY <1>1, <1>2, <1>3, <1>5

LEMMA FeedTypes ==
  ASSUME NEW f \in Feed, NEW t \in Nat, NEW v \in Nat
  PROVE  /\ InitialFeed \in Feed
         /\ Unavailable \in Feed
         /\ Reconnected(f, t) \in Feed
         /\ WarmedUp(f, v, t) \in Feed
BY DEF Feed, InitialFeed, Unavailable, Reconnected, WarmedUp, NotReconnected

LEMMA BudgetTypes ==
  /\ NoBudget \in Budget
  /\ \A b \in Budget, headers \in Budget : Updated(b, headers) \in Budget
  /\ \A b \in Budget, t \in Nat : AfterCheck(b, t) \in Budget
BY DEF Budget, NoBudget, NotSet, Updated, AfterCheck

LEMMA HeadersTypes ==
  ASSUME now \in Nat, NEW r, NEW headers \in Headers(r)
  PROVE  headers \in Budget
BY DEF Headers, Budget, NoBudget, NotSet

\* Hearing keeps the types, and the agreement between service and headers.
LEMMA Hearing ==
  ASSUME TypeOK, NEW r \in Requests, NEW headers \in Budget, Hears(r, headers)
  PROVE  /\ budget' \in [Apis -> Budget]
         /\ closedUntil' \in [Apis -> Nat \cup {NotSet}]
         /\ UNCHANGED <<until, due>>
         /\ (\A a \in Apis : closedUntil[a] <= now \/
               (budget[a].remaining = "none" /\ budget[a].resetAt = closedUntil[a]))
            => \A a \in Apis : closedUntil'[a] <= now \/
               (budget'[a].remaining = "none" /\ budget'[a].resetAt = closedUntil'[a])
<1> USE DEF TypeOK
<1>1. Api(r) \in Apis
  BY DEF Api, Apis
<1>2. /\ \A a \in Apis : budget'[a] = IF a = Api(r) THEN Updated(budget[a], headers) ELSE budget[a]
      /\ budget' \in [Apis -> Budget]
  BY <1>1, BudgetTypes DEF Hears
<1>3. /\ closedUntil' \in [Apis -> Nat \cup {NotSet}]
      /\ \A a \in Apis : closedUntil'[a] =
           IF headers = NoBudget \/ a # Api(r) THEN closedUntil[a]
           ELSE IF headers.remaining = "none" THEN headers.resetAt ELSE NotSet
  <2>1. headers.resetAt \in Nat \cup {NotSet}
    BY DEF Budget
  <2> QED
    BY <1>1, <2>1 DEF Hears
<1>4. ASSUME NEW a \in Apis, closedUntil[a] <= now \/
               (budget[a].remaining = "none" /\ budget[a].resetAt = closedUntil[a])
      PROVE  closedUntil'[a] <= now \/
               (budget'[a].remaining = "none" /\ budget'[a].resetAt = closedUntil'[a])
  <2>1. CASE headers = NoBudget
    <3>1. /\ budget'[a].remaining = budget[a].remaining
          /\ budget'[a].resetAt = budget[a].resetAt
      BY <1>2, <2>1 DEF Updated, NoBudget
    <3> QED BY <1>3, <1>4, <2>1, <3>1
  <2>2. CASE a # Api(r)
    BY <1>2, <1>3, <1>4, <2>2
  <2>3. CASE headers # NoBudget /\ a = Api(r)
    <3>1. CASE headers.remaining = "none" /\ headers.resetAt # NotSet
      BY <1>2, <1>3, <2>3, <3>1 DEF Updated
    <3>2. CASE ~(headers.remaining = "none" /\ headers.resetAt # NotSet)
      BY <1>3, <2>3, <3>2 DEF NotSet
    <3> QED BY <3>1, <3>2
  <2> QED BY <2>1, <2>2, <2>3
<1> QED
  BY <1>2, <1>3, <1>4 DEF Hears

LEMMA InitInv == Init => Inv
BY BreakerTypes, FeedTypes, BreakerAssumption, RequestsAssumption
   DEF Init, Inv, TypeOK, BreakerHistory, Probes, BudgetsKept, FeedHistory,
       OneProbePerOpening, EntriesNeedFreshData, InFlight, Closed, InitialFeed,
       EntryBlocked, Never, NotReconnected, Breaker, Feed, Budget, NoBudget, NotSet, Apis

LEMMA TypeStep == TypeOK /\ [Next]_vars => TypeOK'
<1> SUFFICES ASSUME TypeOK, [Next]_vars PROVE TypeOK'
  OBVIOUS
<1> USE RequestsAssumption DEF TypeOK
<1>a. \A r \in Requests : Api(r) \in Apis
  BY DEF Api, Apis
<1>1. ASSUME NEW r \in Requests, Check(r) PROVE TypeOK'
  <2>1. budget[Api(r)].resetAt \in Nat \cup {NotSet}
    BY <1>a DEF Budget
  <2> QED
    BY <1>1, <1>a, <2>1, BudgetTypes DEF Check, Goto, history
<1>2. ASSUME NEW r \in Requests, Proceeds(r)
      PROVE  /\ until' \in [Requests -> Nat \cup {NotSet}]
             /\ budget' \in [Apis -> Budget]
             /\ closedUntil' \in [Apis -> Nat \cup {NotSet}]
  BY <1>2, <1>a, BudgetTypes DEF Proceeds
<1>3. ASSUME NEW r \in Requests, Send(r) PROVE TypeOK'
  BY <1>3, <1>2, BreakerTypes DEF Send, Goto
<1>4. ASSUME NEW r \in Requests, Refuse(r) PROVE TypeOK'
  BY <1>4, <1>2, FeedTypes DEF Refuse, Goto, FeedUnavailable, Never
<1>5. ASSUME NEW r \in Requests, Succeed(r) PROVE TypeOK'
  <2>1. PICK headers \in Headers(r) : Hears(r, headers)
    BY <1>5 DEF Succeed
  <2>2. /\ budget' \in [Apis -> Budget] /\ UNCHANGED <<until, due>>
        /\ closedUntil' \in [Apis -> Nat \cup {NotSet}]
    BY <2>1, HeadersTypes, Hearing
  <2> QED
    BY <1>5, <2>2, BreakerTypes, FeedTypes DEF Succeed, Goto, CircuitCloses
<1>6. ASSUME NEW r \in Requests, NEW error \in Errors, Fail(r, error) PROVE TypeOK'
  <2>1. breaker' \in Breaker
    BY <1>6, BreakerTypes DEF Fail
  <2>2. streak' \in Nat /\ lastFailure' \in Nat \cup {Never} /\ openings' \in Nat
    BY <1>6 DEF Fail, FailureCounts, CircuitCloses
  <2>3. retries' \in [Requests -> 0..MaxRetries]
    BY <1>6 DEF Fail, Retries
  <2>4. /\ feed' \in Feed /\ lastOutage' \in Nat \cup {Never}
        /\ pc' \in [Requests -> {"new", "waiting", "sent", "backoff", "done", "failed"}]
    BY <1>6, FeedTypes DEF Fail, Goto, FeedUnavailable
  <2>5. /\ budget' \in [Apis -> Budget] /\ UNCHANGED <<until, due>>
        /\ closedUntil' \in [Apis -> Nat \cup {NotSet}]
    <3>1. PICK headers \in Budget : Hears(r, headers)
      BY <1>6, HeadersTypes, BudgetTypes DEF Fail
    <3> QED BY <3>1, Hearing
  <2> QED
    BY <1>6, <2>1, <2>2, <2>3, <2>4, <2>5 DEF Fail
<1>7. ASSUME CompleteWarmup PROVE TypeOK'
  <2>1. PICK validated \in 0..now :
          /\ feed' = WarmedUp(feed, validated, now)
          /\ newestData' \in {validated, newestData}
    BY <1>7 DEF CompleteWarmup
  <2>2. feed' \in Feed /\ newestData' \in Nat \cup {Never}
    BY <2>1, FeedTypes
  <2> QED
    BY <1>7, <2>2 DEF CompleteWarmup, words
<1>8. ASSUME Tick PROVE TypeOK'
  BY <1>8 DEF Tick, history, words
<1> QED
  BY <1>1, <1>3, <1>4, <1>5, <1>6, <1>7, <1>8
     DEF Next, Call, Resume, Attempt, Answer, vars, history, words

\* The breaker and its history: only Send, Succeed and Fail touch them.
LEMMA BreakerStep == Inv /\ [Next]_vars => BreakerHistory'
<1> SUFFICES ASSUME Inv, [Next]_vars PROVE BreakerHistory'
  OBVIOUS
<1> USE BreakerAssumption DEF Inv, TypeOK, BreakerHistory, Breaker, Never
<1>1. ASSUME NEW r \in Requests, Send(r) PROVE BreakerHistory'
  BY <1>1 DEF Send, AfterAdmit
<1>2. ASSUME NEW r \in Requests, Succeed(r) PROVE BreakerHistory'
  BY <1>2 DEF Succeed, CircuitCloses, Closed
<1>3. ASSUME NEW r \in Requests, NEW error \in Errors, Fail(r, error)
      PROVE  BreakerHistory'
  <2>1. CASE ~Counted(error)
    BY <1>3, <2>1 DEF Fail, CircuitCloses, AfterError, Closed
  <2>2. CASE Counted(error)
    BY <1>3, <2>2 DEF Fail, FailureCounts, AfterError, Opened
  <2> QED BY <2>1, <2>2
<1>4. ASSUME UNCHANGED <<breaker, streak, lastFailure, openings>>
      PROVE  BreakerHistory'
  BY <1>4
<1> QED
  BY <1>1, <1>2, <1>3, <1>4
     DEF Next, Attempt, Answer, vars, history, Call, Resume, Check, Refuse, CompleteWarmup, Tick

\* Who probes which opening.
LEMMA ProbesStep == Inv /\ [Next]_vars => Probes'
<1> SUFFICES ASSUME Inv, [Next]_vars PROVE Probes'
  OBVIOUS
<1> USE DEF Inv, TypeOK, Breaker, Probes, OneProbePerOpening, InFlight
<1>1. ASSUME NEW r \in Requests, Call(r) \/ Resume(r) PROVE Probes'
  BY <1>1 DEF Call, Resume, Check, Goto, history
<1>2. ASSUME NEW r \in Requests, Send(r) PROVE Probes'
  <2>1. /\ InFlight' = InFlight \cup {r}
        /\ \A q \in Requests : q # r => probeOf'[q] = probeOf[q]
        /\ UNCHANGED openings
    BY <1>2 DEF Send, Goto
  <2>2. CASE breaker.state = "CLOSED"
    BY <1>2, <2>1, <2>2 DEF Send, AfterAdmit, Goto
  <2>3. CASE breaker.state # "CLOSED"
    <3>1. breaker.state = "OPEN"
      BY <1>2, <2>3 DEF Send, Admits
    <3>2. /\ probeOf'[r] = openings /\ breaker'.state = "HALF_OPEN" /\ breaker'.probing
          /\ \A q \in InFlight : probeOf[q] # openings
      BY <1>2, <3>1 DEF Send, AfterAdmit
    <3>3. r \notin InFlight
      BY <1>2 DEF Send, Proceeds
    <3> QED
      BY <2>1, <3>2, <3>3
  <2> QED BY <2>2, <2>3
<1>3. ASSUME NEW r \in Requests, Refuse(r) PROVE Probes'
  BY <1>3 DEF Refuse, Proceeds, Goto
<1>4. ASSUME NEW r \in Requests, Succeed(r) PROVE Probes'
  BY <1>4 DEF Succeed, Goto, CircuitCloses, Closed
<1>5. ASSUME NEW r \in Requests, NEW error \in Errors, Fail(r, error) PROVE Probes'
  <2>1. InFlight' \subseteq InFlight /\ probeOf' = probeOf
    BY <1>5 DEF Fail, Goto
  <2>2. CASE ~Counted(error)
    BY <1>5, <2>1, <2>2 DEF Fail, CircuitCloses, AfterError, Closed
  <2>3. CASE Counted(error)
    <3>1. breaker'.state # "HALF_OPEN"
      BY <1>5, <2>3 DEF Fail, AfterError, Opened
    <3>2. CASE breaker'.state = "OPEN"
      <4>1. openings' = openings + 1
        BY <1>5, <2>3, <3>2 DEF Fail, FailureCounts
      <4> QED BY <2>1, <3>1, <4>1
    <3>3. CASE breaker'.state # "OPEN"
      <4>1. UNCHANGED openings
        BY <1>5, <2>3, <3>3 DEF Fail, FailureCounts
      <4> QED BY <2>1, <3>1, <3>3, <4>1
    <3> QED BY <3>2, <3>3
  <2> QED BY <2>2, <2>3
<1>6. ASSUME UNCHANGED <<breaker, openings, probeOf, pc>> PROVE Probes'
  BY <1>6
<1> QED
  BY <1>1, <1>2, <1>3, <1>4, <1>5, <1>6
     DEF Next, Attempt, Answer, vars, history, CompleteWarmup, Tick

\* Only checks, ends of waits and headers touch the budgets.
LEMMA BudgetStep == Inv /\ [Next]_vars => BudgetsKept'
<1> SUFFICES ASSUME Inv, [Next]_vars PROVE BudgetsKept'
  OBVIOUS
<1> USE DEF Inv, TypeOK, BudgetsKept
<1>a. \A r \in Requests : Api(r) \in Apis
  BY DEF Api, Apis
<1>1. ASSUME NEW r \in Requests, Check(r) PROVE BudgetsKept'
  <2> DEFINE b == budget[Api(r)]  c == closedUntil[Api(r)]
  <2>1. /\ \A a \in Apis : budget'[a] = IF a = Api(r) THEN AfterCheck(b, now) ELSE budget[a]
        /\ due' = [due EXCEPT ![r] = c]
        /\ until' = [until EXCEPT ![r] = IF AwaitsReset(b, now) THEN b.resetAt ELSE NotSet]
        /\ pc' = [pc EXCEPT ![r] = "waiting"]
        /\ UNCHANGED <<now, closedUntil>>
    BY <1>1, <1>a DEF Check, Goto
  <2>2. b \in Budget /\ c \in Nat \cup {NotSet}
    BY <1>a
  <2>3. c <= now \/ (b.remaining = "none" /\ b.resetAt = c)
    BY <1>a
  <2>4. CASE c <= now
    BY <2>1, <2>4
  <2>5. CASE ~(c <= now)
    <3>1. c # NotSet /\ now < c
      BY <2>2, <2>5 DEF NotSet
    <3>2. AwaitsReset(b, now) /\ AfterCheck(b, now) = b /\ b.resetAt = c
      BY <2>3, <2>5, <3>1 DEF AwaitsReset, Exhausted, AfterCheck
    <3> QED BY <2>1, <3>2
  <2> QED BY <2>4, <2>5
<1>2. ASSUME NEW r \in Requests, Proceeds(r), UNCHANGED <<now, due>>,
             NEW step, step # "waiting", Goto(r, step)
      PROVE  BudgetsKept'
  <2>1. \A a \in Apis : \/ budget'[a] = budget[a] /\ closedUntil'[a] = closedUntil[a]
                        \/ closedUntil'[a] = NotSet
    BY <1>2, <1>a DEF Proceeds
  <2>2. \A q \in Requests : pc'[q] = "waiting" => q # r /\ pc[q] = "waiting"
    BY <1>2 DEF Goto
  <2>3. \A q \in Requests : q # r => until'[q] = until[q]
    BY <1>2 DEF Proceeds
  <2> QED BY <1>2, <2>1, <2>2, <2>3 DEF NotSet
<1>3. ASSUME NEW r \in Requests, NEW headers \in Budget, Hears(r, headers),
             UNCHANGED now, NEW step, step # "waiting", Goto(r, step)
      PROVE  BudgetsKept'
  <2>1. \A a \in Apis : closedUntil'[a] <= now \/
          (budget'[a].remaining = "none" /\ budget'[a].resetAt = closedUntil'[a])
    BY <1>3, Hearing
  <2>2. \A q \in Requests : pc'[q] = "waiting" => pc[q] = "waiting"
    BY <1>3 DEF Goto
  <2> QED BY <1>3, <2>1, <2>2 DEF Hears
<1>4. ASSUME NEW r \in Requests, Succeed(r) PROVE BudgetsKept'
  BY <1>3, <1>4, HeadersTypes DEF Succeed
<1>5. ASSUME NEW r \in Requests, NEW error \in Errors, Fail(r, error)
      PROVE  BudgetsKept'
  <2>1. PICK headers \in Budget : Hears(r, headers)
    BY <1>5, HeadersTypes, BudgetTypes DEF Fail
  <2>2. Goto(r, "backoff") \/ Goto(r, "failed")
    BY <1>5 DEF Fail
  <2>3. UNCHANGED now
    BY <1>5 DEF Fail
  <2> QED BY <1>3, <2>1, <2>2, <2>3
<1>6. ASSUME Tick PROVE BudgetsKept'
  <2>1. \A x \in Nat \cup {NotSet} : x <= now => x <= now'
    BY <1>6 DEF Tick, NotSet
  <2>2. UNCHANGED <<budget, pc, until, closedUntil, due>>
    BY <1>6 DEF Tick, words
  <2> QED BY <2>1, <2>2
<1>7. ASSUME UNCHANGED <<budget, now, pc, until, words>> PROVE BudgetsKept'
  BY <1>7 DEF words
<1>8. ASSUME NEW r \in Requests, Send(r) \/ Refuse(r) PROVE BudgetsKept'
  BY <1>2, <1>8 DEF Send, Refuse
<1> QED
  BY <1>1, <1>4, <1>5, <1>6, <1>7, <1>8
     DEF Next, Call, Resume, Attempt, Answer, vars, CompleteWarmup

LEMMA FeedStep == Inv /\ [Next]_vars => FeedHistory'
<1> SUFFICES ASSUME Inv, [Next]_vars PROVE FeedHistory'
  OBVIOUS
<1> USE DEF Inv, TypeOK, FeedHistory, EntriesNeedFreshData, EntryBlocked, Feed, Never, NotReconnected
<1>1. ASSUME NEW r \in Requests, FeedUnavailable(r), UNCHANGED <<now, newestData>>
      PROVE  FeedHistory'
  BY <1>1 DEF FeedUnavailable, Unavailable
<1>2. ASSUME NEW r \in Requests, Succeed(r) PROVE FeedHistory'
  BY <1>2 DEF Succeed, Reconnected
<1>3. ASSUME CompleteWarmup PROVE FeedHistory'
  <2>1. PICK validated \in 0..now :
          /\ feed' = WarmedUp(feed, validated, now)
          /\ newestData' = IF feed.status = "RECOVERING" /\ feed'.status = "STABLE"
                             THEN validated ELSE newestData
          /\ UNCHANGED <<now, lastOutage>>
    BY <1>3 DEF CompleteWarmup
  <2>2. CASE feed.status # "RECOVERING"
    BY <2>1, <2>2 DEF WarmedUp
  <2>3. CASE feed.status = "RECOVERING" /\ WarmupAccepts(feed, validated, now)
    BY <2>1, <2>3 DEF WarmedUp, WarmupAccepts
  <2>4. CASE feed.status = "RECOVERING" /\ ~WarmupAccepts(feed, validated, now)
    BY <2>1, <2>4 DEF WarmedUp
  <2> QED
    BY <2>2, <2>3, <2>4
<1>4. ASSUME Tick PROVE FeedHistory'
  BY <1>4 DEF Tick, history
<1>5. ASSUME UNCHANGED <<feed, lastOutage, now, newestData>> PROVE FeedHistory'
  BY <1>5
<1>6. ASSUME NEW r \in Requests, NEW error \in Errors, Fail(r, error)
      PROVE  FeedHistory'
  BY <1>1, <1>5, <1>6 DEF Fail
<1> QED
  BY <1>1, <1>2, <1>3, <1>4, <1>5, <1>6
     DEF Next, Attempt, Answer, vars, history, Call, Resume, Check, Send, Refuse

LEMMA Invariance == Spec => []Inv
<1>1. Inv /\ [Next]_vars => Inv'
  BY TypeStep, BreakerStep, ProbesStep, BudgetStep, FeedStep DEF Inv
<1> QED
  BY InitInv, <1>1, PTL DEF Spec

-----------------------------------------------------------------------------
\* The breaker, the feed and the requests keep their types.
THEOREM TypeCorrect == Spec => []TypeOK
<1>1. Inv => TypeOK
  BY DEF Inv
<1> QED BY Invariance, <1>1, PTL

\* Each opening lets one request through, and a half-open circuit has its probe
\* in flight.
THEOREM SingleProbe == Spec => []OneProbePerOpening
<1>1. Inv => OneProbePerOpening
  BY DEF Inv, Probes
<1> QED BY Invariance, <1>1, PTL

\* The circuit is closed exactly as long as the threshold has not been reached.
THEOREM Threshold == Spec => []OpensAtThreshold
<1>1. Inv => OpensAtThreshold
  BY BreakerAssumption DEF Inv, TypeOK, BreakerHistory, OpensAtThreshold
<1> QED BY Invariance, <1>1, PTL

\* Nothing is sent before the reset that was due at its check.
THEOREM ResetsAwaited == Spec => NothingSentBeforeReset
<1> DEFINE Awaited == \A r \in Requests :
      pc[r] = "waiting" /\ pc'[r] = "sent" => now >= due[r]
<1>1. ASSUME Inv, [Next]_vars PROVE Awaited
  <2> SUFFICES ASSUME NEW r \in Requests, pc[r] = "waiting", pc'[r] = "sent"
               PROVE  now >= due[r]
    OBVIOUS
  <2>1. PICK q \in Requests : Send(q)
    BY <1>1 DEF Inv, TypeOK, Next, vars, Attempt, Answer, Call, Resume, Check, Refuse,
                Succeed, Fail, Goto, CompleteWarmup, Tick
  <2>2. q = r
    BY <1>1, <2>1 DEF Inv, TypeOK, Send, Goto
  <2>3. due[r] <= now \/ until[r] = due[r]
    BY <1>1 DEF Inv, BudgetsKept
  <2>4. now \in Nat /\ due[r] \in Nat \cup {NotSet}
    BY <1>1 DEF Inv, TypeOK
  <2> QED
    BY <2>1, <2>2, <2>3, <2>4 DEF Send, Proceeds, NotSet
<1> QED
  BY Invariance, <1>1, PTL DEF Spec, NothingSentBeforeReset

\* Entries are possible only after data as recent as the last outage.
THEOREM FreshEntries == Spec => []EntriesNeedFreshData
<1>1. Inv => EntriesNeedFreshData
  BY DEF Inv, FeedHistory
<1> QED BY Invariance, <1>1, PTL

\* Nothing is sent within OpenDuration of a counted failure while the circuit is
\* not closed.
THEOREM SilenceKept == Spec => SilentWhileOpen
<1> DEFINE Silent == \A r \in Requests :
      breaker.state # "CLOSED" /\ pc[r] # "sent" /\ pc'[r] = "sent"
        => now >= lastFailure + OpenDuration
<1>1. ASSUME Inv, [Next]_vars PROVE Silent
  <2> SUFFICES ASSUME NEW r \in Requests, breaker.state # "CLOSED",
                      pc[r] # "sent", pc'[r] = "sent"
               PROVE  now >= lastFailure + OpenDuration
    OBVIOUS
  <2>1. PICK q \in Requests : Send(q)
    BY <1>1 DEF Inv, TypeOK, Next, vars, Attempt, Answer, Call, Resume, Check, Refuse,
                Succeed, Fail, Goto, CompleteWarmup, Tick
  <2> QED
    BY <1>1, <2>1 DEF Send, Admits, Inv, BreakerHistory, Probes, OneProbePerOpening
<1> QED
  BY Invariance, <1>1, PTL DEF Spec, SilentWhileOpen
=============================================================================
