--------------------------- MODULE CircuitBreaker ---------------------------
(***************************************************************************)
(* AlpacaCircuitBreakerService as operators on its four fields: one breaker *)
(* is shared by every request of the process, trading and market data.     *)
(***************************************************************************)
EXTENDS Integers

CONSTANTS
  FailureThreshold,   \* alpacaCircuitBreakerFailureThreshold
  OpenDuration        \* alpacaCircuitBreakerOpenMs

\* resolveFailureThreshold and resolveOpenDurationMs refuse anything else.
ASSUME BreakerAssumption ==
  /\ FailureThreshold \in Nat \ {0}
  /\ OpenDuration \in Nat \ {0}

Never == -1

Breaker == [state    : {"CLOSED", "OPEN", "HALF_OPEN"},
            failures : Nat,             \* consecutiveFailures
            openedAt : Nat \cup {Never},
            probing  : BOOLEAN]         \* halfOpenProbeInFlight

Closed == [state |-> "CLOSED", failures |-> 0, openedAt |-> Never, probing |-> FALSE]

\* Mutation: an open circuit keeps the time at which it opened.
OpenedOnce(b, t) ==
  [b EXCEPT !.state = "OPEN", !.probing = FALSE,
            !.openedAt = IF @ = Never THEN t ELSE @]

\* openCircuit
Opened(b, t) == [b EXCEPT !.state = "OPEN", !.openedAt = t, !.probing = FALSE]

\* beforeRequest returns at time t; otherwise it throws and changes nothing.
Admits(b, t) ==
  \/ b.state = "CLOSED"
  \/ b.state = "OPEN" /\ t >= b.openedAt + OpenDuration
  \/ b.state = "HALF_OPEN" /\ ~b.probing

\* Mutation: the probe is not remembered.
AfterAdmitForgetting(b) ==
  IF b.state = "CLOSED" THEN b ELSE [b EXCEPT !.state = "HALF_OPEN"]

\* What beforeRequest leaves when it returns.
AfterAdmit(b) ==
  IF b.state = "CLOSED" THEN b
  ELSE [b EXCEPT !.state = "HALF_OPEN", !.probing = TRUE]

\* shouldCountFailure: a lost connection or a 5xx answer; a 429, another 4xx or
\* an error of the client itself is not counted.
Errors == {"network", "server", "rateLimit", "client"}
Counted(error) == error \in {"network", "server"}

\* Mutation: the probe's failure clears the flag and leaves the circuit half open.
AfterErrorStaying(b, error, t) ==
  IF ~Counted(error) THEN Closed
  ELSE IF b.failures + 1 >= FailureThreshold /\ b.state # "HALF_OPEN"
       THEN Opened([b EXCEPT !.failures = @ + 1], t)
       ELSE [b EXCEPT !.failures = @ + 1, !.probing = FALSE]

\* Mutation: one failure too many.
AfterErrorLate(b, error, t) ==
  IF ~Counted(error) THEN Closed
  ELSE IF b.state = "HALF_OPEN" THEN Opened(b, t)
  ELSE IF b.failures >= FailureThreshold
       THEN Opened([b EXCEPT !.failures = @ + 1], t)
       ELSE [b EXCEPT !.failures = @ + 1, !.probing = FALSE]

\* recordFailure: an error that is not counted is recorded as a success.
AfterError(b, error, t) ==
  IF ~Counted(error) THEN Closed
  ELSE IF b.state = "HALF_OPEN" THEN Opened(b, t)
  ELSE IF b.failures + 1 >= FailureThreshold
       THEN Opened([b EXCEPT !.failures = @ + 1], t)
       ELSE [b EXCEPT !.failures = @ + 1, !.probing = FALSE]
=============================================================================
