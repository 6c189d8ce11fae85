--------------------------- MODULE StrategyRunner ---------------------------
(***************************************************************************)
(* StrategyRunnerService.evaluate for one strategy version, with the lock  *)
(* table, the signal table and the activation row it shares with every     *)
(* other evaluation, on one or several backend instances.                  *)
(*                                                                         *)
(* Locks, counts and the activation row are all keyed by strategy id and   *)
(* version, so one strategy version is the whole universe of an            *)
(* evaluation.  A stream is a (symbol, action) pair: the cooldown and the  *)
(* deduplication identity never look at the two apart.                     *)
(*                                                                         *)
(* An evaluation has two parts.  "pc" is the body of evaluate, with its    *)
(* try/finally; "cd" is evaluateWithCooldown, which evaluate RETURNS       *)
(* without awaiting (line 162), so that the finally block that releases    *)
(* the frequency lock runs at the same time.                               *)
(***************************************************************************)
EXTENDS LockTable, FiniteSets

CONSTANTS
  Evals,          \* calls of evaluate; also their lock owner ids
  Streams,        \* (symbol, action) pairs; also the cooldown lock keys
  FrequencyKey,   \* the frequency lock key
  Times,          \* values of evaluatedAt
  Instances, InstanceOf,   \* backend process of each call
  MaxSignals, MaxSignalsPerMinute, Cooldown,    \* the strategy's limits
  Skew,           \* per instance, its clock minus the database clock
  Window,         \* the 60 000 ms of the frequency window
  Ttl,            \* SIGNAL_LOCK_TTL_MS
  MaxNow,         \* bound: the clock stops here
  MaxFaults       \* bound: evaluations that see a database call fail

ASSUME ConstantsAssumption ==
  /\ IsFiniteSet(Evals)
  /\ FrequencyKey \notin Streams
  /\ InstanceOf \in [Evals -> Instances]
  /\ Skew \in [Instances -> Int]
  /\ MaxSignals \in Nat \ {0}
  /\ MaxSignalsPerMinute \in Nat \ {0}
  /\ Cooldown \in Nat
  /\ Window \in Nat \ {0}
  /\ Ttl \in Nat \ {0}
  /\ MaxNow \in Nat
  /\ MaxFaults \in Nat

NoResult == "pending"
Failed == "failed"
ASSUME ResultsAreNotEvals == {NoResult, Failed} \cap Evals = {}

VARIABLES
  locks,      \* rows of PersistentLock
  signals,    \* rows of StrategySignalRecord; id is the evaluation that made it
  enabled,    \* StrategyActivationState.enabled
  now,        \* the database clock, NOW()
  pc,         \* per evaluation, the body of evaluate
  cd,         \* per evaluation, evaluateWithCooldown
  input,      \* per evaluation, [stream, evaluatedAt]
  signalAt,   \* per evaluation, signalAt of the signal it built
  result,     \* per evaluation, what the try block or its promise resolved to
  answer,     \* per evaluation, what the caller of evaluate got
  faulty,     \* evaluations that saw a database call fail
  lateFrequency,   \* signals inserted without owning the frequency lock row
  lateCooldown     \* signals inserted without owning the cooldown lock row

vars == <<locks, signals, enabled, now, pc, cd, input, signalAt, result,
          answer, faulty, lateFrequency, lateCooldown>>
store == <<signals, lateFrequency, lateCooldown>>

BodySteps == {"acquire", "create", "dedup", "frequency", "total", "persist",
              "release"}
CooldownSteps == {"acquire", "latest", "persist", "release"}

Signal == [id : Evals, stream : Streams, evaluatedAt : Times, signalAt : Int]

TypeOK ==
  /\ locks \subseteq LockRow(Streams \cup {FrequencyKey}, Evals)
  /\ signals \subseteq Signal
  /\ enabled \in BOOLEAN
  /\ now \in Nat
  /\ pc \in [Evals -> BodySteps \cup {"new", "joining", "done", "crashed"}]
  /\ cd \in [Evals -> CooldownSteps \cup {"none", "done", "crashed"}]
  /\ input \in [Evals -> [stream : Streams, evaluatedAt : Times]]
  /\ signalAt \in [Evals -> Int]
  /\ result \in [Evals -> Evals \cup {NoResult, Failed}]
  /\ answer \in [Evals -> Evals \cup {NoResult, Failed}]
  /\ faulty \subseteq Evals
  /\ lateFrequency \subseteq Evals
  /\ lateCooldown \subseteq Evals

Init ==
  /\ locks = {}
  /\ signals = {}
  /\ enabled = TRUE
  /\ now = 0
  /\ pc = [e \in Evals |-> "new"]
  /\ cd = [e \in Evals |-> "none"]
  /\ input \in [Evals -> [stream : Streams, evaluatedAt : Times]]
  /\ signalAt = [e \in Evals |-> 0]
  /\ result = [e \in Evals |-> NoResult]
  /\ answer = [e \in Evals |-> NoResult]
  /\ faulty = {}
  /\ lateFrequency = {}
  /\ lateCooldown = {}

-----------------------------------------------------------------------------
(* The signal table.                                                       *)

SameIdentity(s, e) ==
  s.stream = input[e].stream /\ s.evaluatedAt = input[e].evaluatedAt

Duplicates(e) == {s \in signals : SameIdentity(s, e)}

\* createMany with skipDuplicates on the unique identity.
Inserted(e) ==
  IF Duplicates(e) # {} THEN signals
  ELSE signals \cup {[id |-> e, stream |-> input[e].stream,
                      evaluatedAt |-> input[e].evaluatedAt,
                      signalAt |-> signalAt[e]]}

\* Mutation: the caller's own id instead of the canonical record's.
CanonicalOwn(e) == e

\* findUnique after the insert: the canonical record, ours or an older one.
Canonical(e) ==
  IF Duplicates(e) # {} THEN (CHOOSE s \in Duplicates(e) : TRUE).id ELSE e

Insert(e) ==
  /\ signals' = Inserted(e)
  /\ lateFrequency' = IF signals' # signals /\ ~OwnRow(locks, FrequencyKey, e)
               THEN lateFrequency \cup {e} ELSE lateFrequency
  /\ lateCooldown' = IF signals' # signals /\ ~OwnRow(locks, input[e].stream, e)
                   THEN lateCooldown \cup {e} ELSE lateCooldown

\* findHistory ordered by signalAt, then by the random signalId, descending.
Latest(e) ==
  LET same == {s \in signals : s.stream = input[e].stream}
  IN  {s \in same : \A t \in same : t.signalAt <= s.signalAt}

InWindow(from, to) == {s \in signals : s.signalAt \in from..to}

\* Mutation: one signal too many in the window.
FrequencyExceeded(e) ==
  Cardinality(InWindow(signalAt[e] - Window, signalAt[e])) > MaxSignalsPerMinute

FrequencyReached(e) ==
  Cardinality(InWindow(signalAt[e] - Window, signalAt[e])) >= MaxSignalsPerMinute

\* Mutation: one signal too many.
TotalExceeded == Cardinality(signals) > MaxSignals

TotalReached == Cardinality(signals) >= MaxSignals

\* Mutation: the cooldown is over one unit early.
CooldownRefusesLess(previous, reference) == reference + 1 < previous + Cooldown

\* isStrategySignalCooldownActive; a reference that precedes the previous
\* signal throws, which refuses the new signal as well.
CooldownRefuses(previous, reference) == reference < previous + Cooldown

-----------------------------------------------------------------------------
(* Steps of the body of evaluate.                                          *)

Goto(e, step) == pc' = [pc EXCEPT ![e] = step]

\* new Date() in the process that runs the call.  It dates the signal and the
\* expiry of the lock rows; the database compares the expiry with its own clock.
Clock(e) == now + Skew[InstanceOf[e]]

\* The call of evaluate ends with an error before its try block.
Throw(e) ==
  /\ Goto(e, "done")
  /\ answer' = [answer EXCEPT ![e] = Failed]

\* The try block ends; the finally block is next.
Leave(e, outcome) ==
  /\ Goto(e, "release")
  /\ result' = [result EXCEPT ![e] = outcome]

\* getState, then the rest of the preamble up to the first lock call.
Start(e) ==
  /\ pc[e] = "new"
  /\ IF enabled THEN Goto(e, "acquire") /\ UNCHANGED answer ELSE Throw(e)
  /\ UNCHANGED <<locks, store, enabled, now, cd, input, signalAt, result, faulty>>

\* strategy.evaluate throws, or its candidate does not validate.
RejectCandidate(e) ==
  /\ pc[e] = "acquire"
  /\ Throw(e)
  /\ UNCHANGED <<locks, store, enabled, now, cd, input, signalAt, result, faulty>>

AcquireFrequency(e) ==
  /\ pc[e] = "acquire"
  /\ locks' = Acquire(locks, FrequencyKey, e, Clock(e) + Ttl, now)
  /\ IF Acquirable(locks, FrequencyKey, e, now)
       THEN Goto(e, "create") /\ UNCHANGED answer
       ELSE Throw(e)
  /\ UNCHANGED <<store, enabled, now, cd, input, signalAt, result, faulty>>

\* The signal gets its signalAt once the answer of acquire has arrived.
CreateSignal(e) ==
  /\ pc[e] = "create"
  /\ signalAt' = [signalAt EXCEPT ![e] = Clock(e)]
  /\ Goto(e, "dedup")
  /\ UNCHANGED <<locks, store, enabled, now, cd, input, result, answer, faulty>>

\* Mutation: the duplicate returned outside the try/finally.
DeduplicateUnreleased(e) ==
  /\ pc[e] = "dedup"
  /\ IF Duplicates(e) # {}
       THEN Goto(e, "done") /\ UNCHANGED result
       ELSE Goto(e, "frequency") /\ UNCHANGED result
  /\ UNCHANGED <<locks, store, enabled, now, cd, input, signalAt, answer, faulty>>

Deduplicate(e) ==
  /\ pc[e] = "dedup"
  /\ IF Duplicates(e) # {}
       THEN Leave(e, Canonical(e))
       ELSE Goto(e, "frequency") /\ UNCHANGED result
  /\ UNCHANGED <<locks, store, enabled, now, cd, input, signalAt, answer, faulty>>

CheckFrequency(e) ==
  /\ pc[e] = "frequency"
  /\ IF FrequencyReached(e)
       THEN Leave(e, Failed)
       ELSE Goto(e, "total") /\ UNCHANGED result
  /\ UNCHANGED <<locks, store, enabled, now, cd, input, signalAt, answer, faulty>>

\* With a cooldown, evaluateWithCooldown starts and the finally block too.
CheckTotal(e) ==
  /\ pc[e] = "total"
  /\ \/ TotalReached /\ Leave(e, Failed) /\ UNCHANGED cd
     \/ /\ ~TotalReached /\ Cooldown = 0
        /\ Goto(e, "persist") /\ UNCHANGED <<cd, result>>
     \/ /\ ~TotalReached /\ Cooldown > 0
        /\ Goto(e, "release") /\ UNCHANGED result
        /\ cd' = [cd EXCEPT ![e] = "acquire"]
  /\ UNCHANGED <<locks, store, enabled, now, input, signalAt, answer, faulty>>

Persist(e) ==
  /\ pc[e] = "persist"
  /\ Insert(e)
  /\ Leave(e, Canonical(e))
  /\ UNCHANGED <<locks, enabled, now, cd, input, signalAt, answer, faulty>>

\* The finally block.  When the row is gone evaluate throws, even if the
\* signal was persisted or evaluateWithCooldown is still running.
ReleaseFrequency(e) ==
  /\ pc[e] = "release"
  /\ locks' = Release(locks, FrequencyKey, e)
  /\ \/ ~OwnRow(locks, FrequencyKey, e) /\ Throw(e)
     \/ /\ OwnRow(locks, FrequencyKey, e) /\ cd[e] # "none"
        /\ Goto(e, "joining") /\ UNCHANGED answer
     \/ /\ OwnRow(locks, FrequencyKey, e) /\ cd[e] = "none"
        /\ Goto(e, "done")
        /\ answer' = [answer EXCEPT ![e] = result[e]]
  /\ UNCHANGED <<store, enabled, now, cd, input, signalAt, result, faulty>>

\* The caller's promise adopts the promise of evaluateWithCooldown.
Join(e) ==
  /\ pc[e] = "joining"
  /\ cd[e] = "done"
  /\ Goto(e, "done")
  /\ answer' = [answer EXCEPT ![e] = result[e]]
  /\ UNCHANGED <<locks, store, enabled, now, cd, input, signalAt, result, faulty>>

-----------------------------------------------------------------------------
(* Steps of evaluateWithCooldown.                                          *)

\* A process dies: every evaluation it was running stops where it is.  Its
\* lock rows and signals stay in the database.
BodyRuns(e) == pc[e] \in BodySteps \cup {"joining"}
CooldownRuns(e) == cd[e] \in CooldownSteps

Die(i) ==
  /\ pc' = [e \in Evals |->
              IF InstanceOf[e] = i /\ BodyRuns(e) THEN "crashed" ELSE pc[e]]
  /\ cd' = [e \in Evals |->
              IF InstanceOf[e] = i /\ CooldownRuns(e) THEN "crashed" ELSE cd[e]]

\* The promise rejects.  Only a body that has reached the return value's
\* adoption handles it; before that, or after the finally block threw, the
\* rejection is unhandled and Node.js ends the process.
Reject(e) ==
  IF pc[e] = "joining"
    THEN cd' = [cd EXCEPT ![e] = "done"] /\ UNCHANGED pc
    ELSE Die(InstanceOf[e])

Settle(e, outcome) ==
  /\ result' = [result EXCEPT ![e] = outcome]
  /\ IF outcome = Failed
       THEN Reject(e)
       ELSE cd' = [cd EXCEPT ![e] = "done"] /\ UNCHANGED pc

LeaveCooldown(e, outcome) ==
  /\ cd' = [cd EXCEPT ![e] = "release"]
  /\ result' = [result EXCEPT ![e] = outcome]
  /\ UNCHANGED pc

\* Mutation: wait for a busy cooldown lock instead of failing.
AcquireCooldownWaiting(e) ==
  /\ cd[e] = "acquire"
  /\ Acquirable(locks, input[e].stream, e, now)
  /\ locks' = Acquire(locks, input[e].stream, e, Clock(e) + Ttl, now)
  /\ cd' = [cd EXCEPT ![e] = "latest"]
  /\ UNCHANGED <<store, enabled, now, pc, input, signalAt, result, answer, faulty>>

AcquireCooldown(e) ==
  /\ cd[e] = "acquire"
  /\ locks' = Acquire(locks, input[e].stream, e, Clock(e) + Ttl, now)
  /\ IF Acquirable(locks, input[e].stream, e, now)
       THEN cd' = [cd EXCEPT ![e] = "latest"] /\ UNCHANGED <<pc, result>>
       ELSE Settle(e, Failed)
  /\ UNCHANGED <<store, enabled, now, input, signalAt, answer, faulty>>

CheckCooldown(e) ==
  /\ cd[e] = "latest"
  /\ \/ /\ Latest(e) = {}
        /\ cd' = [cd EXCEPT ![e] = "persist"] /\ UNCHANGED <<pc, result>>
     \/ \E s \in Latest(e) :
          \/ /\ s.evaluatedAt = input[e].evaluatedAt
             /\ LeaveCooldown(e, s.id)
          \/ /\ s.evaluatedAt # input[e].evaluatedAt
             /\ CooldownRefuses(s.signalAt, signalAt[e])
             /\ LeaveCooldown(e, Failed)
          \/ /\ s.evaluatedAt # input[e].evaluatedAt
             /\ ~CooldownRefuses(s.signalAt, signalAt[e])
             /\ cd' = [cd EXCEPT ![e] = "persist"] /\ UNCHANGED <<pc, result>>
  /\ UNCHANGED <<locks, store, enabled, now, input, signalAt, answer, faulty>>

PersistCooldown(e) ==
  /\ cd[e] = "persist"
  /\ Insert(e)
  /\ LeaveCooldown(e, Canonical(e))
  /\ UNCHANGED <<locks, enabled, now, input, signalAt, answer, faulty>>

ReleaseCooldown(e) ==
  /\ cd[e] = "release"
  /\ locks' = Release(locks, input[e].stream, e)
  /\ Settle(e, IF OwnRow(locks, input[e].stream, e) THEN result[e] ELSE Failed)
  /\ UNCHANGED <<store, enabled, now, input, signalAt, answer, faulty>>

-----------------------------------------------------------------------------
(* The environment: failing database calls, crashes, the operator, time.   *)

FaultBudget == Cardinality(faulty) < MaxFaults

\* A database call of e throws.  A statement that writes may have been
\* executed all the same.
CallFails(e) ==
  /\ FaultBudget
  /\ e \notin faulty
  /\ faulty' = faulty \cup {e}
  /\ UNCHANGED <<enabled, now, input, signalAt>>

ReadFails(e) ==
  /\ CallFails(e)
  /\ UNCHANGED <<locks, store>>
  /\ \/ pc[e] = "new" /\ Throw(e) /\ UNCHANGED <<cd, result>>
     \/ /\ pc[e] \in {"dedup", "frequency", "total"}
        /\ Leave(e, Failed) /\ UNCHANGED <<cd, answer>>
     \/ cd[e] = "latest" /\ LeaveCooldown(e, Failed) /\ UNCHANGED answer

PersistFails(e) ==
  /\ CallFails(e)
  /\ Insert(e) \/ UNCHANGED store
  /\ \/ pc[e] = "persist" /\ Leave(e, Failed) /\ UNCHANGED cd
     \/ cd[e] = "persist" /\ LeaveCooldown(e, Failed)
  /\ UNCHANGED <<locks, answer>>

FrequencyLockFails(e) ==
  /\ CallFails(e)
  /\ \/ pc[e] = "acquire" /\ locks' = Acquire(locks, FrequencyKey, e, Clock(e) + Ttl, now)
     \/ pc[e] = "release" /\ locks' = Release(locks, FrequencyKey, e)
     \/ pc[e] \in {"acquire", "release"} /\ UNCHANGED locks
  /\ Throw(e)
  /\ UNCHANGED <<store, cd, result>>

CooldownLockFails(e) ==
  /\ CallFails(e)
  /\ \/ cd[e] = "acquire" /\ locks' = Acquire(locks, input[e].stream, e, Clock(e) + Ttl, now)
     \/ cd[e] = "release" /\ locks' = Release(locks, input[e].stream, e)
     \/ cd[e] \in {"acquire", "release"} /\ UNCHANGED locks
  /\ Settle(e, Failed)
  /\ UNCHANGED <<store, answer>>

Crash(i) ==
  LET killed == {e \in Evals : InstanceOf[e] = i /\ (BodyRuns(e) \/ CooldownRuns(e))}
  IN  /\ FaultBudget
      /\ killed # {}
      /\ Die(i)
      /\ faulty' = faulty \cup killed
      /\ UNCHANGED <<locks, store, enabled, now, input, signalAt, result, answer>>

SetEnabled ==
  /\ enabled' = ~enabled
  /\ UNCHANGED <<locks, store, now, pc, cd, input, signalAt, result, answer, faulty>>

Tick ==
  /\ now < MaxNow
  /\ now' = now + 1
  /\ UNCHANGED <<locks, store, enabled, pc, cd, input, signalAt, result, answer, faulty>>

-----------------------------------------------------------------------------
Body(e) ==
  \/ Start(e) \/ RejectCandidate(e) \/ AcquireFrequency(e) \/ CreateSignal(e)
  \/ Deduplicate(e) \/ CheckFrequency(e) \/ CheckTotal(e) \/ Persist(e)
  \/ ReleaseFrequency(e) \/ Join(e)

CooldownPart(e) ==
  \/ AcquireCooldown(e) \/ CheckCooldown(e) \/ PersistCooldown(e)
  \/ ReleaseCooldown(e)

Fault(e) ==
  \/ ReadFails(e) \/ PersistFails(e) \/ FrequencyLockFails(e)
  \/ CooldownLockFails(e)

Next ==
  \/ \E e \in Evals : Body(e) \/ CooldownPart(e) \/ Fault(e)
  \/ \E i \in Instances : Crash(i)
  \/ SetEnabled
  \/ Tick

Spec == Init /\ [][Next]_vars

\* A call that was made goes on: every database call is answered or throws.
Fairness == \A e \in Evals : WF_vars(pc[e] # "new" /\ Body(e)) /\ WF_vars(CooldownPart(e))

FairSpec == Spec /\ Fairness

-----------------------------------------------------------------------------
OnTime == {s \in signals : s.id \notin lateFrequency}

\* The strategy's maxSignals holds for the signals whose evaluation still owned
\* the frequency lock row when it inserted them: however evaluations, expiries,
\* takeovers, crashes and half-executed calls interleave, the only way past the
\* limit is an insert without the lock (lines 149-169).
LeaseTotalLimit == Cardinality(OnTime) <= MaxSignals

\* The clock that dated t is not behind the one that dated s.
NotBehind(t, s) == Skew[InstanceOf[s.id]] <= Skew[InstanceOf[t.id]]

\* The same for maxSignalsPerMinute, in the window that ends at any of them, as
\* far as the clocks allow: the window of s counts the signals dated by clocks
\* that are not behind the clock of s (by its own, by those that agree with it,
\* by those ahead).  A clock that is behind may date a later signal into a
\* window that was counted before (line 134), with the lock in force.
LeaseFrequencyLimit ==
  \A s \in OnTime :
    Cardinality({t \in OnTime : /\ NotBehind(t, s)
                                /\ t.signalAt \in (s.signalAt - Window)..s.signalAt})
      <= MaxSignalsPerMinute

\* maxSignals, with no reservation (assertTotalLimitAllowsSignal).
TotalLimit == Cardinality(signals) <= MaxSignals

\* Two signals of one stream inserted under the cooldown lock are at least the
\* cooldown apart, in whatever order the two evaluations built and inserted
\* them: signalAt is drawn before the cooldown lock is taken (lines 132, 257).
CooldownSpacing ==
  \A s, t \in {u \in signals : u.id \notin lateCooldown} :
    s # t /\ s.stream = t.stream /\ s.signalAt <= t.signalAt
      => t.signalAt >= s.signalAt + Cooldown

\* A caller that gets a signal gets the stored record of its own identity, and
\* there is one such record: concurrent and repeated calls for one identity
\* agree on the signal, even when the first of them was told it failed.
CanonicalAnswer ==
  /\ \A s, t \in signals :
       s.stream = t.stream /\ s.evaluatedAt = t.evaluatedAt => s = t
  /\ \A e \in Evals : answer[e] \in Evals =>
       \E s \in signals : s.id = answer[e] /\ SameIdentity(s, e)

\* No lock row outlives its critical section: a row belongs to an evaluation
\* between its acquire and its release of that very key, or to one that
\* crashed or saw a call fail.
LocksReturned ==
  \A r \in locks :
    LET e == r.owner IN
      \/ e \in faulty
      \/ "crashed" \in {pc[e], cd[e]}
      \/ r.key = FrequencyKey /\ pc[e] \in BodySteps \ {"acquire"}
      \/ r.key = input[e].stream /\ cd[e] \in CooldownSteps \ {"acquire"}

\* Every call of evaluate ends, and so does the cooldown part it started.
EveryCallSettles ==
  \A e \in Evals :
    pc[e] = "acquire" ~> /\ pc[e] \in {"done", "crashed"}
                         /\ cd[e] \in {"none", "done", "crashed"}

\* A rejected evaluation is reported to its caller; it does not end the process.
RejectionReachesCaller == \A e \in Evals : "crashed" \notin {pc[e], cd[e]}

=============================================================================
