------------------------ MODULE StrategyRunnerProofs ------------------------
(***************************************************************************)
(* Proofs about StrategyRunner, for any number of calls, streams and       *)
(* instances, any limits, any TTL and any faults.                          *)
(*                                                                         *)
(* Nothing happens on time without a lock row: whoever inserts without the *)
(* row is marked as late.  So an evaluation that still owns the row of a   *)
(* lock may rely, until its insert, on what it found when it had the lock: *)
(* the count of all signals (Headroom), the count of its window            *)
(* (WindowRoom) and the latest signal of its stream (CooldownClear).       *)
(* Nobody else can spoil it, because a key has one row (KeyIsUnique), and  *)
(* the evaluation itself inserts once, because its cooldown part starts    *)
(* only when its body is past the insert (CooldownAfterBody).  The windows *)
(* of other signals need one fact more: a signal that is about to be       *)
(* inserted on time was built after all of them (BuiltLast), so that it is *)
(* dated before one of them only if its clock is behind the other's.       *)
(***************************************************************************)
EXTENDS StrategyRunner, FiniteSetTheorems, WellFoundedInduction, TLAPS

\* The cooldown part runs only when the body has nothing but the lock to return.
CooldownAfterBody ==
  \A e \in Evals : cd[e] # "none" =>
    pc[e] \in {"release", "joining", "done", "crashed"}

Inserting(e) == pc[e] = "persist" \/ cd[e] \in {"acquire", "latest", "persist"}

\* An evaluation that counted the signals and owns the row leaves room for its own.
Headroom ==
  \A e \in Evals :
    Inserting(e) /\ OwnRow(locks, FrequencyKey, e) => Cardinality(OnTime) < MaxSignals

\* An evaluation that has built its signal, or counted its window, and has not
\* inserted it yet.
Built(e) == pc[e] \in {"dedup", "frequency", "total"} \/ Inserting(e)
Counted(e) == pc[e] = "total" \/ Inserting(e)

OnTimeWindow(at) == {t \in OnTime : t.signalAt \in (at - Window)..at}

Offset(e) == Skew[InstanceOf[e]]

\* Nothing was built in the future of its own clock.
SignalsPast ==
  /\ \A s \in signals : s.signalAt <= Clock(s.id)
  /\ \A e \in Evals : Built(e) => signalAt[e] <= Clock(e)

\* The owner of the row built its signal after every signal inserted on time, by
\* the database clock.
BuiltLast ==
  \A e \in Evals : Built(e) /\ OwnRow(locks, FrequencyKey, e) =>
    \A s \in OnTime : s.signalAt - Offset(s.id) <= signalAt[e] - Offset(e)

\* An owner that counted its window has room in it.
WindowRoom ==
  \A e \in Evals : Counted(e) /\ OwnRow(locks, FrequencyKey, e) =>
    Cardinality(OnTimeWindow(signalAt[e])) < MaxSignalsPerMinute

BodyPersistsWithoutCooldown == \A e \in Evals : pc[e] = "persist" => Cooldown = 0

\* An owner of the cooldown row that compared its signal is a cooldown after every
\* signal of its stream that was inserted under the row.
CooldownClear ==
  \A e \in Evals : cd[e] = "persist" /\ OwnRow(locks, input[e].stream, e) =>
    \A s \in signals : s.stream = input[e].stream /\ s.id \notin lateCooldown
                         => s.signalAt + Cooldown <= signalAt[e]

\* A result is the id of a stored signal of the evaluation's identity.
Stored(id, e) == \E s \in signals : s.id = id /\ SameIdentity(s, e)

ResultStored == \A e \in Evals : result[e] \in Evals => Stored(result[e], e)

\* An evaluation that may have a row under the key (see LocksReturned).
Entitled(e, key) ==
  \/ e \in faulty
  \/ "crashed" \in {pc[e], cd[e]}
  \/ key = FrequencyKey /\ pc[e] \in BodySteps \ {"acquire"}
  \/ key = input[e].stream /\ cd[e] \in CooldownSteps \ {"acquire"}

Inv ==
  /\ TypeOK /\ KeyIsUnique(locks) /\ IsFiniteSet(signals) /\ SignalsPast
  /\ CooldownAfterBody /\ BodyPersistsWithoutCooldown
  /\ Headroom /\ LeaseTotalLimit
  /\ BuiltLast /\ WindowRoom /\ LeaseFrequencyLimit
  /\ CooldownClear /\ CooldownSpacing
  /\ ResultStored /\ CanonicalAnswer
  /\ LocksReturned

-----------------------------------------------------------------------------
LEMMA CanonicalType ==
  ASSUME TypeOK, NEW e \in Evals
  PROVE  Canonical(e) \in Evals
<1>1. CASE Duplicates(e) # {}
  <2>1. (CHOOSE s \in Duplicates(e) : TRUE) \in Duplicates(e)
    BY <1>1
  <2>2. Duplicates(e) \subseteq Signal
    BY DEF TypeOK, Duplicates
  <2>3. QED
    BY <1>1, <2>1, <2>2 DEF Canonical, Signal
<1>2. CASE Duplicates(e) = {}
  BY <1>2 DEF Canonical
<1>3. QED
  BY <1>1, <1>2

LEMMA InsertType ==
  ASSUME TypeOK, NEW e \in Evals, Insert(e)
  PROVE  /\ signals' \subseteq Signal
         /\ lateFrequency' \subseteq Evals
         /\ lateCooldown' \subseteq Evals
  BY DEF TypeOK, Insert, Inserted, Signal

LEMMA ClockType ==
  ASSUME TypeOK, NEW e \in Evals
  PROVE  Offset(e) \in Int /\ Clock(e) \in Int /\ Clock(e) = now + Offset(e)
  BY ConstantsAssumption DEF TypeOK, Clock, Offset

LEMMA AcquireType ==
  ASSUME TypeOK, ConstantsAssumption, NEW e \in Evals,
         NEW k \in Streams \cup {FrequencyKey}
  PROVE  /\ Acquire(locks, k, e, Clock(e) + Ttl, now)
              \subseteq LockRow(Streams \cup {FrequencyKey}, Evals)
         /\ Release(locks, k, e) \subseteq LockRow(Streams \cup {FrequencyKey}, Evals)
  BY ClockType DEF TypeOK, ConstantsAssumption, Acquire, WithRow, Release, LockRow

LEMMA SettleType ==
  ASSUME TypeOK, NEW e \in Evals, NEW v \in Evals \cup {NoResult, Failed},
         Settle(e, v) \/ LeaveCooldown(e, v)
  PROVE  /\ pc' \in [Evals -> BodySteps \cup {"new", "joining", "done", "crashed"}]
         /\ cd' \in [Evals -> CooldownSteps \cup {"none", "done", "crashed"}]
         /\ result' \in [Evals -> Evals \cup {NoResult, Failed}]
<1>1. CASE LeaveCooldown(e, v)
  BY <1>1 DEF TypeOK, LeaveCooldown, CooldownSteps
<1>2. CASE Settle(e, v) /\ Die(InstanceOf[e])
  BY <1>2 DEF TypeOK, Settle, Die
<1>3. CASE Settle(e, v) /\ cd' = [cd EXCEPT ![e] = "done"] /\ UNCHANGED pc
  BY <1>3 DEF TypeOK, Settle
<1>4. QED
  BY <1>1, <1>2, <1>3 DEF Settle, Reject

LEMMA BodyType ==
  ASSUME TypeOK, NEW e \in Evals, Body(e)
  PROVE  TypeOK'
<1>. USE ConstantsAssumption DEF BodySteps, CooldownSteps
<1>1. CASE Start(e)
  BY <1>1 DEF Start, Goto, Throw, TypeOK, store
<1>2. CASE RejectCandidate(e)
  BY <1>2 DEF RejectCandidate, Goto, Throw, TypeOK, store
<1>3. CASE AcquireFrequency(e)
  <2>1. locks' \subseteq LockRow(Streams \cup {FrequencyKey}, Evals)
    BY <1>3, AcquireType DEF AcquireFrequency
  <2>2. \/ Goto(e, "create") /\ UNCHANGED answer
        \/ Throw(e)
    BY <1>3 DEF AcquireFrequency
  <2>3. UNCHANGED <<store, enabled, now, cd, input, signalAt, result, faulty>>
    BY <1>3 DEF AcquireFrequency
  <2>4. /\ pc' \in [Evals -> BodySteps \cup {"new", "joining", "done", "crashed"}]
        /\ answer' \in [Evals -> Evals \cup {NoResult, Failed}]
    <3>1. /\ pc \in [Evals -> BodySteps \cup {"new", "joining", "done", "crashed"}]
          /\ answer \in [Evals -> Evals \cup {NoResult, Failed}]
      BY DEF TypeOK
    <3>2. CASE Goto(e, "create") /\ UNCHANGED answer
      BY <3>1, <3>2 DEF Goto
    <3>3. CASE Throw(e)
      BY <3>1, <3>3 DEF Throw, Goto
    <3>4. QED
      BY <2>2, <3>2, <3>3
  <2>5. QED
    BY <2>1, <2>3, <2>4 DEF TypeOK, store
<1>4. CASE CreateSignal(e)
  <2>1. /\ signalAt' \in [Evals -> Int]
        /\ pc' \in [Evals -> BodySteps \cup {"new", "joining", "done", "crashed"}]
    BY <1>4, ClockType DEF CreateSignal, Goto, TypeOK
  <2>2. QED
    BY <1>4, <2>1 DEF CreateSignal, TypeOK, store
<1>5. CASE Deduplicate(e)
  <2>1. Canonical(e) \in Evals
    BY CanonicalType
  <2>2. /\ pc' \in [Evals -> BodySteps \cup {"new", "joining", "done", "crashed"}]
        /\ result' \in [Evals -> Evals \cup {NoResult, Failed}]
    <3>1. CASE Leave(e, Canonical(e))
      BY <2>1, <3>1 DEF Leave, Goto, TypeOK
    <3>2. CASE Goto(e, "frequency") /\ UNCHANGED result
      BY <3>2 DEF Goto, TypeOK
    <3>3. QED
      BY <1>5, <3>1, <3>2 DEF Deduplicate
  <2>3. QED
    BY <1>5, <2>2 DEF Deduplicate, TypeOK, store
<1>6. CASE CheckFrequency(e)
  BY <1>6 DEF CheckFrequency, Leave, Goto, TypeOK, store
<1>7. CASE CheckTotal(e)
  BY <1>7 DEF CheckTotal, Leave, Goto, TypeOK, store
<1>8. CASE Persist(e)
  BY <1>8, CanonicalType, InsertType DEF Persist, Leave, Goto, TypeOK, store
<1>9. CASE ReleaseFrequency(e)
  BY <1>9, AcquireType DEF ReleaseFrequency, Goto, Throw, TypeOK, store
<1>10. CASE Join(e)
  BY <1>10 DEF Join, Goto, TypeOK, store
<1>11. QED
  BY <1>1, <1>2, <1>3, <1>4, <1>5, <1>6, <1>7, <1>8, <1>9, <1>10 DEF Body

LEMMA CooldownPartType ==
  ASSUME TypeOK, NEW e \in Evals, CooldownPart(e)
  PROVE  TypeOK'
<1>. USE ConstantsAssumption DEF CooldownSteps
<1>1. input[e].stream \in Streams
  BY DEF TypeOK
<1>2. CASE AcquireCooldown(e)
  BY <1>1, <1>2, AcquireType, SettleType DEF AcquireCooldown, TypeOK, store
<1>3. CASE CheckCooldown(e)
  <2>1. \A s \in Latest(e) : s.id \in Evals
    BY DEF Latest, TypeOK, Signal
  <2>2. QED
    BY <1>3, <2>1, SettleType DEF CheckCooldown, TypeOK, store
<1>4. CASE PersistCooldown(e)
  BY <1>4, CanonicalType, InsertType, SettleType DEF PersistCooldown, TypeOK, store
<1>5. CASE ReleaseCooldown(e)
  <2>1. result[e] \in Evals \cup {NoResult, Failed}
    BY DEF TypeOK
  <2>2. QED
    BY <1>1, <1>5, <2>1, AcquireType, SettleType DEF ReleaseCooldown, TypeOK, store
<1>6. QED
  BY <1>2, <1>3, <1>4, <1>5 DEF CooldownPart

LEMMA FaultType ==
  ASSUME TypeOK, NEW e \in Evals, Fault(e)
  PROVE  TypeOK'
<1>. USE ConstantsAssumption DEF BodySteps, CallFails
<1>1. input[e].stream \in Streams
  BY DEF TypeOK
<1>2. CASE ReadFails(e)
  BY <1>2, SettleType DEF ReadFails, Leave, Throw, Goto, TypeOK, store
<1>3. CASE PersistFails(e)
  BY <1>3, InsertType, SettleType DEF PersistFails, Leave, Goto, TypeOK, store
<1>4. CASE FrequencyLockFails(e)
  BY <1>4, AcquireType DEF FrequencyLockFails, Throw, Goto, TypeOK, store
<1>5. CASE CooldownLockFails(e)
  BY <1>1, <1>5, AcquireType, SettleType DEF CooldownLockFails, TypeOK, store
<1>6. QED
  BY <1>2, <1>3, <1>4, <1>5 DEF Fault

LEMMA NextType == TypeOK /\ [Next]_vars => TypeOK'
<1>. SUFFICES ASSUME TypeOK, [Next]_vars PROVE TypeOK'
  OBVIOUS
<1>1. ASSUME NEW e \in Evals, Body(e) \/ CooldownPart(e) \/ Fault(e)
      PROVE  TypeOK'
  BY <1>1, BodyType, CooldownPartType, FaultType
<1>2. ASSUME NEW i \in Instances, Crash(i)
      PROVE  TypeOK'
  BY <1>2 DEF Crash, Die, TypeOK, store, BodySteps, CooldownSteps
<1>3. CASE SetEnabled
  BY <1>3 DEF SetEnabled, TypeOK, store
<1>4. CASE Tick
  <2>1. now' \in Nat
    BY <1>4 DEF Tick, TypeOK
  <2>2. QED
    BY <1>4, <2>1 DEF Tick, TypeOK, store
<1>5. CASE UNCHANGED vars
  BY <1>5 DEF vars, TypeOK
<1>6. QED
  BY <1>1, <1>2, <1>3, <1>4, <1>5 DEF Next

-----------------------------------------------------------------------------
\* How a step changes the lock rows, as far as the limits and the cooldown care.

\* No evaluation comes to own the frequency lock row once its signal is built,
\* nor the cooldown lock row once it has compared its signal with the latest.
LockStep ==
  \A e \in Evals :
    /\ OwnRow(locks', FrequencyKey, e) /\ Built(e)' => OwnRow(locks, FrequencyKey, e)
    /\ OwnRow(locks', input[e].stream, e) /\ cd'[e] = "persist" =>
         OwnRow(locks, input[e].stream, e)

LEMMA RowStep ==
  ASSUME KeyIsUnique(locks), NEW k, NEW o, NEW x, NEW t
  PROVE  /\ KeyIsUnique(Acquire(locks, k, o, x, t))
         /\ KeyIsUnique(Release(locks, k, o))
         /\ \A f, g : (f # k \/ g # o) /\ OwnRow(Acquire(locks, k, o, x, t), f, g)
                        => OwnRow(locks, f, g)
         /\ \A f, g : OwnRow(Release(locks, k, o), f, g) => OwnRow(locks, f, g)
  BY DEF KeyIsUnique, Acquire, WithRow, Release, OwnRow

\* Every step leaves the rows alone, or is one lock statement; a row is acquired
\* only by an evaluation that has not built or compared its signal yet.
LEMMA NextLocks ==
  ASSUME TypeOK, TypeOK', KeyIsUnique(locks), CooldownAfterBody, [Next]_vars
  PROVE  KeyIsUnique(locks') /\ LockStep
<1>1. CASE UNCHANGED locks
  BY <1>1 DEF LockStep
<1>2. CASE \E e \in Evals : locks' = Release(locks, FrequencyKey, e)
  BY <1>2, RowStep DEF LockStep
<1>3. CASE \E e \in Evals : locks' = Release(locks, input[e].stream, e)
  BY <1>3, RowStep DEF LockStep
<1>4. ASSUME NEW e \in Evals, cd'[e] # "persist",
             locks' = Acquire(locks, input[e].stream, e, Clock(e) + Ttl, now)
      PROVE  KeyIsUnique(locks') /\ LockStep
  <2>1. input[e].stream # FrequencyKey
    BY ConstantsAssumption DEF TypeOK
  <2>2. QED
    BY <1>4, <2>1, RowStep DEF LockStep
<1>5. ASSUME NEW e \in Evals, AcquireFrequency(e) \/ FrequencyLockFails(e),
             locks' = Acquire(locks, FrequencyKey, e, Clock(e) + Ttl, now),
             pc[e] = "acquire"
      PROVE  KeyIsUnique(locks') /\ LockStep
  <2>1. cd[e] = "none" /\ cd' = cd
    BY <1>5 DEF CooldownAfterBody, AcquireFrequency, FrequencyLockFails, store, TypeOK
  <2>2. pc'[e] \in {"create", "done"}
    BY <1>5 DEF AcquireFrequency, FrequencyLockFails, Goto, Throw, TypeOK
  <2>3. ~Built(e)'
    BY <2>1, <2>2 DEF Built, Inserting
  <2>4. \A f \in Evals : input[f].stream # FrequencyKey
    BY ConstantsAssumption DEF TypeOK
  <2>5. QED
    BY <1>5, <2>3, <2>4, RowStep DEF LockStep
<1>6. ASSUME NEW e \in Evals, Settle(e, Failed), cd[e] # "persist"
      PROVE  cd'[e] # "persist"
  BY <1>6 DEF Settle, Reject, Die, TypeOK
<1>7. ASSUME NEW e \in Evals, Body(e) \/ CooldownPart(e)
      PROVE  KeyIsUnique(locks') /\ LockStep
  <2>1. CASE AcquireFrequency(e)
    BY <1>5, <2>1 DEF AcquireFrequency
  <2>2. CASE ReleaseFrequency(e)
    BY <1>2, <2>2 DEF ReleaseFrequency
  <2>3. CASE AcquireCooldown(e)
    <3>1. cd'[e] # "persist"
      BY <1>6, <2>3 DEF AcquireCooldown, TypeOK
    <3>2. QED
      BY <1>4, <2>3, <3>1 DEF AcquireCooldown
  <2>4. CASE ReleaseCooldown(e)
    BY <1>3, <2>4 DEF ReleaseCooldown
  <2>5. QED
    BY <1>1, <1>7, <2>1, <2>2, <2>3, <2>4
       DEF Body, CooldownPart, Start, RejectCandidate, CreateSignal, Deduplicate,
           CheckFrequency, CheckTotal, Persist, Join, CheckCooldown, PersistCooldown
<1>8. ASSUME NEW e \in Evals, Fault(e)
      PROVE  KeyIsUnique(locks') /\ LockStep
  <2>1. CASE FrequencyLockFails(e)
    BY <1>1, <1>2, <1>5, <2>1 DEF FrequencyLockFails
  <2>2. CASE CooldownLockFails(e)
    <3>1. cd'[e] # "persist"
      BY <1>6, <2>2 DEF CooldownLockFails
    <3>2. QED
      BY <1>1, <1>3, <1>4, <2>2, <3>1 DEF CooldownLockFails
  <2>3. QED
    BY <1>1, <1>8, <2>1, <2>2 DEF Fault, ReadFails, PersistFails
<1>9. QED
  BY <1>1, <1>7, <1>8 DEF Next, Crash, SetEnabled, Tick, vars

-----------------------------------------------------------------------------
LEMMA NextCooldownAfterBody ==
  ASSUME TypeOK, CooldownAfterBody, [Next]_vars
  PROVE  CooldownAfterBody'
<1>. USE DEF CooldownAfterBody
<1>1. ASSUME NEW e \in Evals, NEW v, Settle(e, v) \/ LeaveCooldown(e, v), cd[e] # "none"
      PROVE  CooldownAfterBody'
  <2>1. CASE LeaveCooldown(e, v)
    BY <1>1, <2>1 DEF LeaveCooldown, TypeOK
  <2>2. CASE Die(InstanceOf[e])
    BY <2>2 DEF Die, TypeOK, CooldownRuns, CooldownSteps
  <2>3. CASE cd' = [cd EXCEPT ![e] = "done"] /\ UNCHANGED pc
    BY <1>1, <2>3 DEF TypeOK
  <2>4. QED
    BY <1>1, <2>1, <2>2, <2>3 DEF Settle, Reject
<1>2. ASSUME NEW e \in Evals, Body(e)
      PROVE  CooldownAfterBody'
  BY <1>2 DEF TypeOK, Body, Start, RejectCandidate, AcquireFrequency, CreateSignal,
       Deduplicate, CheckFrequency, CheckTotal, Persist, ReleaseFrequency, Join,
       Goto, Throw, Leave
<1>3. ASSUME NEW e \in Evals, CooldownPart(e)
      PROVE  CooldownAfterBody'
  <2>1. cd[e] # "none"
    BY <1>3 DEF CooldownPart, AcquireCooldown, CheckCooldown, PersistCooldown,
                ReleaseCooldown
  <2>2. CASE cd' \in {[cd EXCEPT ![e] = "latest"], [cd EXCEPT ![e] = "persist"]}
             /\ UNCHANGED pc
    BY <2>1, <2>2 DEF TypeOK
  <2>3. QED
    BY <1>1, <1>3, <2>1, <2>2
       DEF CooldownPart, AcquireCooldown, CheckCooldown, PersistCooldown,
           ReleaseCooldown
<1>4. ASSUME NEW e \in Evals, Fault(e)
      PROVE  CooldownAfterBody'
  <2>1. CASE cd[e] # "none" /\ (\E v : Settle(e, v) \/ LeaveCooldown(e, v))
    BY <1>1, <2>1
  <2>2. CASE UNCHANGED cd /\ (Throw(e) \/ \E v : Leave(e, v))
             /\ pc[e] \in {"new", "dedup", "frequency", "total", "persist",
                           "acquire", "release"}
    BY <2>2 DEF Throw, Leave, Goto, TypeOK
  <2>3. QED
    BY <1>4, <2>1, <2>2
       DEF Fault, ReadFails, PersistFails, FrequencyLockFails, CooldownLockFails
<1>5. ASSUME NEW i \in Instances, Crash(i)
      PROVE  CooldownAfterBody'
  BY <1>5 DEF Crash, Die, TypeOK, CooldownRuns, CooldownSteps
<1>6. CASE SetEnabled \/ Tick \/ UNCHANGED vars
  BY <1>6 DEF SetEnabled, Tick, vars
<1>7. QED
  BY <1>2, <1>3, <1>4, <1>5, <1>6 DEF Next

-----------------------------------------------------------------------------
\* What an insert does: nothing, or one signal more, marked as late for each lock
\* row that its evaluation does not own.
NewSignal(e) == [id |-> e, stream |-> input[e].stream,
                 evaluatedAt |-> input[e].evaluatedAt, signalAt |-> signalAt[e]]

Adds(e) ==
  /\ Duplicates(e) = {}
  /\ signals' = signals \cup {NewSignal(e)}
  /\ lateFrequency \subseteq lateFrequency'
  /\ lateCooldown \subseteq lateCooldown'
  /\ OwnRow(locks, FrequencyKey, e) \/ e \in lateFrequency'
  /\ OwnRow(locks, input[e].stream, e) \/ e \in lateCooldown'

LEMMA InsertEffect ==
  ASSUME NEW e \in Evals, Insert(e)
  PROVE  UNCHANGED store \/ Adds(e)
<1>1. CASE Duplicates(e) # {}
  BY <1>1 DEF Insert, Inserted, store
<1>2. CASE Duplicates(e) = {}
  <2>1. NewSignal(e) \notin signals
    BY <1>2 DEF Duplicates, SameIdentity, NewSignal
  <2>2. signals' = signals \cup {NewSignal(e)} /\ signals' # signals
    BY <1>2, <2>1 DEF Insert, Inserted, NewSignal
  <2>3. QED
    BY <1>2, <2>2 DEF Insert, Adds
<1>3. QED
  BY <1>1, <1>2

LEMMA OneMore ==
  ASSUME NEW S, IsFiniteSet(S), NEW x, NEW T \in SUBSET (S \cup {x})
  PROVE  /\ IsFiniteSet(S) /\ Cardinality(S) \in Nat
         /\ IsFiniteSet(T) /\ Cardinality(T) \in Nat
         /\ Cardinality(T) <= Cardinality(S) + 1
         /\ T \subseteq S => Cardinality(T) <= Cardinality(S)
<1>1. IsFiniteSet(S \cup {x}) /\ Cardinality(S) \in Nat
  BY FS_AddElement, FS_CardinalityType
<1>2. Cardinality(S \cup {x}) <= Cardinality(S) + 1
  BY <1>1, FS_AddElement
<1>3. IsFiniteSet(T) /\ Cardinality(T) <= Cardinality(S \cup {x})
  BY <1>1, FS_Subset
<1>4. Cardinality(T) \in Nat /\ Cardinality(S \cup {x}) \in Nat
  BY <1>1, <1>3, FS_CardinalityType
<1>5. T \subseteq S => Cardinality(T) <= Cardinality(S)
  BY FS_Subset
<1>6. QED
  BY <1>1, <1>2, <1>3, <1>4, <1>5

\* Only the owner of the frequency lock row inserts on time.
LEMMA InsertOnTime ==
  ASSUME NEW e \in Evals, Insert(e)
  PROVE  /\ OnTime' \subseteq OnTime \cup {NewSignal(e)}
         /\ ~OwnRow(locks, FrequencyKey, e) => OnTime' \subseteq OnTime
<1>1. CASE UNCHANGED store
  BY <1>1 DEF store, OnTime
<1>2. CASE Adds(e)
  BY <1>2 DEF Adds, OnTime, NewSignal
<1>3. QED
  BY <1>1, <1>2, InsertEffect

LEMMA OnTimeFinite ==
  ASSUME IsFiniteSet(signals)
  PROVE  /\ IsFiniteSet(OnTime)
         /\ Cardinality(OnTime) \in Nat
         /\ Cardinality(signals) \in Nat
         /\ Cardinality(OnTime) <= Cardinality(signals)
  BY FS_Subset, FS_CardinalityType DEF OnTime

\* What a step does to one evaluation: nothing that concerns the limits and the
\* cooldown, or one of the four steps that prepare an insert.
Calm(e) ==
  /\ signalAt'[e] = signalAt[e]
  /\ Built(e)' => Built(e)
  /\ Counted(e)' => Counted(e)
  /\ Inserting(e)' => Inserting(e)
  /\ cd'[e] = "persist" => cd[e] = "persist"

Builds(e) == signalAt'[e] = Clock(e) /\ ~Counted(e)'

Counts(e) ==
  signalAt'[e] = signalAt[e] /\ Built(e) /\ ~FrequencyReached(e) /\ ~Inserting(e)'

Totals(e) ==
  signalAt'[e] = signalAt[e] /\ Counted(e) /\ ~TotalReached /\ cd'[e] # "persist"

\* Every signal of the stream is a cooldown before the evaluation's own.
Spaced(e) ==
  \A s \in signals : s.stream = input[e].stream => s.signalAt + Cooldown <= signalAt[e]

Compares(e) == signalAt'[e] = signalAt[e] /\ Inserting(e) /\ Spaced(e)

\* The step that inserts for e, which is done with its signal afterwards.
InsertStep(e) ==
  /\ Inserting(e)
  /\ Cooldown = 0 \/ cd[e] = "persist"
  /\ Insert(e)
  /\ ~Built(e)'
  /\ \A f \in Evals : Calm(f)

\* A step that leaves the signals alone.
QuietStep ==
  /\ UNCHANGED store
  /\ \A f \in Evals : Calm(f) \/ Builds(f) \/ Counts(f) \/ Totals(f) \/ Compares(f)

\* The latest signal of a stream is there if the stream has any: the one with the
\* fewest signals after it.
LEMMA LatestExists ==
  ASSUME TypeOK, IsFiniteSet(signals), NEW e \in Evals, Latest(e) = {}
  PROVE  \A s \in signals : s.stream # input[e].stream
<1>. DEFINE same == {s \in signals : s.stream = input[e].stream}
            After(s) == {t \in same : t.signalAt > s.signalAt}
            ranks == {Cardinality(After(s)) : s \in same}
<1>1. /\ IsFiniteSet(same)
      /\ \A s \in same : s \in signals /\ s.signalAt \in Int
  BY FS_Subset DEF TypeOK, Signal
<1>2. \A s \in same : IsFiniteSet(After(s)) /\ Cardinality(After(s)) \in Nat
  BY <1>1, FS_Subset, FS_CardinalityType
<1>3. SUFFICES ASSUME same # {} PROVE FALSE
  OBVIOUS
<1>4. ranks \subseteq Nat /\ ranks # {}
  BY <1>2, <1>3
<1>5. PICK n \in ranks : \A m \in ranks : ~(<<m, n>> \in OpToRel(<, Nat))
  <2>. HIDE DEF ranks
  <2>. QED
    BY <1>4, NatLessThanWellFounded, WFMin
<1>6. PICK s \in same : n = Cardinality(After(s))
  OBVIOUS
<1>7. ASSUME NEW t \in same PROVE t.signalAt <= s.signalAt
  <2>1. SUFFICES ASSUME t \in After(s) PROVE FALSE
    BY <1>1
  <2>2. After(t) \subseteq After(s) /\ t \notin After(t)
    BY <1>1, <2>1
  <2>3. Cardinality(After(t)) < Cardinality(After(s))
    <3>. HIDE DEF After
    <3>1. Cardinality(After(t)) <= Cardinality(After(s)) /\ After(t) # After(s)
      BY <1>2, <2>1, <2>2, FS_Subset
    <3>2. QED
      BY <1>2, <2>2, <3>1, FS_Subset
  <2>4. Cardinality(After(t)) \in ranks
    OBVIOUS
  <2>5. <<Cardinality(After(t)), n>> \in OpToRel(<, Nat)
    <3>. HIDE DEF After
    <3>1. QED
      BY <1>2, <1>6, <2>3 DEF OpToRel
  <2>6. QED
    BY <1>5, <2>4, <2>5
<1>8. s \in Latest(e)
  BY <1>7 DEF Latest
<1>9. QED
  BY <1>8

\* A signal that passes the comparison with the latest one is a cooldown after
\* every signal of its stream.
LEMMA PassesLatest ==
  ASSUME TypeOK, IsFiniteSet(signals), NEW e \in Evals,
         \/ Latest(e) = {}
         \/ \E s \in Latest(e) : ~CooldownRefuses(s.signalAt, signalAt[e])
  PROVE  Spaced(e)
<1>1. /\ signalAt[e] \in Int /\ Cooldown \in Nat
      /\ \A s \in signals : s.signalAt \in Int
  BY ConstantsAssumption DEF TypeOK, Signal
<1>2. CASE Latest(e) = {}
  BY <1>2, LatestExists DEF Spaced
<1>3. ASSUME NEW s \in Latest(e), ~CooldownRefuses(s.signalAt, signalAt[e])
      PROVE  Spaced(e)
  BY <1>1, <1>3 DEF Spaced, Latest, CooldownRefuses
<1>4. QED
  BY <1>2, <1>3

LEMMA NextInsert ==
  ASSUME TypeOK, CooldownAfterBody, IsFiniteSet(signals), BodyPersistsWithoutCooldown,
         [Next]_vars
  PROVE  QuietStep \/ \E e \in Evals : InsertStep(e)
<1>. USE DEF Built, Counted, Inserting
<1>1. ASSUME NEW e \in Evals, Body(e)
      PROVE  QuietStep \/ InsertStep(e)
  <2>1. cd[e] # "none" => pc[e] \in {"release", "joining"}
    BY <1>1 DEF CooldownAfterBody, Body, Start, RejectCandidate, AcquireFrequency,
         CreateSignal, Deduplicate, CheckFrequency, CheckTotal, Persist,
         ReleaseFrequency, Join
  <2>2. \A f \in Evals : f # e =>
          pc'[f] = pc[f] /\ cd'[f] = cd[f] /\ signalAt'[f] = signalAt[f]
    BY <1>1 DEF Body, Start, RejectCandidate, AcquireFrequency,
         CreateSignal, Deduplicate, CheckFrequency, CheckTotal, Persist,
         ReleaseFrequency, Join, Goto, Throw, Leave, TypeOK
  <2>3. \A f \in Evals : f # e => Calm(f)
    BY <2>2 DEF Calm
  <2>4. CASE Persist(e)
    <3>1. Insert(e) /\ Inserting(e) /\ Cooldown = 0
      BY <2>4 DEF Persist, BodyPersistsWithoutCooldown
    <3>2. pc'[e] = "release" /\ cd'[e] = "none" /\ signalAt'[e] = signalAt[e]
      BY <2>1, <2>4 DEF Persist, Leave, Goto, TypeOK
    <3>3. ~Built(e)' /\ Calm(e)
      BY <3>2 DEF Calm
    <3>4. QED
      BY <2>3, <3>1, <3>3 DEF InsertStep
  <2>5. CASE ~Persist(e)
    <3>1. UNCHANGED store
      BY <1>1, <2>5 DEF Body, Start, RejectCandidate, AcquireFrequency, CreateSignal,
           Deduplicate, CheckFrequency, CheckTotal, ReleaseFrequency, Join
    <3>2. CASE CreateSignal(e)
      <4>1. pc'[e] = "dedup" /\ cd'[e] = "none" /\ signalAt'[e] = Clock(e)
        BY <2>1, <3>2 DEF CreateSignal, Goto, TypeOK
      <4>2. QED
        BY <2>3, <3>1, <4>1 DEF QuietStep, Builds
    <3>3. CASE CheckFrequency(e) /\ ~FrequencyReached(e)
      <4>1. /\ pc[e] = "frequency" /\ pc'[e] = "total" /\ cd'[e] = "none"
            /\ signalAt'[e] = signalAt[e]
        BY <2>1, <3>3 DEF CheckFrequency, Goto, TypeOK
      <4>2. QED
        BY <2>3, <3>1, <3>3, <4>1 DEF QuietStep, Counts
    <3>4. CASE CheckTotal(e) /\ ~TotalReached
      <4>1. /\ pc[e] = "total" /\ cd'[e] \in {"none", "acquire"}
            /\ signalAt'[e] = signalAt[e]
        BY <2>1, <3>4 DEF CheckTotal, Goto, TypeOK
      <4>2. QED
        BY <2>3, <3>1, <3>4, <4>1 DEF QuietStep, Totals
    <3>5. CASE /\ ~CreateSignal(e)
               /\ ~(CheckFrequency(e) /\ ~FrequencyReached(e))
               /\ ~(CheckTotal(e) /\ ~TotalReached)
      <4>1. /\ cd'[e] = cd[e] /\ signalAt'[e] = signalAt[e]
            /\ \/ pc'[e] \in {"acquire", "create", "done", "release", "joining"}
               \/ pc[e] = "dedup" /\ pc'[e] = "frequency"
        BY <1>1, <2>5, <3>5 DEF Body, Start, RejectCandidate, AcquireFrequency,
             Deduplicate, CheckFrequency, CheckTotal, ReleaseFrequency, Join,
             Goto, Throw, Leave, TypeOK
      <4>2. Calm(e)
        BY <4>1 DEF Calm
      <4>3. QED
        BY <2>3, <3>1, <4>2 DEF QuietStep
    <3>6. QED
      BY <3>2, <3>3, <3>4, <3>5
  <2>6. QED
    BY <2>4, <2>5
<1>2. ASSUME NEW i, Die(i), UNCHANGED signalAt
      PROVE  \A f \in Evals : Calm(f)
  BY <1>2 DEF Die, TypeOK, Calm
<1>3. ASSUME NEW e \in Evals, NEW v, Settle(e, v) \/ LeaveCooldown(e, v),
             cd[e] # "none", UNCHANGED signalAt
      PROVE  \A f \in Evals : Calm(f)
  <2>1. CASE LeaveCooldown(e, v)
    BY <1>3, <2>1 DEF LeaveCooldown, TypeOK, Calm
  <2>2. CASE cd' = [cd EXCEPT ![e] = "done"] /\ UNCHANGED pc
    BY <1>3, <2>2 DEF TypeOK, Calm
  <2>3. QED
    BY <1>2, <1>3, <2>1, <2>2 DEF Settle, Reject
<1>4. ASSUME NEW e \in Evals, NEW v, LeaveCooldown(e, v), cd[e] = "persist"
      PROVE  ~Built(e)'
  BY <1>4 DEF LeaveCooldown, TypeOK, CooldownAfterBody
<1>5. ASSUME NEW e \in Evals, CooldownPart(e)
      PROVE  QuietStep \/ InsertStep(e)
  <2>1. CASE PersistCooldown(e)
    <3>1. /\ Insert(e) /\ LeaveCooldown(e, Canonical(e)) /\ cd[e] = "persist"
          /\ UNCHANGED signalAt
      BY <2>1 DEF PersistCooldown
    <3>2. QED
      BY <1>3, <1>4, <3>1 DEF InsertStep
  <2>2. CASE ~PersistCooldown(e)
    <3>1. UNCHANGED store /\ UNCHANGED signalAt
      BY <1>5, <2>2 DEF CooldownPart, AcquireCooldown, CheckCooldown, ReleaseCooldown
    <3>2. CASE cd[e] # "none" /\ \E v : Settle(e, v) \/ LeaveCooldown(e, v)
      BY <1>3, <3>1, <3>2 DEF QuietStep
    <3>3. CASE cd[e] = "acquire" /\ cd' = [cd EXCEPT ![e] = "latest"] /\ UNCHANGED pc
      BY <3>1, <3>3 DEF QuietStep, Calm, TypeOK
    <3>4. CASE /\ cd[e] = "latest" /\ cd' = [cd EXCEPT ![e] = "persist"]
               /\ UNCHANGED pc
               /\ \/ Latest(e) = {}
                  \/ \E s \in Latest(e) : ~CooldownRefuses(s.signalAt, signalAt[e])
      <4>1. Compares(e)
        BY <3>1, <3>4, PassesLatest DEF Compares
      <4>2. \A f \in Evals : f # e => Calm(f)
        BY <3>1, <3>4 DEF Calm, TypeOK
      <4>3. QED
        BY <3>1, <4>1, <4>2 DEF QuietStep
    <3>5. QED
      BY <1>5, <2>2, <3>2, <3>3, <3>4
         DEF CooldownPart, AcquireCooldown, CheckCooldown, ReleaseCooldown
  <2>3. QED
    BY <2>1, <2>2
<1>6. ASSUME NEW e \in Evals, Fault(e)
      PROVE  QuietStep \/ InsertStep(e)
  <2>1. UNCHANGED signalAt
    BY <1>6 DEF Fault, ReadFails, PersistFails, FrequencyLockFails, CooldownLockFails,
         CallFails
  <2>2. CASE pc[e] = "persist" /\ Leave(e, Failed) /\ UNCHANGED cd
             /\ (Insert(e) \/ UNCHANGED store)
    <3>1. cd[e] = "none" /\ Cooldown = 0
      BY <2>2 DEF CooldownAfterBody, BodyPersistsWithoutCooldown
    <3>2. ~Built(e)' /\ \A f \in Evals : Calm(f)
      BY <2>1, <2>2, <3>1 DEF Leave, Goto, TypeOK, Calm
    <3>3. QED
      BY <2>2, <3>1, <3>2 DEF InsertStep, QuietStep
  <2>3. CASE cd[e] = "persist" /\ LeaveCooldown(e, Failed)
             /\ (Insert(e) \/ UNCHANGED store)
    BY <1>3, <1>4, <2>1, <2>3 DEF InsertStep, QuietStep
  <2>4. CASE UNCHANGED store /\ cd[e] # "none"
             /\ (Settle(e, Failed) \/ LeaveCooldown(e, Failed))
    BY <1>3, <2>1, <2>4 DEF QuietStep
  <2>5. CASE UNCHANGED store /\ UNCHANGED cd /\ (Throw(e) \/ Leave(e, Failed))
    BY <2>1, <2>5 DEF QuietStep, Throw, Leave, Goto, TypeOK, Calm
  <2>6. CASE PersistFails(e)
    BY <2>2, <2>3, <2>6 DEF PersistFails
  <2>7. QED
    BY <1>6, <2>4, <2>5, <2>6
       DEF Fault, ReadFails, FrequencyLockFails, CooldownLockFails
<1>7. ASSUME NEW i \in Instances, Crash(i)
      PROVE  QuietStep
  BY <1>2, <1>7 DEF Crash, QuietStep
<1>8. CASE SetEnabled \/ Tick \/ UNCHANGED vars
  BY <1>8 DEF SetEnabled, Tick, vars, store, QuietStep, Calm
<1>9. QED
  BY <1>1, <1>5, <1>6, <1>7, <1>8 DEF Next

-----------------------------------------------------------------------------
LEMMA NextClock ==
  ASSUME TypeOK, [Next]_vars
  PROVE  now <= now' /\ UNCHANGED input
<1>1. ASSUME NEW e \in Evals, Body(e) \/ CooldownPart(e) \/ Fault(e)
      PROVE  UNCHANGED <<now, input>>
  BY <1>1 DEF Body, Start, RejectCandidate, AcquireFrequency, CreateSignal, Deduplicate,
       CheckFrequency, CheckTotal, Persist, ReleaseFrequency, Join, CooldownPart,
       AcquireCooldown, CheckCooldown, PersistCooldown, ReleaseCooldown, Fault,
       ReadFails, PersistFails, FrequencyLockFails, CooldownLockFails, CallFails
<1>2. CASE Tick
  BY <1>2 DEF Tick, TypeOK
<1>3. CASE SetEnabled \/ (\E i \in Instances : Crash(i)) \/ UNCHANGED vars
  BY <1>3 DEF SetEnabled, Crash, vars, TypeOK
<1>4. QED
  BY <1>1, <1>2, <1>3 DEF Next, TypeOK

LEMMA NextBodyPersists ==
  ASSUME TypeOK, BodyPersistsWithoutCooldown, [Next]_vars
  PROVE  BodyPersistsWithoutCooldown'
<1>. USE DEF BodyPersistsWithoutCooldown
<1>1. ASSUME NEW e \in Evals, Body(e)
      PROVE  BodyPersistsWithoutCooldown'
  BY <1>1, ConstantsAssumption DEF TypeOK, Body, Start, RejectCandidate, AcquireFrequency,
       CreateSignal, Deduplicate, CheckFrequency, CheckTotal, Persist, ReleaseFrequency,
       Join, Goto, Throw, Leave
<1>2. ASSUME NEW i, Die(i)
      PROVE  BodyPersistsWithoutCooldown'
  BY <1>2 DEF Die
<1>3. ASSUME NEW e \in Evals, CooldownPart(e)
      PROVE  BodyPersistsWithoutCooldown'
  BY <1>2, <1>3 DEF CooldownPart, AcquireCooldown, CheckCooldown, PersistCooldown,
       ReleaseCooldown, Settle, Reject, LeaveCooldown
<1>4. ASSUME NEW e \in Evals, Fault(e)
      PROVE  BodyPersistsWithoutCooldown'
  BY <1>2, <1>4 DEF TypeOK, Fault, ReadFails, PersistFails, FrequencyLockFails,
       CooldownLockFails, Settle, Reject, LeaveCooldown, Leave, Throw, Goto
<1>5. CASE SetEnabled \/ Tick \/ (\E i \in Instances : Crash(i)) \/ UNCHANGED vars
  BY <1>2, <1>5 DEF SetEnabled, Tick, Crash, vars
<1>6. QED
  BY <1>1, <1>3, <1>4, <1>5 DEF Next

LEMMA NextSignalsPast ==
  ASSUME TypeOK, TypeOK', SignalsPast, now <= now',
         QuietStep \/ \E e \in Evals : InsertStep(e)
  PROVE  SignalsPast'
<1>1. \A e \in Evals : Built(e)' =>
        (Built(e) /\ signalAt'[e] = signalAt[e]) \/ signalAt'[e] = Clock(e)
  BY DEF QuietStep, InsertStep, Calm, Builds, Counts, Totals, Compares, Counted, Built
<1>2. \A s \in signals' : \/ s \in signals
                          \/ \E e \in Evals : /\ Built(e)
                                              /\ s.id = e /\ s.signalAt = signalAt[e]
  <2>1. CASE UNCHANGED store
    BY <2>1 DEF store
  <2>2. ASSUME NEW e \in Evals, Adds(e)
        PROVE  \A s \in signals' : s \in signals \/ (s.id = e /\ s.signalAt = signalAt[e])
    BY <2>2 DEF Adds, NewSignal
  <2>3. QED
    BY <2>1, <2>2, InsertEffect DEF QuietStep, InsertStep, Built
<1>3. \A e \in Evals : Clock(e) \in Int /\ Clock(e)' \in Int /\ Clock(e) <= Clock(e)'
  BY ConstantsAssumption DEF TypeOK, Clock
<1>4. /\ \A e \in Evals : signalAt[e] \in Int /\ signalAt'[e] \in Int
      /\ \A s \in signals' : s.signalAt \in Int /\ s.id \in Evals
  BY DEF TypeOK, Signal
<1>5. ASSUME NEW s \in signals' PROVE s.signalAt <= Clock(s.id)'
  <2>1. s.signalAt <= Clock(s.id)
    BY <1>2 DEF SignalsPast
  <2>2. QED
    BY <1>3, <1>4, <2>1
<1>6. ASSUME NEW e \in Evals, Built(e)' PROVE signalAt'[e] <= Clock(e)'
  <2>1. signalAt'[e] <= Clock(e)
    BY <1>1, <1>3, <1>6 DEF SignalsPast
  <2>2. QED
    BY <1>3, <1>4, <2>1
<1>7. QED
  BY <1>5, <1>6 DEF SignalsPast, Clock

-----------------------------------------------------------------------------
\* The total limit, over a step that prepares an insert and one that inserts.
LEMMA NextTotalLimit ==
  ASSUME IsFiniteSet(signals), KeyIsUnique(locks), LockStep, Headroom, LeaseTotalLimit,
         QuietStep \/ \E e \in Evals : InsertStep(e)
  PROVE  Headroom' /\ LeaseTotalLimit'
<1>. USE DEF Built, Counted
<1>1. /\ Cardinality(OnTime) \in Nat
      /\ Cardinality(signals) \in Nat
      /\ Cardinality(OnTime) <= Cardinality(signals)
      /\ MaxSignals \in Nat
  BY OnTimeFinite, ConstantsAssumption
<1>2. CASE QuietStep
  <2>1. OnTime' = OnTime
    BY <1>2 DEF QuietStep, OnTime, store
  <2>2. ASSUME NEW e \in Evals, Inserting(e)', OwnRow(locks', FrequencyKey, e)
        PROVE  Cardinality(OnTime) < MaxSignals
    <3>1. OwnRow(locks, FrequencyKey, e)
      BY <2>2 DEF LockStep
    <3>2. Inserting(e) \/ ~TotalReached
      BY <1>2, <2>2 DEF QuietStep, Calm, Builds, Counts, Totals, Compares
    <3>3. QED
      BY <1>1, <3>1, <3>2 DEF Headroom, TotalReached
  <2>3. QED
    BY <2>1, <2>2 DEF Headroom, LeaseTotalLimit
<1>3. ASSUME NEW e \in Evals, InsertStep(e)
      PROVE  Headroom' /\ LeaseTotalLimit'
  <2>1. /\ Cardinality(OnTime') \in Nat
        /\ Cardinality(OnTime') <= Cardinality(OnTime) + 1
        /\ ~OwnRow(locks, FrequencyKey, e) => Cardinality(OnTime') <= Cardinality(OnTime)
    BY <1>3, InsertOnTime, OnTimeFinite, OneMore DEF InsertStep
  <2>2. CASE ~OwnRow(locks, FrequencyKey, e)
    BY <1>1, <1>3, <2>1, <2>2
       DEF Headroom, LeaseTotalLimit, InsertStep, Calm, LockStep
  <2>3. CASE OwnRow(locks, FrequencyKey, e)
    <3>1. Cardinality(OnTime) < MaxSignals
      BY <1>3, <2>3 DEF Headroom, InsertStep
    <3>2. \A f \in Evals : OwnRow(locks, FrequencyKey, f) => f = e
      BY <2>3 DEF KeyIsUnique, OwnRow
    <3>3. Headroom'
      BY <1>3, <3>2 DEF Headroom, InsertStep, LockStep
    <3>4. LeaseTotalLimit'
      BY <1>1, <2>1, <3>1 DEF LeaseTotalLimit
    <3>5. QED
      BY <3>3, <3>4
  <2>4. QED
    BY <2>2, <2>3
<1>4. QED
  BY <1>2, <1>3

-----------------------------------------------------------------------------
(***************************************************************************)
(* The frequency limit.  Whoever owns the frequency lock row has built its *)
(* signal last of all that were inserted on time, so that its signal can   *)
(* fall into its own window only, and into those of signals dated by a     *)
(* clock ahead of its own; and its window has had room since it was        *)
(* counted, as nobody else inserts on time.                                *)
(***************************************************************************)
LEMMA WindowFinite ==
  ASSUME IsFiniteSet(signals), NEW at
  PROVE  /\ IsFiniteSet(OnTimeWindow(at)) /\ Cardinality(OnTimeWindow(at)) \in Nat
         /\ IsFiniteSet(InWindow(at - Window, at))
         /\ Cardinality(InWindow(at - Window, at)) \in Nat
         /\ Cardinality(OnTimeWindow(at)) <= Cardinality(InWindow(at - Window, at))
<1>1. /\ OnTimeWindow(at) \subseteq InWindow(at - Window, at)
      /\ InWindow(at - Window, at) \subseteq signals
  BY DEF OnTimeWindow, InWindow, OnTime
<1>2. QED
  BY <1>1, FS_Subset, FS_CardinalityType

\* The signals that LeaseFrequencyLimit counts for s.
OwnWindow(s) == {t \in OnTimeWindow(s.signalAt) : NotBehind(t, s)}

LEMMA NextWindow ==
  ASSUME TypeOK, IsFiniteSet(signals), KeyIsUnique(locks), LockStep, SignalsPast,
         BuiltLast, WindowRoom, LeaseFrequencyLimit,
         QuietStep \/ \E e \in Evals : InsertStep(e)
  PROVE  BuiltLast' /\ WindowRoom' /\ LeaseFrequencyLimit'
<1>1. /\ MaxSignalsPerMinute \in Nat /\ now \in Nat /\ Window \in Nat
      /\ \A e \in Evals : /\ signalAt[e] \in Int /\ Offset(e) \in Int
                          /\ Clock(e) = now + Offset(e)
      /\ \A s \in OnTime : s \in signals /\ s.signalAt \in Int /\ s.id \in Evals
  BY ConstantsAssumption, ClockType DEF TypeOK, OnTime, Signal
<1>2. \A at : /\ IsFiniteSet(OnTimeWindow(at)) /\ Cardinality(OnTimeWindow(at)) \in Nat
              /\ Cardinality(InWindow(at - Window, at)) \in Nat
              /\ Cardinality(OnTimeWindow(at)) <= Cardinality(InWindow(at - Window, at))
  BY WindowFinite
<1>3. \A e \in Evals : Counted(e) => Built(e)
  BY DEF Counted, Built
<1>4. \A e \in Evals : OwnRow(locks', FrequencyKey, e) /\ Counted(e)' =>
                         OwnRow(locks, FrequencyKey, e)
  BY DEF LockStep, Counted, Built
<1>5. LeaseFrequencyLimit <=>
        \A s \in OnTime : Cardinality(OwnWindow(s)) <= MaxSignalsPerMinute
  <2>1. \A s : OwnWindow(s) =
          {t \in OnTime : /\ NotBehind(t, s)
                          /\ t.signalAt \in (s.signalAt - Window)..s.signalAt}
    BY DEF OwnWindow, OnTimeWindow
  <2>2. QED
    BY <2>1 DEF LeaseFrequencyLimit
<1>6. LeaseFrequencyLimit' <=>
        \A s \in OnTime' : Cardinality(OwnWindow(s)') <= MaxSignalsPerMinute
  <2>1. \A s : OwnWindow(s)' =
          {t \in OnTime' : /\ NotBehind(t, s)
                           /\ t.signalAt \in (s.signalAt - Window)..s.signalAt}
    BY DEF OwnWindow, OnTimeWindow, NotBehind
  <2>2. QED
    BY <2>1 DEF LeaseFrequencyLimit, NotBehind
<1>7. CASE QuietStep
  <2>1. /\ OnTime' = OnTime
        /\ \A at : OnTimeWindow(at)' = OnTimeWindow(at)
        /\ \A s : OwnWindow(s)' = OwnWindow(s)
    BY <1>7 DEF QuietStep, OnTime, OnTimeWindow, OwnWindow, NotBehind, store
  <2>2. BuiltLast'
    <3>1. ASSUME NEW e \in Evals, Built(e)', OwnRow(locks', FrequencyKey, e),
                 NEW s \in OnTime
          PROVE  s.signalAt - Offset(s.id) <= signalAt'[e] - Offset(e)
      <4>1. OwnRow(locks, FrequencyKey, e)
        BY <3>1 DEF LockStep
      <4>2. (Built(e) /\ signalAt'[e] = signalAt[e]) \/ signalAt'[e] = Clock(e)
        BY <1>3, <1>7, <3>1
           DEF QuietStep, Calm, Builds, Counts, Totals, Compares, Counted
      <4>3. QED
        BY <1>1, <3>1, <4>1, <4>2 DEF BuiltLast, SignalsPast
    <3>2. QED
      BY <2>1, <3>1 DEF BuiltLast, Offset
  <2>3. WindowRoom'
    <3>1. ASSUME NEW e \in Evals, Counted(e)', OwnRow(locks', FrequencyKey, e)
          PROVE  /\ signalAt'[e] = signalAt[e]
                 /\ Cardinality(OnTimeWindow(signalAt[e])) < MaxSignalsPerMinute
      <4>1. OwnRow(locks, FrequencyKey, e)
        BY <1>4, <3>1
      <4>2. /\ signalAt'[e] = signalAt[e]
            /\ Counted(e) \/ ~FrequencyReached(e)
        BY <1>7, <3>1 DEF QuietStep, Calm, Builds, Counts, Totals, Compares, Counted
      <4>3. CASE Counted(e)
        BY <4>1, <4>2, <4>3 DEF WindowRoom
      <4>4. CASE ~FrequencyReached(e)
        BY <1>1, <1>2, <4>2, <4>4 DEF FrequencyReached
      <4>5. QED
        BY <4>2, <4>3, <4>4
    <3>2. QED
      BY <2>1, <3>1 DEF WindowRoom
  <2>4. QED
    BY <1>5, <1>6, <2>1, <2>2, <2>3
<1>8. ASSUME NEW e \in Evals, InsertStep(e)
      PROVE  BuiltLast' /\ WindowRoom' /\ LeaseFrequencyLimit'
  <2>1. /\ OnTime' \subseteq OnTime \cup {NewSignal(e)}
        /\ ~OwnRow(locks, FrequencyKey, e) => OnTime' \subseteq OnTime
        /\ NewSignal(e).signalAt = signalAt[e]
    BY <1>8, InsertOnTime DEF InsertStep, NewSignal
  <2>2. \A at : OnTimeWindow(at)' \subseteq OnTimeWindow(at) \cup {NewSignal(e)}
    BY <2>1 DEF OnTimeWindow
  <2>3. \A at : /\ Cardinality(OnTimeWindow(at)') \in Nat
                /\ Cardinality(OnTimeWindow(at)') <= Cardinality(OnTimeWindow(at)) + 1
                /\ OnTimeWindow(at)' \subseteq OnTimeWindow(at) =>
                     Cardinality(OnTimeWindow(at)') <= Cardinality(OnTimeWindow(at))
    BY <1>2, <2>2, OneMore
  <2>8. \A s : /\ Cardinality(OwnWindow(s)) \in Nat
               /\ Cardinality(OwnWindow(s)') \in Nat
               /\ OwnWindow(s)' \subseteq OwnWindow(s) =>
                    Cardinality(OwnWindow(s)') <= Cardinality(OwnWindow(s))
               /\ Cardinality(OwnWindow(s)') <= Cardinality(OnTimeWindow(s.signalAt)')
    <3>1. \A s : /\ OwnWindow(s) \subseteq OnTimeWindow(s.signalAt)
                 /\ OwnWindow(s)' \subseteq OnTimeWindow(s.signalAt)'
      BY DEF OwnWindow
    <3>2. \A at : IsFiniteSet(OnTimeWindow(at)) /\ IsFiniteSet(OnTimeWindow(at)')
      BY <1>2, <2>2, OneMore
    <3>3. QED
      BY <3>1, <3>2, FS_Subset, FS_CardinalityType
  <2>4. \A f \in Evals : Calm(f) /\ ~Built(e)' /\ ~Counted(e)'
    BY <1>8 DEF InsertStep, Counted, Built
  <2>5. CASE ~OwnRow(locks, FrequencyKey, e)
    <3>1. OnTime' \subseteq OnTime
      BY <2>1, <2>5
    <3>2. \A at : Cardinality(OnTimeWindow(at)') <= Cardinality(OnTimeWindow(at))
      BY <2>3, <3>1 DEF OnTimeWindow
    <3>3. BuiltLast'
      BY <2>4, <3>1 DEF BuiltLast, Calm, LockStep, Offset
    <3>4. WindowRoom'
      <4>1. ASSUME NEW f \in Evals, Counted(f)', OwnRow(locks', FrequencyKey, f)
            PROVE  Cardinality(OnTimeWindow(signalAt[f])') < MaxSignalsPerMinute
        <5>1. OwnRow(locks, FrequencyKey, f) /\ Counted(f) /\ signalAt'[f] = signalAt[f]
          BY <1>4, <2>4, <4>1 DEF Calm
        <5>2. PICK at : at = signalAt[f]
          OBVIOUS
        <5>3. Cardinality(OnTimeWindow(at)) < MaxSignalsPerMinute
          BY <5>1, <5>2 DEF WindowRoom
        <5>4. Cardinality(OnTimeWindow(at)') < MaxSignalsPerMinute
          BY <1>1, <1>2, <2>3, <3>2, <5>3
        <5>5. OnTimeWindow(signalAt[f])' = OnTimeWindow(at)'
          BY <5>1, <5>2 DEF OnTimeWindow
        <5>6. QED
          BY <5>4, <5>5
      <4>2. QED
        BY <4>1 DEF WindowRoom
    <3>5. LeaseFrequencyLimit'
      <4>1. \A s : OwnWindow(s)' \subseteq OwnWindow(s)
        BY <3>1 DEF OwnWindow, OnTimeWindow, NotBehind
      <4>2. QED
        BY <1>1, <1>5, <1>6, <2>8, <3>1, <4>1
    <3>6. QED
      BY <3>3, <3>4, <3>5
  <2>6. CASE OwnRow(locks, FrequencyKey, e)
    <3>1. \A f \in Evals : OwnRow(locks, FrequencyKey, f) => f = e
      BY <2>6 DEF KeyIsUnique, OwnRow
    <3>2. BuiltLast' /\ WindowRoom'
      BY <1>4, <2>4, <3>1 DEF BuiltLast, WindowRoom, LockStep, Offset
    <3>3. Inserting(e) /\ Counted(e) /\ Built(e)
      BY <1>8 DEF InsertStep, Counted, Built
    <3>4. ASSUME NEW s \in OnTime'
          PROVE  Cardinality(OwnWindow(s)') <= MaxSignalsPerMinute
      <4>1. CASE s.signalAt = signalAt[e]
        <5>1. Cardinality(OnTimeWindow(s.signalAt)) < MaxSignalsPerMinute
          BY <2>6, <3>3, <4>1 DEF WindowRoom
        <5>2. Cardinality(OnTimeWindow(s.signalAt)') <= MaxSignalsPerMinute
          BY <1>1, <1>2, <2>3, <5>1
        <5>3. QED
          BY <1>1, <2>3, <2>8, <5>2
      <4>2. CASE s.signalAt # signalAt[e]
        <5>1. s \in OnTime
          BY <2>1, <4>2
        <5>2. s.signalAt - Offset(s.id) <= signalAt[e] - Offset(e)
          BY <2>6, <3>3, <5>1 DEF BuiltLast
        <5>3. NotBehind(NewSignal(e), s) =>
                signalAt[e] \notin (s.signalAt - Window)..s.signalAt
          <6>1. NotBehind(NewSignal(e), s) => Offset(s.id) <= Offset(e)
            BY DEF NotBehind, NewSignal, Offset
          <6>2. /\ s.signalAt \in Int /\ Offset(s.id) \in Int
                /\ signalAt[e] \in Int /\ Offset(e) \in Int
            BY <1>1, <5>1
          <6>3. Offset(s.id) <= Offset(e) => s.signalAt < signalAt[e]
            BY <4>2, <5>2, <6>2
          <6>4. QED
            BY <6>1, <6>2, <6>3
        <5>4. OwnWindow(s)' \subseteq OwnWindow(s)
          BY <2>1, <5>3 DEF OwnWindow, OnTimeWindow, NotBehind
        <5>5. Cardinality(OwnWindow(s)) <= MaxSignalsPerMinute
          BY <1>5, <5>1
        <5>6. QED
          BY <1>1, <2>8, <5>4, <5>5
      <4>3. QED
        BY <4>1, <4>2
    <3>5. QED
      BY <1>6, <3>2, <3>4
  <2>7. QED
    BY <2>5, <2>6
<1>9. QED
  BY <1>7, <1>8

-----------------------------------------------------------------------------
(***************************************************************************)
(* The cooldown.  An evaluation that compared its signal with the latest   *)
(* one and still owns the cooldown lock row is a cooldown after every      *)
(* signal of its stream that was inserted under the lock.                  *)
(***************************************************************************)
LEMMA NextCooldown ==
  ASSUME TypeOK, UNCHANGED input, KeyIsUnique(locks), LockStep, CooldownClear,
         CooldownSpacing, QuietStep \/ \E e \in Evals : InsertStep(e)
  PROVE  CooldownClear' /\ CooldownSpacing'
<1>1. /\ Cooldown \in Nat
      /\ \A e \in Evals : signalAt[e] \in Int
      /\ \A s \in signals : s.signalAt \in Int
  BY ConstantsAssumption DEF TypeOK, Signal
<1>2. CASE UNCHANGED store /\ QuietStep
  <2>1. \A e \in Evals : cd'[e] = "persist" =>
          signalAt'[e] = signalAt[e] /\ (cd[e] = "persist" \/ Spaced(e))
    BY <1>2 DEF QuietStep, Calm, Builds, Counts, Totals, Compares, Counted, Inserting
  <2>2. CooldownClear'
    BY <1>2, <2>1 DEF CooldownClear, Spaced, LockStep, store
  <2>3. QED
    BY <1>2, <2>2 DEF CooldownSpacing, store
<1>3. CASE UNCHANGED store /\ \E e \in Evals : InsertStep(e)
  <2>1. \A e \in Evals : Calm(e)
    BY <1>3 DEF InsertStep
  <2>2. CooldownClear'
    BY <1>3, <2>1 DEF CooldownClear, Calm, LockStep, store
  <2>3. QED
    BY <1>3, <2>2 DEF CooldownSpacing, store
<1>4. ASSUME NEW e \in Evals, InsertStep(e), Adds(e)
      PROVE  CooldownClear' /\ CooldownSpacing'
  <2>. DEFINE new == NewSignal(e)
  <2>1. /\ new.id = e /\ new.stream = input[e].stream /\ new.signalAt = signalAt[e]
        /\ signals' = signals \cup {new} /\ lateCooldown \subseteq lateCooldown'
    BY <1>4 DEF Adds, NewSignal
  <2>2. OwnRow(locks, input[e].stream, e) \/ e \in lateCooldown'
    BY <1>4 DEF Adds
  <2>3. \A f \in Evals : Calm(f) /\ cd'[e] # "persist"
    BY <1>4 DEF InsertStep, Built, Inserting
  <2>4. \A k : \A f \in Evals : OwnRow(locks, k, e) /\ OwnRow(locks, k, f) => f = e
    BY DEF KeyIsUnique, OwnRow
  <2>. HIDE DEF new
  <2>5. ASSUME NEW f \in Evals, cd'[f] = "persist", OwnRow(locks', input[f].stream, f),
               NEW s \in signals', s.stream = input[f].stream, s.id \notin lateCooldown'
        PROVE  s.signalAt + Cooldown <= signalAt'[f]
    <3>1. /\ OwnRow(locks, input[f].stream, f) /\ cd[f] = "persist"
          /\ signalAt'[f] = signalAt[f]
      BY <2>3, <2>5 DEF LockStep, Calm
    <3>2. f # e
      BY <2>3, <2>5
    <3>3. s # new
      BY <2>1, <2>2, <2>4, <2>5, <3>1, <3>2
    <3>4. s \in signals /\ s.id \notin lateCooldown
      BY <2>1, <2>5, <3>3
    <3>5. QED
      BY <2>5, <3>1, <3>4 DEF CooldownClear
  <2>6. CooldownClear'
    BY <2>5 DEF CooldownClear
  <2>7. ASSUME NEW s \in signals, s.stream = new.stream, s.id \notin lateCooldown,
               new.id \notin lateCooldown'
        PROVE  Cooldown = 0 \/ s.signalAt + Cooldown <= new.signalAt
    BY <1>4, <2>1, <2>2, <2>7 DEF InsertStep, CooldownClear
  <2>8. ASSUME NEW s \in signals', NEW t \in signals', s # t, s.stream = t.stream,
               s.id \notin lateCooldown', t.id \notin lateCooldown',
               s.signalAt <= t.signalAt
        PROVE  t.signalAt >= s.signalAt + Cooldown
    <3>1. \A u \in {s, t} : u = new \/ (u \in signals /\ u.id \notin lateCooldown)
      BY <2>1, <2>8
    <3>2. s.signalAt \in Int /\ t.signalAt \in Int
      BY <1>1, <2>1, <2>8
    <3>3. CASE s # new /\ t # new
      BY <2>8, <3>1, <3>3 DEF CooldownSpacing
    <3>4. CASE s = new
      <4>1. t # new
        BY <2>8, <3>4
      <4>2. Cooldown = 0 \/ t.signalAt + Cooldown <= s.signalAt
        BY <2>7, <2>8, <3>1, <3>4, <4>1
      <4>3. QED
        BY <1>1, <2>8, <3>2, <4>2
    <3>5. CASE t = new /\ s # new
      <4>1. Cooldown = 0 \/ s.signalAt + Cooldown <= t.signalAt
        BY <2>7, <2>8, <3>1, <3>5
      <4>2. QED
        BY <1>1, <2>8, <3>2, <4>1
    <3>6. QED
      BY <3>3, <3>4, <3>5
  <2>9. CooldownSpacing'
    BY <2>8 DEF CooldownSpacing
  <2>10. QED
    BY <2>6, <2>9
<1>5. QED
  BY <1>2, <1>3, <1>4, InsertEffect DEF QuietStep, InsertStep

-----------------------------------------------------------------------------
(***************************************************************************)
(* Answers.  Signals are never removed and the identity is unique, so that *)
(* a result taken from the table stays the record of its identity.         *)
(***************************************************************************)
LEMMA InsertCanonical ==
  ASSUME NEW e \in Evals, Insert(e), UNCHANGED input
  PROVE  \E s \in signals' : s.id = Canonical(e) /\ SameIdentity(s, e)'
<1>1. CASE Duplicates(e) # {}
  <2>1. PICK s \in Duplicates(e) : Canonical(e) = s.id
    BY <1>1 DEF Canonical
  <2>2. s \in signals' /\ SameIdentity(s, e)'
    BY <1>1 DEF Insert, Inserted, Duplicates, SameIdentity
  <2>3. QED
    BY <2>1, <2>2
<1>2. CASE Duplicates(e) = {}
  <2>1. NewSignal(e) \in signals' /\ NewSignal(e).id = Canonical(e)
    BY <1>2 DEF Insert, Inserted, Canonical, NewSignal
  <2>2. /\ NewSignal(e).stream = input'[e].stream
        /\ NewSignal(e).evaluatedAt = input'[e].evaluatedAt
    BY DEF NewSignal
  <2>3. QED
    BY <2>1, <2>2 DEF SameIdentity
<1>3. QED
  BY <1>1, <1>2

LEMMA NextSignals ==
  ASSUME CanonicalAnswer, QuietStep \/ \E e \in Evals : InsertStep(e)
  PROVE  /\ signals \subseteq signals'
         /\ \A s, t \in signals' :
              s.stream = t.stream /\ s.evaluatedAt = t.evaluatedAt => s = t
<1>1. CASE UNCHANGED store
  BY <1>1 DEF store, CanonicalAnswer
<1>2. ASSUME NEW e \in Evals, Adds(e)
      PROVE  /\ signals \subseteq signals'
             /\ \A s, t \in signals' :
                  s.stream = t.stream /\ s.evaluatedAt = t.evaluatedAt => s = t
  <2>1. \A s \in signals :
          s.stream # NewSignal(e).stream \/ s.evaluatedAt # NewSignal(e).evaluatedAt
    BY <1>2 DEF Adds, Duplicates, SameIdentity, NewSignal
  <2>2. QED
    BY <1>2, <2>1 DEF Adds, CanonicalAnswer
<1>3. QED
  BY <1>1, <1>2, InsertEffect DEF QuietStep, InsertStep

\* A step leaves a result as it is, makes it a failure, or takes it from the table;
\* a caller gets a failure or the result.
ResultStep ==
  \A e \in Evals :
    /\ \/ result'[e] \in {result[e], Failed}
       \/ Stored(result'[e], e)
       \/ \E s \in signals' : s.id = result'[e] /\ SameIdentity(s, e)'
    /\ answer'[e] \in {answer[e], result[e], Failed}

LEMMA NextResult ==
  ASSUME TypeOK, UNCHANGED input, [Next]_vars
  PROVE  ResultStep
<1>1. ASSUME NEW e \in Evals, Body(e)
      PROVE  ResultStep
  <2>1. CASE Persist(e)
    BY <2>1, InsertCanonical DEF Persist, Leave, Goto, ResultStep, TypeOK
  <2>2. CASE Deduplicate(e)
    <3>1. Duplicates(e) # {} => Stored(Canonical(e), e)
      <4>1. ASSUME Duplicates(e) # {}
            PROVE  \E s \in Duplicates(e) : Canonical(e) = s.id
        BY <4>1 DEF Canonical
      <4>2. QED
        BY <4>1 DEF Stored, Duplicates
    <3>2. QED
      BY <2>2, <3>1 DEF Deduplicate, Leave, ResultStep, TypeOK
  <2>3. CASE ~Persist(e) /\ ~Deduplicate(e)
    BY <1>1, <2>3 DEF Body, Start, RejectCandidate, AcquireFrequency, CreateSignal,
         CheckFrequency, CheckTotal, ReleaseFrequency, Join, Throw, Leave,
         ResultStep, TypeOK
  <2>4. QED
    BY <2>1, <2>2, <2>3
<1>2. ASSUME NEW e \in Evals, NEW v, Settle(e, v) \/ LeaveCooldown(e, v),
             UNCHANGED answer,
             \/ v \in {result[e], Failed} \/ Stored(v, e)
             \/ \E s \in signals' : s.id = v /\ SameIdentity(s, e)'
      PROVE  ResultStep
  <2>1. \A f \in Evals : result'[f] = IF f = e THEN v ELSE result[f]
    BY <1>2 DEF Settle, LeaveCooldown, TypeOK
  <2>2. QED
    BY <1>2, <2>1 DEF ResultStep
<1>3. ASSUME NEW e \in Evals, CooldownPart(e)
      PROVE  ResultStep
  <2>1. CASE AcquireCooldown(e)
    BY <1>2, <2>1 DEF AcquireCooldown, ResultStep
  <2>2. CASE CheckCooldown(e)
    <3>1. \A s \in Latest(e) : s.evaluatedAt = input[e].evaluatedAt => Stored(s.id, e)
      BY DEF Latest, Stored, SameIdentity
    <3>2. QED
      BY <1>2, <2>2, <3>1 DEF CheckCooldown, ResultStep
  <2>3. CASE PersistCooldown(e)
    BY <1>2, <2>3, InsertCanonical DEF PersistCooldown
  <2>4. CASE ReleaseCooldown(e)
    BY <1>2, <2>4 DEF ReleaseCooldown
  <2>5. QED
    BY <1>3, <2>1, <2>2, <2>3, <2>4 DEF CooldownPart
<1>4. ASSUME NEW e \in Evals, Fault(e)
      PROVE  ResultStep
  <2>1. CASE UNCHANGED answer /\ (Settle(e, Failed) \/ LeaveCooldown(e, Failed))
    BY <1>2, <2>1
  <2>2. CASE UNCHANGED answer /\ Leave(e, Failed)
    BY <2>2 DEF Leave, ResultStep, TypeOK
  <2>3. CASE UNCHANGED result /\ Throw(e)
    BY <2>3 DEF Throw, ResultStep, TypeOK
  <2>4. QED
    BY <1>4, <2>1, <2>2, <2>3
       DEF Fault, ReadFails, PersistFails, FrequencyLockFails, CooldownLockFails,
           Throw, Leave
<1>5. CASE SetEnabled \/ Tick \/ (\E i \in Instances : Crash(i)) \/ UNCHANGED vars
  BY <1>5 DEF SetEnabled, Tick, Crash, vars, ResultStep
<1>6. QED
  BY <1>1, <1>3, <1>4, <1>5 DEF Next

LEMMA NextAnswer ==
  ASSUME UNCHANGED input, ResultStored, CanonicalAnswer, ResultStep,
         QuietStep \/ \E e \in Evals : InsertStep(e)
  PROVE  ResultStored' /\ CanonicalAnswer'
<1>1. /\ signals \subseteq signals'
      /\ \A s, t \in signals' :
           s.stream = t.stream /\ s.evaluatedAt = t.evaluatedAt => s = t
  BY NextSignals
<1>2. Failed \notin Evals
  BY ResultsAreNotEvals
<1>3. \A e \in Evals, s \in signals : SameIdentity(s, e) => SameIdentity(s, e)'
  BY DEF SameIdentity
<1>4. ASSUME NEW e \in Evals, NEW id, Stored(id, e)
      PROVE  \E s \in signals' : s.id = id /\ SameIdentity(s, e)'
  BY <1>1, <1>3, <1>4 DEF Stored
<1>5. ASSUME NEW e \in Evals, result'[e] \in Evals
      PROVE  \E s \in signals' : s.id = result'[e] /\ SameIdentity(s, e)'
  <2>1. result'[e] # Failed
    BY <1>2, <1>5
  <2>2. \/ result'[e] = result[e]
        \/ Stored(result'[e], e)
        \/ \E s \in signals' : s.id = result'[e] /\ SameIdentity(s, e)'
    BY <2>1 DEF ResultStep
  <2>3. QED
    BY <1>4, <1>5, <2>2 DEF ResultStored
<1>6. ASSUME NEW e \in Evals, answer'[e] \in Evals
      PROVE  \E s \in signals' : s.id = answer'[e] /\ SameIdentity(s, e)'
  <2>1. answer'[e] \in {answer[e], result[e]}
    BY <1>2, <1>6 DEF ResultStep
  <2>2. Stored(answer'[e], e)
    BY <1>6, <2>1 DEF ResultStored, CanonicalAnswer, Stored
  <2>3. QED
    BY <1>4, <2>2
<1>7. ResultStored'
  BY <1>5 DEF ResultStored, Stored
<1>8. CanonicalAnswer'
  BY <1>1, <1>6 DEF CanonicalAnswer
<1>9. QED
  BY <1>7, <1>8

-----------------------------------------------------------------------------
(***************************************************************************)
(* Lock rows.  A step of an evaluation changes what that evaluation may    *)
(* hold; a death takes nothing away, for the dead may leave rows behind.   *)
(***************************************************************************)
LEMMA RowsOf ==
  ASSUME NEW k, NEW o, NEW x, NEW t
  PROVE  /\ \A r \in Acquire(locks, k, o, x, t) :
              r \in locks \/ (r.key = k /\ r.owner = o /\ Acquirable(locks, k, o, t))
         /\ \A r \in Release(locks, k, o) : r \in locks /\ ~(r.key = k /\ r.owner = o)
  BY DEF Acquire, WithRow, Release

LEMMA DeadStayEntitled ==
  ASSUME TypeOK, NEW i, Die(i), faulty \subseteq faulty', UNCHANGED input
  PROVE  \A k : \A e \in Evals : Entitled(e, k) => Entitled(e, k)'
  BY DEF Die, TypeOK, Entitled, BodyRuns, CooldownRuns

LEMMA NextReturned ==
  ASSUME TypeOK, TypeOK', CooldownAfterBody, LocksReturned, UNCHANGED input, [Next]_vars
  PROVE  LocksReturned'
<1>1. LocksReturned <=> \A r \in locks : Entitled(r.owner, r.key)
  BY DEF LocksReturned, Entitled
<1>2. LocksReturned' <=> \A r \in locks' : Entitled(r.owner, r.key)'
  BY DEF LocksReturned, Entitled
<1>3. \A r \in locks : r.owner \in Evals
  BY DEF TypeOK, LockRow
<1>4. \A r \in locks' : r.owner \in Evals
  BY DEF TypeOK, LockRow
<1>5. \A f \in Evals : input[f].stream # FrequencyKey
  BY ConstantsAssumption DEF TypeOK
<1>6. ASSUME NEW e \in Evals, Body(e), NEW r \in locks'
      PROVE  Entitled(r.owner, r.key)'
  <2>1. /\ UNCHANGED faulty
        /\ \A f \in Evals : f # e => pc'[f] = pc[f] /\ cd'[f] = cd[f]
    BY <1>6 DEF Body, Start, RejectCandidate, AcquireFrequency,
         CreateSignal, Deduplicate, CheckFrequency, CheckTotal, Persist,
         ReleaseFrequency, Join, Goto, Throw, Leave, TypeOK
  <2>2. CASE r.owner # e
    <3>1. r \in locks
      BY <1>6, <2>2, RowsOf DEF Body, Start, RejectCandidate, AcquireFrequency,
         CreateSignal, Deduplicate, CheckFrequency, CheckTotal, Persist,
         ReleaseFrequency, Join
    <3>2. QED
      BY <1>1, <1>3, <2>1, <2>2, <3>1 DEF Entitled
  <2>3. CASE r.owner = e /\ AcquireFrequency(e)
    <3>1. pc[e] = "acquire" /\ cd'[e] = cd[e]
      BY <2>3 DEF AcquireFrequency
    <3>2. CASE r \in locks
      <4>1. Entitled(e, r.key) /\ pc[e] = "acquire"
        BY <1>1, <2>3, <3>1, <3>2
      <4>2. QED
        BY <2>1, <2>3, <3>1, <4>1 DEF Entitled
    <3>3. CASE r.key = FrequencyKey /\ Acquirable(locks, FrequencyKey, e, now)
      <4>1. pc'[e] = "create"
        BY <2>3, <3>3 DEF AcquireFrequency, Goto, TypeOK
      <4>2. QED
        BY <2>3, <3>3, <4>1 DEF Entitled, BodySteps
    <3>4. QED
      BY <1>6, <2>3, <3>2, <3>3, RowsOf DEF AcquireFrequency
  <2>4. CASE r.owner = e /\ ReleaseFrequency(e)
    <3>1. r \in locks /\ r.key # FrequencyKey
      BY <1>6, <2>4 DEF ReleaseFrequency, Release
    <3>2. pc[e] = "release" /\ cd'[e] = cd[e]
      BY <2>4 DEF ReleaseFrequency
    <3>3. QED
      BY <1>1, <2>1, <2>4, <3>1, <3>2 DEF Entitled
  <2>5. CASE r.owner = e /\ ~AcquireFrequency(e) /\ ~ReleaseFrequency(e)
    <3>1. r \in locks
      BY <1>6, <2>5 DEF Body, Start, RejectCandidate, CreateSignal, Deduplicate,
         CheckFrequency, CheckTotal, Persist, Join
    <3>2. cd'[e] = cd[e] \/ (pc[e] = "total" /\ pc'[e] = "release")
      BY <1>6, <2>5 DEF Body, Start, RejectCandidate, CreateSignal, Deduplicate,
         CheckFrequency, CheckTotal, Persist, Join, Goto, TypeOK
    <3>3. cd'[e] = cd[e] \/ cd[e] = "none"
      BY <3>2 DEF CooldownAfterBody
    <3>4. /\ pc[e] # "crashed"
          /\ pc[e] \in BodySteps \ {"acquire"} => pc'[e] \in BodySteps \ {"acquire"}
      BY <1>6, <2>5 DEF Body, Start, RejectCandidate, CreateSignal, Deduplicate,
         CheckFrequency, CheckTotal, Persist, Join, Goto, Throw, Leave, TypeOK, BodySteps
    <3>5. Entitled(e, r.key)
      BY <1>1, <2>5, <3>1
    <3>6. QED
      BY <2>1, <2>5, <3>3, <3>4, <3>5 DEF Entitled, CooldownSteps
  <2>6. QED
    BY <2>2, <2>3, <2>4, <2>5
<1>7. ASSUME NEW e \in Evals, \E v : Settle(e, v), cd[e] # "crashed",
             faulty \subseteq faulty'
      PROVE  \A k : \A f \in Evals : Entitled(f, k) =>
               Entitled(f, k)' \/ (f = e /\ k = input[e].stream /\
                                   cd[e] \in CooldownSteps \ {"acquire"})
  <2>1. CASE \E i : Die(i)
    BY <1>7, <2>1, DeadStayEntitled
  <2>2. CASE cd' = [cd EXCEPT ![e] = "done"] /\ UNCHANGED pc
    BY <1>7, <2>2 DEF Entitled, TypeOK
  <2>3. QED
    BY <1>7, <2>1, <2>2 DEF Settle, Reject
<1>8. ASSUME NEW e \in Evals, CooldownPart(e), NEW r \in locks'
      PROVE  Entitled(r.owner, r.key)'
  <2>0. UNCHANGED faulty
    BY <1>8 DEF CooldownPart, AcquireCooldown, CheckCooldown, PersistCooldown,
                ReleaseCooldown
  <2>1. CASE CheckCooldown(e) \/ PersistCooldown(e)
    <3>1. r \in locks /\ UNCHANGED pc
      BY <1>8, <2>1 DEF CheckCooldown, PersistCooldown, LeaveCooldown
    <3>2. \A f \in Evals : cd'[f] = cd[f] \/
            (cd[f] \in {"latest", "persist"} /\ cd'[f] \in {"persist", "release"})
      BY <2>1 DEF CheckCooldown, PersistCooldown, LeaveCooldown, TypeOK
    <3>3. QED
      BY <1>1, <1>3, <2>0, <3>1, <3>2 DEF Entitled, CooldownSteps
  <2>2. CASE AcquireCooldown(e)
    <3>1. cd[e] = "acquire"
      BY <2>2 DEF AcquireCooldown
    <3>2. CASE Acquirable(locks, input[e].stream, e, now)
      <4>1. \A f \in Evals : pc'[f] = pc[f] /\ cd'[f] = IF f = e THEN "latest" ELSE cd[f]
        BY <2>2, <3>2 DEF AcquireCooldown, TypeOK
      <4>2. r \in locks \/ (r.key = input[e].stream /\ r.owner = e)
        BY <1>8, <2>2, RowsOf DEF AcquireCooldown
      <4>3. QED
        BY <1>1, <1>3, <2>0, <3>1, <4>1, <4>2 DEF Entitled, CooldownSteps
    <3>3. CASE ~Acquirable(locks, input[e].stream, e, now)
      <4>1. r \in locks /\ Settle(e, Failed)
        BY <1>8, <2>2, <3>3 DEF AcquireCooldown, Acquire
      <4>2. QED
        BY <1>1, <1>3, <1>7, <2>0, <3>1, <4>1
    <3>4. QED
      BY <3>2, <3>3
  <2>3. CASE ReleaseCooldown(e)
    <3>1. /\ r \in locks /\ ~(r.key = input[e].stream /\ r.owner = e)
          /\ cd[e] = "release" /\ \E v : Settle(e, v)
      BY <1>8, <2>3, RowsOf DEF ReleaseCooldown
    <3>2. QED
      BY <1>1, <1>3, <1>7, <2>0, <3>1
  <2>4. QED
    BY <1>8, <2>1, <2>2, <2>3 DEF CooldownPart
<1>9. ASSUME NEW e \in Evals, Fault(e), NEW r \in locks'
      PROVE  Entitled(r.owner, r.key)'
  <2>1. faulty' = faulty \cup {e}
    BY <1>9 DEF Fault, ReadFails, PersistFails, FrequencyLockFails, CooldownLockFails,
         CallFails
  <2>2. CASE r.owner = e
    BY <2>1, <2>2 DEF Entitled
  <2>3. CASE r.owner # e
    <3>1. r \in locks
      BY <1>9, <2>3, RowsOf DEF Fault, ReadFails, PersistFails, FrequencyLockFails,
         CooldownLockFails
    <3>2. CASE \E i : Die(i)
      BY <1>1, <1>3, <2>1, <3>1, <3>2, DeadStayEntitled
    <3>3. CASE \A f \in Evals : f # e => pc'[f] = pc[f] /\ cd'[f] = cd[f]
      BY <1>1, <1>3, <2>1, <2>3, <3>1, <3>3 DEF Entitled
    <3>4. QED
      BY <1>9, <3>2, <3>3
         DEF Fault, ReadFails, PersistFails, FrequencyLockFails, CooldownLockFails,
             Settle, Reject, LeaveCooldown, Leave, Throw, Goto, TypeOK
  <2>4. QED
    BY <2>2, <2>3
<1>10. ASSUME NEW i \in Instances, Crash(i), NEW r \in locks'
       PROVE  Entitled(r.owner, r.key)'
  BY <1>1, <1>3, <1>10, DeadStayEntitled DEF Crash
<1>11. CASE SetEnabled \/ Tick \/ UNCHANGED vars
  BY <1>11 DEF SetEnabled, Tick, vars, LocksReturned
<1>12. QED
  BY <1>2, <1>6, <1>8, <1>9, <1>10, <1>11 DEF Next

-----------------------------------------------------------------------------
LEMMA InitInv == Init => Inv
<1>. SUFFICES ASSUME Init PROVE Inv
  OBVIOUS
<1>1. TypeOK
  BY DEF Init, TypeOK
<1>2. KeyIsUnique(locks) /\ CooldownAfterBody /\ BodyPersistsWithoutCooldown
  BY DEF Init, KeyIsUnique, CooldownAfterBody, BodyPersistsWithoutCooldown
<1>3. OnTime = {} /\ IsFiniteSet(signals)
  BY FS_EmptySet DEF Init, OnTime
<1>4. Cardinality(OnTime) = 0 /\ MaxSignals \in Nat \ {0}
  BY <1>3, FS_EmptySet, ConstantsAssumption
<1>5. Headroom /\ LeaseTotalLimit
  BY <1>4 DEF Headroom, LeaseTotalLimit
<1>6. ~(\E e \in Evals : Built(e) \/ Counted(e))
  BY DEF Init, Built, Counted, Inserting
<1>7. SignalsPast /\ BuiltLast /\ WindowRoom /\ LeaseFrequencyLimit
  BY <1>3, <1>6 DEF Init, SignalsPast, BuiltLast, WindowRoom, LeaseFrequencyLimit
<1>8. CooldownClear /\ CooldownSpacing /\ LocksReturned
  BY DEF Init, CooldownClear, CooldownSpacing, LocksReturned
<1>9. ResultStored /\ CanonicalAnswer
  BY ResultsAreNotEvals DEF Init, ResultStored, CanonicalAnswer
<1>10. QED
  BY <1>1, <1>2, <1>3, <1>5, <1>7, <1>8, <1>9 DEF Inv

LEMMA NextInv == Inv /\ [Next]_vars => Inv'
<1>. SUFFICES ASSUME Inv, [Next]_vars PROVE Inv'
  OBVIOUS
<1>. USE DEF Inv
<1>1. TypeOK'
  BY NextType
<1>2. KeyIsUnique(locks') /\ LockStep
  BY <1>1, NextLocks
<1>3. CooldownAfterBody' /\ BodyPersistsWithoutCooldown'
  BY NextCooldownAfterBody, NextBodyPersists
<1>4. QuietStep \/ \E e \in Evals : InsertStep(e)
  BY NextInsert
<1>5. now <= now' /\ UNCHANGED input
  BY NextClock
<1>6. IsFiniteSet(signals')
  BY <1>4, InsertEffect, FS_AddElement DEF QuietStep, InsertStep, Adds, store
<1>7. SignalsPast'
  BY <1>1, <1>4, <1>5, NextSignalsPast
<1>8. Headroom' /\ LeaseTotalLimit'
  BY <1>2, <1>4, NextTotalLimit
<1>9. BuiltLast' /\ WindowRoom' /\ LeaseFrequencyLimit'
  BY <1>2, <1>4, NextWindow
<1>10. CooldownClear' /\ CooldownSpacing'
  BY <1>2, <1>4, <1>5, NextCooldown
<1>11. ResultStored' /\ CanonicalAnswer'
  BY <1>4, <1>5, NextResult, NextAnswer
<1>12. LocksReturned'
  BY <1>1, <1>5, NextReturned
<1>13. QED
  BY <1>1, <1>2, <1>3, <1>6, <1>7, <1>8, <1>9, <1>10, <1>11, <1>12

LEMMA Invariance == Spec => []Inv
  BY InitInv, NextInv, PTL DEF Spec

-----------------------------------------------------------------------------
\* The state of the runner, the lock table and the signal table keeps its types.
THEOREM TypeCorrect == Spec => []TypeOK
<1>1. Inv => TypeOK
  BY DEF Inv
<1>2. QED
  BY <1>1, Invariance, PTL

\* However many evaluations run, whatever expires, crashes or fails half-way,
\* the signals inserted by evaluations that still owned the frequency lock row
\* never exceed maxSignals.
THEOREM TotalLimitUnderLease == Spec => []LeaseTotalLimit
<1>1. Inv => LeaseTotalLimit
  BY DEF Inv
<1>2. QED
  BY <1>1, Invariance, PTL

\* The same for maxSignalsPerMinute, in the window that ends at any such signal.
THEOREM FrequencyLimitUnderLease == Spec => []LeaseFrequencyLimit
<1>1. Inv => LeaseFrequencyLimit
  BY DEF Inv
<1>2. QED
  BY <1>1, Invariance, PTL

\* Signals inserted under the cooldown lock are a cooldown apart in each stream.
THEOREM SpacingUnderLease == Spec => []CooldownSpacing
<1>1. Inv => CooldownSpacing
  BY DEF Inv
<1>2. QED
  BY <1>1, Invariance, PTL

\* An identity has one record, and it is what each caller with the identity gets.
THEOREM Canonicity == Spec => []CanonicalAnswer
<1>1. Inv => CanonicalAnswer
  BY DEF Inv
<1>2. QED
  BY <1>1, Invariance, PTL

\* No lock row outlives its critical section, but for crashes and failed calls.
THEOREM LocksAreReturned == Spec => []LocksReturned
<1>1. Inv => LocksReturned
  BY DEF Inv
<1>2. QED
  BY <1>1, Invariance, PTL

-----------------------------------------------------------------------------
(***************************************************************************)
(* The runner's use of the lock table, as a lease service: an evaluation   *)
(* holds a key as long as it has an unexpired row under it.                *)
(***************************************************************************)
Live == {r \in locks : r.expiresAt > now}
Held == {[key |-> r.key, owner |-> r.owner] : r \in Live}
LockKeys == Streams \cup {FrequencyKey}

RunnerLeases == INSTANCE Lease WITH Keys <- LockKeys, Owners <- Evals, holdings <- Held

LEMMA NothingGranted ==
  ASSUME \A r \in Live' : \E q \in Live : q.key = r.key /\ q.owner = r.owner
  PROVE  RunnerLeases!Next
<1>1. Held' \subseteq Held
  BY DEF Held
<1>2. QED
  BY <1>1 DEF RunnerLeases!Next, RunnerLeases!End

\* An acquire that takes effect prolongs the holding of its owner, or grants one, or
\* leaves a row that has expired already, for a clock that is a TTL behind.
LEMMA AcquireGrants ==
  ASSUME TypeOK, NEW e \in Evals, NEW k \in LockKeys,
         locks' = Acquire(locks, k, e, Clock(e) + Ttl, now), now' = now
  PROVE  RunnerLeases!Next
<1>. DEFINE new == [key |-> k, owner |-> e, expiresAt |-> Clock(e) + Ttl]
<1>1. CASE ~Acquirable(locks, k, e, now)
  BY <1>1, NothingGranted DEF Acquire, Live
<1>2. CASE Acquirable(locks, k, e, now) /\ \E q \in Live : q.key = k
  <2>1. PICK q \in Live : q.key = k
    BY <1>2
  <2>2. q.owner = e
    BY <1>2, <2>1 DEF Live, Acquirable, TypeOK, LockRow
  <2>3. QED
    BY <1>2, <2>1, <2>2, NothingGranted DEF Acquire, WithRow, Live
<1>3. CASE /\ Acquirable(locks, k, e, now) /\ \A q \in Live : q.key # k
           /\ new.expiresAt > now
  <2>1. new.expiresAt > now
    BY <1>3
  <2>2. Live' = Live \cup {new}
    BY <1>3, <2>1 DEF Acquire, WithRow, Live
  <2>3. Held' = Held \cup {[key |-> k, owner |-> e]}
    <3>1. \A h : h \in Held' <=> \E r \in Live' : h = [key |-> r.key, owner |-> r.owner]
      BY DEF Held
    <3>2. \A h : h \in Held <=> \E r \in Live : h = [key |-> r.key, owner |-> r.owner]
      BY DEF Held
    <3>3. \A h : h \in Held' <=>
                  \/ h \in Held
                  \/ h = [key |-> new.key, owner |-> new.owner]
      <4>. HIDE DEF new
      <4>1. QED
        BY <2>2, <3>1, <3>2
    <3>4. QED
      BY <3>3
  <2>4. \A h \in Held : h.key # k
    BY <1>3 DEF Held
  <2>5. RunnerLeases!Grant(k, e)
    BY <2>3, <2>4 DEF RunnerLeases!Grant
  <2>6. QED
    BY <2>5 DEF RunnerLeases!Next
<1>4. CASE Acquirable(locks, k, e, now) /\ ~(new.expiresAt > now)
  BY <1>4, NothingGranted DEF Acquire, WithRow, Live
<1>5. QED
  BY <1>1, <1>2, <1>3, <1>4

\* A step runs one statement, or lets time pass.
LEMMA StepIsLease ==
  ASSUME TypeOK, Next
  PROVE  RunnerLeases!Next
<1>1. \A e \in Evals : input[e].stream \in LockKeys /\ FrequencyKey \in LockKeys
  BY DEF TypeOK, LockKeys
<1>2. CASE Tick
  <2>1. locks' = locks /\ now' = now + 1 /\ now \in Nat
    BY <1>2 DEF Tick, TypeOK
  <2>2. Live' \subseteq Live
    BY <2>1 DEF Live, TypeOK, LockRow
  <2>3. QED
    BY <2>2, NothingGranted
<1>3. ASSUME locks' \subseteq locks, now' = now
      PROVE  RunnerLeases!Next
  BY <1>3, NothingGranted DEF Live
<1>4. ASSUME NEW e \in Evals, Body(e) \/ CooldownPart(e) \/ Fault(e)
      PROVE  RunnerLeases!Next
  <2>1. now' = now
    BY <1>4 DEF Body, CooldownPart, Fault, Start, RejectCandidate, AcquireFrequency,
       CreateSignal, Deduplicate, CheckFrequency, CheckTotal, Persist, ReleaseFrequency,
       Join, AcquireCooldown, CheckCooldown, PersistCooldown, ReleaseCooldown, CallFails,
       ReadFails, PersistFails, FrequencyLockFails, CooldownLockFails
  <2>2. \/ locks' \subseteq locks
        \/ \E k \in LockKeys : locks' = Acquire(locks, k, e, Clock(e) + Ttl, now)
    <3>1. \A k : Release(locks, k, e) \subseteq locks
      BY DEF Release
    <3>2. QED
      BY <1>1, <1>4, <3>1
         DEF Body, CooldownPart, Fault, Start, RejectCandidate, AcquireFrequency,
             CreateSignal, Deduplicate, CheckFrequency, CheckTotal, Persist,
             ReleaseFrequency, Join, AcquireCooldown, CheckCooldown, PersistCooldown,
             ReleaseCooldown, ReadFails, PersistFails, FrequencyLockFails, CooldownLockFails
  <2>3. QED
    BY <1>3, <2>1, <2>2, AcquireGrants
<1>5. CASE SetEnabled \/ \E i \in Instances : Crash(i)
  BY <1>3, <1>5 DEF SetEnabled, Crash
<1>6. QED
  BY <1>2, <1>4, <1>5 DEF Next

\* However evaluations fail, crash or outlive their rows, the frequency lock and the
\* cooldown locks are a lease service: an unexpired key never changes hands.
THEOREM LocksAreLeases == Spec => RunnerLeases!Spec
<1>1. Init => RunnerLeases!Init
  BY DEF Init, RunnerLeases!Init, Held, Live
<1>2. TypeOK /\ [Next]_vars => [RunnerLeases!Next]_Held
  BY StepIsLease DEF vars, Held, Live
<1>3. QED
  BY <1>1, <1>2, TypeCorrect, PTL DEF Spec, RunnerLeases!Spec
=============================================================================
