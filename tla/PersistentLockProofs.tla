----------------------- MODULE PersistentLockProofs ------------------------
(***************************************************************************)
(* Proofs about PersistentLock, for any keys, owners, TTL and clock skews. *)
(*                                                                         *)
(* LeaseExclusion is not inductive.  The argument is that a live lease is  *)
(* backed by its owner's row (Backed), and a key has one row.  Backed      *)
(* survives a late statement because an owner has at most one statement on *)
(* its way (OneStatement), that statement never shortens a lease the owner *)
(* was given (LaterExpiry, from ClockBound), and an owner whose release is *)
(* on its way has no lease on that key (ReleaseGivesUp).                   *)
(***************************************************************************)
EXTENDS PersistentLock, TLAPS

OneStatement ==
  \A s1, s2 \in queue : s1.owner = s2.owner => s1 = s2

NotReadyWhileSent ==
  \A s \in queue : phase[s.owner] # "ready"

ReleaseGivesUp ==
  \A s \in queue : s.op = "release" => ~OwnRow(leases, s.key, s.owner)

ClockBound ==
  \A l \in leases : l.expiresAt <= now + Skew[l.owner] + Ttl

SentBound ==
  \A s \in queue : s.expiresAt <= now + Skew[s.owner] + Ttl

LaterExpiry ==
  \A s \in queue, l \in leases :
    l.owner = s.owner /\ l.key = s.key => l.expiresAt <= s.expiresAt

Inv ==
  /\ TypeOK
  /\ LeaseIsBacked
  /\ OneStatement
  /\ NotReadyWhileSent
  /\ ReleaseGivesUp
  /\ ClockBound
  /\ SentBound
  /\ LaterExpiry

-----------------------------------------------------------------------------
LEMMA WithRowUnique ==
  ASSUME NEW rows, NEW k, NEW o, NEW e, KeyIsUnique(rows)
  PROVE  KeyIsUnique(WithRow(rows, k, o, e))
  BY DEF KeyIsUnique, WithRow

LEMMA ReleaseUnique ==
  ASSUME NEW rows, NEW k, NEW o, KeyIsUnique(rows)
  PROVE  KeyIsUnique(Release(rows, k, o))
  BY DEF KeyIsUnique, Release

LEMMA InitInv == Init => Inv
  BY ConstantsAssumption
     DEF Init, Inv, TypeOK, LeaseIsBacked, KeyIsUnique, OneStatement,
         NotReadyWhileSent, ReleaseGivesUp, ClockBound, SentBound, LaterExpiry

LEMMA EffectUnique ==
  ASSUME Inv, NEW s \in queue
  PROVE  KeyIsUnique(Effect(s))
  BY WithRowUnique, ReleaseUnique
     DEF Inv, LeaseIsBacked, Effect, Acquire, Renew

\* A live lease of another owner, or on another key, keeps its row whatever
\* statement is executed.
LEMMA EffectKeepsOthers ==
  ASSUME Inv, NEW s \in queue, NEW r \in locks, r.expiresAt > now,
         r.owner # s.owner \/ r.key # s.key
  PROVE  r \in Effect(s)
<1>1. KeyIsUnique(locks) /\ now \in Nat /\ locks \subseteq LockRow(Keys, Owners)
  BY DEF Inv, TypeOK, LeaseIsBacked
<1>2. CASE s.op = "acquire"
  BY <1>1, <1>2 DEF Effect, Acquire, Acquirable, WithRow, LockRow
<1>3. CASE s.op = "renew"
  BY <1>1, <1>3 DEF Effect, Renew, Renewable, WithRow, KeyIsUnique
<1>4. CASE s.op \notin {"acquire", "renew"}
  BY <1>4 DEF Effect, Release
<1>5. QED
  BY <1>2, <1>3, <1>4

\* The owner's own row on the statement's key survives, with at least the
\* expiry of every lease the owner has on that key.
LEMMA EffectKeepsOwn ==
  ASSUME Inv, NEW s \in queue, NEW l \in leases,
         l.key = s.key, l.owner = s.owner, l.expiresAt > now
  PROVE  \E r \in Effect(s) : /\ r.key = l.key
                              /\ r.owner = l.owner
                              /\ r.expiresAt >= l.expiresAt
<1>1. PICK r \in locks : r.key = l.key /\ r.owner = l.owner
                         /\ r.expiresAt >= l.expiresAt
  BY DEF Inv, LeaseIsBacked
<1>2. s.expiresAt >= l.expiresAt /\ s.op # "release"
  <2>1. l.expiresAt \in Int /\ s.expiresAt \in Int
    BY DEF Inv, TypeOK, LockRow, Statement
  <2>2. QED
    BY <2>1 DEF Inv, LaterExpiry, ReleaseGivesUp, OwnRow
<1>3. s.op \in {"acquire", "renew"}
  BY <1>2 DEF Inv, TypeOK, Statement
<1>4. DEFINE new == [key |-> s.key, owner |-> s.owner, expiresAt |-> s.expiresAt]
<1>5. Effect(s) = locks \/ new \in Effect(s)
  BY <1>3 DEF Effect, Acquire, Renew, WithRow
<1>6. QED
  BY <1>1, <1>2, <1>5

LEMMA EffectType ==
  ASSUME TypeOK, NEW s \in queue
  PROVE  Effect(s) \subseteq LockRow(Keys, Owners)
  BY DEF TypeOK, Effect, Acquire, Renew, WithRow, Release, LockRow, Statement

-----------------------------------------------------------------------------
LEMMA SendInv ==
  ASSUME Inv, NEW o \in Owners, NEW k \in Keys,
         NEW op \in {"acquire", "renew", "release"},
         Send(o, op, k),
         \/ op # "release" /\ leases' = leases
         \/ op = "release" /\ leases' = Release(leases, k, o)
  PROVE  Inv'
<1>. DEFINE s0 == [op |-> op, key |-> k, owner |-> o,
                   expiresAt |-> AppClock(o) + Ttl, asOf |-> AppClock(o)]
<1>1. /\ phase[o] = "ready"
      /\ phase' = [phase EXCEPT ![o] = "waiting"]
      /\ queue' = queue \cup {s0}
      /\ locks' = locks
      /\ now' = now
  BY DEF Send
<1>2. leases' \subseteq leases
  BY DEF Release
<1>3. s0 \in Statement /\ s0.expiresAt = now + Skew[o] + Ttl /\ s0.owner = o
      /\ s0.key = k /\ s0.op = op
  BY ConstantsAssumption DEF Statement, AppClock, Inv, TypeOK
<1>4. TypeOK'
  BY <1>1, <1>2, <1>3 DEF Inv, TypeOK
<1>5. LeaseIsBacked'
  BY <1>1, <1>2 DEF Inv, LeaseIsBacked
<1>6. \A s \in queue : s.owner # o
  BY <1>1 DEF Inv, NotReadyWhileSent
<1>7. OneStatement'
  BY <1>1, <1>3, <1>6 DEF Inv, OneStatement
<1>8. NotReadyWhileSent'
  BY <1>1, <1>3 DEF Inv, NotReadyWhileSent, TypeOK, Statement
<1>9. ReleaseGivesUp'
  <2>1. ASSUME NEW s \in queue', s.op = "release"
        PROVE  ~OwnRow(leases', s.key, s.owner)
    <3>1. CASE s \in queue
      BY <1>2, <2>1, <3>1 DEF Inv, ReleaseGivesUp, OwnRow
    <3>2. CASE s = s0
      BY <1>3, <2>1, <3>2 DEF Release, OwnRow
    <3>3. QED
      BY <1>1, <3>1, <3>2
  <2>2. QED
    BY <2>1 DEF ReleaseGivesUp
<1>10. ClockBound'
  BY <1>1, <1>2 DEF Inv, ClockBound
<1>11. SentBound'
  <2>1. \A s \in queue : s.expiresAt <= now + Skew[s.owner] + Ttl
    BY DEF Inv, SentBound
  <2>2. now + Skew[o] + Ttl \in Int
    BY ConstantsAssumption DEF Inv, TypeOK
  <2>3. s0.expiresAt <= now' + Skew[s0.owner] + Ttl
    BY <1>1, <1>3, <2>2
  <2>4. QED
    BY <1>1, <2>1, <2>3 DEF SentBound
<1>12. LaterExpiry'
  <2>1. ASSUME NEW s \in queue', NEW l \in leases', l.owner = s.owner, l.key = s.key
        PROVE  l.expiresAt <= s.expiresAt
    <3>1. l \in leases
      BY <1>2
    <3>2. CASE s \in queue
      BY <2>1, <3>1, <3>2 DEF Inv, LaterExpiry
    <3>3. CASE s = s0
      BY <1>3, <2>1, <3>1, <3>3 DEF Inv, ClockBound
    <3>4. QED
      BY <1>1, <3>2, <3>3
  <2>2. QED
    BY <2>1 DEF LaterExpiry
<1>13. QED
  BY <1>4, <1>5, <1>7, <1>8, <1>9, <1>10, <1>11, <1>12 DEF Inv

\* A statement leaves the queue; the leases change only if it was granted.
LEMMA RunInv ==
  ASSUME Inv, NEW s \in queue, Answered(s) \/ Unanswered(s)
  PROVE  Inv'
<1>. DEFINE given == [key |-> s.key, owner |-> s.owner, expiresAt |-> s.expiresAt]
<1>1. /\ locks' = Effect(s)
      /\ queue' = queue \ {s}
      /\ now' = now
      /\ phase' \in [Owners -> {"ready", "waiting", "retired"}]
      /\ \A o \in Owners \ {s.owner} : phase'[o] = phase[o]
  BY DEF Answered, Unanswered, Run, Inv, TypeOK, Statement
<1>2. s \in Statement /\ given \in LockRow(Keys, Owners)
  BY DEF Inv, TypeOK, Statement, LockRow
<1>3. \/ leases' = leases
      \/ /\ leases' = Release(leases, s.key, s.owner) \cup {given}
         /\ Succeeds(s) /\ s.op # "release"
  BY DEF Answered, Unanswered
<1>4. \A l \in leases' : l \in leases \/ l = given
  BY <1>3 DEF Release
<1>5. TypeOK'
  BY <1>1, <1>2, <1>4, EffectType DEF Inv, TypeOK
<1>6. LeaseIsBacked'
  <2>1. KeyIsUnique(locks')
    BY <1>1, EffectUnique
  <2>2. ASSUME NEW l \in leases', l.expiresAt > now
        PROVE  \E r \in Effect(s) : /\ r.key = l.key
                                    /\ r.owner = l.owner
                                    /\ r.expiresAt >= l.expiresAt
    <3>1. CASE l \in leases /\ l.key = s.key /\ l.owner = s.owner
      BY <2>2, <3>1, EffectKeepsOwn
    <3>2. CASE l \in leases /\ ~(l.key = s.key /\ l.owner = s.owner)
      <4>1. PICK r \in locks : r.key = l.key /\ r.owner = l.owner
                               /\ r.expiresAt >= l.expiresAt
        BY <2>2, <3>2 DEF Inv, LeaseIsBacked
      <4>2. r.expiresAt > now
        BY <2>2, <3>2, <4>1 DEF Inv, TypeOK, LockRow
      <4>3. r \in Effect(s)
        BY <3>2, <4>1, <4>2, EffectKeepsOthers
      <4>4. QED
        BY <4>1, <4>3
    <3>3. CASE l = given /\ Succeeds(s) /\ s.op # "release"
      <4>1. given \in Effect(s)
        BY <1>2, <3>3
           DEF Succeeds, Effect, Acquire, Renew, WithRow, Statement
      <4>2. l.expiresAt >= l.expiresAt
        BY <1>2, <3>3 DEF LockRow
      <4>3. QED
        BY <3>3, <4>1, <4>2
    <3>4. QED
      BY <1>3, <3>1, <3>2, <3>3 DEF Release
  <2>3. QED
    BY <1>1, <2>1, <2>2 DEF LeaseIsBacked
<1>7. \A s2 \in queue' : s2 \in queue /\ s2.owner # s.owner
  BY <1>1 DEF Inv, OneStatement
<1>8. OneStatement'
  BY <1>7 DEF Inv, OneStatement
<1>9. NotReadyWhileSent'
  BY <1>1, <1>7 DEF Inv, NotReadyWhileSent, TypeOK, Statement
<1>10. ReleaseGivesUp'
  BY <1>4, <1>7 DEF Inv, ReleaseGivesUp, OwnRow
<1>11. ClockBound'
  BY <1>1, <1>4 DEF Inv, ClockBound, SentBound
<1>12. SentBound'
  BY <1>1, <1>7 DEF Inv, SentBound
<1>13. LaterExpiry'
  BY <1>4, <1>7 DEF Inv, LaterExpiry
<1>14. QED
  BY <1>5, <1>6, <1>8, <1>9, <1>10, <1>11, <1>12, <1>13 DEF Inv

LEMMA GiveUpInv ==
  ASSUME Inv, (\E s \in queue : Lost(s)) \/ (\E o \in Owners : Abandon(o))
  PROVE  Inv'
<1>1. /\ queue' \subseteq queue
      /\ UNCHANGED <<locks, now, leases>>
      /\ phase' \in [Owners -> {"ready", "waiting", "retired"}]
      /\ \A o \in Owners : phase'[o] \in {phase[o], "retired"}
  BY DEF Lost, Abandon, Inv, TypeOK, Statement
<1>2. TypeOK'
  BY <1>1 DEF Inv, TypeOK
<1>3. LeaseIsBacked' /\ ClockBound'
  BY <1>1 DEF Inv, LeaseIsBacked, ClockBound
<1>4. NotReadyWhileSent'
  BY <1>1 DEF Inv, NotReadyWhileSent, TypeOK, Statement
<1>5. OneStatement' /\ ReleaseGivesUp' /\ SentBound' /\ LaterExpiry'
  BY <1>1 DEF Inv, OneStatement, ReleaseGivesUp, SentBound, LaterExpiry
<1>6. QED
  BY <1>2, <1>3, <1>4, <1>5 DEF Inv

LEMMA TickInv == Inv /\ Tick => Inv'
<1>. SUFFICES ASSUME Inv, Tick PROVE Inv'
  OBVIOUS
<1>1. now \in Nat /\ now' = now + 1 /\ UNCHANGED <<locks, queue, phase, leases>>
  BY DEF Inv, TypeOK, Tick
<1>2. TypeOK'
  BY <1>1 DEF Inv, TypeOK
<1>3. LeaseIsBacked'
  BY <1>1 DEF Inv, LeaseIsBacked, TypeOK, LockRow
<1>4. ClockBound' /\ SentBound'
  BY <1>1, ConstantsAssumption
     DEF Inv, ClockBound, SentBound, TypeOK, LockRow, Statement
<1>5. OneStatement' /\ NotReadyWhileSent' /\ ReleaseGivesUp' /\ LaterExpiry'
  BY <1>1 DEF Inv, OneStatement, NotReadyWhileSent, ReleaseGivesUp, LaterExpiry
<1>6. QED
  BY <1>2, <1>3, <1>4, <1>5 DEF Inv

LEMMA NextInv == Inv /\ [Next]_vars => Inv'
<1>. SUFFICES ASSUME Inv, [Next]_vars PROVE Inv'
  OBVIOUS
<1>1. ASSUME NEW o \in Owners, NEW k \in Keys,
             CallAcquire(o, k) \/ CallRenew(o, k) \/ CallRelease(o, k)
      PROVE  Inv'
  BY <1>1, SendInv DEF CallAcquire, CallRenew, CallRelease
<1>2. ASSUME NEW s \in queue, Answered(s) \/ Unanswered(s)
      PROVE  Inv'
  BY <1>2, RunInv
<1>3. CASE (\E s \in queue : Lost(s)) \/ (\E o \in Owners : Abandon(o))
  BY <1>3, GiveUpInv
<1>4. CASE Tick
  BY <1>4, TickInv
<1>5. CASE UNCHANGED vars
  BY <1>5 DEF vars, Inv, TypeOK, LeaseIsBacked, OneStatement, NotReadyWhileSent,
             ReleaseGivesUp, ClockBound, SentBound, LaterExpiry
<1>6. QED
  BY <1>1, <1>2, <1>3, <1>4, <1>5 DEF Next

-----------------------------------------------------------------------------
LEMMA Invariance == Spec => []Inv
<1>1. QED
  BY InitInv, NextInv, PTL DEF Spec

\* The state of the lock service keeps its types.
THEOREM TypeCorrect == Spec => []TypeOK
<1>1. Inv => TypeOK
  BY DEF Inv
<1>2. QED
  BY <1>1, Invariance, PTL

\* A key has one row, and a caller within its lease still owns that row.
THEOREM LeaseBacked == Spec => []LeaseIsBacked
<1>1. Inv => LeaseIsBacked
  BY DEF Inv
<1>2. QED
  BY <1>1, Invariance, PTL

\* Two callers told they hold the same key are never both within their leases,
\* whatever the skew of their clocks, and whatever calls fail or arrive late.
THEOREM MutualExclusion == Spec => []LeaseExclusion
<1>1. Inv => LeaseExclusion
  BY DEF Inv, TypeOK, LockRow, LeaseIsBacked, KeyIsUnique, LeaseExclusion
<1>2. QED
  BY <1>1, Invariance, PTL

\* Only the owner's own release ends a lease row before its expiry.
THEOREM NoEviction == Spec => NobodyEvicted
<1>. DEFINE A == \A r \in locks :
                   r.expiresAt > now /\ ~OwnRow(locks', r.key, r.owner) =>
                     \E s \in queue : s.op = "release" /\ s.key = r.key
                                      /\ s.owner = r.owner
<1>1. Inv /\ [Next]_vars => [A]_vars
  <2>. SUFFICES ASSUME Inv, Next, NEW r \in locks,
                       r.expiresAt > now, ~OwnRow(locks', r.key, r.owner)
                PROVE  \E s \in queue : s.op = "release" /\ s.key = r.key
                                        /\ s.owner = r.owner
    BY DEF A
  <2>1. locks' # locks
    BY DEF OwnRow
  <2>2. PICK s \in queue : locks' = Effect(s)
    BY <2>1 DEF Next, CallAcquire, CallRenew, CallRelease, Send, Answered,
                Unanswered, Run, Lost, Abandon, Tick
  <2>3. r.key = s.key /\ r.owner = s.owner
    BY <2>2, EffectKeepsOthers DEF OwnRow
  <2>4. s.op \in {"acquire", "renew", "release"}
    BY DEF Inv, TypeOK, Statement
  <2>5. s.op \notin {"acquire", "renew"}
    <3>1. SUFFICES ASSUME s.op \in {"acquire", "renew"} PROVE FALSE
      OBVIOUS
    <3>2. \/ locks' = locks
          \/ [key |-> s.key, owner |-> s.owner, expiresAt |-> s.expiresAt] \in locks'
      BY <2>2, <3>1 DEF Effect, Acquire, Renew, WithRow
    <3>3. QED
      BY <2>1, <2>3, <3>2 DEF OwnRow
  <2>6. QED
    BY <2>3, <2>4, <2>5
<1>2. QED
  BY <1>1, Invariance, PTL DEF Spec, NobodyEvicted

-----------------------------------------------------------------------------
LEMMA NoNewHolding ==
  ASSUME \A r \in Live' : \E q \in Live : q.key = r.key /\ q.owner = r.owner
  PROVE  LeaseService!End
<1>1. Holdings' \subseteq Holdings
  BY DEF Holdings
<1>2. QED
  BY <1>1 DEF LeaseService!End

\* A granted statement either keeps its owner's holding or is a Grant.
LEMMA GrantedStep ==
  ASSUME Inv, now' = now, NEW s \in queue,
         locks' = WithRow(locks, s.key, s.owner, s.expiresAt),
         \A r \in Live : r.key = s.key => r.owner = s.owner
  PROVE  LeaseService!Next
<1>. DEFINE new == [key |-> s.key, owner |-> s.owner, expiresAt |-> s.expiresAt]
<1>1. s.key \in Keys /\ s.owner \in Owners
  BY DEF Inv, TypeOK, Statement
<1>2. \A r : r \in Live' <=> (r \in Live /\ r.key # s.key)
                             \/ (r = new /\ s.expiresAt > now)
  BY DEF Live, WithRow
<1>3. CASE \A r \in Live' : \E q \in Live : q.key = r.key /\ q.owner = r.owner
  BY <1>3, NoNewHolding DEF LeaseService!Next
<1>4. CASE ~ \A r \in Live' : \E q \in Live : q.key = r.key /\ q.owner = r.owner
  <2>1. new \in Live' /\ \A q \in Live : q.key # s.key
    BY <1>2, <1>4
  <2>2. Live' = Live \cup {new}
    BY <1>2, <2>1
  <2>3. \A h \in Holdings : h.key # s.key
    BY <2>1 DEF Holdings
  <2>4. Holdings' = Holdings \cup {[key |-> s.key, owner |-> s.owner]}
    <3>1. \A h : h \in Holdings' <=>
                  \E r \in Live' : h = [key |-> r.key, owner |-> r.owner]
      BY DEF Holdings
    <3>2. \A h : h \in Holdings <=>
                  \E r \in Live : h = [key |-> r.key, owner |-> r.owner]
      BY DEF Holdings
    <3>3. \A h : h \in Holdings' <=>
                  \/ h \in Holdings
                  \/ h = [key |-> new.key, owner |-> new.owner]
      BY <2>2, <3>1, <3>2
    <3>4. QED
      BY <3>3
  <2>5. LeaseService!Grant(s.key, s.owner)
    BY <2>3, <2>4 DEF LeaseService!Grant
  <2>6. QED
    BY <1>1, <2>5 DEF LeaseService!Next
<1>5. QED
  BY <1>3, <1>4

LEMMA RefinedStep ==
  ASSUME Inv, Next
  PROVE  LeaseService!Next
<1>1. CASE Tick
  <2>1. locks' = locks /\ now' = now + 1 /\ now \in Nat
    BY <1>1 DEF Tick, Inv, TypeOK
  <2>2. Live' \subseteq Live
    BY <2>1 DEF Live, Inv, TypeOK, LockRow
  <2>3. QED
    BY <2>2, NoNewHolding DEF LeaseService!Next
<1>2. ASSUME locks' = locks, now' = now
      PROVE  LeaseService!Next
  BY <1>2, NoNewHolding DEF Live, LeaseService!Next
<1>3. ASSUME NEW s \in queue, Run(s)
      PROVE  LeaseService!Next
  <2>1. now' = now /\ locks' = Effect(s)
    BY <1>3 DEF Run
  <2>2. CASE s.op = "acquire" /\ Acquirable(locks, s.key, s.owner, now)
    <3>1. \A r \in Live : r.key = s.key => r.owner = s.owner
      BY <2>2 DEF Live, Acquirable, Inv, TypeOK, LockRow
    <3>2. QED
      BY <2>1, <2>2, <3>1, GrantedStep DEF Effect, Acquire
  <2>3. CASE s.op = "renew" /\ Renewable(locks, s.key, s.owner, s.asOf)
    <3>1. \A r \in Live : r.key = s.key => r.owner = s.owner
      BY <2>3 DEF Live, Renewable, Inv, LeaseIsBacked, KeyIsUnique
    <3>2. QED
      BY <2>1, <2>3, <3>1, GrantedStep DEF Effect, Renew
  <2>4. CASE locks' \subseteq locks
    BY <2>1, <2>4, NoNewHolding DEF Live, LeaseService!Next
  <2>5. QED
    BY <2>1, <2>2, <2>3, <2>4 DEF Effect, Acquire, Renew, Release
<1>4. QED
  BY <1>1, <1>2, <1>3
     DEF Next, CallAcquire, CallRenew, CallRelease, Send, Answered, Unanswered,
         Lost, Abandon

\* The lock table implements the abstract lease service.
THEOREM Implementation == Spec => ImplementsLease
<1>1. Init => LeaseService!Init
  BY DEF Init, LeaseService!Init, Holdings, Live
<1>2. Inv /\ [Next]_vars => [LeaseService!Next]_Holdings
  BY RefinedStep DEF vars, Holdings, Live
<1>3. QED
  BY <1>1, <1>2, Invariance, PTL DEF Spec, ImplementsLease, LeaseService!Spec
=============================================================================
