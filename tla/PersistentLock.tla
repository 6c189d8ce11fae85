-------------------------- MODULE PersistentLock ---------------------------
(***************************************************************************)
(* The persistent lock service: acquire, renew and release are one SQL     *)
(* statement each.  The caller computes "expiresAt" with its own clock     *)
(* before it sends the statement; PostgreSQL executes the statement later, *)
(* against its own clock; the answer, or the whole call, may be lost, and  *)
(* a statement whose caller gave up may still be executed.                 *)
(*                                                                         *)
(* An owner is one critical section: callers draw a fresh randomUUID()     *)
(* for each (strategy-runner.service.ts), so an owner whose call failed    *)
(* sends no further statement under that identity.                         *)
(***************************************************************************)
EXTENDS LockTable, FiniteSets

CONSTANTS
  Keys,        \* lock keys
  Owners,      \* critical sections; every owner id is drawn once
  Ttl,         \* ttlMs
  Skew,        \* per owner, its application clock minus the database clock
  MaxNow       \* bound: the database clock stops here

ASSUME ConstantsAssumption ==
  /\ Ttl \in Nat \ {0}
  /\ Skew \in [Owners -> Int]
  /\ MaxNow \in Nat

VARIABLES
  locks,       \* rows of the PersistentLock table
  now,         \* the database clock, NOW()
  queue,       \* statements sent and not yet executed
  phase,       \* per owner: "ready", "waiting" for an answer, "retired"
  leases       \* rows that owners were told they hold and have not given up

vars == <<locks, now, queue, phase, leases>>

Statement == [op : {"acquire", "renew", "release"}, key : Keys,
              owner : Owners, expiresAt : Int, asOf : Int]

TypeOK ==
  /\ locks \subseteq LockRow(Keys, Owners)
  /\ now \in Nat
  /\ queue \subseteq Statement
  /\ phase \in [Owners -> {"ready", "waiting", "retired"}]
  /\ leases \subseteq LockRow(Keys, Owners)

Init ==
  /\ locks = {}
  /\ now = 0
  /\ queue = {}
  /\ phase = [o \in Owners |-> "ready"]
  /\ leases = {}

AppClock(o) == now + Skew[o]

Send(o, op, k) ==
  /\ phase[o] = "ready"
  /\ phase' = [phase EXCEPT ![o] = "waiting"]
  /\ queue' = queue \cup {[op |-> op, key |-> k, owner |-> o,
                           expiresAt |-> AppClock(o) + Ttl,
                           asOf |-> AppClock(o)]}
  /\ UNCHANGED <<locks, now>>

CallAcquire(o, k) == Send(o, "acquire", k) /\ UNCHANGED leases

CallRenew(o, k) ==
  /\ OwnRow(leases, k, o)
  /\ Send(o, "renew", k)
  /\ UNCHANGED leases

\* The caller stops relying on the lock the moment it asks for the release.
CallRelease(o, k) ==
  /\ OwnRow(leases, k, o)
  /\ Send(o, "release", k)
  /\ leases' = Release(leases, k, o)

\* RETURNING / result.count: did the statement touch a row?
Succeeds(s) ==
  CASE s.op = "acquire" -> Acquirable(locks, s.key, s.owner, now)
    [] s.op = "renew"   -> Renewable(locks, s.key, s.owner, s.asOf)
    [] OTHER            -> OwnRow(locks, s.key, s.owner)

Effect(s) ==
  CASE s.op = "acquire" -> Acquire(locks, s.key, s.owner, s.expiresAt, now)
    [] s.op = "renew"   -> Renew(locks, s.key, s.owner, s.expiresAt, s.asOf)
    [] OTHER            -> Release(locks, s.key, s.owner)

Run(s) ==
  /\ locks' = Effect(s)
  /\ queue' = queue \ {s}
  /\ UNCHANGED now

\* Executed, and the boolean reaches the caller.
Answered(s) ==
  /\ s \in queue
  /\ phase[s.owner] = "waiting"
  /\ Run(s)
  /\ phase' = [phase EXCEPT ![s.owner] = "ready"]
  /\ leases' = IF Succeeds(s) /\ s.op # "release"
                 THEN Release(leases, s.key, s.owner) \cup
                        {[key |-> s.key, owner |-> s.owner, expiresAt |-> s.expiresAt]}
                 ELSE leases

\* Executed, but the caller sees an error or has already given up.
Unanswered(s) ==
  /\ s \in queue
  /\ Run(s)
  /\ phase' = [phase EXCEPT ![s.owner] = "retired"]
  /\ UNCHANGED leases

\* The caller sees an error while the statement is still on its way.
Abandon(o) ==
  /\ phase[o] = "waiting"
  /\ phase' = [phase EXCEPT ![o] = "retired"]
  /\ UNCHANGED <<locks, now, queue, leases>>

\* A statement that never reaches the database.
Lost(s) ==
  /\ s \in queue
  /\ queue' = queue \ {s}
  /\ phase' = [phase EXCEPT ![s.owner] = "retired"]
  /\ UNCHANGED <<locks, now, leases>>

Tick ==
  /\ now < MaxNow
  /\ now' = now + 1
  /\ UNCHANGED <<locks, queue, phase, leases>>

Next ==
  \/ \E o \in Owners, k \in Keys :
       CallAcquire(o, k) \/ CallRenew(o, k) \/ CallRelease(o, k)
  \/ \E s \in queue : Answered(s) \/ Unanswered(s) \/ Lost(s)
  \/ \E o \in Owners : Abandon(o)
  \/ Tick

Spec == Init /\ [][Next]_vars

-----------------------------------------------------------------------------
\* Two callers of acquire may both have been told "true" for one key, but not
\* both within their leases: of two owners that rely on the same key, at least
\* one lease has run out by the database clock.  Hazard: takeover of an expired
\* row, a renewal or a late statement that revives or removes the wrong row.
LeaseExclusion ==
  \A l1, l2 \in leases :
    l1.key = l2.key /\ l1.owner # l2.owner
      => l1.expiresAt <= now \/ l2.expiresAt <= now

\* A key has one row, and an owner that is within its lease still owns that
\* row: neither another owner's release nor a renewal can take it away.
LeaseIsBacked ==
  /\ KeyIsUnique(locks)
  /\ \A l \in leases : l.expiresAt > now =>
       \E r \in locks : /\ r.key = l.key
                        /\ r.owner = l.owner
                        /\ r.expiresAt >= l.expiresAt

\* A row disappears or changes hands only by its owner's own release or after
\* its expiry: release deletes by key AND owner, acquire replaces only a row
\* that is expired or its own.
NobodyEvicted ==
  [][\A r \in locks : r.expiresAt > now /\ ~OwnRow(locks', r.key, r.owner) =>
       \E s \in queue : s.op = "release" /\ s.key = r.key /\ s.owner = r.owner]_vars

\* The unexpired rows, as the holdings of the abstract lease service.
Live == {r \in locks : r.expiresAt > now}

Holdings == {[key |-> r.key, owner |-> r.owner] : r \in Live}

LeaseService == INSTANCE Lease WITH holdings <- Holdings

\* The table implements the abstract lease service: an unexpired key is never
\* handed from one owner to another in one step.
ImplementsLease == LeaseService!Spec
=============================================================================
