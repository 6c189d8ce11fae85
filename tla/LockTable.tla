----------------------------- MODULE LockTable -----------------------------
(***************************************************************************)
(* The "PersistentLock" relation and the three SQL statements that         *)
(* persistent-lock.service.ts sends to it, as operators on a set of rows.  *)
(* A row is [key, owner, expiresAt]; "id", "acquiredAt" and "updatedAt"    *)
(* are never read back by the code and are left out.  "key" is unique in   *)
(* the relation: every statement below keeps it so.                        *)
(***************************************************************************)
EXTENDS Integers

LockRow(Keys, Owners) == [key : Keys, owner : Owners, expiresAt : Int]

-----------------------------------------------------------------------------
(* Mutations of the statements, to check that the properties can fail.     *)

\* The expiry compared with a clock that runs ahead.
AcquirableEarly(rows, k, o, t) ==
  \A r \in rows : r.key = k => r.owner = o \/ r.expiresAt <= t + 1

\* ON CONFLICT DO UPDATE without its WHERE clause.
AcquireAlways(rows, k, o, e, t) ==
  {r \in rows : r.key # k} \cup {[key |-> k, owner |-> o, expiresAt |-> e]}

\* A renewal that upserts instead of matching key, owner and expiry.
RenewUpsert(rows, k, o, e, asOf) ==
  {r \in rows : r.key # k} \cup {[key |-> k, owner |-> o, expiresAt |-> e]}

\* deleteMany by key alone.
ReleaseByKey(rows, k, o) == {r \in rows : r.key # k}

-----------------------------------------------------------------------------
\* DO UPDATE ... WHERE "expiresAt" <= NOW() OR "ownerId" = EXCLUDED."ownerId";
\* a key without a row is inserted unconditionally.
Acquirable(rows, k, o, t) ==
  \A r \in rows : r.key = k => r.owner = o \/ r.expiresAt <= t

\* The row that acquire leaves behind for the key.
WithRow(rows, k, o, e) ==
  {r \in rows : r.key # k} \cup {[key |-> k, owner |-> o, expiresAt |-> e]}

Acquire(rows, k, o, e, t) ==
  IF Acquirable(rows, k, o, t) THEN WithRow(rows, k, o, e) ELSE rows

OwnRow(rows, k, o) == \E r \in rows : r.key = k /\ r.owner = o

\* updateMany where key, ownerId and expiresAt > the time the caller passed.
Renewable(rows, k, o, asOf) ==
  \E r \in rows : r.key = k /\ r.owner = o /\ r.expiresAt > asOf

Renew(rows, k, o, e, asOf) ==
  IF Renewable(rows, k, o, asOf) THEN WithRow(rows, k, o, e) ELSE rows

\* deleteMany where key and ownerId.
Release(rows, k, o) == {r \in rows : ~(r.key = k /\ r.owner = o)}

KeyIsUnique(rows) ==
  \A r1, r2 \in rows : r1.key = r2.key => r1 = r2
=============================================================================
