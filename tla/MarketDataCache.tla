-------------------------- MODULE MarketDataCache --------------------------
(***************************************************************************)
(* MarketDataClientService.request with the cache and the deduplication of *)
(* requests it goes through, and the invalidation that effective corporate *)
(* actions cause.                                                          *)
(*                                                                         *)
(* A key is a path with its query, under the path of one symbol.  Of the   *)
(* data only the version matters, the symbol's adjustment that it reflects. *)
(* The continuations of a settled promise are steps; no time passes until  *)
(* they have run.  MarketDataRequestRecoveryService is between the client  *)
(* and the venue: its retries are part of a fetch of any length.           *)
(***************************************************************************)
EXTENDS Integers, FiniteSets

CONSTANTS
  Requests,      \* calls of request
  Keys, Symbols,
  KeyOf,         \* the key of each request
  SymbolOf,      \* the symbol of each key
  Ttl,           \* cacheTtlMs of each request, 0 where undefined
  Timeout,       \* the HTTP client's timeout
  MaxEntries,    \* MARKET_DATA_CACHE_MAX_ENTRIES
  MaxVersion,    \* bound: adjustments of a symbol's data
  MaxNow,        \* bound: the clock stops here
  None

ASSUME CacheAssumption ==
  /\ IsFiniteSet(Keys)
  /\ KeyOf \in [Requests -> Keys] /\ SymbolOf \in [Keys -> Symbols]
  /\ Ttl \in [Requests -> Nat]
  /\ Timeout \in Nat /\ MaxEntries \in Nat \ {0}
  /\ MaxVersion \in Nat /\ MaxNow \in Nat
  /\ None \notin Requests

VARIABLES
  now,
  version,       \* the venue's data, per symbol
  cache,         \* entries: per key, an entry or Absent
  writes,        \* the count of set's calls
  inFlight,      \* per key, the request whose promise is stored, or None
  pc,            \* "new", "waiting", "settled", "done" or "failed"
  leader,        \* per request, the one whose promise it awaits
  flight,        \* per leader, its fetch: "none", "asked", "read", "ok" or "failed"
  value,         \* per leader, what the venue read for it
  \* History, which no step reads.
  answer,        \* per request, the version it returned, whose fetch got it, and its age
  invalidated,   \* per symbol, its version at the last invalidation
  since,         \* per request, invalidated when it was made
  overtaken      \* leaders with calls still to return at an invalidation

vars == <<now, version, cache, writes, inFlight, pc, leader, flight, value,
          answer, invalidated, since, overtaken>>
history == <<answer, invalidated, since, overtaken>>

Value == [version : Nat, at : Nat, by : Requests]
NoValue == [version |-> -1, at |-> -1, by |-> None]
Entry == [value : Value, expires : Nat, rank : Nat]
NoAnswer == [version |-> -1, by |-> None, age |-> -1]
Absent == [value |-> NoValue, expires |-> -1, rank |-> -1]

TypeOK ==
  /\ now \in Nat
  /\ version \in [Symbols -> Nat]
  /\ cache \in [Keys -> Entry \cup {Absent}]
  /\ writes \in Nat
  /\ inFlight \in [Keys -> Requests \cup {None}]
  /\ pc \in [Requests -> {"new", "waiting", "settled", "done", "failed"}]
  /\ leader \in [Requests -> Requests \cup {None}]
  /\ flight \in [Requests -> {"none", "asked", "read", "ok", "failed"}]
  /\ value \in [Requests -> Value \cup {NoValue}]
  /\ answer \in [Requests -> [version : Int, by : Requests \cup {None}, age : Int]]
  /\ invalidated \in [Symbols -> Nat]
  /\ since \in [Requests -> Nat]
  /\ overtaken \subseteq Requests

Init ==
  /\ now = 0
  /\ version = [s \in Symbols |-> 0]
  /\ cache = [k \in Keys |-> Absent]
  /\ writes = 0
  /\ inFlight = [k \in Keys |-> None]
  /\ pc = [r \in Requests |-> "new"]
  /\ leader = [r \in Requests |-> None]
  /\ flight = [r \in Requests |-> "none"]
  /\ value = [r \in Requests |-> NoValue]
  /\ answer = [r \in Requests |-> NoAnswer]
  /\ invalidated = [s \in Symbols |-> 0]
  /\ since = [r \in Requests |-> 0]
  /\ overtaken = {}

-----------------------------------------------------------------------------
(***************************************************************************)
(* MarketDataCacheService, on its entries c.                               *)
(***************************************************************************)
Cached(c) == {k \in Keys : c[k] # Absent}

\* Mutation: an entry is alive at its expiry and one unit after.
AliveLonger(c, k) == c[k] # Absent /\ c[k].expires + 1 >= now

\* get answers an entry; otherwise it deletes what has expired.
Alive(c, k) == c[k] # Absent /\ c[k].expires > now

\* evictOldest: the entry whose key was inserted first.
Oldest(c) == CHOOSE k \in Cached(c) : \A j \in Cached(c) : c[k].rank <= c[j].rank

\* Mutation: room is made one entry too late.
RoomLate(c, k) ==
  IF k \notin Cached(c) /\ Cardinality(Cached(c)) > MaxEntries
    THEN [c EXCEPT ![Oldest(c)] = Absent] ELSE c

Room(c, k) ==
  IF k \notin Cached(c) /\ Cardinality(Cached(c)) >= MaxEntries
    THEN [c EXCEPT ![Oldest(c)] = Absent] ELSE c

\* set: an entry set again keeps its place in the Map.
Set(c, k, v, ttl) ==
  [Room(c, k) EXCEPT ![k] =
     [value |-> v, expires |-> now + ttl,
      rank |-> IF k \in Cached(c) THEN c[k].rank ELSE writes]]

Without(c, ks) == [k \in Keys |-> IF k \in ks THEN Absent ELSE c[k]]

-----------------------------------------------------------------------------
(***************************************************************************)
(* request.                                                                *)
(***************************************************************************)
Goto(r, step) == pc' = [pc EXCEPT ![r] = step]
Returns(r, v) ==
  answer' = [answer EXCEPT ![r] = [version |-> v.version, by |-> v.by, age |-> now - v.at]]
Called(r) ==
  /\ pc[r] = "new"
  /\ since' = [since EXCEPT ![r] = invalidated[SymbolOf[KeyOf[r]]]]
UsesCache(r) == Ttl[r] > 0

Hit(r) ==
  /\ Called(r)
  /\ UsesCache(r) /\ Alive(cache, KeyOf[r])
  /\ Returns(r, cache[KeyOf[r]].value)
  /\ Goto(r, "done")
  /\ UNCHANGED <<now, version, cache, writes, inFlight, leader, flight, value,
                 invalidated, overtaken>>

\* A miss joins the fetch under way for its key, or starts one.
Miss(r) ==
  LET k == KeyOf[r] IN
  /\ Called(r)
  /\ ~(UsesCache(r) /\ Alive(cache, k))
  /\ cache' = IF UsesCache(r) THEN [cache EXCEPT ![k] = Absent] ELSE cache
  /\ IF inFlight[k] # None
       THEN leader' = [leader EXCEPT ![r] = inFlight[k]] /\ UNCHANGED <<inFlight, flight>>
       ELSE /\ leader' = [leader EXCEPT ![r] = r]
            /\ inFlight' = [inFlight EXCEPT ![k] = r]
            /\ flight' = [flight EXCEPT ![r] = "asked"]
  /\ Goto(r, "waiting")
  /\ UNCHANGED <<now, version, writes, value, answer, invalidated, overtaken>>

\* The venue composes its answer to the last attempt of a fetch.
VenueReads(r) ==
  /\ flight[r] = "asked"
  /\ flight' = [flight EXCEPT ![r] = "read"]
  /\ value' = [value EXCEPT ![r] =
                 [version |-> version[SymbolOf[KeyOf[r]]], at |-> now, by |-> r]]
  /\ UNCHANGED <<now, version, cache, writes, inFlight, pc, leader, history>>

\* The promise of the fetch settles: its answer arrives, or an error does.
Arrives(r) ==
  /\ \/ /\ flight[r] = "read" /\ flight' = [flight EXCEPT ![r] = "ok"]
        /\ UNCHANGED value
     \/ /\ flight[r] \in {"asked", "read"} /\ flight' = [flight EXCEPT ![r] = "failed"]
        /\ value' = [value EXCEPT ![r] = NoValue]
  /\ UNCHANGED <<now, version, cache, writes, inFlight, pc, leader, history>>

Settled(r) == pc[r] = "waiting" /\ flight[leader[r]] \in {"ok", "failed"}

\* Mutation: the leader removes its promise only after a success.
FinishKeeping(r) ==
  /\ Settled(r)
  /\ leader[r] # r => inFlight[KeyOf[r]] # leader[r]
  /\ inFlight' = IF leader[r] = r /\ flight[r] = "ok"
                   THEN [inFlight EXCEPT ![KeyOf[r]] = None] ELSE inFlight
  /\ Goto(r, IF flight[leader[r]] = "ok" THEN "settled" ELSE "failed")
  /\ UNCHANGED <<now, version, cache, writes, leader, flight, value, history>>

\* execute returns or throws; the leader, who awaited the promise first, has removed
\* it by the time its followers go on.
Finish(r) ==
  /\ Settled(r)
  /\ leader[r] # r => inFlight[KeyOf[r]] # leader[r]
  /\ inFlight' = IF leader[r] = r THEN [inFlight EXCEPT ![KeyOf[r]] = None] ELSE inFlight
  /\ Goto(r, IF flight[leader[r]] = "ok" THEN "settled" ELSE "failed")
  /\ UNCHANGED <<now, version, cache, writes, leader, flight, value, history>>

Store(r) ==
  /\ pc[r] = "settled"
  /\ IF UsesCache(r)
       THEN /\ cache' = Set(cache, KeyOf[r], value[leader[r]], Ttl[r])
            /\ writes' = writes + 1
       ELSE UNCHANGED <<cache, writes>>
  /\ Returns(r, value[leader[r]])
  /\ Goto(r, "done")
  /\ UNCHANGED <<now, version, inFlight, leader, flight, value, invalidated, since,
                 overtaken>>

-----------------------------------------------------------------------------
\* A corporate action adjusts the venue's data of a symbol.
Adjust(s) ==
  /\ version[s] < MaxVersion
  /\ version' = [version EXCEPT ![s] = @ + 1]
  /\ UNCHANGED <<now, cache, writes, inFlight, pc, leader, flight, value, history>>

\* Mutation: only the entries that have expired are deleted.
InvalidatedExpired(ss) == {k \in Keys : SymbolOf[k] \in ss /\ ~Alive(cache, k)}

\* deleteByPrefix for every affected symbol.
Invalidated(ss) == {k \in Keys : SymbolOf[k] \in ss}

\* invalidateAffectedCache, once the effective actions are known.
Invalidate(ss) ==
  /\ cache' = Without(cache, Invalidated(ss))
  /\ invalidated' = [s \in Symbols |-> IF s \in ss THEN version[s] ELSE invalidated[s]]
  /\ overtaken' = overtaken \cup
       {leader[r] : r \in {q \in Requests : /\ pc[q] \in {"waiting", "settled"}
                                            /\ SymbolOf[KeyOf[q]] \in ss}}
  /\ UNCHANGED <<now, version, writes, inFlight, pc, leader, flight, value, answer, since>>

\* Time passes when no continuation is left to run, and no answer outlives the timeout.
Tick ==
  /\ now < MaxNow
  /\ \A r \in Requests :
       /\ pc[r] # "settled" /\ ~Settled(r)
       /\ flight[r] = "read" => now < value[r].at + Timeout
  /\ now' = now + 1
  /\ UNCHANGED <<version, cache, writes, inFlight, pc, leader, flight, value, history>>

Next ==
  \/ \E r \in Requests :
       Hit(r) \/ Miss(r) \/ VenueReads(r) \/ Arrives(r) \/ Finish(r) \/ Store(r)
  \/ \E s \in Symbols : Adjust(s)
  \/ \E ss \in SUBSET Symbols : ss # {} /\ Invalidate(ss)
  \/ Tick

Spec == Init /\ [][Next]_vars

-----------------------------------------------------------------------------
\* Safety: what request returns was read by the venue at most Timeout ago or, from the
\* cache, less than the time to live of some request for that key before that, however
\* it was shared and stored again on its way.
AnswersAreRecent ==
  \A r \in Requests : pc[r] = "done" =>
    \/ answer[r].age <= Timeout
    \/ \E q \in Requests : /\ KeyOf[q] = KeyOf[r] /\ UsesCache(q) /\ UsesCache(r)
                           /\ answer[r].age < Timeout + Ttl[q]

\* Safety: a request made after an invalidation gets data at least as new as the
\* invalidation, unless the data came with a fetch that the invalidation overtook.
FreshAfterInvalidation ==
  \A r \in Requests :
    pc[r] = "done" /\ answer[r].version < since[r] => answer[r].by \in overtaken

\* Safety: the venue is asked once per key at a time, and a stored promise is one that
\* somebody is still waiting for, so that no request joins a fetch that is over.
OneFetchPerKey ==
  /\ \A r, q \in Requests :
       flight[r] \in {"asked", "read"} /\ flight[q] \in {"asked", "read"}
         /\ KeyOf[r] = KeyOf[q] => r = q
  /\ \A k \in Keys : inFlight[k] # None => pc[inFlight[k]] = "waiting"

\* Action property: the cache never outgrows its maximum, and a request deletes an
\* entry that has not expired only to make room in a cache that is full again then.
EvictsOnlyForRoom ==
  [][/\ Cardinality(Cached(cache')) <= MaxEntries
     /\ (\E k \in Keys : Alive(cache, k) /\ k \notin Cached(cache')) /\ pc' # pc
          => Cardinality(Cached(cache')) = MaxEntries]_vars
=============================================================================
