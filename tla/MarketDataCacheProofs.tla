----------------------- MODULE MarketDataCacheProofs -----------------------
(***************************************************************************)
(* Theorems of MarketDataCache, for any number of requests, keys and       *)
(* symbols, any times to live and any size of the cache.                   *)
(***************************************************************************)
EXTENDS MarketDataCache, FiniteSetTheorems, WellFoundedInduction, TLAPS

\* Requests that still have to return what a fetch got.
Pending(r) == pc[r] \in {"waiting", "settled"}
Sym(r) == SymbolOf[KeyOf[r]]

\* Who waits for which fetch, and which promises are stored.
Flights ==
  \A r \in Requests :
    /\ pc[r] = "new" => flight[r] = "none" /\ leader[r] = None
    /\ flight[r] \in {"asked", "read"} => pc[r] = "waiting" /\ leader[r] = r
    /\ pc[r] = "waiting" /\ leader[r] = r => inFlight[KeyOf[r]] = r
    /\ Pending(r) => /\ leader[r] \in Requests
                     /\ KeyOf[leader[r]] = KeyOf[r]
                     /\ flight[leader[r]] # "none"
    /\ pc[r] = "settled" => flight[leader[r]] = "ok"

Promises ==
  \A k \in Keys : inFlight[k] # None =>
    /\ KeyOf[inFlight[k]] = k
    /\ pc[inFlight[k]] = "waiting" /\ leader[inFlight[k]] = inFlight[k]

\* What fetches have got is the venue's, and no older than the timeout until it is returned.
Fetched ==
  \A r \in Requests :
    /\ flight[r] \in {"read", "ok"} =>
         value[r] \in Value /\ value[r].by = r
         /\ value[r].at <= now /\ value[r].version <= version[Sym(r)]
    /\ flight[r] = "read" => now <= value[r].at + Timeout
    /\ Pending(r) /\ flight[leader[r]] = "ok" => now <= value[leader[r]].at + Timeout

\* An entry expires within the time to live of a request for its key.
EntriesExpire ==
  \A k \in Keys : cache[k] # Absent =>
    \E q \in Requests : /\ KeyOf[q] = k /\ UsesCache(q)
                        /\ cache[k].expires <= cache[k].value.at + Timeout + Ttl[q]

\* Data from before an invalidation is known to be so until it is returned.
Overtaken ==
  /\ \A s \in Symbols : invalidated[s] <= version[s]
  /\ \A r \in Requests : since[r] <= invalidated[Sym(r)]
  /\ \A r \in Requests :
       Pending(r) /\ flight[leader[r]] \in {"read", "ok"}
       /\ value[leader[r]].version < invalidated[Sym(r)]
         => leader[r] \in overtaken
  /\ \A k \in Keys :
       cache[k] # Absent /\ cache[k].value.version < invalidated[SymbolOf[k]]
         => cache[k].value.by \in overtaken

Full == Cardinality(Cached(cache)) <= MaxEntries

Inv == /\ TypeOK /\ Flights /\ Promises /\ Fetched /\ EntriesExpire /\ Overtaken
       /\ Full /\ AnswersAreRecent /\ FreshAfterInvalidation

-----------------------------------------------------------------------------
\* Of some entries, one was inserted first.
LEMMA OldestIsCached ==
  ASSUME NEW c \in [Keys -> Entry \cup {Absent}], Cached(c) # {}
  PROVE  Oldest(c) \in Cached(c)
<1> DEFINE Ranks == {c[k].rank : k \in Cached(c)}
<1>1. \A k \in Cached(c) : c[k].rank \in Nat
  BY DEF Cached, Entry
<1>2. Ranks \subseteq Nat /\ Ranks # {}
  BY <1>1
<1>3. PICK n \in Ranks : \A m \in Ranks : ~(<<m, n>> \in OpToRel(<, Nat))
  <2> HIDE DEF Ranks
  <2> QED BY <1>2, NatLessThanWellFounded, WFMin
<1>4. PICK k \in Cached(c) : n = c[k].rank
  OBVIOUS
<1>5. \A j \in Cached(c) : c[k].rank <= c[j].rank
  <2> TAKE j \in Cached(c)
  <2>1. c[j].rank \in Ranks /\ c[j].rank \in Nat /\ c[k].rank \in Nat
    BY <1>1
  <2>2. ~(c[j].rank < c[k].rank)
    BY <1>3, <1>4, <2>1 DEF OpToRel
  <2> QED BY <2>1, <2>2
<1> QED BY <1>5 DEF Oldest

\* set adds its key, and to a full cache makes room by one entry.
LEMMA SetEffect ==
  ASSUME NEW c \in [Keys -> Entry \cup {Absent}], NEW k \in Keys, NEW v \in Value,
         NEW ttl \in Nat, now \in Nat, writes \in Nat,
         Cardinality(Cached(c)) <= MaxEntries
  PROVE  /\ Set(c, k, v, ttl) \in [Keys -> Entry \cup {Absent}]
         /\ Set(c, k, v, ttl)[k].value = v
         /\ Set(c, k, v, ttl)[k].expires = now + ttl
         /\ \A j \in Keys \ {k} : Set(c, k, v, ttl)[j] \in {c[j], Absent}
         /\ Cardinality(Cached(Set(c, k, v, ttl))) <= MaxEntries
         /\ (\E j \in Cached(c) : j \notin Cached(Set(c, k, v, ttl)))
              => Cardinality(Cached(Set(c, k, v, ttl))) = MaxEntries
<1> DEFINE new == [value |-> v, expires |-> now + ttl,
                   rank |-> IF k \in Cached(c) THEN c[k].rank ELSE writes]
           d == Set(c, k, v, ttl)
           crowded == k \notin Cached(c) /\ Cardinality(Cached(c)) >= MaxEntries
<1>1. new \in Entry /\ new # Absent
  BY DEF Entry, Absent, Cached
<1>2. IsFiniteSet(Cached(c)) /\ Cardinality(Cached(c)) \in Nat /\ MaxEntries \in Nat \ {0}
  BY CacheAssumption, FS_Subset, FS_CardinalityType DEF Cached
<1>3. CASE crowded
  <2>1. Cached(c) # {}
    BY <1>2, <1>3, FS_EmptySet
  <2>2. Oldest(c) \in Cached(c) /\ Oldest(c) \in Keys /\ Oldest(c) # k
    BY <1>3, <2>1, OldestIsCached DEF Cached
  <2>3. d = [[c EXCEPT ![Oldest(c)] = Absent] EXCEPT ![k] = new]
    BY <1>3 DEF Set, Room
  <2>4. \A j \in Keys : d[j] = IF j = k THEN new ELSE IF j = Oldest(c) THEN Absent ELSE c[j]
    <3> HIDE DEF d, new
    <3> QED BY <2>2, <2>3
  <2>5. d \in [Keys -> Entry \cup {Absent}]
    <3> HIDE DEF d, new
    <3> QED BY <1>1, <2>3
  <2>6. Cached(d) = (Cached(c) \ {Oldest(c)}) \cup {k}
    <3> HIDE DEF d, new
    <3> QED BY <1>1, <2>4 DEF Cached
  <2>7. Cardinality(Cached(c) \ {Oldest(c)}) = MaxEntries - 1
    BY <1>2, <1>3, <2>2, FS_RemoveElement
  <2>8. Cardinality(Cached(d)) = MaxEntries
    <3>1. IsFiniteSet(Cached(c) \ {Oldest(c)}) /\ k \notin Cached(c) \ {Oldest(c)}
      BY <1>2, <1>3, FS_Subset
    <3>2. Cardinality((Cached(c) \ {Oldest(c)}) \cup {k})
            = Cardinality(Cached(c) \ {Oldest(c)}) + 1
      <4> DEFINE rest == Cached(c) \ {Oldest(c)}
      <4> HIDE DEF rest
      <4>1. Cardinality(rest \cup {k}) = Cardinality(rest) + 1
        BY <3>1, FS_AddElement DEF rest
      <4> QED BY <4>1 DEF rest
    <3> HIDE DEF d
    <3> QED BY <1>2, <2>6, <2>7, <3>2
  <2> HIDE DEF d
  <2> QED BY <1>2, <2>4, <2>5, <2>8 DEF d
<1>4. CASE ~crowded
  <2>1. d = [c EXCEPT ![k] = new]
    BY <1>4 DEF Set, Room
  <2>2. d \in [Keys -> Entry \cup {Absent}] /\ \A j \in Keys : d[j] = IF j = k THEN new ELSE c[j]
    <3> HIDE DEF d, new
    <3> QED BY <1>1, <2>1
  <2>3. Cached(d) = Cached(c) \cup {k}
    <3> HIDE DEF d, new
    <3> QED BY <1>1, <2>2 DEF Cached
  <2>4. Cardinality(Cached(d)) <= MaxEntries
    <3>1. CASE k \in Cached(c)
      <4>1. Cached(d) = Cached(c)
        BY <2>3, <3>1
      <4> QED BY <4>1
    <3>2. CASE k \notin Cached(c)
      <4>1. Cardinality(Cached(d)) = Cardinality(Cached(c)) + 1
        BY <1>2, <2>3, <3>2, FS_AddElement
      <4> QED BY <1>2, <1>4, <3>2, <4>1
    <3> QED BY <3>1, <3>2
  <2> HIDE DEF d
  <2> QED BY <2>2, <2>3, <2>4 DEF d
<1> QED BY <1>3, <1>4

-----------------------------------------------------------------------------
LEMMA ConstantTypes ==
  /\ IsFiniteSet(Keys) /\ None \notin Requests
  /\ \A r \in Requests : KeyOf[r] \in Keys /\ Ttl[r] \in Nat /\ Sym(r) \in Symbols
  /\ \A k \in Keys : SymbolOf[k] \in Symbols
  /\ Timeout \in Nat /\ MaxEntries \in Nat \ {0}
  BY CacheAssumption DEF Sym

LEMMA EntryTypes ==
  ASSUME NEW e \in Entry \cup {Absent}, e # Absent
  PROVE  e.expires \in Nat /\ e.value \in Value /\ e.value.version \in Nat
         /\ e.value.at \in Nat /\ e.value.by \in Requests
  BY DEF Entry, Value

LEMMA InitInv == Init => Inv
<1> SUFFICES ASSUME Init PROVE Inv
  OBVIOUS
<1>1. NoAnswer \in [version : Int, by : Requests \cup {None}, age : Int]
  BY DEF NoAnswer
<1>2. TypeOK
  BY <1>1 DEF Init, TypeOK
<1>3. Flights /\ Promises /\ Fetched /\ EntriesExpire /\ AnswersAreRecent
      /\ FreshAfterInvalidation
  BY ConstantTypes DEF Init, Flights, Promises, Fetched, EntriesExpire, AnswersAreRecent,
                       FreshAfterInvalidation, Pending
<1>4. Overtaken
  <2>1. \A r \in Requests : ~Pending(r)
    BY DEF Init, Pending
  <2>2. \A k \in Keys : cache[k] = Absent
    BY DEF Init
  <2>3. /\ \A s \in Symbols : invalidated[s] <= version[s]
        /\ \A r \in Requests : since[r] <= invalidated[Sym(r)]
    BY ConstantTypes DEF Init
  <2>4. \A k \in Keys :
          cache[k] # Absent /\ cache[k].value.version < invalidated[SymbolOf[k]]
            => cache[k].value.by \in overtaken
    BY <2>2
  <2> QED BY <2>1, <2>3, <2>4 DEF Overtaken
<1>5. Full
  <2>1. Cached(cache) = {}
    BY DEF Init, Cached
  <2> QED BY <2>1, ConstantTypes, FS_EmptySet DEF Full
<1> QED BY <1>2, <1>3, <1>4, <1>5 DEF Inv

-----------------------------------------------------------------------------
\* A request answered from the cache.
LEMMA HitInv ==
  ASSUME Inv, NEW r \in Requests, Hit(r)
  PROVE  Inv'
<1> USE DEF Inv
<1>1. Called(r) /\ UsesCache(r) /\ Alive(cache, KeyOf[r]) /\ pc[r] = "new"
  BY DEF Hit, Called
<1>2. /\ pc' = [pc EXCEPT ![r] = "done"]
      /\ since' = [since EXCEPT ![r] = invalidated[Sym(r)]]
      /\ answer' = [answer EXCEPT ![r] = [version |-> cache[KeyOf[r]].value.version,
                                          by |-> cache[KeyOf[r]].value.by,
                                          age |-> now - cache[KeyOf[r]].value.at]]
  BY DEF Hit, Called, Goto, Returns, Sym
<1>3. UNCHANGED <<now, version, cache, writes, inFlight, leader, flight, value,
                  invalidated, overtaken>>
  BY DEF Hit
<1>4. cache[KeyOf[r]] \in Entry \cup {Absent} /\ cache[KeyOf[r]] # Absent
      /\ now < cache[KeyOf[r]].expires
  BY <1>1, ConstantTypes DEF Alive, TypeOK
<1>5. cache[KeyOf[r]].value \in Value
  BY <1>4 DEF Entry
<1>6. TypeOK'
  BY <1>2, <1>3, <1>5, ConstantTypes DEF TypeOK, Value
<1>7. \A q \in Requests : Pending(q)' <=> Pending(q)
  BY <1>1, <1>2 DEF Pending, TypeOK
<1>8. Flights'
  BY <1>1, <1>2, <1>3, <1>7 DEF Flights, TypeOK
<1>9. Promises'
  BY <1>1, <1>2, <1>3 DEF Promises, TypeOK
<1>10. Fetched'
  BY <1>3, <1>7 DEF Fetched, Sym
<1>11. EntriesExpire' /\ Full'
  BY <1>3 DEF EntriesExpire, Full, Cached, UsesCache
<1>12. Overtaken'
  <2>1. \A q \in Requests : since'[q] <= invalidated[Sym(q)]
    BY <1>2, ConstantTypes DEF Overtaken, TypeOK
  <2> QED BY <1>3, <1>7, <2>1 DEF Overtaken, Sym
<1>13. AnswersAreRecent'
  <2>1. PICK q \in Requests : /\ KeyOf[q] = KeyOf[r] /\ UsesCache(q)
                              /\ cache[KeyOf[r]].expires
                                   <= cache[KeyOf[r]].value.at + Timeout + Ttl[q]
    BY <1>4, ConstantTypes DEF EntriesExpire
  <2>2. now - cache[KeyOf[r]].value.at < Timeout + Ttl[q]
    BY <1>4, <1>5, <2>1, ConstantTypes, EntryTypes DEF TypeOK
  <2>3. answer'[r].age < Timeout + Ttl[q]
    BY <1>2, <2>2 DEF TypeOK
  <2>4. \A p \in Requests \ {r} : pc'[p] = pc[p] /\ answer'[p] = answer[p]
    BY <1>2 DEF TypeOK
  <2> QED BY <1>1, <2>1, <2>3, <2>4 DEF AnswersAreRecent, UsesCache
<1>14. FreshAfterInvalidation'
  <2>1. cache[KeyOf[r]].value.version < invalidated[Sym(r)]
          => cache[KeyOf[r]].value.by \in overtaken
    BY <1>4, ConstantTypes DEF Overtaken, Sym
  <2>2. /\ answer'[r].version = cache[KeyOf[r]].value.version
        /\ answer'[r].by = cache[KeyOf[r]].value.by
        /\ since'[r] = invalidated[Sym(r)]
    BY <1>2 DEF TypeOK
  <2>3. \A p \in Requests \ {r} :
          pc'[p] = pc[p] /\ answer'[p] = answer[p] /\ since'[p] = since[p]
    BY <1>2 DEF TypeOK
  <2> QED BY <1>3, <2>1, <2>2, <2>3 DEF FreshAfterInvalidation
<1> QED BY <1>6, <1>8, <1>9, <1>10, <1>11, <1>12, <1>13, <1>14

\* A request that joins a fetch or starts one.
LEMMA MissInv ==
  ASSUME Inv, NEW r \in Requests, Miss(r)
  PROVE  Inv'
<1> USE DEF Inv
<1> DEFINE k == KeyOf[r]
<1>1. /\ pc[r] = "new"
      /\ since' = [since EXCEPT ![r] = invalidated[Sym(r)]]
      /\ pc' = [pc EXCEPT ![r] = "waiting"]
  BY DEF Miss, Called, Goto, Sym
<1>2. cache' = IF UsesCache(r) THEN [cache EXCEPT ![k] = Absent] ELSE cache
  BY DEF Miss
<1>3. UNCHANGED <<now, version, writes, value, answer, invalidated, overtaken>>
  BY DEF Miss
<1>4. \/ /\ inFlight[k] \in Requests /\ inFlight[k] # None
         /\ leader' = [leader EXCEPT ![r] = inFlight[k]] /\ UNCHANGED <<inFlight, flight>>
      \/ /\ inFlight[k] = None
         /\ leader' = [leader EXCEPT ![r] = r]
         /\ inFlight' = [inFlight EXCEPT ![k] = r]
         /\ flight' = [flight EXCEPT ![r] = "asked"]
  BY ConstantTypes DEF Miss, TypeOK
<1>5. k \in Keys /\ flight[r] = "none"
  BY <1>1, ConstantTypes DEF Flights
<1>6. TypeOK'
  <2>1. cache' \in [Keys -> Entry \cup {Absent}]
    BY <1>2 DEF TypeOK
  <2>2. since' \in [Requests -> Nat] /\ pc' \in [Requests -> {"new", "waiting", "settled", "done", "failed"}]
    BY <1>1, ConstantTypes DEF TypeOK
  <2>3. leader' \in [Requests -> Requests \cup {None}]
        /\ inFlight' \in [Keys -> Requests \cup {None}]
        /\ flight' \in [Requests -> {"none", "asked", "read", "ok", "failed"}]
    BY <1>4 DEF TypeOK
  <2> QED BY <1>3, <2>1, <2>2, <2>3 DEF TypeOK
<1>7. \A q \in Requests \ {r} :
        /\ pc'[q] = pc[q] /\ since'[q] = since[q] /\ leader'[q] = leader[q]
        /\ flight'[q] = flight[q] /\ (Pending(q)' <=> Pending(q))
  BY <1>1, <1>4 DEF TypeOK, Pending
<1>8. /\ pc'[r] = "waiting" /\ Pending(r)' /\ since'[r] = invalidated[Sym(r)]
      /\ leader'[r] \in Requests /\ KeyOf[leader'[r]] = k
      /\ flight'[leader'[r]] # "none"
      /\ leader'[r] # r => /\ inFlight[k] = leader'[r] /\ flight' = flight
                           /\ pc[leader'[r]] = "waiting"
                           /\ leader[leader'[r]] = leader'[r]
      /\ leader'[r] = r => flight'[r] = "asked"
  BY <1>1, <1>4, <1>5 DEF TypeOK, Pending, Promises, Flights
<1>9. \A q \in Requests : Pending(q) => leader[q] # r
  BY <1>5 DEF Flights
<1>10. Flights'
  <2>1. \A q \in Requests \ {r} : pc[q] = "waiting" /\ leader[q] = q
          => inFlight'[KeyOf[q]] = q
    BY <1>4, ConstantTypes DEF Flights, TypeOK
  <2>2. leader'[r] = r => inFlight'[k] = r
    <3>1. leader'[r] = r => inFlight[k] = None
      BY <1>1, <1>4, <1>5 DEF TypeOK, Promises
    <3> QED BY <1>4, <1>5, <3>1 DEF TypeOK
  <2>3. flight'[r] \in {"asked", "read"} => leader'[r] = r
    BY <1>5, <1>8
  <2>4. \A q \in Requests \ {r} : Pending(q) => leader[q] \in Requests \ {r}
    BY <1>9 DEF Flights
  <2>5. ASSUME NEW q \in Requests \ {r}, pc[q] \in {"waiting", "settled"}
        PROVE  leader[q] \in Requests \ {r} /\ leader'[q] = leader[q]
               /\ flight'[leader[q]] = flight[leader[q]]
    BY <1>7, <2>4, <2>5 DEF Pending
  <2> QED BY <1>7, <1>8, <2>1, <2>2, <2>3, <2>5 DEF Flights, Pending
<1>11. Promises'
  <2>1. \A j \in Keys : inFlight'[j] # inFlight[j] => j = k /\ inFlight'[j] = r /\ leader'[r] = r
    BY <1>4 DEF TypeOK
  <2>2. \A j \in Keys : inFlight[j] # None => inFlight[j] \in Requests \ {r}
    BY <1>1 DEF Promises, TypeOK
  <2> QED BY <1>7, <1>8, <2>1, <2>2 DEF Promises
<1>12. Fetched'
  <2>1. \A q \in Requests \ {r} : Pending(q) => leader[q] \in Requests \ {r}
    BY <1>9 DEF Flights
  <2>2. flight'[r] \notin {"read", "ok"}
    BY <1>5, <1>8
  <2>3. flight'[leader'[r]] # "ok" \/ now <= value[leader'[r]].at + Timeout
    <3>1. CASE leader'[r] = r
      BY <1>8, <3>1
    <3>2. CASE leader'[r] # r
      BY <1>8, <3>2 DEF Fetched, Pending
    <3> QED BY <3>1, <3>2
  <2> QED BY <1>3, <1>7, <2>1, <2>2, <2>3 DEF Fetched, Sym
<1>13. EntriesExpire' /\ Full'
  <2>1. \A j \in Keys : cache'[j] = cache[j] \/ cache'[j] = Absent
    BY <1>2 DEF TypeOK
  <2>2. EntriesExpire'
    BY <2>1 DEF EntriesExpire, UsesCache
  <2>3. Cached(cache') \subseteq Cached(cache)
    BY <2>1 DEF Cached
  <2>4. IsFiniteSet(Cached(cache)) /\ Cardinality(Cached(cache)) \in Nat
    BY ConstantTypes, FS_Subset, FS_CardinalityType DEF Cached
  <2>5. Cardinality(Cached(cache')) \in Nat
        /\ Cardinality(Cached(cache')) <= Cardinality(Cached(cache))
    BY <2>3, <2>4, FS_Subset, FS_CardinalityType
  <2> QED BY <2>2, <2>4, <2>5, ConstantTypes DEF Full
<1>14. Overtaken'
  <2>1. \A q \in Requests : since'[q] <= invalidated[Sym(q)]
    BY <1>7, <1>8, ConstantTypes DEF Overtaken, TypeOK
  <2>2. \A j \in Keys : cache'[j] = cache[j] \/ cache'[j] = Absent
    BY <1>2 DEF TypeOK
  <2>3. \A q \in Requests \ {r} : Pending(q) => leader[q] \in Requests \ {r}
    BY <1>9 DEF Flights
  <2>4. ASSUME flight'[leader'[r]] \in {"read", "ok"},
               value[leader'[r]].version < invalidated[Sym(r)]
        PROVE  leader'[r] \in overtaken
    <3>1. leader'[r] # r /\ Pending(leader'[r]) /\ Sym(leader'[r]) = Sym(r)
      BY <1>8, <2>4 DEF Pending, Sym
    <3> QED BY <1>8, <2>4, <3>1 DEF Overtaken
  <2>5. \A q \in Requests \ {r} : Pending(q)' =>
          /\ Pending(q) /\ leader'[q] = leader[q] /\ leader[q] \in Requests \ {r}
          /\ flight'[leader[q]] = flight[leader[q]]
    BY <1>7, <2>3
  <2>6. \A q \in Requests :
          Pending(q)' /\ flight'[leader'[q]] \in {"read", "ok"}
          /\ value[leader'[q]].version < invalidated[Sym(q)]
            => leader'[q] \in overtaken
    <3> TAKE q \in Requests
    <3>1. CASE q = r
      BY <2>4, <3>1
    <3>2. CASE q # r
      <4> HAVE /\ Pending(q)' /\ flight'[leader'[q]] \in {"read", "ok"}
               /\ value[leader'[q]].version < invalidated[Sym(q)]
      <4>1. Pending(q) /\ leader'[q] = leader[q] /\ flight'[leader[q]] = flight[leader[q]]
        BY <2>5, <3>2
      <4> QED BY <4>1 DEF Overtaken
    <3> QED BY <3>1, <3>2
  <2>7. \A j \in Keys : cache'[j] # Absent => cache'[j] = cache[j]
    BY <2>2
  <2> QED BY <1>3, <2>1, <2>6, <2>7 DEF Overtaken, Sym
<1>15. AnswersAreRecent' /\ FreshAfterInvalidation'
  BY <1>1, <1>3, <1>7, <1>8 DEF AnswersAreRecent, FreshAfterInvalidation, UsesCache
<1> QED BY <1>6, <1>10, <1>11, <1>12, <1>13, <1>14, <1>15

\* The steps of a fetch: the venue reads for it, or it settles.
LEMMA VenueReadsInv ==
  ASSUME Inv, NEW r \in Requests, VenueReads(r)
  PROVE  Inv'
<1> USE DEF Inv
<1> DEFINE v == [version |-> version[Sym(r)], at |-> now, by |-> r]
<1>1. /\ flight[r] = "asked" /\ flight' = [flight EXCEPT ![r] = "read"]
      /\ value' = [value EXCEPT ![r] = v]
  BY DEF VenueReads, Sym
<1>2. UNCHANGED <<now, version, cache, writes, inFlight, pc, leader, answer, invalidated,
                  since, overtaken>>
  BY DEF VenueReads, history
<1>3. v \in Value /\ v.by = r /\ v.at = now /\ v.version = version[Sym(r)] /\ now \in Nat
  BY ConstantTypes DEF TypeOK, Value
<1> HIDE DEF v
<1>4. TypeOK'
  BY <1>1, <1>2, <1>3 DEF TypeOK
<1>5. /\ flight'[r] = "read" /\ value'[r] = v
      /\ \A q \in Requests \ {r} : flight'[q] = flight[q] /\ value'[q] = value[q]
  BY <1>1 DEF TypeOK
<1>6. Flights' /\ Promises'
  BY <1>1, <1>2, <1>5 DEF Flights, Promises, Pending
<1>7. Fetched'
  <2>1. now <= v.at + Timeout /\ v.version <= version[Sym(r)] /\ v.at <= now
    BY <1>3, ConstantTypes DEF TypeOK
  <2>2. \A q \in Requests : Pending(q) => leader[q] \in Requests
    BY DEF Flights
  <2> QED BY <1>2, <1>3, <1>5, <2>1, <2>2 DEF Fetched, Pending, Sym
<1>8. EntriesExpire' /\ Full' /\ AnswersAreRecent' /\ FreshAfterInvalidation'
  BY <1>2 DEF EntriesExpire, Full, Cached, AnswersAreRecent, FreshAfterInvalidation, UsesCache
<1>9. Overtaken'
  <2>1. ASSUME NEW q \in Requests, Pending(q), flight'[leader[q]] \in {"read", "ok"},
               value'[leader[q]].version < invalidated[Sym(q)]
        PROVE  leader[q] \in overtaken
    <3>1. CASE leader[q] = r
      <4>1. Sym(q) = Sym(r) /\ invalidated[Sym(r)] <= version[Sym(r)]
        BY <2>1, <3>1, ConstantTypes DEF Flights, Overtaken, Sym
      <4>2. version[Sym(r)] \in Nat /\ invalidated[Sym(r)] \in Nat
        BY ConstantTypes DEF TypeOK
      <4> QED BY <1>3, <1>5, <2>1, <3>1, <4>1, <4>2
    <3>2. CASE leader[q] # r
      <4>1. flight'[leader[q]] = flight[leader[q]] /\ value'[leader[q]] = value[leader[q]]
        BY <1>5, <2>1, <3>2 DEF Flights
      <4> QED BY <2>1, <4>1 DEF Overtaken
    <3> QED BY <3>1, <3>2
  <2> QED BY <1>2, <2>1 DEF Overtaken, Pending, Sym
<1> QED BY <1>4, <1>6, <1>7, <1>8, <1>9

LEMMA ArrivesInv ==
  ASSUME Inv, NEW r \in Requests, Arrives(r)
  PROVE  Inv'
<1> USE DEF Inv
<1>1. UNCHANGED <<now, version, cache, writes, inFlight, pc, leader, answer, invalidated,
                  since, overtaken>>
  BY DEF Arrives, history
<1>2. /\ flight[r] \in {"asked", "read"}
      /\ flight'[r] = "ok" => flight[r] = "read" /\ value'[r] = value[r]
      /\ flight'[r] \in {"ok", "failed"}
      /\ \A q \in Requests \ {r} : flight'[q] = flight[q] /\ value'[q] = value[q]
  BY DEF Arrives, TypeOK
<1>3. TypeOK'
  <2>1. flight' \in [Requests -> {"none", "asked", "read", "ok", "failed"}]
        /\ value' \in [Requests -> Value \cup {NoValue}]
    BY DEF Arrives, TypeOK
  <2> QED BY <1>1, <2>1 DEF TypeOK
<1>4. pc[r] = "waiting" /\ leader[r] = r
  BY <1>2 DEF Flights
<1>5. \A q \in Requests : Pending(q) => leader[q] \in Requests
  BY DEF Flights
<1>6. Flights' /\ Promises'
  <2>1. \A q \in Requests : pc[q] = "settled" => leader[q] # r
    BY <1>2 DEF Flights
  <2> QED BY <1>1, <1>2, <1>4, <1>5, <2>1 DEF Flights, Promises, Pending
<1>7. Fetched'
  <2>1. flight'[r] = "ok" => now <= value'[r].at + Timeout
    BY <1>2 DEF Fetched
  <2> QED BY <1>1, <1>2, <1>5, <2>1 DEF Fetched, Pending, Sym
<1>8. EntriesExpire' /\ Full' /\ AnswersAreRecent' /\ FreshAfterInvalidation'
  BY <1>1 DEF EntriesExpire, Full, Cached, AnswersAreRecent, FreshAfterInvalidation, UsesCache
<1>9. Overtaken'
  <2>1. ASSUME NEW q \in Requests, Pending(q), flight'[leader[q]] \in {"read", "ok"}
        PROVE  flight[leader[q]] \in {"read", "ok"} /\ value'[leader[q]] = value[leader[q]]
    BY <1>2, <1>5, <2>1
  <2> QED BY <1>1, <2>1 DEF Overtaken, Pending, Sym
<1> QED BY <1>3, <1>6, <1>7, <1>8, <1>9

\* The promise is over for a leader or a follower.
LEMMA FinishInv ==
  ASSUME Inv, NEW r \in Requests, Finish(r)
  PROVE  Inv'
<1> USE DEF Inv
<1>1. UNCHANGED <<now, version, cache, writes, leader, flight, value, answer, invalidated,
                  since, overtaken>>
  BY DEF Finish, history
<1>2. /\ pc[r] = "waiting" /\ flight[leader[r]] \in {"ok", "failed"}
      /\ pc' = [pc EXCEPT ![r] = IF flight[leader[r]] = "ok" THEN "settled" ELSE "failed"]
      /\ inFlight' = IF leader[r] = r THEN [inFlight EXCEPT ![KeyOf[r]] = None] ELSE inFlight
      /\ leader[r] # r => inFlight[KeyOf[r]] # leader[r]
  BY DEF Finish, Settled, Goto
<1>3. /\ pc'[r] \in {"settled", "failed"} /\ (pc'[r] = "settled" => flight[leader[r]] = "ok")
      /\ \A q \in Requests \ {r} : pc'[q] = pc[q]
      /\ \A q \in Requests : Pending(q)' => Pending(q)
  BY <1>2 DEF TypeOK, Pending
<1>4. TypeOK'
  <2>1. pc' \in [Requests -> {"new", "waiting", "settled", "done", "failed"}]
        /\ inFlight' \in [Keys -> Requests \cup {None}]
    BY <1>2 DEF TypeOK
  <2> QED BY <1>1, <2>1 DEF TypeOK
<1>5. Flights'
  <2>1. flight[r] \notin {"asked", "read"}
    BY <1>2 DEF Flights
  <2>2. \A q \in Requests \ {r} : pc[q] = "waiting" /\ leader[q] = q
          => inFlight'[KeyOf[q]] = q
    <3> TAKE q \in Requests \ {r}
    <3> HAVE pc[q] = "waiting" /\ leader[q] = q
    <3>1. inFlight[KeyOf[q]] = q
      BY DEF Flights
    <3>2. leader[r] = r => inFlight[KeyOf[r]] = r
      BY <1>2 DEF Flights
    <3>3. leader[r] = r => KeyOf[q] # KeyOf[r]
      BY <3>1, <3>2
    <3> QED BY <1>2, <3>1, <3>3, ConstantTypes DEF TypeOK
  <2> QED BY <1>1, <1>3, <2>1, <2>2 DEF Flights, Pending
<1>6. Promises'
  <2>1. \A k \in Keys : inFlight'[k] # None => inFlight'[k] = inFlight[k] /\ inFlight[k] # r
    <3> TAKE k \in Keys
    <3> HAVE inFlight'[k] # None
    <3>1. inFlight'[k] = inFlight[k]
      BY <1>2, ConstantTypes DEF TypeOK
    <3>2. inFlight[k] = r => KeyOf[r] = k /\ leader[r] = r
      BY <3>1, ConstantTypes DEF Promises
    <3>3. leader[r] = r => inFlight'[KeyOf[r]] = None
      BY <1>2, ConstantTypes DEF TypeOK
    <3> QED BY <3>1, <3>2, <3>3
  <2> QED BY <1>1, <1>3, <1>4, <2>1 DEF Promises, TypeOK
<1>7. Fetched' /\ Overtaken'
  <2>1. Fetched'
    BY <1>1, <1>3 DEF Fetched, Sym
  <2>2. Overtaken'
    BY <1>1, <1>3 DEF Overtaken, Sym
  <2> QED BY <2>1, <2>2
<1>8. EntriesExpire' /\ Full'
  BY <1>1 DEF EntriesExpire, Full, Cached, UsesCache
<1>9. AnswersAreRecent' /\ FreshAfterInvalidation'
  BY <1>1, <1>3 DEF AnswersAreRecent, FreshAfterInvalidation, UsesCache
<1> QED BY <1>4, <1>5, <1>6, <1>7, <1>8, <1>9

\* request caches its answer and returns it.
LEMMA StoreInv ==
  ASSUME Inv, NEW r \in Requests, Store(r)
  PROVE  Inv'
<1> USE DEF Inv
<1> DEFINE k == KeyOf[r]
           v == value[leader[r]]
<1>1. /\ pc[r] = "settled" /\ pc' = [pc EXCEPT ![r] = "done"]
      /\ answer' = [answer EXCEPT ![r] = [version |-> v.version, by |-> v.by,
                                          age |-> now - v.at]]
  BY DEF Store, Goto, Returns
<1>2. UNCHANGED <<now, version, inFlight, leader, flight, value, invalidated, since, overtaken>>
  BY DEF Store
<1>3. \/ UsesCache(r) /\ cache' = Set(cache, k, v, Ttl[r]) /\ writes' = writes + 1
      \/ UNCHANGED <<cache, writes>>
  BY DEF Store
<1>4. /\ leader[r] \in Requests /\ KeyOf[leader[r]] = k /\ flight[leader[r]] = "ok"
      /\ v \in Value /\ v.by = leader[r] /\ now <= v.at + Timeout /\ v.at <= now
      /\ v.version \in Nat /\ v.at \in Nat /\ now \in Nat /\ k \in Keys
  BY <1>1, ConstantTypes DEF Flights, Fetched, Pending, Value, TypeOK
<1>6. /\ cache' \in [Keys -> Entry \cup {Absent}] /\ Full'
      /\ \A j \in Keys \ {k} : cache'[j] \in {cache[j], Absent}
      /\ \/ UsesCache(r) /\ cache'[k].value = v /\ cache'[k].expires = now + Ttl[r]
         \/ cache'[k] = cache[k]
  <2>1. CASE UNCHANGED <<cache, writes>>
    BY <2>1 DEF TypeOK, Full, Cached
  <2>2. CASE UsesCache(r) /\ cache' = Set(cache, k, v, Ttl[r]) /\ writes' = writes + 1
    <3>1. /\ cache' \in [Keys -> Entry \cup {Absent}]
          /\ cache'[k].value = v /\ cache'[k].expires = now + Ttl[r]
          /\ \A j \in Keys \ {k} : cache'[j] \in {cache[j], Absent}
          /\ Cardinality(Cached(cache')) <= MaxEntries
      <4> HIDE DEF v, k
      <4> QED BY <1>4, <2>2, SetEffect, ConstantTypes DEF TypeOK, Full
    <3> QED BY <2>2, <3>1 DEF Full
  <2> QED BY <1>3, <2>1, <2>2
<1>7. /\ pc'[r] = "done" /\ answer'[r].version = v.version /\ answer'[r].by = leader[r]
      /\ answer'[r].age = now - v.at
      /\ \A q \in Requests \ {r} : pc'[q] = pc[q] /\ answer'[q] = answer[q]
      /\ \A q \in Requests : Pending(q)' => Pending(q)
  BY <1>1, <1>4 DEF TypeOK, Pending
<1>8. TypeOK'
  <2>1. pc' \in [Requests -> {"new", "waiting", "settled", "done", "failed"}]
        /\ writes' \in Nat
    BY <1>1, <1>3 DEF TypeOK
  <2>2. answer' \in [Requests -> [version : Int, by : Requests \cup {None}, age : Int]]
    <3> HIDE DEF v
    <3>1. [version |-> v.version, by |-> v.by, age |-> now - v.at]
            \in [version : Int, by : Requests \cup {None}, age : Int]
      BY <1>4
    <3> QED BY <1>1, <3>1 DEF TypeOK
  <2> QED BY <1>2, <1>6, <2>1, <2>2 DEF TypeOK
<1>9. Flights' /\ Promises' /\ Fetched'
  <2>1. \A q \in Requests : leader[q] = q /\ pc[q] = "waiting" => q # r
    BY <1>1
  <2>2. flight[r] \notin {"asked", "read"}
    BY <1>1 DEF Flights
  <2>3. Flights'
    BY <1>2, <1>7, <2>1, <2>2 DEF Flights, Pending
  <2>4. \A j \in Keys : inFlight[j] # None => inFlight[j] \in Requests \ {r}
    BY <1>1 DEF Promises, TypeOK
  <2>5. Promises'
    BY <1>2, <1>7, <2>4 DEF Promises
  <2>6. Fetched'
    BY <1>2, <1>7 DEF Fetched, Sym
  <2> QED BY <2>3, <2>5, <2>6
<1>10. EntriesExpire'
  <2> SUFFICES ASSUME NEW j \in Keys, cache'[j] # Absent
               PROVE  \E q \in Requests :
                        /\ KeyOf[q] = j /\ UsesCache(q)
                        /\ cache'[j].expires <= cache'[j].value.at + Timeout + Ttl[q]
    BY DEF EntriesExpire, UsesCache
  <2>1. CASE cache'[j] = cache[j]
    BY <2>1 DEF EntriesExpire
  <2>2. CASE j = k /\ UsesCache(r) /\ cache'[k].value = v /\ cache'[k].expires = now + Ttl[r]
    <3>1. now + Ttl[r] <= v.at + Timeout + Ttl[r]
      BY <1>4, ConstantTypes
    <3> QED BY <2>2, <3>1
  <2> QED BY <1>6, <2>1, <2>2
<1>11. v.version < invalidated[Sym(r)] => leader[r] \in overtaken
  BY <1>1, <1>4 DEF Overtaken, Pending
<1>12. Overtaken'
  <2>1. ASSUME NEW j \in Keys, cache'[j] # Absent,
               cache'[j].value.version < invalidated[SymbolOf[j]]
        PROVE  cache'[j].value.by \in overtaken
    <3>1. CASE cache'[j] = cache[j]
      BY <2>1, <3>1 DEF Overtaken
    <3>2. CASE j = k /\ cache'[k].value = v
      BY <1>4, <1>11, <2>1, <3>2 DEF Sym
    <3> QED BY <1>6, <2>1, <3>1, <3>2
  <2> QED BY <1>2, <1>7, <2>1 DEF Overtaken, Sym
<1>13. AnswersAreRecent'
  <2>1. answer'[r].age <= Timeout
    BY <1>4, <1>7, ConstantTypes
  <2> QED BY <1>7, <2>1 DEF AnswersAreRecent, UsesCache
<1>14. FreshAfterInvalidation'
  <2>1. answer'[r].version < since[r] => leader[r] \in overtaken
    <3>1. since[r] \in Nat /\ invalidated[Sym(r)] \in Nat /\ since[r] <= invalidated[Sym(r)]
      BY ConstantTypes DEF TypeOK, Overtaken
    <3> QED BY <1>4, <1>7, <1>11, <3>1
  <2> QED BY <1>2, <1>7, <2>1 DEF FreshAfterInvalidation
<1> QED BY <1>6, <1>8, <1>9, <1>10, <1>12, <1>13, <1>14

-----------------------------------------------------------------------------
LEMMA AdjustInv ==
  ASSUME Inv, NEW s \in Symbols, Adjust(s)
  PROVE  Inv'
<1> USE DEF Inv
<1>1. UNCHANGED <<now, cache, writes, inFlight, pc, leader, flight, value, answer,
                  invalidated, since, overtaken>>
  BY DEF Adjust, history
<1>2. /\ version' \in [Symbols -> Nat]
      /\ \A t \in Symbols : version'[t] >= version[t] /\ version[t] \in Nat
  BY DEF Adjust, TypeOK
<1>3. TypeOK'
  BY <1>1, <1>2 DEF TypeOK
<1>4. Flights' /\ Promises' /\ EntriesExpire' /\ Full' /\ AnswersAreRecent'
      /\ FreshAfterInvalidation'
  BY <1>1 DEF Flights, Promises, EntriesExpire, Full, Cached, AnswersAreRecent,
              FreshAfterInvalidation, UsesCache, Pending
<1>5. Fetched'
  <2>1. ASSUME NEW r \in Requests, flight[r] \in {"read", "ok"}
        PROVE  value[r].version <= version'[Sym(r)]
    <3>1. value[r].version \in Nat /\ value[r].version <= version[Sym(r)]
      BY <2>1 DEF Fetched, Value
    <3> QED BY <1>2, <3>1, ConstantTypes
  <2> QED BY <1>1, <2>1 DEF Fetched, Pending, Sym
<1>6. Overtaken'
  <2>1. \A t \in Symbols : invalidated[t] <= version'[t]
    BY <1>2 DEF Overtaken, TypeOK
  <2> QED BY <1>1, <2>1 DEF Overtaken, Pending, Sym
<1> QED BY <1>3, <1>4, <1>5, <1>6

LEMMA InvalidateInv ==
  ASSUME Inv, NEW ss \in SUBSET Symbols, Invalidate(ss)
  PROVE  Inv'
<1> USE DEF Inv
<1>1. UNCHANGED <<now, version, writes, inFlight, pc, leader, flight, value, answer, since>>
  BY DEF Invalidate
<1>2. /\ cache' = [k \in Keys |-> IF SymbolOf[k] \in ss THEN Absent ELSE cache[k]]
      /\ invalidated' = [s \in Symbols |-> IF s \in ss THEN version[s] ELSE invalidated[s]]
  BY DEF Invalidate, Without, Invalidated
<1>3. /\ overtaken \subseteq overtaken'
      /\ \A r \in Requests : Pending(r) /\ Sym(r) \in ss => leader[r] \in overtaken'
      /\ overtaken' \subseteq Requests
  BY DEF Invalidate, Pending, Sym, Flights, TypeOK
<1>4. TypeOK'
  <2>1. cache' \in [Keys -> Entry \cup {Absent}] /\ invalidated' \in [Symbols -> Nat]
    BY <1>2 DEF TypeOK
  <2> QED BY <1>1, <1>3, <2>1 DEF TypeOK
<1>5. Flights' /\ Promises' /\ Fetched' /\ AnswersAreRecent'
  BY <1>1 DEF Flights, Promises, Fetched, AnswersAreRecent, UsesCache, Pending, Sym
<1>6. \A j \in Keys : cache'[j] # Absent => cache'[j] = cache[j] /\ SymbolOf[j] \notin ss
  BY <1>2
<1>7. EntriesExpire'
  BY <1>6 DEF EntriesExpire, UsesCache
<1>8. Full'
  <2>1. Cached(cache') \subseteq Cached(cache)
    BY <1>6 DEF Cached
  <2>2. IsFiniteSet(Cached(cache)) /\ Cardinality(Cached(cache)) \in Nat
    BY ConstantTypes, FS_Subset, FS_CardinalityType DEF Cached
  <2>3. Cardinality(Cached(cache')) \in Nat
        /\ Cardinality(Cached(cache')) <= Cardinality(Cached(cache))
    BY <2>1, <2>2, FS_Subset, FS_CardinalityType
  <2> QED BY <2>2, <2>3, ConstantTypes DEF Full
<1>9. Overtaken'
  <2>1. \A s \in Symbols : /\ invalidated[s] \in Nat /\ version[s] \in Nat
                           /\ invalidated[s] <= invalidated'[s] /\ invalidated'[s] \in Nat
                           /\ invalidated'[s] <= version[s]
                           /\ s \notin ss => invalidated'[s] = invalidated[s]
    BY <1>2 DEF Overtaken, TypeOK
  <2>2. \A r \in Requests : since[r] <= invalidated'[Sym(r)]
    <3> TAKE r \in Requests
    <3>1. Sym(r) \in Symbols /\ since[r] \in Nat /\ since[r] <= invalidated[Sym(r)]
      BY ConstantTypes DEF Overtaken, TypeOK
    <3> QED BY <2>1, <3>1
  <2>3. ASSUME NEW r \in Requests, Pending(r), flight[leader[r]] \in {"read", "ok"},
               value[leader[r]].version < invalidated'[Sym(r)]
        PROVE  leader[r] \in overtaken'
    <3>1. CASE Sym(r) \in ss
      BY <1>3, <2>3, <3>1
    <3>2. CASE Sym(r) \notin ss
      BY <1>3, <2>1, <2>3, <3>2, ConstantTypes DEF Overtaken
    <3> QED BY <3>1, <3>2
  <2>4. ASSUME NEW j \in Keys, cache'[j] # Absent,
               cache'[j].value.version < invalidated'[SymbolOf[j]]
        PROVE  cache'[j].value.by \in overtaken'
    BY <1>3, <1>6, <2>1, <2>4, ConstantTypes DEF Overtaken
  <2> QED BY <1>1, <2>1, <2>2, <2>3, <2>4 DEF Overtaken, Pending, Sym
<1>10. FreshAfterInvalidation'
  BY <1>1, <1>3 DEF FreshAfterInvalidation
<1> QED BY <1>4, <1>5, <1>7, <1>8, <1>9, <1>10

LEMMA TickInv ==
  ASSUME Inv, Tick
  PROVE  Inv'
<1> USE DEF Inv
<1>1. UNCHANGED <<version, cache, writes, inFlight, pc, leader, flight, value, answer,
                  invalidated, since, overtaken>>
  BY DEF Tick, history
<1>2. /\ now' = now + 1 /\ now \in Nat
      /\ \A r \in Requests : /\ pc[r] # "settled" /\ ~Settled(r)
                             /\ flight[r] = "read" => now < value[r].at + Timeout
  BY DEF Tick, TypeOK
<1>3. TypeOK'
  BY <1>1, <1>2 DEF TypeOK
<1>4. Flights' /\ Promises' /\ EntriesExpire' /\ Full' /\ AnswersAreRecent'
      /\ FreshAfterInvalidation' /\ Overtaken'
  BY <1>1 DEF Flights, Promises, EntriesExpire, Full, Cached, AnswersAreRecent,
              FreshAfterInvalidation, UsesCache, Overtaken, Pending, Sym
<1>5. Fetched'
  <2>1. \A r \in Requests : Pending(r) => flight[leader[r]] # "ok"
    BY <1>2 DEF Pending, Settled
  <2>2. \A r \in Requests : flight[r] \in {"read", "ok"} =>
          value[r].at \in Nat /\ value[r].at <= now
    BY DEF Fetched, Value
  <2>3. \A r \in Requests : flight[r] = "read" => now' <= value[r].at + Timeout
    BY <1>2, <2>2, ConstantTypes
  <2>4. \A r \in Requests : flight[r] \in {"read", "ok"} => value[r].at <= now'
    BY <1>2, <2>2
  <2> QED BY <1>1, <2>1, <2>3, <2>4 DEF Fetched, Pending, Sym
<1> QED BY <1>3, <1>4, <1>5

-----------------------------------------------------------------------------
LEMMA NextInv == Inv /\ [Next]_vars => Inv'
<1> SUFFICES ASSUME Inv, [Next]_vars PROVE Inv'
  OBVIOUS
<1>1. ASSUME NEW r \in Requests,
             Hit(r) \/ Miss(r) \/ VenueReads(r) \/ Arrives(r) \/ Finish(r) \/ Store(r)
      PROVE  Inv'
  BY <1>1, HitInv, MissInv, VenueReadsInv, ArrivesInv, FinishInv, StoreInv
<1>2. ASSUME NEW s \in Symbols, Adjust(s) PROVE Inv'
  BY <1>2, AdjustInv
<1>3. ASSUME NEW ss \in SUBSET Symbols, Invalidate(ss) PROVE Inv'
  BY <1>3, InvalidateInv
<1>4. CASE Tick
  BY <1>4, TickInv
<1>5. CASE UNCHANGED vars
  BY <1>5 DEF vars, history, Inv, TypeOK, Flights, Promises, Fetched, EntriesExpire,
              Overtaken, Full, Cached, AnswersAreRecent, FreshAfterInvalidation, Pending,
              UsesCache, Sym
<1> QED BY <1>1, <1>2, <1>3, <1>4, <1>5 DEF Next

\* The invariant of the cache, the promises and the fetches holds in every reachable state.
THEOREM Invariance == Spec => []Inv
  BY InitInv, NextInv, PTL DEF Spec

\* Variables keep their types, the counters of the history among them.
THEOREM TypeCorrect == Spec => []TypeOK
<1>1. Inv => TypeOK
  BY DEF Inv
<1> QED BY <1>1, Invariance, PTL

\* However many requests share a fetch and store its answer again, none returns data
\* older than the timeout and a time to live allow.
THEOREM Recency == Spec => []AnswersAreRecent
<1>1. Inv => AnswersAreRecent
  BY DEF Inv
<1> QED BY <1>1, Invariance, PTL

\* After an invalidation only a fetch it overtook can bring data from before it back.
THEOREM Freshness == Spec => []FreshAfterInvalidation
<1>1. Inv => FreshAfterInvalidation
  BY DEF Inv
<1> QED BY <1>1, Invariance, PTL

\* Deduplication asks the venue once per key and leaves no promise of a fetch that is over.
THEOREM Deduplication == Spec => []OneFetchPerKey
<1>1. Inv => OneFetchPerKey
  <2> SUFFICES ASSUME Inv PROVE OneFetchPerKey
    OBVIOUS
  <2>1. ASSUME NEW r \in Requests, NEW q \in Requests, KeyOf[r] = KeyOf[q],
               flight[r] \in {"asked", "read"}, flight[q] \in {"asked", "read"}
        PROVE  r = q
    BY <2>1 DEF Inv, Flights
  <2>2. \A k \in Keys : inFlight[k] # None => pc[inFlight[k]] = "waiting"
    BY DEF Inv, Promises
  <2> QED BY <2>1, <2>2 DEF OneFetchPerKey
<1> QED BY <1>1, Invariance, PTL

\* The cache stays within its maximum, and a request evicts only from a full cache.
THEOREM Eviction == Spec => EvictsOnlyForRoom
<1> DEFINE Evicts == \E k \in Keys : Alive(cache, k) /\ k \notin Cached(cache')
           Step == /\ Cardinality(Cached(cache')) <= MaxEntries
                   /\ Evicts /\ pc' # pc => Cardinality(Cached(cache')) = MaxEntries
<1>1. ASSUME Inv, [Next]_vars PROVE Step
  <2>1. Cardinality(Cached(cache')) <= MaxEntries
    BY <1>1, NextInv DEF Inv, Full
  <2>2. cache' = cache => ~Evicts
    BY DEF Alive, Cached
  <2>3. ASSUME NEW r \in Requests, Miss(r) PROVE ~Evicts
    <3>1. ~Alive(cache, KeyOf[r]) \/ cache' = cache
      BY <2>3 DEF Miss
    <3>2. \A k \in Keys \ {KeyOf[r]} : cache'[k] = cache[k]
      BY <1>1, <2>3 DEF Miss, Inv, TypeOK
    <3> QED BY <2>2, <3>1, <3>2 DEF Alive, Cached
  <2>4. ASSUME NEW r \in Requests, Store(r), Evicts
        PROVE  Cardinality(Cached(cache')) = MaxEntries
    <3>1. UsesCache(r) /\ cache' = Set(cache, KeyOf[r], value[leader[r]], Ttl[r])
      BY <2>2, <2>4 DEF Store
    <3>2. value[leader[r]] \in Value
      BY <1>1, <2>4 DEF Store, Inv, Flights, Fetched, Pending
    <3>3. \E k \in Cached(cache) : k \notin Cached(cache')
      BY <2>4 DEF Alive, Cached
    <3>4. /\ cache \in [Keys -> Entry \cup {Absent}] /\ now \in Nat /\ writes \in Nat
          /\ Cardinality(Cached(cache)) <= MaxEntries
          /\ KeyOf[r] \in Keys /\ Ttl[r] \in Nat
      BY <1>1, ConstantTypes DEF Inv, TypeOK, Full
    <3> DEFINE stored == Set(cache, KeyOf[r], value[leader[r]], Ttl[r])
    <3>5. (\E k \in Cached(cache) : k \notin Cached(stored))
            => Cardinality(Cached(stored)) = MaxEntries
      BY <3>2, <3>4, SetEffect
    <3> HIDE DEF stored, Evicts
    <3>6. cache' = stored
      BY <3>1 DEF stored
    <3> QED BY <3>3, <3>5, <3>6
  <2>5. ASSUME NEW r \in Requests, Hit(r) \/ VenueReads(r) \/ Arrives(r) \/ Finish(r)
        PROVE  ~Evicts
    <3>1. cache' = cache
      BY <2>5 DEF Hit, VenueReads, Arrives, Finish
    <3> QED BY <2>2, <3>1
  <2>6. (\E s \in Symbols : Adjust(s)) \/ (\E ss \in SUBSET Symbols : Invalidate(ss)) \/ Tick
          => pc' = pc
    BY DEF Adjust, Invalidate, Tick
  <2>7. UNCHANGED vars => pc' = pc
    BY DEF vars
  <2> HIDE DEF Evicts
  <2> QED BY <1>1, <2>1, <2>3, <2>4, <2>5, <2>6, <2>7 DEF Next
<1>2. Inv /\ [Next]_vars => [Step]_vars
  BY <1>1
<1> QED BY <1>2, Invariance, PTL DEF Spec, EvictsOnlyForRoom
=============================================================================
