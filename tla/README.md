# Formal models of the trading backend

TLA+ specifications of `backend/src`, the NestJS server of the trading platform,
with the TLC runs that check them on small instances and the TLAPS proofs of the
properties that matter most. The frontend is a scaffold and is not modelled.

Contents: [the system](#1-the-system) · [modules](#2-the-modules-and-the-code) ·
[runs](#3-the-runs) · [bounds](#4-bounds) · [fairness](#5-fairness) ·
[proofs](#6-what-is-proved) · [disagreements found](#7-disagreements-with-the-code) ·
[not modelled](#8-what-is-not-modelled) · [plan](#9-plan).

Paths below are relative to `backend/src` unless they begin with `scripts/`
(which is `backend/scripts`).

## 1. The system

One or several Node.js processes share a PostgreSQL database and talk to Alpaca, the
broker and source of market data. Within a process JavaScript runs to completion
between two awaits: every hard behaviour comes from what other calls, other
processes, PostgreSQL or Alpaca do during an await.

| Component | State it keeps | Operations | Talks to |
|---|---|---|---|
| Persistent locks (`database/locks`) | table `PersistentLock` | `acquire`, `renew`, `release` | PostgreSQL |
| Strategy runner (`strategies`) | table `StrategySignalRecord`, `StrategyActivationState` | `evaluate`, `save`, history and counts | locks, activation, signal store |
| Alpaca requests (`alpaca/alpaca-*-recovery`, `-circuit-breaker`, `-retry-*`, `*-rate-limit`) | state of the breaker and of the two APIs' budgets, in memory | `execute`, `beforeRequest`, `recordSuccess`, `recordFailure`, `updateFromHeaders` | Alpaca |
| Orders (`alpaca/alpaca-*-order*`) | tables `PlatformAlpacaOrder`, `AlpacaAccountRestrictionSnapshot` | submit, replace, cancel, detect external orders | Alpaca requests, halts |
| Trading statuses (`market-data/*trading-status*`, `*halt*`, `*resume*`) | socket, session, statuses by symbol; table `MarketDataHaltEvent` | `connect`, `disconnect`, `subscribe`, frames | Alpaca's stream, audit |
| Feed recovery and health (`market-data/*feed-recovery*`, `*health*`) | outage status, health | record outage, success, warm-up | market-data requests, trading block |
| Market-data client (`market-data/*client*`, `*cache*`, `*dedup*`) | cached entries, promises in flight | `request`, invalidation by prefix | Alpaca requests, corporate actions |
| Corporate actions (`corporate-actions`, `market-data/*pagination*`) | adjustment history | list pages, effective and pending actions, entry block; apply name changes, splits, dividends | Alpaca, watchlist, symbols, strategies, cache |
| Strategy settings (`strategies/*activation*`, `*symbol-override*`) | tables `StrategySymbolOverride`, `StrategyActivationState` | `set`, `remove`, `setEnabled`, `getState` | runner |
| Market events (`market-events`) | policies and their history | blackouts around earnings | strategies |
| Watchlist and blocks (`watchlist`, `symbols`) | tables of symbols, blocks, lists | add, activate, remove, block, decide | orders, corporate actions |
| Regulatory rules (`regulatory`) | versioned rows | update with expected version, consistency check | orders |
| Authentication (`auth`) | sessions, failed logins | login, reauthentication | all controllers |
| Operational state (`common`, `main.ts`) | readiness, component statuses | startup, shutdown, health | all |
| Indicators (`indicators`) | registry | pure computations | strategies |

What makes each of the components with state hard, and what makes it correct:

* **Locks.** `expiresAt` is computed with the clock of the caller and compared with
  the clock of the database; statements are executed late, or although the caller saw
  an error. Correct: two owners are never both within their leases, a live row is
  never taken from its owner, and a release removes only one's own row.
* **Runner.** Six to twelve awaits per evaluation, two locks with a TTL that nobody
  renews, limits that are counted and then acted on, and a promise that is returned
  without being awaited. Correct: limits hold for signals inserted under their lock,
  repeated evaluations agree on one stored signal, locks are given back. Signals are dated
  by each process's own clock, and what the limits count depends on it.
* **Requests.** A breaker shared by every request of the process and a budget shared by
  those of one API, answers of requests sent before the circuit opened or the budget ran
  out, retries. Correct: one probe per opening, silence while open and until a reset,
  requests end.
* **Orders.** A halt checked before several awaits, a snapshot of the account that two
  submissions write, an order accepted by the venue and not yet registered. Correct:
  an admissible order is sent, a confirmed order is not taken for another's nor another's
  for one's own, a sell as submitted is covered by the position and by what other sells
  took from it since it was read. That does not hold of a replacement, whose quantity
  nothing compares with the position (section 7).
* **Trading statuses.** A WebSocket whose callbacks overlap with `connect` and
  `disconnect`, frames of several messages with an await in the middle, statuses out
  of order. Correct: one socket, a real session, a halt in force is in the audit.
* **Market-data client.** Promises shared by concurrent requests, expiry, eviction and
  invalidation. Correct: recent answers, no data from before an invalidation.
* **Corporate actions and the watchlist.** A list that Alpaca revises between two of its
  pages, limits that cut it, midnight during a call; ticker changes that depend on their
  order, applied in READ COMMITTED transactions beside the operator's edits, and again
  the next time, since nothing remembers what was applied. Correct: a cut list can be
  resumed without a gap, no entry before a pending action that leaves the instrument
  ambiguous, no company of the watchlist or of a strategy is lost, a second run changes
  nothing.
* **Blocks and settings.** A decision over five sources read one by one, a clean-up that
  lists and then deletes, versions that are compared with one read earlier. Correct: the
  decision held at some moment, unless a block moved past the reads, a renewed block
  survives, no update is lost.

Every hazard found in the code is listed in `PROJECT.json` with its line, the properties
that would notice it, and what of it they accept because the code does it.

## 2. The modules and the code

| Module | Models | State ↔ code | Actions ↔ code |
|---|---|---|---|
| `LockTable` | the three SQL statements of `persistent-lock.service.ts` | a set of rows ↔ the table | `Acquire`, `Renew`, `Release` ↔ the statements |
| `Lease` | what a lease service promises: the abstract specification | `holdings` | `Grant`, `End` |
| `PersistentLock` | callers with skewed clocks, statements on their way | `queue`, `phase`, `leases` ↔ the awaits of callers and what they were told | `Call*` compute `expiresAt` and send; `Answered`, `Unanswered`, `Lost`, `Abandon` are the fates of a statement |
| `StrategyRunner` | `evaluate` and `evaluateWithCooldown` of concurrent calls in several processes | `pc`, `cd` ↔ where each of the two functions stands; `locks`, `signals`, `enabled` ↔ the tables | one action per await: `AcquireFrequency`, `Deduplicate`, `CheckFrequency`, `CheckTotal`, `Persist`, `ReleaseFrequency`, `AcquireCooldown`, ...; failures of calls, crashes |
| `CircuitBreaker` | `alpaca-circuit-breaker.service.ts` as operators | a record ↔ the service's fields | `Admits`, `AfterAdmit`, `AfterError`, `Opened` |
| `FeedRecovery` | `market-data-feed-recovery.service.ts` and the health it drives | a record ↔ the fields | `Unavailable`, `Reconnected`, `WarmedUp` |
| `RateLimit` | `alpaca-rate-limit.service.ts` and `market-data-rate-limit.service.ts` | a record ↔ `remaining`, `resetAt` | `Updated` ↔ `updateFromHeaders`; `AwaitsReset`, `AfterCheck` ↔ `waitIfExhausted` |
| `RequestRecovery` | both `*-request-recovery.service.ts`, composing the three above | `pc`, `retries` per request; `until` ↔ the timer it waits for | `Call`, `Resume`, `Send`, `Refuse`, `Succeed`, `Fail`, `CompleteWarmup` |
| `TradingStatusStream` | `market-data-trading-status.service.ts`, the audit of transitions, detection, cooldown after a resume | the fields of the service, `frames` ↔ calls of `handleMessage` under way | `Connect`, `Open`, `Authenticate`, `RejectAuthentication`, `Disconnect`, `SubscribeSymbol`, `Receive`, `Store`, `Skip`, `AuditSucceeds`, `AuditFails`, ... |
| `OrderSubmission` | `submitOrder` with its guard, account synchronisation and registration, replace, cancel, `detectExternalOrders` | `reads` ↔ what the parallel reads have answered; `owned`, `snapshot` ↔ the tables; `orders`, `remaining`, `position`, `arriving` ↔ the venue | `Submit`, `ReadAccount`, `StoreSnapshot`, `ReadAsset`, `ReadPosition`, `Validate`, `Post`, `Answered`, `Register`, `Fails`, `Replace`, `Cancel`, `CancelAll`, `List`, `Judge`; `Fill`, `ForeignOrder`, ... by the venue and others |
| `MarketDataCache` | `request` of the client, the cache, the deduplication, the invalidation by corporate actions | `cache`, `writes`, `inFlight` ↔ the Maps and the counter; `leader`, `flight` ↔ promises | `Hit`, `Miss`, `VenueReads`, `Arrives`, `Finish`, `Store`, `Invalidate` |
| `Pagination` | `collect` over the pages of Alpaca's list of corporate actions | `listing` ↔ the venue; `items`, `pageToken`, `seenTokens`, `pagesFetched` ↔ the loop's variables | `Collect`, `Full`, `LastPage`, `NextPage`, `CollectFails`; `Revise` by the venue |
| `CorporateActionCalendar` | what is effective and pending on the day of a call, and the entry block | `asOf`, `kind` ↔ the calls | `StartCall`, `Midnight`; `Effective`, `Pending`, `EntryBlocked` ↔ the services' answers |
| `WatchlistRenames` | the watchlist's and the strategies' rows, the operator's calls and the jobs that apply ticker changes | `table` ↔ committed rows, `writes` ↔ what a transaction wrote, `todo`, `found` ↔ its local variables | `Find`, `Create`, `DeleteById`, `UpdateStatus` ↔ the operator; `Begin`, `FindOld`, `FindNew`, `Write`, `Commit`, `RollBack` ↔ a job |
| `SymbolBlocks` | lists, stored asset, temporary blocks with their clean-up, and the block decision | `listed`, `asset`, `block` ↔ the tables, `call` ↔ where a call stands | `Add`, `Create`, `Remove`, `Delete`, `Validate`, `Block`, `Upsert`, `Unblock`, `DeleteBlock`, `ListExpired`, `DeleteExpired`, `CleanSymbol`, `Evaluate`, `CountWhitelist`, `Read` |
| `StrategySettings` | an override and the activation under optimistic concurrency | `override`, `switch` ↔ the rows, `change` ↔ what a call has read | `FindOverride`, `CreateOverride`, `UpdateOverride`, `DeleteOverride`, `AnswerOverride`, `CreateSwitch`, `ReadSwitch`, `UpdateSwitch` |
| `Registry` | the two above side by side | | |

`StrategyRunner` uses the operators of `LockTable`, which `PersistentLock` shows to
be a lease service; `RequestRecovery` composes `CircuitBreaker`, `RateLimit` and
`FeedRecovery`; `WatchlistRenames` extends `CorporateActionCalendar`, which extends
`Pagination`: a job renames what its own collected list says is effective.
Where modules are checked apart, the interface is nondeterministic: the fetch of
`MarketDataCache` takes any time and ends either way, as `RequestRecovery` does with
its retries; the halt of `OrderSubmission` changes at will, as `TradingStatusStream`
may make it change.

Conventions: an await ends a step. Variables under the comment "History" are read by
no step; they only let a property compare a state with an earlier one. Definitions
under the comment "Mutation" are wrong variants of the definition that follows them:
substituting one must make the property it is meant for fail, which shows that the
property depends on that code. `PROJECT.json` pairs each property with such a variant,
and its `map` gives the lines that each definition stands for.

## 3. The runs

`tlc -config <cfg> <module>.tla`; the largest takes two and a half minutes.

| Run | Config | Shows |
|---|---|---|
| `lock` | `MCPersistentLock.cfg` | With clocks that differ, lost and late statements: at most one owner within its lease (`LeaseExclusion`), backed by the row (`LeaseIsBacked`), evicted by nobody else (`NobodyEvicted`); the table refines `Lease` (`ImplementsLease`). |
| `runner` | `MCRunner.cfg` | Two processes with clocks that differ, a cooldown, TTLs that run out, one failure or crash: `CooldownSpacing`, `CanonicalAnswer`, `LocksReturned`, and every call ends (`EveryCallSettles`). |
| `runner_limits` | `MCRunnerLimits.cfg` | Three evaluations in two processes with clocks that differ, no cooldown: only an insert without the lock exceeds `maxSignals` (`LeaseTotalLimit`), or `maxSignalsPerMinute` among signals dated by clocks not behind (`LeaseFrequencyLimit`). |
| `requests` | `MCRequestRecovery.cfg` | Three requests, one an order: `OneProbePerOpening`, `OpensAtThreshold`, `SilentWhileOpen`, `NothingSentBeforeReset`, `EntriesNeedFreshData`; `EveryRequestSettles`, `HalfOpenEnds`. |
| `halts` | `MCTradingStatusHalts.cfg` | Statuses in any order, overlapping frames, failing audits: `EveryHaltNoted`, `ResumesFollowHalts`, `ResumeDetectedIsNoted`, `EntriesFarFromHalts`. |
| `halts_session` | `MCTradingStatusSession.cfg` | Two connection attempts, late rejections, server closes: `OneSocket`, `SessionIsReal`, `EveryConnectSettles`. |
| `orders` | `MCOrderSubmission.cfg` | Two sells of the whole position, one replaced by a larger one, another's sell that fills too, lost answers, failed registrations, a detection: `SentWasAdmissible`, `ForeignNeverClaimed`, `ConfirmedNeverExternal`, `NoUncoveredShort`. |
| `market_data_cache` | `MCMarketDataCache.cfg` | Shared fetches, expiry, eviction, invalidation: `AnswersAreRecent`, `FreshAfterInvalidation`, `OneFetchPerKey`, `EvictsOnlyForRoom`. |
| `corporate_actions` | `MCWatchlistRenames.cfg` | Pages of a list that is revised meanwhile and cut inside a page, before one, or by their number: `NextTokenSkipsNothing`; an entry decision over a day's change: `EntriesAvoidPending`; one or two jobs beside the operator: `JobsLoseNothing`, `SecondRunChangesNothing`. |
| `registry` | `MCRegistry.cfg` | An evaluation beside two edits or clean-ups: `DecisionHeld`, `RenewalSurvives`; three callers of one strategy's settings: `OverwritesWhatItRead`. |
| `runner_total_limit`, `runner_rejection` | `MCRunnerTotalLimit.cfg`, `MCRunnerRejection.cfg` | The disagreements of section 7: TLC finds each claim violated. |

How to read some of them. `LeaseTotalLimit` and `LeaseFrequencyLimit` are about the
signals inserted while their evaluation still owned its lock row: the code promises no
more, since a TTL of 30 s can run out. `LeaseFrequencyLimit` counts, in the window of a
signal, those dated by clocks that are not behind the clock that dated it: a signal that
a faster clock dated ahead is outside the window that a slower one counts next, so that
with clocks that differ the whole window can exceed the limit under a lease in force
(section 7). With equal clocks, or one process, the property is about the whole window.
`LocksReturned` exempts a row whose release failed or whose owner's process died;
`EveryCallSettles` takes a refusal, by a lock that a dead process left too, for an end.

`SilentWhileOpen` counts from the last failure, as the breaker does, so that failures
that arrive late prolong the silence, and `OpensAtThreshold` lets a 429 or 4xx end a
streak, since the code records it as a success. `NothingSentBeforeReset` says nothing
once a request that waited for another reset has ended its wait: `waitIfExhausted` then
clears newer headers too.

`EveryHaltNoted` takes the event of a failed audit as noted: it is lost and nothing in the
code repeats it. `OneSocket`, `SessionIsReal` and `EveryConnectSettles` say nothing of the
statuses kept from before a disconnection, nor that an attempt given up may not drop the
connection that replaced it, which it does.

`SentWasAdmissible` asks that each condition held at some time since the submission began:
a halt that begins after its check does not stop the order. `ConfirmedNeverExternal` is
about submissions that returned; one whose registration failed has an order that looks
like somebody else's for good. `NoUncoveredShort` bounds one sell by the position and what
was sold since its read, by anybody. Two sells that overlap may exceed the position
together, each by no more than the other, as the guard reads the position and reserves
nothing; and a replacement that asks for more than was read is exempt, as `replaceOrder`
reads no position.

`FreshAfterInvalidation` allows one way back for older data, a fetch that was under way
during the invalidation: its answer is cached afterwards, as
`MarketDataClientService.request` does not look at invalidations, and `AnswersAreRecent`
bounds how long it is answered.

`NextTokenSkipsNothing` is about whoever goes on with the returned token.
`EntriesAvoidPending` is about collections that are complete: a pending action past the
limits of one that is not does not block an entry. `JobsLoseNothing` lets go of a company
one of whose names the operator removed during the job, and asks of one that the operator
added for no more than the rest of the list: the job may have passed the changes before
it (section 7). `SecondRunChangesNothing` needs that no change of the list takes a ticker
that an earlier one gave up (section 7), and is about two jobs with nobody else beside
them.

`DecisionHeld` takes what blocks a symbol as of the evaluation's reference time, as the
code does. An allowed symbol was blocked by nothing at one moment of the evaluation, or
a block moved: it was laid on a source already read while a source not yet read still
blocked, and that one was cleared before its turn. Then the answer may have held at no
moment; the run reaches this. A refusal names a source that blocked at some moment,
or the whitelist, if it lost an entry between its count and the search for the symbol.
`OverwritesWhatItRead` exempts an override that was deleted and created again meanwhile,
whose versions start over at 0.

Deadlock is checked where the system cannot come to rest. It is not where calls are
finite in number and the clock is bounded (`lock`, `runner`, `runner_limits`,
`requests`, `orders`, `market_data_cache`, `corporate_actions`, `registry`): there the end of all calls is a legal state.

## 4. Bounds

* `MaxNow`, `MaxAt` stop the clock. They exceed the TTL, the cooldown, the window or
  the open duration by enough for an expiry, a takeover after it, and an expiry of
  that: 4 with TTL 2 for the locks; 2 with TTL, window and cooldown 1 for the runner, where
  one process's clock is 2 ahead, more than the window (`Skew`: the difference of each
  process's clock from the database's does not change);
  3 with open duration 1 for two openings of the circuit; 3 times for the statuses of one symbol
  with cooldown 1; 3 with TTL and timeout 1 for the cache.
* Calls: each is an element of a set and made once. Two contend, a third is there
  where a limit needs one to count, one to pass and one to exceed it. Two slots for
  frames are enough for an overlap, and frames of two for an await in their middle.
* `MaxFaults = 1`: one failing call or crash in `runner`, at every place.
* `MaxChanges = 1` in `orders`: one change of account, asset or halt at every
  point. `Held = 1` and orders for 1, so that each alone takes the whole position; a
  replacement (`Quantities`) may be for 2, which exceeds it, and one submission's order
  may be replaced once (`MaxReplaced`). The theorems need no such bound: any quantities,
  and replacements of replacements.
* `MaxEntries = 1` in the cache, so that two keys evict each other; `MaxVersion = 1`.
* `MaxRetries = 1`, `FailureThreshold = 2`: a retry can be the failure that opens the
  circuit. `Reporting`: answers to market-data requests have headers, those to the one
  order, which nobody follows, have none. `Headers`: windows end by the next tick and
  before the clock stops, and no headers come once a failure has been counted, so that
  the circuit's and the budget's histories do not multiply; a request can still wait
  for a reset and find the circuit open after it.
* Pages: `PageSize = 2` and four actions. Each of the calls has limits of its own, so that
  one is cut after the first action of its second page (three items), one before its
  second page (two items) and one by the number of its pages (one page, four items).
  `MaxRevisions = 2`: two times an action is
  announced, withdrawn or moved between two pages; `MaxDay = 2`: before, on and after
  the day of a call. A list that a job is to apply is not revised.
* `Mixes`: either one entry decision, or one job beside the operator, or two jobs one
  after the other (`MayStart`); the operator edits once a job has its list (`MayEdit`),
  since until then any table is a starting point (`MaxRows = 2` of three rows and three
  tickers: enough for a rename onto a ticker that is there, a chain of two changes and
  a ticker that is used again).
* `Registry!Apart`: calls of `SymbolBlocks` and `StrategySettings`, which share no row,
  do not mix. One evaluation (`Evaluations`) of one symbol (`Evaluated`), another symbol
  on the whitelist, two edits, up to two entries at the start; a clock of one tick, which
  is enough for a block to expire between list and deletion. Three callers of settings:
  one deletes and one creates again between the other's read and write.

Symmetry is declared for streams and times (`runner_limits`), slots (`halts`), the two requests for the same key (`market_data_cache`), rows
(`corporate_actions`) and the two edits (`registry`), which nothing tells apart. No run that checks liveness uses it.

## 5. Fairness

* `StrategyRunner!Fairness`: a call that was made goes on. The database driver answers
  or throws; crashes are covered by `crashed`. Calls need not be made.
* `RequestRecovery!Fairness`: time passes, the timers of back-offs and of waits for a
  reset fire; axios' timeout ends each attempt.
  Nothing forces an answer to be a success.
* `TradingStatusStream!Fairness`: weak for the synchronous part of a frame; strong for
  the end of an audit and for the end of authentication (its ten-second timer), both
  of which are disabled while another frame's synchronous part runs, and enabled again
  after it. The event loop takes callbacks from its queues in turn.
* `Lease`, `PersistentLock`, `OrderSubmission`, `MarketDataCache`, `WatchlistRenames` and
  `Registry` state no liveness: each call is a fixed number of statements, or of pages.

## 6. What is proved

Each `*Proofs` module proves its theorems from the named assumptions on the constants
(`ConstantsAssumption`, `BreakerAssumption`, ...), which TLC evaluates in the runs. The
theorems hold for any number of owners, evaluations, requests, symbols or keys, any
TTL, skew or limit, and any bound.

| Module | Theorem | Property | Argument |
|---|---|---|---|
| `PersistentLockProofs` | `LeaseBacked`, `MutualExclusion`, `NoEviction`, `Implementation` | `LeaseIsBacked`, `LeaseExclusion`, `NobodyEvicted`, `ImplementsLease` | A live lease is backed by its owner's row, and a key has one row. Late statements do not break this: an owner has at most one on its way (`OneStatement`), it never shortens the owner's lease (`LaterExpiry`, from `ClockBound`), and an owner whose release is on its way relies on the key no more (`ReleaseGivesUp`). Each step maps to a grant, an end or a stutter of `Lease`. |
| `StrategyRunnerProofs` | `TotalLimitUnderLease`, `FrequencyLimitUnderLease`, `SpacingUnderLease`, `Canonicity`, `LocksAreReturned`, `LocksAreLeases` | `LeaseTotalLimit`, `LeaseFrequencyLimit`, `CooldownSpacing`, `CanonicalAnswer`, `LocksReturned`; `Lease!Spec` | Between its count and its insert an evaluation that still owns the frequency row has headroom (`Headroom` for all signals; `WindowRoom` for those of its window). The windows of other signals gain nothing from the insert: all that was inserted on time was built before, by the database's clock (`BuiltLast`), so that the new signal is dated into the window of an older one only by a clock that is behind, which that window does not count. Nobody else can use it on time, since the key has one row, and it inserts once, since the cooldown part starts only after the body is past its own insert (`CooldownAfterBody`). Likewise, while it owns the cooldown row every signal inserted under it is a cooldown older than its own (`CooldownClear`). Answers are ids of stored signals of the asked identity (`ResultStored`); signals are only added, one for each identity. An evaluation with a row is `Entitled` to it: it has not come to its release, or a call of its own failed, or its process did. With the unexpired rows as holdings, each step is a grant, an end or a stutter of `Lease` (stated in the proof module; no run repeats it). |
| `RequestRecoveryProofs` | `SingleProbe`, `Threshold`, `ResetsAwaited`, `FreshEntries`, `SilenceKept` | `OneProbePerOpening`, `OpensAtThreshold`, `NothingSentBeforeReset`, `EntriesNeedFreshData`, `SilentWhileOpen` | `BreakerHistory`: failures, threshold and `openedAt` follow from the counted failures. `Probes`: nobody probes an opening later than the last, and nobody yet the one of an open circuit. `BudgetsKept`: a service remembers the last headers until the reset they named, and a waiting request waits for it. `FeedHistory`: a feed that recovers reconnected after its last outage. |
| `TradingStatusProofs` | `SingleSocket`, `RealSession`, `HaltsNoted`, `ResumesAfterHalts`, `DetectionAgrees`, `EntriesAwayFromHalts` | `OneSocket`, `SessionIsReal`, `EveryHaltNoted`, `ResumesFollowHalts`, `ResumeDetectedIsNoted`, `EntriesFarFromHalts` | `EventsBehindStatuses`: no noted event is later than its symbol's status, and a halt as late as it agrees with it; statuses are accepted in the order of their timestamps. `FrameShape`: only a frame whose audit runs has an event to record. |
| `OrderSubmissionProofs` | `NoFalseClaim`, `NoFalseAlarm`, `Admissible`, `SellsAreCovered` | `ForeignNeverClaimed`, `ConfirmedNeverExternal`, `SentWasAdmissible`, `NoUncoveredShort` | `Placed`: a submission past its answer has placed an order, and orders do not vanish. `Judged`: verdicts are about listed orders and a table that only grows. `Seen`: what a submission has read was true at some time since its start. `Rooted`: a replacement goes back to an order that was placed, which is for what it was placed as long as it is open. `Bounded`: a submission sends a sell for no more than it read. `Covered`: a long position it read is at most the position and what was sold since, whoever sells, replaces or buys. |
| `MarketDataCacheProofs` | `Recency`, `Freshness`, `Deduplication`, `Eviction` | `AnswersAreRecent`, `FreshAfterInvalidation`, `OneFetchPerKey`, `EvictsOnlyForRoom` | `Promises`, `Flights`: a stored promise belongs to a leader that waits. `Overtaken`: data from before an invalidation is marked in the cache and for all that have still to return it. `EntriesExpire`: an entry expires within the time to live of some request for its key. The oldest entry exists since ranks are well-founded (`OldestIsCached`), and removing it makes room for one (`SetEffect`). |
| `WatchlistRenamesProofs` | `ResumesWithoutGap`, `EntryWaits`, `NothingLost`, `SecondRunIsIdle` | `NextTokenSkipsNothing`, `EntriesAvoidPending`, `JobsLoseNothing`, `SecondRunChangesNothing` | `PageInv`: what was listed all along and lies before the page token has been collected, however the list was revised, since a page is a prefix of what lies past the token. A complete call has no token left, so that it holds every pending action. `TypeCorrect` is not trivial here: a job in a transaction has a change of its list left to apply (`JobsInv`), the first of which exists as positions are well-founded. Jobs follow one another (`OneJob`) and apply their lists in order (`InOrder`). `Handling`: the rows a job is at work on have the old ticker, or the operator deleted them, and a row for which one is deleted has the new ticker, or the operator removed that. `Keeps`, in every state of the transaction: each committed ticker of the job's scopes is in what the transaction sees, under a name by the changes done; or its row waits for the change under way; or the operator removed one of its names. Second run: a change done leaves its old ticker nowhere (`Gone`), no later change brings it back, and a job with the same list then finds no row to handle (`Idles`). What the list makes of a ticker is a recursion over finite sets of changes (`RenamedBy`): see below. |
| `RegistryProofs` | `DecisionsHold`, `BlocksInForceStay`, `NoLostUpdate` | `DecisionHeld`, `RenewalSurvives`, `OverwritesWhatItRead` | `SourcesPassed`: as long as something has blocked the symbol at every moment and no block moved, no source that was read blocks it: one that came to block it would do so while nothing else did, or while a source still to be read did. `WhitelistCounted`: past the count the whitelist has an entry, or lost one since. `CallsSound`: a clean-up compares with a time that has passed. `SettingsInv`: rows with one origin and one version are equal, and versions grow. |

Each module also proves its `TypeCorrect`. The inductive invariant (`Inv`) is the type
invariant, the parts named above and the property. None of the properties is inductive
alone: `LeaseExclusion` needs to know that a lease has its row, `LeaseTotalLimit` what
a counting evaluation has seen, `FreshAfterInvalidation` what is known of entries and
promises that nobody has returned yet.

`RenamedBy` is defined by recursion over finite sets, and the library's theorems on
recursive definitions take operators as parameters, which the provers here cannot
instantiate. `WatchlistRenamesProofs` shows that the function exists without them: of
the relations closed under the two clauses of the recursion it takes the least (`Least`),
shows that nothing else is in it (`LeastOnly`), and that it relates each set to exactly
one value (`LeastIsFunction`), by a set of least size that it does not, since sizes are
natural numbers. The proofs then use the two clauses only (`RenamedByNothing`,
`RenamedByOneMore`).

All safety properties of the passing runs, invariants and action properties, are proved.
Only model-checked are the liveness properties (`EveryCallSettles`, `EveryRequestSettles`,
`HalfOpenEnds`, `EveryConnectSettles`): TLAPS cannot prove leads-to under fairness, for
lack of `ENABLED`.

## 7. Disagreements with the code

* **`runner_total_limit`** `strategies/strategy-runner.service.ts:162` returns the
  promise of `evaluateWithCooldown` from a `try` without awaiting it: the `finally`
  block releases the frequency lock before the signal is in the store. Two evaluations
  of different symbols both persist with `maxSignals = 1`.
  `scripts/verify-strategy-signal-total-limit-concurrency-postgres.ts:108` checks that
  one of two concurrent signals is accepted, with a cooldown of zero, where it holds
  (run `runner_limits`).
* **`runner_rejection`** The same promise can reject before anything handles it, and
  Node.js ends the process. `scripts/verify-strategy-signal-cooldown-runner.ts:419`
  says that the caller gets the rejection.

Seen while modelling, and stated by no document in a form a run could refute:

* A signal is dated by `new Date()` of the process that evaluates
  (`strategies/strategy-runner.service.ts:134`), and the count of the frequency limit ends
  at that time. With clocks that differ, a signal dated ahead is missed by the next count
  of a slower process, and the window that holds both exceeds `maxSignalsPerMinute`
  though the lock was in force.
* A replacement is sent with any `qty` and compared with no position
  (`alpaca/alpaca-replace-order.service.ts:74`): one sell replaced by a larger one takes
  the position below zero with no other sell beside it.
* A symbol can be allowed though it was blocked at every moment of the evaluation, when
  its block moves from a source still to be read to one already read
  (`watchlist/symbol-block-state.service.ts:28`).
* A replacement order gets a new id that is never registered as the platform's
  (`alpaca/alpaca-replace-order.service.ts:22`).
* Nothing calls `completeWarmup`, so a feed that has recovered once stays blocked for
  entries (`market-data/market-data-feed-recovery.service.ts:84`). `RequestRecovery` has
  the step all the same, as the service offers it.
* A retry after a 429 that names a reset skips its back-off
  (`market-data/market-data-request-recovery.service.ts:71`), but waits for the reset only
  if a header has said that nothing remains; without that header it is sent at once.
* `this.feed` is read again after the await of an audit
  (`market-data/market-data-trading-status.service.ts:309`): a disconnection meanwhile
  stores the rest of the frame with a null feed.
* `scripts/verify-corporate-action-watchlist-update.ts:390` and
  `scripts/verify-corporate-action-strategy-symbol-update.ts:478` report
  `SECOND_RUN_IS_IDEMPOTENT`. That holds for their lists. If one change takes the ticker
  that an earlier one gave up, the second run applies the first change to the new
  company's row: it renames the row, or deletes it for the one that has that name.
* Removing or deactivating a ticker whose row a job renames meanwhile changes the row and
  then reports a failure (`watchlist/remove-watchlist-symbol.service.ts:24`). A renamed
  row keeps its asset (`corporate-actions/corporate-action-watchlist-update.service.ts:153`),
  and the asset is unique, so that the old ticker cannot be added again.
* Adding a ticker while a job runs: the job may have passed the change that renames it,
  and a later change of the list may rename it then. The row ends under a name that
  neither the whole list nor no list gives it
  (`corporate-actions/corporate-action-watchlist-update.service.ts:108` reads the table
  anew for each change). `JobsLoseNothing` allows the rest of the list for such a row.
* `set` of an override may answer the values of a later call
  (`strategies/prisma-strategy-symbol-override.repository.ts:105`).
* `getAllCorporateActions` overrides the page token of its caller
  (`corporate-actions/corporate-actions.service.ts:52`), so that the token it returns is of
  no use with it, and the effective and pending lists ignore `complete`.
* A temporary block is checked against the clock before an await and may be stored when
  it has already expired (`watchlist/symbol-temporary-block.service.ts:28`).

## 8. What is not modelled

* Floating point: indicators and prices. Formatting, redaction, logging, parsing of
  configuration, decoding of bodies: no state outlives them.
* Read models that map one answer of Alpaca; pure checks of one value's shape.
* Inside the modelled components: the counters of requests and waits, LULD bands, the
  invalidation of signals and stored prices, the revalidation after a resume, the lengths of back-offs, the reasons of blocks and the spread, price and
  volume filters. Orders fill whole; an account is a version and a permission. A key of
  the cache is under the path of one symbol, as all callers that give a time to live
  make it.
* Corporate actions on positions: splits, dividends, mergers and spin-offs compute new
  quantities and costs of one position with decimal arithmetic, reconciliation compares
  two answers, and the adjustment history is append-only. The rename of stored assets
  (`corporate-action-symbol-update.service.ts`) has the shape of the two jobs modelled.
* Market-event and regulatory components, operational state: in the plan below.
  Authentication: outside the trading logic, last in the plan.
* Most of the repository's lines are not program logic that a model could stand for. Of
  some hundred thousand lines of TypeScript, a third is the generated Prisma client and
  another third the verification scripts under `scripts/`; `backend/src` has about
  27 000 lines of its own, of which interfaces, modules, controllers, mappers of
  one answer and validation of one value are the largest part. The modules here stand for
  the parts that keep state or wait for others, about 3 800 lines.

## 9. Plan

Order of work: what can lose money first.

1. Done: locks, runner, requests with their breaker and budgets, halts, orders,
   market-data cache, pages, ticker changes, blocks, settings.
2. Done: every safety property of the passing runs is proved.
3. The versioned tables that are left: event policies and regulatory rules, with the
   shape of `StrategySettings`.
4. `Readiness`: startup, signals and the operational state of `main.ts`; the latched
   trading block.
5. `Calculations`: splits, dividends, missing bars, blackouts as operators checked
   against reference definitions over small inputs.
6. Sessions and the counter of failed logins.
