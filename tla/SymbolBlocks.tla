---------------------------- MODULE SymbolBlocks ----------------------------
(***************************************************************************)
(* What blocks a symbol: the blacklist, the whitelist, the tradable flag   *)
(* and the status that validateSymbol stored, and temporary blocks, all in *)
(* PostgreSQL.  The operator edits them, expired blocks are cleaned up, and *)
(* SymbolBlockStateService reads one source after another.                 *)
(*                                                                         *)
(* Every statement is a step and commits by itself.  A row is represented  *)
(* by its id, the call that made it.  The reason of an entry is left out,  *)
(* and with it the update of a reason.                                     *)
(***************************************************************************)
EXTENDS Integers, FiniteSets

CONSTANTS
  Calls,        \* calls of the services
  Symbols,
  Evaluations,  \* bound: the calls that evaluate, and do nothing else
  Evaluated,    \* bound: their symbols; others matter on the whitelist alone
  MaxNow,       \* bound: the clock stops here
  MaxEntries,   \* bound: rows at the start
  Initial,      \* the id of a row that is there at the start
  None

ASSUME BlocksAssumption ==
  /\ IsFiniteSet(Symbols) /\ Evaluated \subseteq Symbols /\ Evaluations \subseteq Calls
  /\ MaxNow \in Nat /\ MaxEntries \in Nat
  /\ Initial \notin Calls /\ None \notin Calls \cup Symbols \cup {Initial}

VARIABLES
  now,
  listed,       \* the rows of the blacklist and the whitelist, per symbol
  asset,        \* the row of TradingSymbol, per symbol
  block,        \* the temporary block, per symbol
  call,         \* the calls; their time: a reference time, or the expiry to write
  ever,         \* history: per evaluation, what has blocked its symbol at some time
  free,         \* history: evaluations whose symbol nothing blocked at some moment
  moved,        \* history: evaluations during which a block moved, see Moving
  unlisted      \* history: evaluations during which a row left the whitelist

blocksVars == <<now, listed, asset, block, call, ever, free, moved, unlisted>>

Lists == {"blacklist", "whitelist"}
Sources == Lists \cup {"tradable", "suspension", "temporary"}
Ids == Calls \cup {Initial}
Asset == [tradable : BOOLEAN, active : BOOLEAN]
NoBlock == [id |-> None, expires |-> 0]

NotMade == [does |-> "nothing", list |-> "none", symbol |-> None, step |-> "new",
            row |-> None, time |-> 0, expired |-> {}, answer |-> "none"]
Call ==
  [does : {"nothing", "add", "remove", "block", "unblock", "clean", "validate", "evaluate"},
   list : Lists \cup {"none"}, symbol : Symbols \cup {None},
   step : Sources \cup {"new", "entry", "create", "delete", "upsert", "done", "failed"},
   row : Ids \cup {None}, time : Nat, expired : SUBSET (Symbols \X Ids),
   answer : Sources \cup {"allowed", "none"}]

BlocksTypeOK ==
  /\ now \in Nat
  /\ listed \in [Lists -> [Symbols -> Ids \cup {None}]]
  /\ asset \in [Symbols -> Asset]
  /\ block \in [Symbols -> [id : Ids, expires : Nat] \cup {NoBlock}]
  /\ call \in [Calls -> Call]
  /\ ever \in [Calls -> SUBSET Sources]
  /\ free \subseteq Calls /\ moved \subseteq Calls /\ unlisted \subseteq Calls

Entries == {e \in Lists \X Symbols : listed[e[1]][e[2]] # None}

\* An asset that is not in the registry is neither tradable nor active.
BlocksInit ==
  /\ now = 0
  /\ listed \in [Lists -> [Symbols -> {Initial, None}]]
  /\ asset \in [Symbols -> {a \in Asset : a.tradable = a.active}]
  /\ \A s \in Symbols \ Evaluated : asset[s].tradable /\ listed["blacklist"][s] = None
  /\ block \in [Symbols -> [id : {Initial}, expires : 0..MaxNow + 1] \cup {NoBlock}]
  /\ Cardinality(Entries) + Cardinality({s \in Symbols : block[s] # NoBlock}) <= MaxEntries
  /\ call = [c \in Calls |-> NotMade]
  /\ ever = [c \in Calls |-> {}]
  /\ free = {} /\ moved = {} /\ unlisted = {}

-----------------------------------------------------------------------------
Lasts(s, t) == block[s].expires > t

\* The sources that block a symbol as of a reference time, whoever reads them.
Blocking(s, t) ==
  {x \in Sources :
     CASE x = "blacklist"  -> listed["blacklist"][s] # None
       [] x = "whitelist"  -> /\ \E q \in Symbols : listed["whitelist"][q] # None
                              /\ listed["whitelist"][s] = None
       [] x = "tradable"   -> ~asset[s].tradable
       [] x = "suspension" -> ~asset[s].active
       [] x = "temporary"  -> Lasts(s, t)}

Made(c, does, l, s, step) ==
  /\ call[c] = NotMade
  /\ call' = [call EXCEPT ![c] = [NotMade EXCEPT !.does = does, !.list = l,
                                                 !.symbol = s, !.step = step]]
Finish(c, ok) ==
  call' = [call EXCEPT ![c].step = IF ok THEN "done" ELSE "failed"]
At(c, does, step) == call[c].does = does /\ call[c].step = step

(***************************************************************************)
(* The lists: the row is found first, and created or deleted then.         *)
(***************************************************************************)
Add(c, l, s) ==
  /\ Made(c, "add", l, s, IF listed[l][s] # None THEN "done" ELSE "create")
  /\ UNCHANGED <<now, listed, asset, block>>

Create(c) ==
  LET l == call[c].list  s == call[c].symbol IN
  /\ At(c, "add", "create")
  /\ Finish(c, listed[l][s] = None)
  /\ listed' = IF listed[l][s] = None THEN [listed EXCEPT ![l][s] = c] ELSE listed
  /\ UNCHANGED <<now, asset, block>>

\* A call that has found a row to delete.
Found(c, does, l, s, row) ==
  /\ call[c] = NotMade
  /\ call' = [call EXCEPT ![c] =
       [NotMade EXCEPT !.does = does, !.list = l, !.symbol = s, !.row = row,
                       !.step = IF row = None THEN "failed" ELSE "delete"]]

Remove(c, l, s) ==
  /\ Found(c, "remove", l, s, listed[l][s])
  /\ UNCHANGED <<now, listed, asset, block>>

Delete(c) ==
  LET l == call[c].list  s == call[c].symbol IN
  /\ At(c, "remove", "delete")
  /\ Finish(c, listed[l][s] = call[c].row)
  /\ listed' = IF listed[l][s] = call[c].row THEN [listed EXCEPT ![l][s] = None] ELSE listed
  /\ UNCHANGED <<now, asset, block>>

\* validateSymbol stores what Alpaca answered.
Validate(c, s, a) ==
  /\ Made(c, "validate", "none", s, "done")
  /\ asset' = [asset EXCEPT ![s] = a]
  /\ UNCHANGED <<now, listed, block>>

(***************************************************************************)
(* Temporary blocks: the expiry is checked when the call is made; a renewal *)
(* keeps the row and its id.                                               *)
(***************************************************************************)
Block(c, s, expires) ==
  /\ call[c] = NotMade /\ expires > now
  /\ call' = [call EXCEPT ![c] =
       [NotMade EXCEPT !.does = "block", !.symbol = s, !.time = expires, !.step = "upsert"]]
  /\ UNCHANGED <<now, listed, asset, block>>

Upsert(c) ==
  LET s == call[c].symbol IN
  /\ At(c, "block", "upsert")
  /\ block' = [block EXCEPT ![s] =
       [id |-> IF block[s] = NoBlock THEN c ELSE block[s].id, expires |-> call[c].time]]
  /\ Finish(c, TRUE)
  /\ UNCHANGED <<now, listed, asset>>

Unblock(c, s) ==
  /\ Found(c, "unblock", "none", s, block[s].id)
  /\ UNCHANGED <<now, listed, asset, block>>

DeleteBlock(c) ==
  LET s == call[c].symbol IN
  /\ At(c, "unblock", "delete")
  /\ Finish(c, block[s].id = call[c].row)
  /\ block' = IF block[s].id = call[c].row THEN [block EXCEPT ![s] = NoBlock] ELSE block
  /\ UNCHANGED <<now, listed, asset>>

Without(symbols) == [s \in Symbols |-> IF s \in symbols THEN NoBlock ELSE block[s]]
ExpiredAt(s, t) == block[s] # NoBlock /\ block[s].expires <= t

\* removeExpired lists the expired blocks, and deletes them by their ids.
ListExpired(c) ==
  LET expired == {<<s, block[s].id>> : s \in {x \in Symbols : ExpiredAt(x, now)}} IN
  /\ call[c] = NotMade
  /\ call' = [call EXCEPT ![c] =
       [NotMade EXCEPT !.does = "clean", !.time = now, !.expired = expired,
                       !.step = IF expired = {} THEN "done" ELSE "delete"]]
  /\ UNCHANGED <<now, listed, asset, block>>

\* Mutation: the rows are deleted by their ids alone.
DeletableById(c) == {s \in Symbols : <<s, block[s].id>> \in call[c].expired}

Deletable(c) ==
  {s \in Symbols : <<s, block[s].id>> \in call[c].expired /\ ExpiredAt(s, call[c].time)}

\* What expired is gone even if the count is wrong and the call fails.
DeleteExpired(c) ==
  /\ At(c, "clean", "delete")
  /\ block' = Without(Deletable(c))
  /\ Finish(c, Cardinality(Deletable(c)) = Cardinality(call[c].expired))
  /\ UNCHANGED <<now, listed, asset>>

\* removeExpiredForSymbol
CleanSymbol(c, s) ==
  /\ Made(c, "clean", "none", s, "done")
  /\ block' = IF ExpiredAt(s, now) THEN Without({s}) ELSE block
  /\ UNCHANGED <<now, listed, asset>>

-----------------------------------------------------------------------------
(***************************************************************************)
(* SymbolBlockStateService.evaluate.                                       *)
(***************************************************************************)
Evaluate(c, s) ==
  /\ call[c] = NotMade
  /\ call' = [call EXCEPT ![c] =
       [NotMade EXCEPT !.does = "evaluate", !.symbol = s, !.time = now, !.step = "blacklist"]]
  /\ UNCHANGED <<now, listed, asset, block>>

\* What the source that is read says.
Refuses(c) ==
  LET s == call[c].symbol IN
  CASE call[c].step = "blacklist"  -> listed["blacklist"][s] # None
    [] call[c].step = "entry"      -> listed["whitelist"][s] = None
    [] call[c].step = "tradable"   -> ~asset[s].tradable
    [] call[c].step = "suspension" -> ~asset[s].active
    [] call[c].step = "temporary"  -> Lasts(s, call[c].time)

\* Mutation: the suspension filter is not asked.
NextSourceSkipping(step) ==
  CASE step = "blacklist" -> "whitelist"
    [] step = "entry"     -> "tradable"
    [] step = "tradable"  -> "temporary"
    [] OTHER              -> "done"

NextSource(step) ==
  CASE step = "blacklist"  -> "whitelist"
    [] step = "entry"      -> "tradable"
    [] step = "tradable"   -> "suspension"
    [] step = "suspension" -> "temporary"
    [] OTHER               -> "done"

Reading(c) == call[c].does = "evaluate" /\ call[c].step # "done"

\* The whitelist is counted first, and counts for nothing when it is empty.
CountWhitelist(c) ==
  /\ At(c, "evaluate", "whitelist")
  /\ call' = [call EXCEPT ![c].step =
       IF \E s \in Symbols : listed["whitelist"][s] # None THEN "entry" ELSE "tradable"]
  /\ UNCHANGED <<now, listed, asset, block>>

\* The first source that refuses is the answer.
Read(c) ==
  LET step == call[c].step  next == NextSource(step) IN
  /\ Reading(c) /\ step # "whitelist"
  /\ call' =
       IF Refuses(c)
         THEN [call EXCEPT ![c].step = "done",
                           ![c].answer = IF step = "entry" THEN "whitelist" ELSE step]
         ELSE [call EXCEPT ![c].step = next,
                           ![c].answer = IF next = "done" THEN "allowed" ELSE "none"]
  /\ UNCHANGED <<now, listed, asset, block>>

-----------------------------------------------------------------------------
Tick ==
  /\ now < MaxNow
  /\ now' = now + 1
  /\ UNCHANGED <<listed, asset, block, call>>

BlockingNow(c) == Blocking(call[c].symbol, call[c].time)

\* The sources an evaluation has done with when it is at a step.
Passed(step) ==
  CASE step \in {"whitelist", "entry"} -> {"blacklist"}
    [] step = "tradable"               -> Lists
    [] step = "suspension"             -> Lists \cup {"tradable"}
    [] step = "temporary"              -> Sources \ {"temporary"}
    [] OTHER                           -> {}

\* A source that was read comes to block the symbol while one that was not read
\* yet still does.
Moving(c) ==
  LET passed == Passed(call[c].step) IN
  /\ Reading(c)
  /\ passed \cap (BlockingNow(c)' \ BlockingNow(c)) # {}
  /\ BlockingNow(c) \ passed # {}

\* An evaluation remembers what has blocked its symbol since it began.
Remember ==
  /\ ever' = [c \in Calls |->
       IF Reading(c) \/ Reading(c)' THEN ever[c] \cup BlockingNow(c)' ELSE ever[c]]
  /\ free' = free \cup {c \in Calls : (Reading(c) \/ Reading(c)') /\ BlockingNow(c)' = {}}
  /\ moved' = moved \cup {c \in Calls : Moving(c)}
  /\ unlisted' =
       IF \E s \in Symbols : listed["whitelist"][s] # None /\ listed'["whitelist"][s] = None
         THEN unlisted \cup {c \in Calls : Reading(c)} ELSE unlisted

Edit(c, s) ==
  \/ Add(c, "whitelist", s) \/ Remove(c, "whitelist", s)
  \/ /\ s \in Evaluated
     /\ \/ Add(c, "blacklist", s) \/ Remove(c, "blacklist", s)
        \/ \E a \in Asset : Validate(c, s, a)
        \/ \E t \in 1..MaxNow + 1 : Block(c, s, t)
        \/ Unblock(c, s) \/ CleanSymbol(c, s)

BlocksNext ==
  /\ \/ Tick
     \/ \E c \in Evaluations, s \in Evaluated : Evaluate(c, s)
     \/ \E c \in Calls \ Evaluations, s \in Symbols : Edit(c, s)
     \/ \E c \in Calls \ Evaluations : ListExpired(c)
     \/ \E c \in Calls : \/ Create(c) \/ Delete(c) \/ Upsert(c) \/ DeleteBlock(c)
                         \/ DeleteExpired(c) \/ CountWhitelist(c) \/ Read(c)
  /\ Remember

-----------------------------------------------------------------------------
\* Whatever cleans up, a temporary block in force leaves only by the operator's
\* removal: one renewed between the list of what expired and its deletion
\* survives (removeExpired, removeExpiredForSymbol).
RenewalSurvives ==
  [][\A s \in Symbols :
       block[s].expires > now /\ block'[s] = NoBlock =>
         \E c \in Calls : At(c, "unblock", "delete") /\ call'[c].step = "done"
                          /\ call[c].row = block[s].id]_blocksVars

\* A symbol is allowed, as of its reference time, only if at one moment of the
\* evaluation no source blocked it; or if a block moved past the reads: laid on a
\* source already read while one not yet read still blocked, and was taken off
\* before its turn, so that the answer may have held at no moment.  It is refused
\* only for a reason that blocked it at some moment, unless the whitelist lost an
\* entry between its count and the search for the symbol (five sources read one by
\* one, SymbolBlockStateService.evaluate).
DecisionHeld ==
  \A c \in Calls :
    /\ call[c].answer = "allowed" => c \in free \cup moved
    /\ call[c].answer \in Sources =>
         \/ call[c].answer \in ever[c]
         \/ call[c].answer = "whitelist" /\ c \in unlisted
=============================================================================
