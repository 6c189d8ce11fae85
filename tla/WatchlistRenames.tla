-------------------------- MODULE WatchlistRenames --------------------------
(***************************************************************************)
(* The watchlist and the strategies' symbols in PostgreSQL: the operator   *)
(* adds, removes and (de)activates tickers, and two jobs apply the name    *)
(* changes that are effective, each in one READ COMMITTED transaction.     *)
(*                                                                         *)
(* A row belongs to the watchlist or to a strategy, its scope; a scope has *)
(* a ticker, and the watchlist an asset (the row of TradingSymbol), once.  *)
(* A statement sees what is committed and what its own transaction wrote,  *)
(* and waits for a row or a key that another transaction has written.  The *)
(* operator's statements commit by themselves.  Nothing in the code reads  *)
(* the version of a watchlist row.                                         *)
(***************************************************************************)
EXTENDS CorporateActionCalendar

CONSTANTS
  Rows,         \* row ids
  Watchlist,    \* the scope of the watchlist's rows
  Strategies,   \* the scopes of the associations
  Tickers,
  Old, New,     \* old_symbol and new_symbol of each name change
  Edits,        \* the operator's calls
  MaxRows,      \* bound: rows at the start, where a job is to run; the other
                \* actions, which a job does not ask for, are listed where none is
  None

Scopes == Strategies \cup {Watchlist}
Edit == {"add", "remove", "activate", "deactivate"}

ASSUME RenamesAssumption ==
  /\ Watchlist \notin Strategies
  /\ Old \in [NameChanges -> Tickers] /\ New \in [NameChanges -> Tickers]
  /\ MaxRows \in Nat
  /\ None \notin Scopes \cup Tickers \cup Rows \cup Calls

VARIABLES
  table,       \* the committed rows
  edit,        \* the operator's calls
  phase,       \* of a job: "none", "old", "new", "write", "committed", "rolledBack"
  scopes,      \* the rows a job is about
  applied,     \* the changes of its list it is done with
  todo,        \* rows with the old ticker it still has to handle, and their scopes
  found,       \* the row it handles, and the one with the new ticker it read
  writes,      \* what its transaction wrote
  removed      \* history: tickers the operator removed during the job

jobVars == <<phase, scopes, applied, todo, found, writes>>
calendar == <<pageVars, calendarVars>>
vars == <<calendar, table, edit, jobVars, removed>>

Row == [scope : Scopes, ticker : Tickers, asset : Tickers \cup {None}, active : BOOLEAN]
Absent == [scope |-> None, ticker |-> None, asset |-> None, active |-> FALSE]
Untouched == [scope |-> None, ticker |-> None, asset |-> None, active |-> TRUE]
NotMade == [step |-> "new", does |-> None, ticker |-> None, row |-> None]
Nothing == [row |-> None, new |-> None]

RenamesTypeOK ==
  /\ table \in [Rows -> Row \cup {Absent}]
  /\ edit \in [Edits -> [step : {"new", "found", "done", "failed"}, does : Edit \cup {None},
                         ticker : Tickers \cup {None}, row : Rows \cup {None}]]
  /\ phase \in [Calls -> {"none", "old", "new", "write", "committed", "rolledBack"}]
  /\ scopes \in [Calls -> SUBSET Scopes]
  /\ applied \in [Calls -> SUBSET Position]
  /\ todo \in [Calls -> SUBSET (Rows \X Scopes)]
  /\ found \in [Calls -> [row : Rows \cup {None}, new : Rows \cup {None}]]
  /\ writes \in [Calls -> [Rows -> Row \cup {Absent, Untouched}]]
  /\ removed \in [Calls -> SUBSET Tickers]

\* A row made by create; the unique constraints of the two tables.
NewRow(s, t) ==
  [scope |-> s, ticker |-> t, asset |-> IF s = Watchlist THEN t ELSE None, active |-> TRUE]
Conflicts(row, other) ==
  /\ row.scope = other.scope
  /\ row.ticker = other.ticker \/ (row.asset = other.asset /\ row.asset # None)

RenamesInit ==
  /\ JobToRun => \A a \in Actions \ NameChanges : listing[a] = Unlisted
  /\ table \in [Rows -> {NewRow(s, t) : s \in Scopes, t \in Tickers} \cup {Absent}]
  /\ \A r, q \in Rows : r # q /\ table[r] # Absent => ~Conflicts(table[r], table[q])
  /\ Cardinality({r \in Rows : table[r] # Absent}) <= IF JobToRun THEN MaxRows ELSE 0
  /\ edit = [e \in Edits |-> NotMade]
  /\ phase = [c \in Calls |-> "none"]
  /\ scopes = [c \in Calls |-> {}]
  /\ applied = [c \in Calls |-> {}]
  /\ todo = [c \in Calls |-> {}]
  /\ found = [c \in Calls |-> Nothing]
  /\ writes = [c \in Calls |-> [r \in Rows |-> Untouched]]
  /\ removed = [c \in Calls |-> {}]

-----------------------------------------------------------------------------
(***************************************************************************)
(* What a statement sees and what it waits for.  The operator is no job:   *)
(* None stands for it.                                                     *)
(***************************************************************************)
InTransaction(c) == phase[c] \in {"old", "new", "write"}
Over(rows, w) == [r \in Rows |-> IF w[r] = Untouched THEN rows[r] ELSE w[r]]
View(j) == IF j = None THEN table ELSE Over(table, writes[j])

\* Rows and keys that another transaction has written.
Locked(j, r) == \E c \in Calls \ {j} : InTransaction(c) /\ writes[c][r] # Untouched
KeyLocked(j, row) ==
  \E r \in Rows : Locked(j, r) /\
    (Conflicts(row, table[r]) \/ \E c \in Calls \ {j} : Conflicts(row, writes[c][r]))
Clashes(j, row, r) == \E q \in Rows \ {r} : Conflicts(row, View(j)[q])

With(j, s, t) == {r \in Rows : View(j)[r] # Absent /\
                               View(j)[r].scope = s /\ View(j)[r].ticker = t}
FindUnique(j, s, t) == IF With(j, s, t) = {} THEN None ELSE CHOOSE r \in With(j, s, t) : TRUE

\* Bounds: the operator edits beside a single job, when it has its list, since
\* before that the table may be any table; of two jobs one follows the other.
Jobs == {c \in Calls : kind[c] = "renames"}
MayEdit == \E j \in Jobs : Jobs = {j} /\ Returned(j)
MayStart(c) ==
  c \in Jobs => \A j \in Jobs \ {c} :
    collecting[j] \in {"no", "failed"} \/ phase[j] \in {"committed", "rolledBack"}

-----------------------------------------------------------------------------
(***************************************************************************)
(* addSymbol, removeSymbol and setActive, after validateSymbol.            *)
(***************************************************************************)
\* findBySymbol, and what the answer alone decides.
Find(e, does, t) ==
  LET r == FindUnique(None, Watchlist, t)
      refused == (does = "add") # (r = None)
      unchanged == ~refused /\ \/ does = "activate" /\ table[r].active
                               \/ does = "deactivate" /\ ~table[r].active
  IN
  /\ edit[e] = NotMade /\ MayEdit
  /\ edit' = [edit EXCEPT ![e] =
       [step |-> IF refused THEN "failed" ELSE IF unchanged THEN "done" ELSE "found",
        does |-> does, ticker |-> t, row |-> r]]
  /\ UNCHANGED <<calendar, table, jobVars, removed>>

Outcome(e, ok) == edit' = [edit EXCEPT ![e].step = IF ok THEN "done" ELSE "failed"]
Does(e, does) == edit[e].step = "found" /\ edit[e].does = does

\* The id of the row is a new one, which a deleted row never had.
Create(e) ==
  LET row == NewRow(Watchlist, edit[e].ticker) IN
  /\ Does(e, "add") /\ ~KeyLocked(None, row)
  /\ IF Clashes(None, row, None)
       THEN Outcome(e, FALSE) /\ UNCHANGED table
       ELSE \E r \in Rows :
              /\ table[r] = Absent /\ ~Locked(None, r) /\ \A x \in Edits : edit[x].row # r
              /\ table' = [table EXCEPT ![r] = row]
              /\ Outcome(e, TRUE)
  /\ UNCHANGED <<calendar, jobVars, removed>>

\* The row is found again by its id.  The caller hears of a failure if it is
\* gone, and also if a job has renamed it: it is deleted then all the same.
DeleteById(e) ==
  LET r == edit[e].row IN
  /\ Does(e, "remove") /\ ~Locked(None, r)
  /\ table' = [table EXCEPT ![r] = Absent]
  /\ Outcome(e, table[r].ticker = edit[e].ticker)
  /\ removed' = [c \in Calls |->
       IF InTransaction(c) THEN removed[c] \cup ({table[r].ticker} \ {None}) ELSE removed[c]]
  /\ UNCHANGED <<calendar, jobVars>>

UpdateStatus(e) ==
  LET r == edit[e].row IN
  /\ edit[e].step = "found" /\ edit[e].does \in {"activate", "deactivate"}
  /\ ~Locked(None, r)
  /\ table' = IF table[r] = Absent THEN table
              ELSE [table EXCEPT ![r].active = (edit[e].does = "activate")]
  /\ Outcome(e, table[r].ticker = edit[e].ticker)
  /\ UNCHANGED <<calendar, jobVars, removed>>

-----------------------------------------------------------------------------
(***************************************************************************)
(* updateWatchlist and updateStrategySymbols: for each change, the rows    *)
(* with the old ticker; for each of them, the row with the new one.        *)
(***************************************************************************)
Begin(j, s) ==
  /\ kind[j] = "renames" /\ Returned(j) /\ phase[j] = "none"
  /\ phase' = [phase EXCEPT ![j] = "old"]
  /\ scopes' = [scopes EXCEPT ![j] = s]
  /\ UNCHANGED <<calendar, table, edit, applied, todo, found, writes, removed>>

ToApply(j) == Effective(j) \ applied[j]

\* Mutation: the list is sorted from the newest change to the oldest.
NewestChange(j) == CHOOSE p \in ToApply(j) : \A q \in ToApply(j) : p = q \/ Before(q, p)

Change(j) == CHOOSE p \in ToApply(j) : \A q \in ToApply(j) : p = q \/ Before(p, q)

Applied(j) == applied' = [applied EXCEPT ![j] = @ \cup {Change(j)}]

OldRows(j) ==
  UNION {With(j, s, Old[Change(j).id]) \X {s} : s \in scopes[j]}

\* NAME_ONLY, NOT_IN_WATCHLIST and NOT_ASSOCIATED leave the table alone.
FindOld(j) ==
  LET olds == IF Old[Change(j).id] = New[Change(j).id] THEN {} ELSE OldRows(j) IN
  /\ phase[j] = "old" /\ ToApply(j) # {}
  /\ todo' = [todo EXCEPT ![j] = olds]
  /\ IF olds = {} THEN Applied(j) /\ UNCHANGED phase
     ELSE phase' = [phase EXCEPT ![j] = "new"] /\ UNCHANGED applied
  /\ UNCHANGED <<calendar, table, edit, scopes, found, writes, removed>>

FindNew(j, r, s) ==
  /\ phase[j] = "new" /\ <<r, s>> \in todo[j]
  /\ found' = [found EXCEPT ![j] =
       [row |-> r, new |-> FindUnique(j, s, New[Change(j).id])]]
  /\ todo' = [todo EXCEPT ![j] = @ \ {<<r, s>>}]
  /\ phase' = [phase EXCEPT ![j] = "write"]
  /\ UNCHANGED <<calendar, table, edit, scopes, applied, writes, removed>>

Ended(j, how) ==
  /\ phase' = [phase EXCEPT ![j] = how]
  /\ writes' = [writes EXCEPT ![j] = [r \in Rows |-> Untouched]]

Wrote(j, row) ==
  /\ writes' = [writes EXCEPT ![j][found[j].row] = row]
  /\ IF todo[j] = {}
       THEN phase' = [phase EXCEPT ![j] = "old"] /\ Applied(j)
       ELSE phase' = [phase EXCEPT ![j] = "new"] /\ UNCHANGED applied

\* The old row is deleted if a row with the new ticker was found, and renamed
\* otherwise; the row may be gone meanwhile, and the new ticker taken.
Write(j) ==
  LET r == found[j].row
      row == View(j)[r]
      renamed == [row EXCEPT !.ticker = New[Change(j).id]]
  IN
  /\ phase[j] = "write" /\ ~Locked(j, r)
  /\ IF row = Absent THEN Ended(j, "rolledBack") /\ UNCHANGED applied
     ELSE IF found[j].new # None THEN Wrote(j, Absent)
     ELSE /\ ~KeyLocked(j, renamed)
          /\ IF Clashes(j, renamed, r)
               THEN Ended(j, "rolledBack") /\ UNCHANGED applied
               ELSE Wrote(j, renamed)
  /\ UNCHANGED <<calendar, table, edit, scopes, todo, found, removed>>

Commit(j) ==
  /\ phase[j] = "old" /\ ToApply(j) = {}
  /\ table' = View(j)
  /\ Ended(j, "committed")
  /\ UNCHANGED <<calendar, edit, scopes, applied, todo, found, removed>>

\* A statement fails, or the transaction takes longer than Prisma allows.
RollBack(j) ==
  /\ InTransaction(j)
  /\ Ended(j, "rolledBack")
  /\ UNCHANGED <<calendar, table, edit, scopes, applied, todo, found, removed>>

-----------------------------------------------------------------------------
Init == PageInit /\ CalendarInit /\ RenamesInit

Calendar ==
  /\ \/ Revised
     \/ \E c \in Calls : Page(c) /\ UNCHANGED calendarVars
     \/ \E c \in Calls : MayStart(c) /\ StartCall(c)
     \/ Midnight
  /\ UNCHANGED <<table, edit, jobVars, removed>>

Operator(e) ==
  \/ \E does \in Edit, t \in Tickers : Find(e, does, t)
  \/ Create(e) \/ DeleteById(e) \/ UpdateStatus(e)

Job(j) ==
  \/ \E s \in {{Watchlist}, Strategies} : Begin(j, s)
  \/ FindOld(j)
  \/ \E r \in Rows, s \in Scopes : FindNew(j, r, s)
  \/ Write(j) \/ Commit(j) \/ RollBack(j)

Next == Calendar \/ (\E e \in Edits : Operator(e)) \/ (\E j \in Calls : Job(j))

Spec == Init /\ [][Next]_vars

TypeOK == PageTypeOK /\ CalendarTypeOK /\ RenamesTypeOK

-----------------------------------------------------------------------------
(***************************************************************************)
(* What changes make of a ticker, one after the other in the order of      *)
(* their days.                                                             *)
(***************************************************************************)
FiniteChanges ==
  {S \in SUBSET [day : Nat, id : NameChanges] : IsFiniteSet(S)}

RenamedBy[S \in FiniteChanges] ==
  IF S = {} THEN [t \in Tickers |-> t]
  ELSE [t \in Tickers |->
          IF RenamedBy[S \ {LastOf(S)}][t] = Old[LastOf(S).id]
            THEN New[LastOf(S).id] ELSE RenamedBy[S \ {LastOf(S)}][t]]

\* What is left of a list from some change on, and what lies between two of them.
Tails(changes) ==
  {S \in SUBSET changes : \A p \in S, q \in changes \ S : Before(q, p)}
Stretches(changes) ==
  {S \in SUBSET changes :
     \A p, r \in S, q \in changes : Before(p, q) /\ Before(q, r) => q \in S}

Holds(rows, s, t) == \E r \in Rows : rows[r].scope = s /\ rows[r].ticker = t

\* A ticker that one change gives up is taken by a later one.
Reused(changes) == \E p, q \in changes : Before(p, q) /\ New[q.id] = Old[p.id]

\* Applying the same list again changes nothing, as long as no change of it takes
\* a ticker that an earlier one gave up and nobody else has changed the table
\* (updateWatchlist remembers nothing of the changes it has applied, and asks for
\* all of them when no start is given).
SecondRunChangesNothing ==
  [][\A i, j \in Calls :
       /\ phase[i] = "committed" /\ phase[j] # "committed" /\ phase'[j] = "committed"
       /\ scopes[i] = scopes[j] /\ Effective(i) = Effective(j)
       /\ ~Reused(Effective(j)) /\ \A e \in Edits : edit[e] = NotMade
       /\ \A k \in Jobs \ {i, j} : phase[k] # "committed"
       => table' = table]_vars

\* The operator has added the ticker.
Added(t) ==
  \E e \in Edits : edit[e].does = "add" /\ edit[e].step = "done" /\ edit[e].ticker = t

\* A job never loses a company: every ticker of its scopes that is committed when it
\* commits is there afterwards under the name that its list gives it, or, if the
\* operator added it, under one that the rest of its list does; unless the operator
\* removed one of its names during the job (applyNameChange deletes an old row for a
\* new one that it read before).
JobsLoseNothing ==
  [][\A j \in Calls : phase[j] # "committed" /\ phase'[j] = "committed" =>
       \A r \in Rows : table[r].scope \in scopes[j] =>
         LET s == table[r].scope  t == table[r].ticker IN
         \/ \E S \in Tails(Effective(j)) :
              /\ S = Effective(j) \/ Added(t)
              /\ Holds(table', s, RenamedBy[S][t])
         \/ \E S \in Stretches(Effective(j)) : RenamedBy[S][t] \in removed[j]]_vars
=============================================================================
