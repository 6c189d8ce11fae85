---------------------- MODULE CorporateActionCalendar ----------------------
(***************************************************************************)
(* Which corporate actions are effective and which are pending on the day  *)
(* of a call, and the block of new entries before a pending action that    *)
(* leaves the instrument ambiguous.  Every action of the model is selected *)
(* by a query for the one symbol asked for; for some, name changes among   *)
(* them, the record names no symbol or another one.                        *)
(***************************************************************************)
EXTENDS Pagination

CONSTANTS
  NameChanges,      \* the actions of type name_change
  Unambiguous,      \* the actions of type cash_dividend
  Unnamed,          \* the actions whose record has no symbol
  Elsewhere,        \* those whose record names another symbol
  Mixes             \* bound: what the calls may be for, together

Kinds == {"entry", "renames"}

ASSUME CalendarAssumption ==
  /\ Mixes \subseteq [Calls -> Kinds \cup {"none"}]
  /\ NameChanges \subseteq Actions /\ Unambiguous \subseteq Actions
  /\ Unnamed \subseteq Actions /\ Elsewhere \subseteq Actions \ Unnamed

VARIABLES
  today,
  kind,     \* what each call is for, "none" if it is not made
  asOf      \* the reference date of each call

calendarVars == <<today, kind, asOf>>

CalendarTypeOK ==
  /\ today \in Days
  /\ kind \in [Calls -> Kinds \cup {"none"}]
  /\ asOf \in [Calls -> Days \cup {Unlisted}]

CalendarInit ==
  /\ today = 1
  /\ kind \in Mixes
  /\ asOf = [c \in Calls |-> Unlisted]

-----------------------------------------------------------------------------
\* The update of tickers asks getEffectiveActions for the name changes up to its
\* date, an entry asks getPendingActions for everything from its date on.
QueryOf(k) ==
  IF k = "renames"
    THEN [from |-> 0, to |-> today, actions |-> NameChanges]
    ELSE [from |-> today, to |-> MaxDay, actions |-> Actions]

StartCall(c) ==
  /\ kind[c] # "none"
  /\ Collect(c, QueryOf(kind[c]))
  /\ asOf' = [asOf EXCEPT ![c] = today]
  /\ UNCHANGED <<today, kind>>

\* Bounds: the clock and the list change while a call may still see it, and the
\* list only without a job, for which the lists of the start will do.
JobToRun == \E c \in Calls : kind[c] = "renames"
ToStart == \E c \in Calls : kind[c] # "none" /\ collecting[c] = "no"
ToFetch == \E c \in Calls : collecting[c] = "fetching"

Midnight ==
  /\ (ToStart \/ ToFetch) /\ today < MaxDay
  /\ today' = today + 1
  /\ UNCHANGED <<kind, asOf, pageVars>>

Revised == (ToStart \/ ToFetch) /\ ~JobToRun /\ ReviseAny /\ UNCHANGED calendarVars

\* The services ignore whether the collection was complete.
Returned(c) == collecting[c] \in {"complete", "partial"}

Effective(c) == {p \in items[c] : p.day <= asOf[c]}

Pending(c) == {p \in items[c] : p.day > asOf[c]}

\* Mutation: a record without a symbol is about another one.
NamedAmbiguous(a) == a \notin Unambiguous \cup Elsewhere \cup Unnamed

\* isAmbiguousForEntry
Ambiguous(a) == a \notin Unambiguous \cup Elsewhere

EntryBlocked(c) == \E p \in Pending(c) : Ambiguous(p.id)

-----------------------------------------------------------------------------
\* An entry is allowed only if Alpaca listed, all the while the answer was
\* collected, no pending action that blocks it (assertEntryAllowed): unless the
\* collection stopped at its limits, of which the answer says nothing.
EntriesAvoidPending ==
  \A c \in Calls :
    /\ kind[c] = "entry" /\ collecting[c] = "complete" /\ ~EntryBlocked(c)
    => \A p \in kept[c] :
         p.day > asOf[c] => p.id \in Unambiguous \cup Elsewhere
=============================================================================
