----------------------------- MODULE Pagination -----------------------------
(***************************************************************************)
(* MarketDataPaginationService.collect, as CorporateActionsService uses it: *)
(* the loop of each call over the pages that Alpaca serves of its list of  *)
(* corporate actions, while Alpaca goes on revising that list.             *)
(*                                                                         *)
(* An action is listed on its process date, a day from 1, and the list is  *)
(* sorted by day.  A page token stands for the position of the last action *)
(* served.  Of an item the model keeps the position it was read at.        *)
(***************************************************************************)
EXTENDS Integers, FiniteSets

CONSTANTS
  Calls,        \* calls of collect
  Actions,      \* corporate actions, their ids
  Rank,         \* the place of an action's type in CORPORATE_ACTION_TYPES
  MaxDay,       \* bound: process dates
  PageSize,     \* what Alpaca serves at once
  MaxPages, MaxItems,   \* the options of each call
  MaxRevisions  \* bound: changes of the list

\* resolveMaxPages and resolveMaxItems refuse anything else.
ASSUME PaginationAssumption ==
  /\ Actions \subseteq Nat /\ IsFiniteSet(Actions)
  /\ Rank \in [Actions -> Nat]
  /\ MaxDay \in Nat \ {0} /\ PageSize \in Nat \ {0}
  /\ MaxPages \in [Calls -> Nat \ {0}] /\ MaxItems \in [Calls -> Nat \ {0}]
  /\ MaxRevisions \in Nat

VARIABLES
  listing,      \* the day of each action at Alpaca, Unlisted where it has none
  revisions,    \* changes of the list so far
  asked,        \* the query of each call: the days and actions it selects
  collecting,   \* "no", "fetching", "complete", "partial" or "failed"
  items,        \* positions of what the call has collected
  pageToken,
  seenTokens,
  pagesFetched,
  kept          \* history: selected when the call began, not revised during it

venueVars == <<listing, revisions>>
collectVars == <<asked, collecting, items, pageToken, seenTokens, pagesFetched>>
pageVars == <<listing, revisions, asked, collecting, items, pageToken,
              seenTokens, pagesFetched, kept>>

Unlisted == 0
Days == 1..MaxDay
Position == [day : Nat, id : Nat]
Start == [day |-> 0, id |-> 0]        \* an undefined page token
Query == [from : Nat, to : Nat, actions : SUBSET Actions]
Anything == [from |-> 0, to |-> 0, actions |-> {}]

Before(p, q) == p.day < q.day \/ (p.day = q.day /\ p.id < q.id)
At(a) == [day |-> listing[a], id |-> a]

\* What a query selects of the list now, and what is left of it after a token.
Selected(query) ==
  {At(a) : a \in {x \in query.actions :
     listing[x] # Unlisted /\ query.from <= listing[x] /\ listing[x] <= query.to}}
Past(c) == {p \in Selected(asked[c]) : Before(pageToken[c], p)}

PageTypeOK ==
  /\ listing \in [Actions -> Days \cup {Unlisted}]
  /\ revisions \in Nat
  /\ asked \in [Calls -> Query]
  /\ collecting \in [Calls -> {"no", "fetching", "complete", "partial", "failed"}]
  /\ items \in [Calls -> SUBSET Position]
  /\ pageToken \in [Calls -> Position]
  /\ seenTokens \in [Calls -> SUBSET Position]
  /\ pagesFetched \in [Calls -> Nat]
  /\ kept \in [Calls -> SUBSET Position]

PageInit ==
  /\ listing \in [Actions -> Days \cup {Unlisted}]
  /\ revisions = 0
  /\ asked = [c \in Calls |-> Anything]
  /\ collecting = [c \in Calls |-> "no"]
  /\ items = [c \in Calls |-> {}]
  /\ pageToken = [c \in Calls |-> Start]
  /\ seenTokens = [c \in Calls |-> {}]
  /\ pagesFetched = [c \in Calls |-> 0]
  /\ kept = [c \in Calls |-> {}]

-----------------------------------------------------------------------------
\* collect is called; the first page is asked for in the same step.
Collect(c, query) ==
  /\ collecting[c] = "no"
  /\ asked' = [asked EXCEPT ![c] = query]
  /\ collecting' = [collecting EXCEPT ![c] = "fetching"]
  /\ kept' = [kept EXCEPT ![c] = Selected(query)]
  /\ UNCHANGED <<listing, revisions, items, pageToken, seenTokens, pagesFetched>>

\* Alpaca announces, withdraws or reschedules an action.
Revise(a, day) ==
  /\ revisions < MaxRevisions /\ day # listing[a]
  /\ revisions' = revisions + 1
  /\ listing' = [listing EXCEPT ![a] = day]
  /\ kept' = [c \in Calls |->
       IF collecting[c] = "fetching" THEN {p \in kept[c] : p.id # a} ELSE kept[c]]
  /\ UNCHANGED collectVars

\* A page of Alpaca: the next PageSize positions, or all that are left.
Serves(c, page) ==
  /\ page \subseteq Past(c) /\ Cardinality(page) <= PageSize
  /\ \A p \in page, q \in Past(c) \ page : Before(p, q)
  /\ page = Past(c) \/ Cardinality(page) = PageSize

LastOf(page) == CHOOSE p \in page : \A q \in page : p = q \/ Before(q, p)

\* The first n items of a page, which normalizeCorporateActionsResponse has
\* grouped by type; the slice of collect.
Grouped(p, q) ==
  \/ Rank[p.id] < Rank[q.id]
  \/ Rank[p.id] = Rank[q.id] /\ Before(p, q)
Slice(page, n) ==
  {p \in page : Cardinality({q \in page : Grouped(q, p)}) < n}

Room(c) == MaxItems[c] - Cardinality(items[c])
Ends(c, outcome) == collecting' = [collecting EXCEPT ![c] = outcome]

\* Mutation: a page that is cut in its middle is resumed after its end.
FullPastPage(c, page) ==
  /\ collecting[c] = "fetching" /\ pagesFetched[c] < MaxPages[c]
  /\ Serves(c, page)
  /\ pagesFetched' = [pagesFetched EXCEPT ![c] = @ + 1]
  /\ items' = [items EXCEPT ![c] = @ \cup Slice(page, Room(c))]
  /\ Room(c) <= 0 \/ Slice(page, Room(c)) # page
  /\ pageToken' = [pageToken EXCEPT ![c] = IF Room(c) <= 0 THEN @ ELSE LastOf(page)]
  /\ Ends(c, "partial")
  /\ UNCHANGED <<listing, revisions, asked, seenTokens, kept>>

\* The page does not fit: what is returned names the page itself as the next.
Full(c, page) ==
  /\ collecting[c] = "fetching" /\ pagesFetched[c] < MaxPages[c]
  /\ Serves(c, page)
  /\ pagesFetched' = [pagesFetched EXCEPT ![c] = @ + 1]
  /\ items' = [items EXCEPT ![c] = @ \cup Slice(page, Room(c))]
  /\ Room(c) <= 0 \/ Slice(page, Room(c)) # page
  /\ Ends(c, "partial")
  /\ UNCHANGED <<listing, revisions, asked, pageToken, seenTokens, kept>>

Fits(c, page) ==
  /\ collecting[c] = "fetching" /\ pagesFetched[c] < MaxPages[c]
  /\ Serves(c, page)
  /\ Room(c) > 0 /\ Slice(page, Room(c)) = page
  /\ pagesFetched' = [pagesFetched EXCEPT ![c] = @ + 1]
  /\ items' = [items EXCEPT ![c] = @ \cup page]
  /\ UNCHANGED <<listing, revisions, asked, kept>>

\* A null token: nothing was left.
LastPage(c, page) ==
  /\ Fits(c, page) /\ page = Past(c)
  /\ Ends(c, "complete")
  /\ UNCHANGED <<pageToken, seenTokens>>

\* Another page may follow, and must when something is left.  maxPages may end
\* the loop; a token that Alpaca repeats ends it with an error.
NextPage(c, page, next) ==
  /\ Fits(c, page) /\ Cardinality(page) = PageSize
  /\ next \in {LastOf(page)} \cup seenTokens[c]
  /\ IF next \in seenTokens[c]
       THEN Ends(c, "failed") /\ UNCHANGED <<pageToken, seenTokens>>
       ELSE /\ pageToken' = [pageToken EXCEPT ![c] = next]
            /\ seenTokens' = [seenTokens EXCEPT ![c] = @ \cup {next}]
            /\ IF pagesFetched'[c] < MaxPages[c]
                 THEN UNCHANGED collecting ELSE Ends(c, "partial")

\* A request fails, or a record cannot be read.
CollectFails(c) ==
  /\ collecting[c] = "fetching"
  /\ Ends(c, "failed")
  /\ UNCHANGED <<listing, revisions, asked, items, pageToken, seenTokens,
                 pagesFetched, kept>>

Page(c) ==
  \/ \E page \in SUBSET Past(c) :
       \/ Full(c, page) \/ LastPage(c, page)
       \/ \E next \in page \cup seenTokens[c] : NextPage(c, page, next)
  \/ CollectFails(c)
ReviseAny == \E a \in Actions, day \in Days \cup {Unlisted} : Revise(a, day)

-----------------------------------------------------------------------------
\* A result that is not complete can be resumed: what it holds, with what comes
\* after the token it returns, leaves nothing out that Alpaca listed all along
\* (collect returns the token of the page it cut, not the one after it).
NextTokenSkipsNothing ==
  \A c \in Calls : collecting[c] = "partial" =>
    \A p \in kept[c] : p \in items[c] \/ Before(pageToken[c], p)
=============================================================================
