----------------------- MODULE WatchlistRenamesProofs -----------------------
(***************************************************************************)
(* Proofs about the collection of corporate actions and the jobs that      *)
(* rename symbols by it, for any number of calls, jobs, edits, rows and    *)
(* actions, any limits and any revisions of Alpaca's list: a result that   *)
(* is cut off can be resumed, and a complete one has everything that was   *)
(* listed all along; a job keeps every company of the table, beside an     *)
(* operator who edits it; and a second run of the same list changes        *)
(* nothing.                                                                *)
(***************************************************************************)
EXTENDS WatchlistRenames, FiniteSetTheorems, WellFoundedInduction, TLAPS

-----------------------------------------------------------------------------
(***************************************************************************)
(* Positions.                                                              *)
(***************************************************************************)
LEMMA BeforeTransitive ==
  ASSUME NEW p \in Position, NEW q \in Position, NEW r \in Position,
         Before(p, q), Before(q, r)
  PROVE  Before(p, r)
BY DEF Before, Position

LEMMA BeforeTotal ==
  ASSUME NEW p \in Position, NEW q \in Position
  PROVE  p = q \/ Before(p, q) \/ Before(q, p)
<1>1. p.day = q.day /\ p.id = q.id => p = q
  BY DEF Position
<1> QED BY <1>1 DEF Before, Position

LEMMA SelectedPositions ==
  ASSUME PageTypeOK, NEW query \in Query
  PROVE  Selected(query) \subseteq Position
<1> SUFFICES ASSUME NEW a \in query.actions, listing[a] # Unlisted PROVE At(a) \in Position
  BY DEF Selected
<1> USE PaginationAssumption
<1>1. a \in Actions /\ a \in Nat /\ listing[a] \in Nat
  BY DEF Query, PageTypeOK, Days, Unlisted
<1> QED BY <1>1 DEF At, Position

\* What a revision leaves of what a query selects.
LEMMA SelectedKept ==
  ASSUME PageTypeOK, NEW query \in Query, NEW a \in Actions, NEW day,
         listing' = [listing EXCEPT ![a] = day],
         NEW p \in Selected(query), p.id # a
  PROVE  p \in Selected(query)'
<1>1. PICK x \in query.actions : /\ p = At(x) /\ listing[x] # Unlisted
                                 /\ query.from <= listing[x] /\ listing[x] <= query.to
  BY DEF Selected
<1>2. x # a /\ x \in Actions
  BY <1>1 DEF At, Query
<1>3. listing'[x] = listing[x]
  BY <1>2 DEF PageTypeOK
<1>4. p = At(x)'
  BY <1>1, <1>3 DEF At
<1> QED BY <1>1, <1>3, <1>4 DEF Selected

-----------------------------------------------------------------------------
(***************************************************************************)
(* The collection.  What a call has kept is in its items or after its page *)
(* token, as long as it fetches and when it stops at its limits.           *)
(***************************************************************************)
Covered(c) == \A p \in kept[c] : p \in items[c] \/ Before(pageToken[c], p)

Collected(c) ==
  /\ collecting[c] = "no" => items[c] = {} /\ pageToken[c] = Start
  /\ collecting[c] = "fetching" => kept[c] \subseteq Selected(asked[c]) /\ Covered(c)
  /\ collecting[c] = "partial" => Covered(c)
  /\ collecting[c] = "complete" => kept[c] \subseteq items[c]

PageInv ==
  /\ PageTypeOK /\ CalendarTypeOK
  /\ \A c \in Calls : Collected(c)

LEMMA PageStart == PageInit /\ CalendarInit => PageInv
<1> SUFFICES ASSUME PageInit, CalendarInit PROVE PageInv
  OBVIOUS
<1> USE PaginationAssumption, CalendarAssumption
<1>1. Anything \in Query /\ Start \in Position
  BY DEF Anything, Query, Start, Position
<1>2. PageTypeOK
  BY <1>1 DEF PageInit, PageTypeOK
<1>3. CalendarTypeOK
  BY DEF CalendarInit, CalendarTypeOK, Days, Unlisted
<1> QED BY <1>2, <1>3 DEF PageInv, PageInit, Collected

\* A call begins.
LEMMA CollectStep ==
  ASSUME PageInv, NEW c \in Calls, StartCall(c) PROVE PageInv'
<1> USE PaginationAssumption, CalendarAssumption DEF PageInv
<1>1. PICK query \in Query : Collect(c, query)
  <2>1. today \in Nat /\ MaxDay \in Nat
    BY DEF CalendarTypeOK, Days
  <2>2. QueryOf(kind[c]) \in Query
    BY <2>1 DEF QueryOf, Query
  <2> QED BY <2>2 DEF StartCall
<1>2. Selected(query) \subseteq Position
  BY SelectedPositions
<1>3. PageTypeOK'
  BY <1>1, <1>2 DEF Collect, PageTypeOK
<1>4. CalendarTypeOK'
  BY DEF StartCall, CalendarTypeOK
<1>5. \A p \in Selected(query) : Before(Start, p)
  <2> SUFFICES ASSUME NEW a \in query.actions, listing[a] # Unlisted
               PROVE  Before(Start, At(a))
    BY DEF Selected
  <2>1. listing[a] \in Nat /\ listing[a] > 0
    BY DEF Query, PageTypeOK, Days, Unlisted
  <2> QED BY <2>1 DEF Before, Start, At
<1>6. Selected(query)' = Selected(query)
  BY <1>1 DEF Collect, Selected, At
<1>7. Collected(c)'
  <2>1. /\ collecting'[c] = "fetching" /\ asked'[c] = query /\ kept'[c] = Selected(query)
        /\ items'[c] = {} /\ pageToken'[c] = Start
    BY <1>1 DEF Collect, Collected, PageTypeOK
  <2>2. Covered(c)'
    BY <1>5, <2>1 DEF Covered
  <2>3. Selected(asked[c])' = Selected(query)
    BY <1>1, <2>1 DEF Collect, Selected, At
  <2> QED BY <2>1, <2>2, <2>3 DEF Collected
<1>8. ASSUME NEW d \in Calls, d # c PROVE Collected(d)'
  <2>1. /\ collecting'[d] = collecting[d] /\ asked'[d] = asked[d] /\ kept'[d] = kept[d]
        /\ items'[d] = items[d] /\ pageToken'[d] = pageToken[d]
    BY <1>1, <1>8 DEF Collect, PageTypeOK
  <2>2. Selected(asked[d])' = Selected(asked[d])
    BY <1>1, <2>1 DEF Collect, Selected, At
  <2> QED BY <2>1, <2>2 DEF Collected, Covered
<1> QED BY <1>3, <1>4, <1>7, <1>8

\* Alpaca revises its list.
LEMMA RevisedStep == ASSUME PageInv, Revised PROVE PageInv'
<1> USE PaginationAssumption, CalendarAssumption DEF PageInv
<1>1. PICK a \in Actions, day \in Days \cup {Unlisted} : Revise(a, day)
  BY DEF Revised, ReviseAny
<1>2. PageTypeOK'
  BY <1>1 DEF Revise, collectVars, PageTypeOK
<1>3. CalendarTypeOK'
  BY DEF Revised, calendarVars, CalendarTypeOK
<1>4. ASSUME NEW c \in Calls PROVE Collected(c)'
  <2>1. /\ collecting'[c] = collecting[c] /\ asked'[c] = asked[c]
        /\ items'[c] = items[c] /\ pageToken'[c] = pageToken[c]
        /\ kept'[c] = IF collecting[c] = "fetching" THEN {p \in kept[c] : p.id # a}
                                                    ELSE kept[c]
    BY <1>1 DEF Revise, collectVars
  <2>2. asked[c] \in Query /\ listing' = [listing EXCEPT ![a] = day]
    BY <1>1 DEF Revise, PageTypeOK
  <2>3. collecting[c] = "fetching" => kept'[c] \subseteq Selected(asked[c])'
    <3> SUFFICES ASSUME collecting[c] = "fetching", NEW p \in kept[c], p.id # a
                 PROVE  p \in Selected(asked[c])'
      BY <2>1
    <3>1. p \in Selected(asked[c])
      BY DEF Collected
    <3> DEFINE query == asked[c]
    <3>2. query' = query
      BY <2>1
    <3> QED BY <2>1, <2>2, <3>1, SelectedKept DEF Selected, At
  <2> QED BY <2>1, <2>3 DEF Collected, Covered
<1> QED BY <1>2, <1>3, <1>4

\* A page, or the failure of its request.
LEMMA PageStep ==
  ASSUME PageInv, NEW c \in Calls, Page(c), UNCHANGED calendarVars PROVE PageInv'
<1> USE DEF PageInv
<1>1. CalendarTypeOK'
  BY DEF calendarVars, CalendarTypeOK
<1>2. UNCHANGED <<listing, revisions, asked, kept>> /\ collecting[c] = "fetching"
  BY DEF Page, Full, LastPage, NextPage, Fits, CollectFails
<1>3. \A d \in Calls : Selected(asked[d])' = Selected(asked[d])
  BY <1>2 DEF Selected, At
<1>4. Past(c) \subseteq Position
  BY SelectedPositions DEF Past, PageTypeOK
<1>5. kept[c] \subseteq Selected(asked[c]) /\ Covered(c)
  BY <1>2 DEF Collected
<1>6. \A p \in kept[c] : p \in items[c] \/ p \in Past(c)
  BY <1>5 DEF Covered, Past
\* A step of the loop, of which these are known, keeps the invariant.
<1>7. ASSUME NEW outcome \in {"fetching", "complete", "partial", "failed"},
             NEW token \in Position, NEW tokens \in SUBSET Position,
             NEW got \in SUBSET Position, NEW pages \in Nat,
             collecting' = [collecting EXCEPT ![c] = outcome],
             pageToken' = [pageToken EXCEPT ![c] = token],
             seenTokens' = [seenTokens EXCEPT ![c] = tokens],
             items' = [items EXCEPT ![c] = got],
             pagesFetched' = [pagesFetched EXCEPT ![c] = pages],
             outcome \in {"fetching", "partial"} =>
               \A p \in kept[c] : p \in got \/ Before(token, p),
             outcome = "complete" => kept[c] \subseteq got
      PROVE  PageInv'
  <2>1. PageTypeOK'
    BY <1>2, <1>7 DEF PageTypeOK
  <2>2. Collected(c)'
    BY <1>2, <1>3, <1>5, <1>7 DEF PageTypeOK, Collected, Covered
  <2>3. ASSUME NEW d \in Calls, d # c PROVE Collected(d)'
    <3>1. /\ collecting'[d] = collecting[d] /\ pageToken'[d] = pageToken[d]
          /\ items'[d] = items[d] /\ kept'[d] = kept[d]
      BY <1>2, <1>7, <2>3 DEF PageTypeOK
    <3> QED BY <1>3, <3>1 DEF Collected, Covered
  <2> QED BY <1>1, <2>1, <2>2, <2>3
<1>8. /\ collecting = [collecting EXCEPT ![c] = "fetching"]
      /\ pageToken = [pageToken EXCEPT ![c] = pageToken[c]]
      /\ seenTokens = [seenTokens EXCEPT ![c] = seenTokens[c]]
      /\ items = [items EXCEPT ![c] = items[c]]
      /\ pagesFetched = [pagesFetched EXCEPT ![c] = pagesFetched[c]]
      /\ pageToken[c] \in Position /\ seenTokens[c] \in SUBSET Position
      /\ items[c] \in SUBSET Position /\ pagesFetched[c] \in Nat /\ pagesFetched[c] + 1 \in Nat
  BY <1>2 DEF PageTypeOK
<1>9. CASE CollectFails(c)
  <2>1. /\ collecting' = [collecting EXCEPT ![c] = "failed"]
        /\ UNCHANGED <<items, pageToken, seenTokens, pagesFetched>>
    BY <1>9 DEF CollectFails, Ends
  <2>2. PageTypeOK'
    BY <1>2, <2>1 DEF PageTypeOK
  <2>3. ASSUME NEW d \in Calls PROVE Collected(d)'
    BY <1>2, <1>3, <2>1 DEF PageTypeOK, Collected, Covered
  <2> QED BY <1>1, <2>2, <2>3
<1>10. ASSUME NEW page \in SUBSET Past(c), Full(c, page) PROVE PageInv'
  <2> DEFINE got == items[c] \cup Slice(page, Room(c))
  <2>1. got \in SUBSET Position
    BY <1>4, <1>8 DEF Slice
  <2>2. \A p \in kept[c] : p \in got \/ Before(pageToken[c], p)
    BY <1>5 DEF Covered
  <2>3. /\ collecting' = [collecting EXCEPT ![c] = "partial"]
        /\ items' = [items EXCEPT ![c] = got]
        /\ pagesFetched' = [pagesFetched EXCEPT ![c] = pagesFetched[c] + 1]
        /\ UNCHANGED <<pageToken, seenTokens>>
    BY <1>10 DEF Full, Ends
  <2> HIDE DEF got
  <2> QED BY <1>7, <1>8, <2>1, <2>2, <2>3
<1>11. ASSUME NEW page \in SUBSET Past(c), LastPage(c, page) PROVE PageInv'
  <2>1. items[c] \cup page \in SUBSET Position /\ kept[c] \subseteq items[c] \cup page
    BY <1>4, <1>6, <1>8, <1>11 DEF LastPage
  <2>2. /\ collecting' = [collecting EXCEPT ![c] = "complete"]
        /\ items' = [items EXCEPT ![c] = items[c] \cup page]
        /\ pagesFetched' = [pagesFetched EXCEPT ![c] = pagesFetched[c] + 1]
        /\ UNCHANGED <<pageToken, seenTokens>>
    BY <1>11 DEF LastPage, Fits, Ends
  <2> QED BY <1>7, <1>8, <2>1, <2>2
<1>12. ASSUME NEW page \in SUBSET Past(c), NEW next \in page \cup seenTokens[c],
              NextPage(c, page, next)
       PROVE  PageInv'
  <2>1. items[c] \cup page \in SUBSET Position /\ next \in Position
    BY <1>4, <1>8
  <2>2. /\ items' = [items EXCEPT ![c] = items[c] \cup page]
        /\ pagesFetched' = [pagesFetched EXCEPT ![c] = pagesFetched[c] + 1]
    BY <1>12 DEF NextPage, Fits
  <2>3. CASE next \in seenTokens[c]
    <3>1. /\ collecting' = [collecting EXCEPT ![c] = "failed"]
          /\ UNCHANGED <<pageToken, seenTokens>>
      BY <1>12, <2>3 DEF NextPage, Ends
    <3> QED BY <1>7, <1>8, <2>1, <2>2, <3>1
  <2>4. CASE next \notin seenTokens[c]
    <3>1. next \in page /\ seenTokens[c] \cup {next} \in SUBSET Position
      BY <1>8, <2>1, <2>4
    <3>2. \A p \in kept[c] : p \in items[c] \cup page \/ Before(next, p)
      BY <1>6, <1>12, <3>1 DEF NextPage, Fits, Serves
    <3>3. /\ pageToken' = [pageToken EXCEPT ![c] = next]
          /\ seenTokens' = [seenTokens EXCEPT ![c] = seenTokens[c] \cup {next}]
      BY <1>12, <2>4 DEF NextPage
    <3>4. PICK outcome \in {"fetching", "partial"} :
            collecting' = [collecting EXCEPT ![c] = outcome]
      BY <1>8, <1>12, <2>4 DEF NextPage, Ends
    <3> QED BY <1>7, <1>8, <2>1, <2>2, <3>1, <3>2, <3>3, <3>4
  <2> QED BY <2>3, <2>4
<1> QED BY <1>9, <1>10, <1>11, <1>12 DEF Page

-----------------------------------------------------------------------------
(***************************************************************************)
(* Of some positions one is the first: the change that a job applies next  *)
(* is one of its list.                                                     *)
(***************************************************************************)
Less == {p \in Nat \X Nat : p[1] < p[2]}

LEMMA LeastNumber ==
  ASSUME NEW T \in SUBSET Nat, T # {}
  PROVE  \E x \in T : \A y \in T : x <= y
<1>1. OpToRel(<, Nat) = Less
  BY DEF OpToRel, Less
<1>2. IsWellFoundedOn(Less, Nat)
  BY <1>1, NatLessThanWellFounded
<1>3. PICK x \in T : \A y \in T : ~(<<y, x>> \in Less)
  BY <1>2, WFMin
<1>4. ASSUME NEW y \in T PROVE x <= y
  <2>1. x \in Nat /\ y \in Nat /\ (<<y, x>> \in Less <=> y < x)
    BY DEF Less
  <2> QED BY <1>3, <2>1
<1> QED BY <1>4

LEMMA FirstPosition ==
  ASSUME NEW T \in SUBSET Position, T # {}
  PROVE  \E p \in T : \A q \in T : p = q \/ Before(p, q)
<1>1. PICK p \in T : \A q \in T : p.day <= q.day
  <2> DEFINE days == {p.day : p \in T}
  <2>1. days \in SUBSET Nat /\ days # {}
    BY DEF Position
  <2>2. PICK d \in days : \A y \in days : d <= y
    <3> HIDE DEF days
    <3> QED BY <2>1, LeastNumber
  <2> QED BY <2>2
<1> DEFINE First == {q \in T : q.day = p.day}
<1>2. PICK f \in First : \A q \in First : f.id <= q.id
  <2> DEFINE ids == {q.id : q \in First}
  <2>1. ids \in SUBSET Nat /\ ids # {}
    BY DEF Position
  <2>2. PICK i \in ids : \A y \in ids : i <= y
    <3> HIDE DEF ids
    <3> QED BY <2>1, LeastNumber
  <2> QED BY <2>2
<1>3. ASSUME NEW q \in T PROVE f = q \/ Before(f, q)
  <2>1. f.day \in Nat /\ q.day \in Nat /\ f.id \in Nat /\ q.id \in Nat
    BY DEF Position
  <2>2. ~Before(q, f)
    BY <1>1, <1>2, <2>1 DEF Before
  <2> QED BY <2>2, BeforeTotal
<1> QED BY <1>3

LEMMA ChangeToApply ==
  ASSUME NEW j \in Calls, items[j] \in SUBSET Position, ToApply(j) # {}
  PROVE  Change(j) \in ToApply(j) /\ Change(j) \in Position
         /\ \A q \in ToApply(j) : Change(j) = q \/ Before(Change(j), q)
<1>1. ToApply(j) \in SUBSET Position
  BY DEF ToApply, Effective
<1> QED BY <1>1, FirstPosition DEF Change

-----------------------------------------------------------------------------
(***************************************************************************)
(* The jobs.  A job has the list that it asked for, all of it name changes; *)
(* it applies one that is left, and writes a row that it found.            *)
(***************************************************************************)
Listed(c) ==
  /\ \A p \in items[c] : p.id \in asked[c].actions
  /\ kind[c] = "renames" /\ collecting[c] # "no" => asked[c].actions = NameChanges

Runs(j) ==
  /\ phase[j] # "none" => kind[j] = "renames" /\ Returned(j)
  /\ phase[j] \in {"new", "write"} => ToApply(j) # {}
  /\ phase[j] = "write" => found[j].row \in Rows

Makes(e) ==
  edit[e].step = "found" => /\ edit[e].ticker \in Tickers
                            /\ edit[e].does # "add" => edit[e].row \in Rows

JobsInv ==
  /\ PageInv /\ RenamesTypeOK
  /\ \A c \in Calls : Listed(c) /\ Runs(c)
  /\ \A e \in Edits : Makes(e)

LEMMA NewRowType == ASSUME NEW s \in Scopes, NEW t \in Tickers PROVE NewRow(s, t) \in Row
BY DEF NewRow, Row

LEMMA JobsStart == Init => JobsInv
<1> SUFFICES ASSUME Init PROVE JobsInv
  OBVIOUS
<1> USE RenamesAssumption DEF Init
<1>1. PageInv
  BY PageStart
<1>2. table \in [Rows -> Row \cup {Absent}]
  BY NewRowType DEF RenamesInit
<1>3. RenamesTypeOK
  BY <1>2 DEF RenamesInit, RenamesTypeOK, NotMade, Nothing
<1>4. \A c \in Calls : Listed(c) /\ Runs(c)
  BY DEF PageInit, RenamesInit, Listed, Runs
<1>5. \A e \in Edits : Makes(e)
  BY DEF RenamesInit, Makes, NotMade
<1> QED BY <1>1, <1>3, <1>4, <1>5 DEF JobsInv

\* A page adds what was left of the list to the items of its call.
LEMMA PageItems ==
  ASSUME PageTypeOK, NEW c \in Calls, Page(c)
  PROVE  /\ \A p \in items'[c] : p \in items[c] \/ p \in Past(c)
         /\ \A d \in Calls \ {c} : items'[d] = items[d] /\ collecting'[d] = collecting[d]
<1> USE DEF PageTypeOK, Ends
<1> DEFINE Adds == /\ \A p \in items'[c] : p \in items[c] \/ p \in Past(c)
                   /\ \A d \in Calls \ {c} :
                        items'[d] = items[d] /\ collecting'[d] = collecting[d]
<1>1. CASE CollectFails(c)
  BY <1>1 DEF CollectFails
<1>2. ASSUME NEW page \in SUBSET Past(c), Full(c, page) PROVE Adds
  BY <1>2 DEF Full, Slice
<1>3. ASSUME NEW page \in SUBSET Past(c), LastPage(c, page) PROVE Adds
  BY <1>3 DEF LastPage, Fits
<1>4. ASSUME NEW page \in SUBSET Past(c), NEW next, NextPage(c, page, next) PROVE Adds
  BY <1>4 DEF NextPage, Fits
<1> QED BY <1>1, <1>2, <1>3, <1>4 DEF Page

\* The calendar's steps.
LEMMA CalendarStep == ASSUME JobsInv, Calendar PROVE JobsInv'
<1> USE PaginationAssumption, CalendarAssumption DEF JobsInv
<1>1. UNCHANGED <<table, edit, jobVars, removed>>
  BY DEF Calendar
<1>2. RenamesTypeOK' /\ \A e \in Edits : Makes(e)'
  BY <1>1 DEF RenamesTypeOK, Makes, jobVars
<1>3. PageTypeOK /\ CalendarTypeOK
  BY DEF PageInv
<1>4. ASSUME NEW c \in Calls, UNCHANGED <<items, asked, collecting, kind, asOf>>
      PROVE  Listed(c)' /\ Runs(c)'
  BY <1>1, <1>4 DEF Listed, Runs, jobVars, Returned, ToApply, Effective
<1>5. CASE Revised
  <2>1. UNCHANGED <<items, asked, collecting, kind, asOf>>
    BY <1>5 DEF Revised, ReviseAny, Revise, collectVars, calendarVars
  <2> QED BY <1>2, <1>4, <1>5, <2>1, RevisedStep
<1>6. CASE Midnight
  <2>1. UNCHANGED <<items, asked, collecting, kind, asOf>> /\ UNCHANGED pageVars
    BY <1>6 DEF Midnight, pageVars
  <2>2. CalendarTypeOK'
    BY <1>3, <1>6 DEF Midnight, CalendarTypeOK, Days
  <2>3. PageTypeOK'
    BY <1>3, <2>1 DEF PageTypeOK, pageVars
  <2>4. \A c \in Calls : Selected(asked[c])' = Selected(asked[c])
    BY <2>1 DEF Selected, At, pageVars
  <2>5. PageInv'
    BY <2>1, <2>2, <2>3, <2>4 DEF PageInv, Collected, Covered, pageVars
  <2> QED BY <1>2, <1>4, <2>1, <2>5
<1>7. ASSUME NEW c \in Calls, StartCall(c) PROVE JobsInv'
  <2>1. PICK query : query = QueryOf(kind[c]) /\ Collect(c, query)
    BY <1>7 DEF StartCall
  <2>2. kind' = kind /\ asOf' = [asOf EXCEPT ![c] = today] /\ items' = items
        /\ asked' = [asked EXCEPT ![c] = query]
        /\ collecting' = [collecting EXCEPT ![c] = "fetching"] /\ collecting[c] = "no"
    BY <1>7, <2>1 DEF StartCall, Collect
  <2>3. kind[c] = "renames" => query.actions = NameChanges
    BY <2>1 DEF QueryOf
  <2>4. items[c] = {} /\ phase[c] = "none"
    BY <2>2 DEF PageInv, Collected, Runs, Returned
  <2>5. ASSUME NEW d \in Calls PROVE Listed(d)' /\ Runs(d)'
    <3>1. CASE d = c
      BY <1>1, <1>3, <2>2, <2>3, <2>4, <3>1 DEF Listed, Runs, jobVars, PageTypeOK
    <3>2. CASE d # c
      <4>1. /\ asked'[d] = asked[d] /\ collecting'[d] = collecting[d] /\ asOf'[d] = asOf[d]
        BY <1>3, <2>2, <3>2 DEF PageTypeOK, CalendarTypeOK
      <4> QED BY <1>1, <2>2, <4>1 DEF Listed, Runs, jobVars, Returned, ToApply, Effective
    <3> QED BY <3>1, <3>2
  <2> QED BY <1>2, <1>7, <2>5, CollectStep
<1>8. ASSUME NEW c \in Calls, Page(c), UNCHANGED calendarVars PROVE JobsInv'
  <2>1. UNCHANGED <<asked, kind, asOf>> /\ collecting[c] = "fetching"
    BY <1>8 DEF Page, Full, LastPage, NextPage, Fits, CollectFails, calendarVars
  <2>2. \A p \in Past(c) : p.id \in asked[c].actions
    BY DEF Past, Selected, At
  <2>3. /\ \A p \in items'[c] : p \in items[c] \/ p \in Past(c)
        /\ \A d \in Calls \ {c} : items'[d] = items[d] /\ collecting'[d] = collecting[d]
    BY <1>3, <1>8, PageItems
  <2>4. phase[c] = "none"
    BY <2>1 DEF Runs, Returned
  <2>5. ASSUME NEW d \in Calls PROVE Listed(d)' /\ Runs(d)'
    <3>1. CASE d = c
      BY <1>1, <2>1, <2>2, <2>3, <2>4, <3>1 DEF Listed, Runs, jobVars
    <3>2. CASE d # c
      BY <1>1, <2>1, <2>3, <3>2 DEF Listed, Runs, jobVars, Returned, ToApply, Effective
    <3> QED BY <3>1, <3>2
  <2> QED BY <1>2, <1>8, <2>5, PageStep
<1> QED BY <1>5, <1>6, <1>7, <1>8 DEF Calendar

\* What a statement sees.
LEMMA ViewType ==
  ASSUME RenamesTypeOK, NEW j \in Calls
  PROVE  View(j) \in [Rows -> Row \cup {Absent}]
<1>1. j # None => View(j) \in [Rows -> Row \cup {Absent}]
  <2>1. /\ table \in [Rows -> Row \cup {Absent}]
        /\ writes[j] \in [Rows -> Row \cup {Absent, Untouched}]
    BY DEF RenamesTypeOK
  <2> QED BY <2>1 DEF View, Over
<1> QED BY <1>1 DEF View, RenamesTypeOK

LEMMA FoundType ==
  ASSUME NEW j, NEW s, NEW t
  PROVE  With(j, s, t) \subseteq Rows /\ FindUnique(j, s, t) \in Rows \cup {None}
BY DEF With, FindUnique

LEMMA OperatorStep == ASSUME JobsInv, NEW e \in Edits, Operator(e) PROVE JobsInv'
<1> USE RenamesAssumption DEF JobsInv
<1>1. UNCHANGED <<calendar, jobVars>>
  BY DEF Operator, Find, Create, DeleteById, UpdateStatus
<1>2. PageInv'
  <2>1. \A c \in Calls : Selected(asked[c])' = Selected(asked[c])
    BY <1>1 DEF Selected, At, calendar, pageVars
  <2> QED BY <1>1, <2>1 DEF PageInv, PageTypeOK, CalendarTypeOK, Collected, Covered,
                            calendar, pageVars, calendarVars
<1>3. \A c \in Calls : Listed(c)' /\ Runs(c)'
  BY <1>1 DEF Listed, Runs, Returned, ToApply, Effective, calendar, pageVars, calendarVars,
              jobVars
<1> DEFINE EditType == [step : {"new", "found", "done", "failed"}, does : Edit \cup {None},
                        ticker : Tickers \cup {None}, row : Rows \cup {None}]
<1>4. table \in [Rows -> Row \cup {Absent}] /\ edit \in [Edits -> EditType]
      /\ removed \in [Calls -> SUBSET Tickers]
  BY DEF RenamesTypeOK
<1>5. ASSUME table' \in [Rows -> Row \cup {Absent}], removed' \in [Calls -> SUBSET Tickers],
             edit' \in [Edits -> EditType], \A d \in Edits : Makes(d)'
      PROVE  JobsInv'
  BY <1>1, <1>2, <1>3, <1>5 DEF RenamesTypeOK, jobVars
<1>6. ASSUME NEW does \in Edit, NEW t \in Tickers, Find(e, does, t) PROVE JobsInv'
  <2>1. PICK step \in {"new", "found", "done", "failed"}, r \in Rows \cup {None} :
          /\ edit' = [edit EXCEPT ![e] =
                       [step |-> step, does |-> does, ticker |-> t, row |-> r]]
          /\ step = "found" /\ does # "add" => r # None
    BY <1>6, FoundType DEF Find
  <2>2. table' = table /\ removed' = removed
    BY <1>6 DEF Find
  <2> QED BY <1>4, <1>5, <2>1, <2>2 DEF Makes
<1>7. \A ok \in BOOLEAN : Outcome(e, ok) =>
        edit' \in [Edits -> EditType] /\ \A d \in Edits : Makes(d)'
  BY <1>4 DEF Outcome, Makes
<1>8. CASE Create(e)
  <2>1. NewRow(Watchlist, edit[e].ticker) \in Row
    BY <1>8, NewRowType DEF Create, Does, Makes, Scopes
  <2>2. table' \in [Rows -> Row \cup {Absent}]
    BY <1>4, <1>8, <2>1 DEF Create
  <2>3. \E ok \in BOOLEAN : Outcome(e, ok)
    BY <1>8 DEF Create
  <2> QED BY <1>4, <1>5, <1>7, <1>8, <2>2, <2>3 DEF Create
<1>9. CASE DeleteById(e)
  <2>1. table' \in [Rows -> Row \cup {Absent}]
    BY <1>4, <1>9 DEF DeleteById
  <2>2. edit[e].row \in Rows
    BY <1>9 DEF DeleteById, Does, Makes
  <2>3. removed' \in [Calls -> SUBSET Tickers]
    <3>1. {table[edit[e].row].ticker} \ {None} \subseteq Tickers
      BY <1>4, <2>2 DEF Row, Absent
    <3> QED BY <1>4, <1>9, <3>1 DEF DeleteById
  <2>4. (table[edit[e].row].ticker = edit[e].ticker) \in BOOLEAN
    OBVIOUS
  <2> QED BY <1>5, <1>7, <1>9, <2>1, <2>3, <2>4 DEF DeleteById
<1>10. CASE UpdateStatus(e)
  <2>1. (table[edit[e].row].ticker = edit[e].ticker) \in BOOLEAN
        /\ (edit[e].does = "activate") \in BOOLEAN
    OBVIOUS
  <2>2. table' \in [Rows -> Row \cup {Absent}]
    <3> DEFINE r == edit[e].row
               row == [table[r] EXCEPT !.active = (edit[e].does = "activate")]
    <3>1. r \in Rows
      BY <1>10 DEF UpdateStatus, Makes
    <3>2. table' = IF table[r] = Absent THEN table ELSE [table EXCEPT ![r] = row]
      BY <1>4, <1>10, <3>1 DEF UpdateStatus
    <3>3. table[r] # Absent => row \in Row
      <4>1. \A x \in Row, b \in BOOLEAN : [x EXCEPT !.active = b] \in Row
        BY DEF Row
      <4>2. table[r] # Absent => table[r] \in Row
        BY <1>4, <3>1
      <4> QED BY <2>1, <4>1, <4>2
    <3> HIDE DEF row
    <3> QED BY <1>4, <3>1, <3>2, <3>3
  <2>3. /\ \E ok \in BOOLEAN : Outcome(e, ok)
        /\ removed' = removed
    BY <1>10, <2>1 DEF UpdateStatus
  <2> QED BY <1>4, <1>5, <1>7, <2>2, <2>3
<1> QED BY <1>6, <1>8, <1>9, <1>10 DEF Operator

LEMMA JobStep == ASSUME JobsInv, NEW j \in Calls, Job(j) PROVE JobsInv'
<1> USE RenamesAssumption, CalendarAssumption DEF JobsInv
<1>1. UNCHANGED <<calendar, edit, removed>>
  BY DEF Job, Begin, FindOld, FindNew, Write, Commit, RollBack
<1>2. PageInv'
  <2>1. \A c \in Calls : Selected(asked[c])' = Selected(asked[c])
    BY <1>1 DEF Selected, At, calendar, pageVars
  <2> QED BY <1>1, <2>1 DEF PageInv, PageTypeOK, CalendarTypeOK, Collected, Covered,
                            calendar, pageVars, calendarVars
<1>3. (\A c \in Calls : Listed(c)') /\ (\A e \in Edits : Makes(e)')
  BY <1>1 DEF Listed, Makes, calendar, pageVars, calendarVars
<1>4. \A c \in Calls : /\ Effective(c)' = Effective(c) /\ kind'[c] = kind[c]
                       /\ Returned(c)' = Returned(c)
  BY <1>1 DEF Effective, Returned, calendar, pageVars, calendarVars
<1> DEFINE Phase == {"none", "old", "new", "write", "committed", "rolledBack"}
           Writes == [Rows -> Row \cup {Absent, Untouched}]
           FoundRows == [row : Rows \cup {None}, new : Rows \cup {None}]
<1>5. /\ table \in [Rows -> Row \cup {Absent}] /\ phase \in [Calls -> Phase]
      /\ scopes \in [Calls -> SUBSET Scopes] /\ applied \in [Calls -> SUBSET Position]
      /\ todo \in [Calls -> SUBSET (Rows \X Scopes)] /\ found \in [Calls -> FoundRows]
      /\ writes \in [Calls -> Writes]
  BY DEF RenamesTypeOK
<1>6. /\ scopes[j] \in SUBSET Scopes /\ applied[j] \in SUBSET Position
      /\ todo[j] \in SUBSET (Rows \X Scopes) /\ found[j] \in FoundRows /\ writes[j] \in Writes
  BY <1>5
\* A step of the job, of which these are known, keeps the invariant.
<1>7. ASSUME table' \in [Rows -> Row \cup {Absent}], phase' \in [Calls -> Phase],
             scopes' \in [Calls -> SUBSET Scopes], applied' \in [Calls -> SUBSET Position],
             todo' \in [Calls -> SUBSET (Rows \X Scopes)],
             found' \in [Calls -> FoundRows], writes' \in [Calls -> Writes],
             \A c \in Calls \ {j} : phase'[c] = phase[c] /\ applied'[c] = applied[c]
                                    /\ found'[c] = found[c],
             kind[j] = "renames" /\ Returned(j),
             phase'[j] \in {"new", "write"} => Effective(j) \ applied'[j] # {},
             phase'[j] = "write" => found'[j].row \in Rows
      PROVE  JobsInv'
  <2>1. RenamesTypeOK'
    BY <1>1, <1>5, <1>7 DEF RenamesTypeOK
  <2>2. Runs(j)'
    BY <1>4, <1>5, <1>7 DEF Runs, ToApply
  <2>3. ASSUME NEW c \in Calls, c # j PROVE Runs(c)'
    BY <1>4, <1>7, <2>3 DEF Runs, ToApply
  <2> QED BY <1>2, <1>3, <2>1, <2>2, <2>3
<1>8. phase[j] # "none" => kind[j] = "renames" /\ Returned(j)
  BY DEF Runs
<1>9. ASSUME ToApply(j) # {}, Applied(j)
      PROVE  /\ applied' \in [Calls -> SUBSET Position]
             /\ \A c \in Calls \ {j} : applied'[c] = applied[c]
  <2>1. applied[j] \cup {Change(j)} \in SUBSET Position
    BY <1>6, <1>9, ChangeToApply DEF PageInv, PageTypeOK
  <2> QED BY <1>5, <1>9, <2>1 DEF Applied
<1>10. CASE \E s \in {{Watchlist}, Strategies} : Begin(j, s)
  <2>1. PICK s \in {{Watchlist}, Strategies} : Begin(j, s)
    BY <1>10
  <2>2. s \in SUBSET Scopes
    BY DEF Scopes
  <2> QED BY <1>5, <1>6, <1>7, <2>1, <2>2 DEF Begin
<1>11. CASE FindOld(j)
  <2> DEFINE olds == IF Old[Change(j).id] = New[Change(j).id] THEN {} ELSE OldRows(j)
  <2>1. olds \in SUBSET (Rows \X Scopes)
    <3>1. \A s \in scopes[j] : With(j, s, Old[Change(j).id]) \X {s} \subseteq Rows \X Scopes
      BY <1>6, FoundType
    <3> QED BY <3>1 DEF OldRows
  <2>2. /\ phase[j] = "old" /\ ToApply(j) # {}
        /\ todo' = [todo EXCEPT ![j] = olds]
        /\ IF olds = {} THEN Applied(j) /\ UNCHANGED phase
           ELSE phase' = [phase EXCEPT ![j] = "new"] /\ UNCHANGED applied
        /\ UNCHANGED <<table, scopes, found, writes>>
    BY <1>11 DEF FindOld
  <2> HIDE DEF olds
  <2>3. todo' \in [Calls -> SUBSET (Rows \X Scopes)]
    BY <1>5, <2>1, <2>2
  <2>4. CASE olds = {}
    <3>1. phase' = phase /\ Applied(j)
      BY <2>2, <2>4
    <3> QED BY <1>5, <1>7, <1>8, <1>9, <2>2, <2>3, <3>1
  <2>5. CASE olds # {}
    <3>1. phase' = [phase EXCEPT ![j] = "new"] /\ applied' = applied
      BY <2>2, <2>5
    <3>2. Effective(j) \ applied'[j] # {}
      BY <2>2, <3>1 DEF ToApply
    <3> QED BY <1>5, <1>7, <1>8, <2>2, <2>3, <3>1, <3>2
  <2> QED BY <2>4, <2>5
<1>12. CASE \E r \in Rows, s \in Scopes : FindNew(j, r, s)
  <2>1. PICK r \in Rows, s \in Scopes : FindNew(j, r, s)
    BY <1>12
  <2> DEFINE fo == [row |-> r, new |-> FindUnique(j, s, New[Change(j).id])]
             to == todo[j] \ {<<r, s>>}
  <2>2. fo \in FoundRows /\ fo.row \in Rows
    BY FoundType
  <2>3. to \in SUBSET (Rows \X Scopes)
    BY <1>6
  <2>4. /\ phase[j] = "new" /\ phase' = [phase EXCEPT ![j] = "write"]
        /\ found' = [found EXCEPT ![j] = fo] /\ todo' = [todo EXCEPT ![j] = to]
        /\ UNCHANGED <<table, scopes, applied, writes>>
    BY <2>1 DEF FindNew
  <2> HIDE DEF fo, to
  <2>5. Effective(j) \ applied[j] # {}
    BY <2>4 DEF Runs, ToApply
  <2> QED BY <1>5, <1>6, <1>7, <1>8, <2>2, <2>3, <2>4, <2>5
<1>13. ASSUME NEW how \in {"committed", "rolledBack"}, Ended(j, how), phase[j] # "none",
              UNCHANGED <<scopes, applied, todo, found>>,
              table' \in [Rows -> Row \cup {Absent}]
       PROVE  JobsInv'
  <2>1. [r \in Rows |-> Untouched] \in Writes
    OBVIOUS
  <2> QED BY <1>5, <1>7, <1>8, <1>13, <2>1 DEF Ended
<1>14. CASE Commit(j)
  BY <1>5, <1>13, <1>14, ViewType DEF Commit
<1>15. CASE RollBack(j)
  BY <1>5, <1>13, <1>15 DEF RollBack, InTransaction
<1>16. CASE Write(j)
  <2> DEFINE r == found[j].row
             row == View(j)[r]
             renamed == [row EXCEPT !.ticker = New[Change(j).id]]
  <2>1. phase[j] = "write" /\ r \in Rows /\ ToApply(j) # {} /\ Effective(j) \ applied[j] # {}
    BY <1>16 DEF Write, Runs, ToApply
  <2>2. row \in Row \cup {Absent}
    BY <2>1, ViewType
  <2>3. New[Change(j).id] \in Tickers
    <3>1. Change(j) \in items[j]
      BY <2>1, ChangeToApply DEF PageInv, PageTypeOK, ToApply, Effective
    <3>2. Change(j).id \in NameChanges
      BY <1>8, <2>1, <3>1 DEF Listed, Returned
    <3> QED BY <3>2
  <2>4. row # Absent => renamed \in Row
    BY <2>2, <2>3 DEF Row
  <2>5. UNCHANGED <<table, scopes, todo, found>>
    BY <1>16 DEF Write
  <2>6. ASSUME NEW to \in Row \cup {Absent}, Wrote(j, to) PROVE JobsInv'
    <3> DEFINE wr == [writes[j] EXCEPT ![r] = to]
    <3>1. wr \in Writes /\ writes' = [writes EXCEPT ![j] = wr]
      BY <1>5, <1>6, <2>1, <2>6 DEF Wrote
    <3> HIDE DEF wr
    <3>2. CASE todo[j] = {}
      <4>1. phase' = [phase EXCEPT ![j] = "old"] /\ Applied(j)
        BY <2>6, <3>2 DEF Wrote
      <4>2. /\ applied' \in [Calls -> SUBSET Position]
            /\ \A c \in Calls \ {j} : applied'[c] = applied[c]
        BY <1>9, <2>1, <4>1
      <4> QED BY <1>5, <1>7, <1>8, <2>1, <2>5, <3>1, <4>1, <4>2
    <3>3. CASE todo[j] # {}
      <4>1. phase' = [phase EXCEPT ![j] = "new"] /\ UNCHANGED applied
        BY <2>6, <3>3 DEF Wrote
      <4> QED BY <1>5, <1>7, <1>8, <2>1, <2>5, <3>1, <3>3, <4>1
    <3> QED BY <3>2, <3>3
  <2>7. CASE \E how \in {"committed", "rolledBack"} : Ended(j, how) /\ UNCHANGED applied
    BY <1>5, <1>13, <2>1, <2>5, <2>7
  <2>8. \/ \E how \in {"committed", "rolledBack"} : Ended(j, how) /\ UNCHANGED applied
        \/ Wrote(j, Absent)
        \/ row # Absent /\ Wrote(j, renamed)
    BY <1>16 DEF Write
  <2> HIDE DEF renamed
  <2> QED BY <2>4, <2>6, <2>7, <2>8
<1> QED BY <1>10, <1>11, <1>12, <1>14, <1>15, <1>16 DEF Job

LEMMA JobsStep == JobsInv /\ [Next]_vars => JobsInv'
<1>1. JobsInv /\ Next => JobsInv'
  BY CalendarStep, OperatorStep, JobStep DEF Next
<1>2. JobsInv /\ UNCHANGED vars => JobsInv'
  <2> SUFFICES ASSUME JobsInv, UNCHANGED vars PROVE JobsInv'
    OBVIOUS
  <2> USE DEF vars, calendar, pageVars, calendarVars, jobVars
  <2>1. \A c \in Calls : Selected(asked[c])' = Selected(asked[c])
    BY DEF Selected, At
  <2>2. PageInv'
    BY <2>1 DEF JobsInv, PageInv, PageTypeOK, CalendarTypeOK, Collected, Covered
  <2>3. RenamesTypeOK'
    BY DEF JobsInv, RenamesTypeOK
  <2>4. \A c \in Calls : Listed(c)' /\ Runs(c)'
    BY DEF JobsInv, Listed, Runs, Returned, ToApply, Effective
  <2> QED BY <2>2, <2>3, <2>4 DEF JobsInv, Makes
<1> QED BY <1>1, <1>2

LEMMA JobsInvariant == Spec => []JobsInv
  BY JobsStart, JobsStep, PTL DEF Spec

-----------------------------------------------------------------------------
\* The pages, the rows and the jobs have the types declared.
THEOREM TypeCorrect == Spec => []TypeOK
<1>1. JobsInv => TypeOK
  BY DEF JobsInv, PageInv, TypeOK
<1> QED BY <1>1, JobsInvariant, PTL

\* What collect cut off can be resumed: the token it returns skips nothing that
\* Alpaca listed all along, whatever the limits and the revisions of the list.
THEOREM ResumesWithoutGap == Spec => []NextTokenSkipsNothing
<1>1. JobsInv => NextTokenSkipsNothing
  BY DEF JobsInv, PageInv, Collected, Covered, NextTokenSkipsNothing
<1> QED BY <1>1, JobsInvariant, PTL

\* No entry before an ambiguous action: where the answer is complete, it blocks
\* for every pending action that Alpaca listed while it was collected.
THEOREM EntryWaits == Spec => []EntriesAvoidPending
<1>1. JobsInv => EntriesAvoidPending
  BY DEF JobsInv, PageInv, Collected, EntriesAvoidPending, EntryBlocked, Pending, Ambiguous
<1> QED BY <1>1, JobsInvariant, PTL

-----------------------------------------------------------------------------
(***************************************************************************)
(* What changes make of a ticker.  The recursion of RenamedBy over finite  *)
(* sets of changes defines a function: the least relation that its clauses *)
(* describe relates each set to one value.                                 *)
(***************************************************************************)
LEMMA BeforeIrreflexive ==
  ASSUME NEW p \in Position, NEW q \in Position, Before(p, q)
  PROVE  p # q /\ ~Before(q, p)
BY DEF Before, Position

LEMMA LastExists ==
  ASSUME NEW S \in SUBSET Position, IsFiniteSet(S), S # {}
  PROVE  LastOf(S) \in S /\ \A q \in S : LastOf(S) = q \/ Before(q, LastOf(S))
<1> DEFINE later(p) == {q \in S : Before(p, q)}
           sizes == {Cardinality(later(p)) : p \in S}
<1>1. \A p \in S : IsFiniteSet(later(p)) /\ Cardinality(later(p)) \in Nat
  <2> SUFFICES ASSUME NEW p \in S PROVE IsFiniteSet(later(p)) /\ Cardinality(later(p)) \in Nat
    OBVIOUS
  <2>1. later(p) \in SUBSET S
    OBVIOUS
  <2> HIDE DEF later
  <2> QED BY <2>1, FS_Subset, FS_CardinalityType
<1>2. PICK p \in S : \A q \in S : Cardinality(later(p)) <= Cardinality(later(q))
  <2>1. sizes \in SUBSET Nat /\ sizes # {}
    BY <1>1
  <2>2. PICK n \in sizes : \A y \in sizes : n <= y
    <3> HIDE DEF sizes
    <3> QED BY <2>1, LeastNumber
  <2> QED BY <2>2
<1>3. ASSUME NEW q \in S PROVE ~Before(p, q)
  <2> SUFFICES ASSUME Before(p, q) PROVE FALSE
    OBVIOUS
  <2>1. later(q) \in SUBSET later(p)
    BY BeforeTransitive
  <2>2. q \in later(p) /\ q \notin later(q)
    BY BeforeIrreflexive
  <2> HIDE DEF later
  <2>3. Cardinality(later(q)) <= Cardinality(later(p))
        /\ Cardinality(later(q)) # Cardinality(later(p))
    BY <1>1, <2>1, <2>2, FS_Subset
  <2> QED BY <1>1, <1>2, <2>3
<1>4. p \in S /\ \A q \in S : p = q \/ Before(q, p)
  BY <1>3, BeforeTotal
<1> QED BY <1>4 DEF LastOf

LEMMA LastIs ==
  ASSUME NEW S \in SUBSET Position, IsFiniteSet(S), NEW p \in S,
         \A q \in S : q = p \/ Before(q, p)
  PROVE  LastOf(S) = p
BY LastExists, BeforeIrreflexive

LEMMA FiniteChangesTypes ==
  /\ {} \in FiniteChanges
  /\ \A S \in FiniteChanges : /\ S \in SUBSET Position /\ IsFiniteSet(S)
                              /\ \A p \in S : p.id \in NameChanges
  /\ \A S \in FiniteChanges : \A T \in SUBSET S : T \in FiniteChanges
  /\ \A S \in FiniteChanges : \A p \in Position :
       p.id \in NameChanges => S \cup {p} \in FiniteChanges
<1>1. NameChanges \subseteq Nat
  BY PaginationAssumption, CalendarAssumption
<1> QED BY <1>1, FS_EmptySet, FS_Subset, FS_AddElement DEF FiniteChanges, Position

\* The clauses of the recursion.
Same == [t \in Tickers |-> t]
Then(S, f) ==
  [t \in Tickers |-> IF f[t] = Old[LastOf(S).id] THEN New[LastOf(S).id] ELSE f[t]]
Namings == [Tickers -> Tickers]
Follows(R) ==
  /\ <<{}, Same>> \in R
  /\ \A S \in FiniteChanges \ {{}}, f \in Namings :
       <<S \ {LastOf(S)}, f>> \in R => <<S, Then(S, f)>> \in R
Least == {x \in FiniteChanges \X Namings :
            \A R \in SUBSET (FiniteChanges \X Namings) : Follows(R) => x \in R}

LEMMA Shorter ==
  ASSUME NEW S \in FiniteChanges, S # {}
  PROVE  /\ LastOf(S) \in S
         /\ S \ {LastOf(S)} \in FiniteChanges
         /\ Cardinality(S) \in Nat /\ Cardinality(S \ {LastOf(S)}) \in Nat
         /\ Cardinality(S \ {LastOf(S)}) < Cardinality(S)
         /\ \A f \in Namings : Then(S, f) \in Namings
<1>1. LastOf(S) \in S /\ IsFiniteSet(S)
  BY FiniteChangesTypes, LastExists
<1>2. S \ {LastOf(S)} \in FiniteChanges
  BY FiniteChangesTypes
<1>3. /\ IsFiniteSet(S \ {LastOf(S)})
      /\ Cardinality(S \ {LastOf(S)}) = Cardinality(S) - 1
  BY <1>1, FS_RemoveElement
<1>4. Cardinality(S) \in Nat /\ Cardinality(S \ {LastOf(S)}) \in Nat
  BY <1>1, <1>3, FS_CardinalityType
<1>5. New[LastOf(S).id] \in Tickers
  BY <1>1, FiniteChangesTypes, RenamesAssumption
<1>6. \A f \in Namings : Then(S, f) \in Namings
  BY <1>5 DEF Then, Namings
<1> QED BY <1>1, <1>2, <1>3, <1>4, <1>6

LEMMA LeastFollows == Follows(Least)
<1>1. <<{}, Same>> \in Least
  BY FiniteChangesTypes DEF Least, Follows, Same, Namings
<1>2. ASSUME NEW S \in FiniteChanges \ {{}}, NEW f \in Namings,
             <<S \ {LastOf(S)}, f>> \in Least
      PROVE  <<S, Then(S, f)>> \in Least
  BY <1>2, Shorter DEF Least, Follows
<1> QED BY <1>1, <1>2 DEF Follows

\* What is related to a set, by the clause for that set.
LEMMA LeastOnly ==
  ASSUME NEW S \in FiniteChanges, NEW f \in Namings, <<S, f>> \in Least,
         IF S = {} THEN f # Same
         ELSE \A g \in Namings : <<S \ {LastOf(S)}, g>> \in Least => f # Then(S, g)
  PROVE  FALSE
<1> DEFINE R == Least \ {<<S, f>>}
<1>1. R \in SUBSET (FiniteChanges \X Namings)
  BY DEF Least
<1>2. Follows(R)
  <2>1. <<{}, Same>> \in R
    BY LeastFollows DEF Follows
  <2>2. ASSUME NEW T \in FiniteChanges \ {{}}, NEW g \in Namings, <<T \ {LastOf(T)}, g>> \in R
        PROVE  <<T, Then(T, g)>> \in R
    BY <2>2, LeastFollows DEF Follows
  <2> QED BY <2>1, <2>2 DEF Follows
<1> QED BY <1>1, <1>2 DEF Least

LEMMA LeastIsFunction ==
  \A S \in FiniteChanges : /\ \E f \in Namings : <<S, f>> \in Least
                           /\ \A f, g \in Namings : <<S, f>> \in Least /\ <<S, g>> \in Least => f = g
<1> DEFINE Ok(S) == /\ \E f \in Namings : <<S, f>> \in Least
                    /\ \A f, g \in Namings : <<S, f>> \in Least /\ <<S, g>> \in Least => f = g
           Bad == {S \in FiniteChanges : ~Ok(S)}
           sizes == {Cardinality(S) : S \in Bad}
<1> SUFFICES ASSUME Bad # {} PROVE FALSE
  OBVIOUS
<1>1. sizes \in SUBSET Nat /\ sizes # {}
  BY FiniteChangesTypes, FS_CardinalityType
<1>2. PICK S \in Bad : \A T \in Bad : Cardinality(S) <= Cardinality(T)
  <2>1. PICK n \in sizes : \A y \in sizes : n <= y
    <3> HIDE DEF sizes
    <3> QED BY <1>1, LeastNumber
  <2> QED BY <2>1
<1>3. CASE S = {}
  <2>1. Same \in Namings /\ <<S, Same>> \in Least
    BY <1>3, LeastFollows DEF Follows, Same, Namings
  <2>2. \A f \in Namings : <<S, f>> \in Least => f = Same
    BY <1>3, LeastOnly
  <2> QED BY <2>1, <2>2
<1>4. CASE S # {}
  <2> DEFINE T == S \ {LastOf(S)}
  <2>1. T \in FiniteChanges /\ Ok(T)
    <3>1. T \in FiniteChanges /\ Cardinality(T) < Cardinality(S)
          /\ Cardinality(T) \in Nat /\ Cardinality(S) \in Nat
      BY <1>4, Shorter
    <3>2. ~(Cardinality(S) <= Cardinality(T))
      <4> HIDE DEF T
      <4> QED BY <3>1
    <3>3. T \notin Bad
      <4> HIDE DEF Bad, T
      <4> QED BY <1>2, <3>2
    <3> QED BY <3>1, <3>3
  <2>2. PICK g \in Namings : <<T, g>> \in Least
    BY <2>1
  <2>3. <<S, Then(S, g)>> \in Least /\ Then(S, g) \in Namings
    BY <1>4, <2>2, Shorter, LeastFollows DEF Follows
  <2>4. ASSUME NEW f \in Namings, <<S, f>> \in Least PROVE f = Then(S, g)
    <3>1. \A h \in Namings : <<T, h>> \in Least => h = g
      BY <2>1, <2>2
    <3> QED BY <1>4, <2>4, <3>1, LeastOnly
  <2> QED BY <2>3, <2>4
<1> QED BY <1>3, <1>4

LEMMA RenamedByExists ==
  RenamedBy = [S \in FiniteChanges |-> 
    IF S = {} THEN [t \in Tickers |-> t]
    ELSE [t \in Tickers |->
          IF RenamedBy[S \ {LastOf(S)}][t] = Old[LastOf(S).id]
            THEN New[LastOf(S).id] ELSE RenamedBy[S \ {LastOf(S)}][t]]]
<1> DEFINE value(S) == CHOOSE f \in Namings : <<S, f>> \in Least
           F == [S \in FiniteChanges |-> value(S)]
<1>1. \A S \in FiniteChanges : F[S] \in Namings /\ <<S, F[S]>> \in Least
  BY LeastIsFunction
<1>2. F[{}] = [t \in Tickers |-> t]
  BY <1>1, LeastIsFunction, LeastFollows, FiniteChangesTypes DEF Follows, Same, Namings
<1>3. ASSUME NEW S \in FiniteChanges, S # {} PROVE F[S] = Then(S, F[S \ {LastOf(S)}])
  <2>1. S \ {LastOf(S)} \in FiniteChanges
    BY <1>3, Shorter
  <2>2. <<S, Then(S, F[S \ {LastOf(S)}])>> \in Least
    BY <1>1, <1>3, <2>1, LeastFollows DEF Follows
  <2> QED BY <1>1, <1>3, <2>1, <2>2, Shorter, LeastIsFunction
<1>4. F = [S \in FiniteChanges |-> F[S]]
  <2> HIDE DEF value
  <2> QED OBVIOUS
<1> HIDE DEF F
<1>5. F = [S \in FiniteChanges |-> IF S = {} THEN [t \in Tickers |-> t]
                                   ELSE Then(S, F[S \ {LastOf(S)}])]
  <2> DEFINE G == [S \in FiniteChanges |-> IF S = {} THEN [t \in Tickers |-> t]
                                           ELSE Then(S, F[S \ {LastOf(S)}])]
  <2>1. \A S \in FiniteChanges :
          G[S] = IF S = {} THEN [t \in Tickers |-> t] ELSE Then(S, F[S \ {LastOf(S)}])
    OBVIOUS
  <2>2. G = [S \in FiniteChanges |-> G[S]]
    OBVIOUS
  <2>3. \A S \in FiniteChanges : F[S] = G[S]
    <3> HIDE DEF G
    <3> QED BY <1>2, <1>3, <2>1
  <2>4. F = G
    <3> HIDE DEF G
    <3> QED BY <1>4, <2>2, <2>3
  <2> QED BY <2>4 DEF G
<1> QED BY <1>5 DEF RenamedBy, Then

\* Without changes a ticker is what it was; the last change renames what the
\* others have made of it.
LEMMA RenamedByNothing == \A t \in Tickers : RenamedBy[{}][t] = t
BY RenamedByExists, FiniteChangesTypes

LEMMA RenamedByOneMore ==
  ASSUME NEW S \in FiniteChanges, NEW p \in Position, p.id \in NameChanges,
         \A q \in S : Before(q, p), NEW t \in Tickers
  PROVE  /\ S \cup {p} \in FiniteChanges
         /\ RenamedBy[S \cup {p}][t] =
              IF RenamedBy[S][t] = Old[p.id] THEN New[p.id] ELSE RenamedBy[S][t]
<1>1. S \cup {p} \in FiniteChanges /\ S \cup {p} # {}
  BY FiniteChangesTypes
<1>2. LastOf(S \cup {p}) = p
  BY <1>1, FiniteChangesTypes, LastIs
<1>3. (S \cup {p}) \ {p} = S
  BY BeforeIrreflexive
<1>4. RenamedBy[S \cup {p}] = [u \in Tickers |->
          IF RenamedBy[(S \cup {p}) \ {LastOf(S \cup {p})}][u] = Old[LastOf(S \cup {p}).id]
            THEN New[LastOf(S \cup {p}).id]
            ELSE RenamedBy[(S \cup {p}) \ {LastOf(S \cup {p})}][u]]
  BY <1>1, RenamedByExists
<1> QED BY <1>1, <1>2, <1>3, <1>4

LEMMA RenamedByType ==
  ASSUME NEW S \in FiniteChanges, NEW t \in Tickers
  PROVE  RenamedBy[S][t] \in Tickers
<1> DEFINE Bad == {X \in FiniteChanges : RenamedBy[X] \notin Namings}
           sizes == {Cardinality(X) : X \in Bad}
<1>1. sizes \in SUBSET Nat
  BY FiniteChangesTypes, FS_CardinalityType
<1>2. Bad = {}
  <2> SUFFICES ASSUME Bad # {} PROVE FALSE
    OBVIOUS
  <2>1. PICK n \in sizes : \A y \in sizes : n <= y
    <3>1. sizes # {}
      OBVIOUS
    <3> HIDE DEF sizes
    <3> QED BY <1>1, <3>1, LeastNumber
  <2>2. PICK X \in Bad : \A Y \in Bad : Cardinality(X) <= Cardinality(Y)
    BY <2>1
  <2>3. X # {}
    BY RenamedByExists, FiniteChangesTypes DEF Namings
  <2>4. RenamedBy[X] = Then(X, RenamedBy[X \ {LastOf(X)}])
    BY <2>3, RenamedByExists DEF Then
  <2>5. X \ {LastOf(X)} \notin Bad
    BY <2>2, <2>3, Shorter
  <2> QED BY <2>3, <2>4, <2>5, Shorter
<1> QED BY <1>2 DEF Namings

-----------------------------------------------------------------------------
(***************************************************************************)
(* Parts of a list.                                                        *)
(***************************************************************************)
LEMMA TailsOf ==
  ASSUME NEW D \in SUBSET Position
  PROVE  {} \in Tails(D) /\ D \in Tails(D)
BY DEF Tails

LEMMA TailOneMore ==
  ASSUME NEW D \in SUBSET Position, NEW p \in Position, \A q \in D : Before(q, p),
         NEW S \in Tails(D)
  PROVE  S \cup {p} \in Tails(D \cup {p})
BY DEF Tails

\* A tail without the last change is empty.
LEMMA TailHasLast ==
  ASSUME NEW D \in SUBSET Position, NEW p \in Position, \A q \in D : Before(q, p),
         NEW S \in Tails(D \cup {p}), S # {}
  PROVE  p \in S
<1> SUFFICES ASSUME p \notin S PROVE FALSE
  OBVIOUS
<1>1. PICK x \in S : x \in D
  BY DEF Tails
<1>2. Before(p, x)
  BY <1>1 DEF Tails
<1> QED BY <1>1, <1>2, BeforeIrreflexive

LEMMA TailIsStretch ==
  ASSUME NEW E \in SUBSET Position, NEW D \in SUBSET E,
         \A x \in D, y \in E \ D : Before(x, y), NEW S \in Tails(D)
  PROVE  S \in Stretches(E)
<1> SUFFICES ASSUME NEW p \in S, NEW r \in S, NEW q \in E, Before(p, q), Before(q, r)
             PROVE  q \in S
  BY DEF Stretches, Tails
<1>1. p \in D /\ r \in D
  BY DEF Tails
<1>2. q \in D
  BY <1>1, BeforeIrreflexive
<1>3. q \notin S => Before(q, p)
  BY <1>2 DEF Tails
<1> QED BY <1>1, <1>3, BeforeIrreflexive

\* The last change of a list leaves nobody its old name, unless the operator added
\* the ticker after it.
LEMMA NotTheOldName ==
  ASSUME NEW D \in FiniteChanges, NEW p \in Position, p.id \in NameChanges,
         \A q \in D : Before(q, p), Old[p.id] # New[p.id],
         NEW S \in Tails(D \cup {p}), NEW t \in Tickers, RenamedBy[S][t] = Old[p.id]
  PROVE  S = {}
<1> SUFFICES ASSUME S # {} PROVE FALSE
  OBVIOUS
<1>1. D \in SUBSET Position /\ D \cup {p} \in FiniteChanges
  BY FiniteChangesTypes
<1>2. p \in S
  BY <1>1, TailHasLast
<1>3. S \ {p} \in FiniteChanges /\ \A q \in S \ {p} : Before(q, p)
  BY <1>1, FiniteChangesTypes DEF Tails
<1>4. (S \ {p}) \cup {p} = S
  BY <1>2
<1>5. RenamedBy[S][t] = IF RenamedBy[S \ {p}][t] = Old[p.id] THEN New[p.id]
                        ELSE RenamedBy[S \ {p}][t]
  <2> DEFINE T == S \ {p}
  <2>1. T \in FiniteChanges /\ \A q \in T : Before(q, p)
    BY <1>3
  <2>2. T \cup {p} = S
    BY <1>4
  <2> HIDE DEF T
  <2>3. RenamedBy[T \cup {p}][t] = IF RenamedBy[T][t] = Old[p.id] THEN New[p.id]
                                   ELSE RenamedBy[T][t]
    BY <2>1, RenamedByOneMore
  <2> QED BY <2>2, <2>3 DEF T
<1> QED BY <1>5

-----------------------------------------------------------------------------
(***************************************************************************)
(* The transactions.  One job at a time is busy, so that what a            *)
(* transaction sees changes by its own writes and by the operator's edits  *)
(* of rows that it has not written.                                        *)
(***************************************************************************)
Busy(j) ==
  collecting[j] \notin {"no", "failed"} /\ phase[j] \notin {"committed", "rolledBack"}
OneJob == \A i, j \in Jobs : Busy(i) /\ Busy(j) => i = j

\* The list of a job, and the changes it has applied, the first ones.
InOrder(j) ==
  /\ IsFiniteSet(items[j])
  /\ applied[j] \subseteq Effective(j)
  /\ \A p \in applied[j], q \in ToApply(j) : Before(p, q)
Prepared(j) ==
  phase[j] = "none" => applied[j] = {} /\ writes[j] = [r \in Rows |-> Untouched]

\* The rows that it handles still have the old ticker, or the operator deleted them,
\* whose edit knows their ids.
Applying(j) == phase[j] \in {"new", "write"}
Has(row, s, t) == row.scope = s /\ row.ticker = t
Known(r) == \E e \in Edits : edit[e].row = r
OldOrDeleted(j, r, s) ==
  Has(View(j)[r], s, Old[Change(j).id]) \/ (View(j)[r] = Absent /\ Known(r))
Handling(j) == Applying(j) =>
  /\ Old[Change(j).id] # New[Change(j).id]
  /\ \A r \in Rows, s \in Scopes : <<r, s>> \in todo[j] =>
       /\ s \in scopes[j] /\ OldOrDeleted(j, r, s)
       /\ \A q \in Scopes : <<r, q>> \in todo[j] => q = s
  /\ phase[j] = "write" =>
       /\ \A s \in Scopes : <<found[j].row, s>> \notin todo[j]
       /\ \E s \in scopes[j] :
            /\ OldOrDeleted(j, found[j].row, s)
            /\ found[j].new # None =>
                 \/ Has(View(j)[found[j].new], s, New[Change(j).id])
                 \/ New[Change(j).id] \in removed[j]

\* What becomes of a company: the operator removed one of its names; or a row has
\* the name it has by the changes done; or one that is still to be handled has it.
Done(j) == IF Applying(j) THEN applied[j] \cup {Change(j)} ELSE applied[j]
Handles(j, r) ==
  (\E s \in Scopes : <<r, s>> \in todo[j]) \/ (phase[j] = "write" /\ found[j].row = r)
Names(D, t) == {RenamedBy[S][t] : S \in {X \in Tails(D) : X = D \/ Added(t)}}
Lost(j, t) == \E S \in Stretches(Effective(j)) : RenamedBy[S][t] \in removed[j]
Stored(j, s, t) ==
  \E r \in Rows : \E u \in Names(Done(j), t) : Has(View(j)[r], s, u)
Waits(j, s, t) ==
  /\ Applying(j) /\ Old[Change(j).id] \in Names(applied[j], t)
  /\ \E r \in Rows : Handles(j, r) /\ Has(View(j)[r], s, Old[Change(j).id])
Keeps(j) == InTransaction(j) =>
  \A r \in Rows : table[r].scope \in scopes[j] =>
    LET s == table[r].scope  t == table[r].ticker
    IN  Lost(j, t) \/ Stored(j, s, t) \/ Waits(j, s, t)

JobInv(j) == InOrder(j) /\ Prepared(j) /\ Handling(j) /\ Keeps(j)
RenamesInv == JobsInv /\ OneJob /\ \A j \in Calls : JobInv(j)

-----------------------------------------------------------------------------
LEMMA OneJobStep == ASSUME JobsInv, OneJob, [Next]_vars PROVE OneJob'
<1> USE DEF JobsInv, PageInv, PageTypeOK, RenamesTypeOK
<1>1. kind' = kind
  BY DEF Next, Calendar, Revised, ReviseAny, Revise, StartCall, Midnight, Operator, Find,
     Create, DeleteById, UpdateStatus, Job, Begin, FindOld, FindNew, Write, Commit, RollBack,
     vars, calendar, calendarVars
<1>2. Jobs' = Jobs
  BY <1>1 DEF Jobs
<1>3. ASSUME \A c \in Calls : Busy(c)' => Busy(c) PROVE OneJob'
  BY <1>2, <1>3 DEF OneJob, Jobs
<1>4. CASE UNCHANGED <<collecting, phase>>
  BY <1>3, <1>4 DEF Busy
<1>5. ASSUME NEW c \in Calls, MayStart(c), StartCall(c), phase' = phase PROVE OneJob'
  <2>1. \A d \in Calls : d # c => Busy(d)' = Busy(d)
    BY <1>5 DEF StartCall, Collect, Busy
  <2>2. c \in Jobs => \A d \in Jobs : d # c => ~Busy(d)
    BY <1>5 DEF MayStart, Busy
  <2> QED BY <1>2, <2>1, <2>2 DEF OneJob, Jobs
<1>6. ASSUME NEW c \in Calls, Page(c), phase' = phase PROVE OneJob'
  <2>1. collecting[c] = "fetching" /\ \A d \in Calls \ {c} : collecting'[d] = collecting[d]
    BY <1>6, PageItems DEF Page, Full, LastPage, NextPage, Fits, CollectFails
  <2>2. Busy(c)' => Busy(c)
    BY <1>6, <2>1 DEF Busy
  <2> QED BY <1>3, <1>6, <2>1, <2>2 DEF Busy
<1>7. ASSUME NEW j \in Calls, Job(j) PROVE OneJob'
  <2>1. collecting' = collecting
    BY <1>7 DEF Job, Begin, FindOld, FindNew, Write, Commit, RollBack, calendar, pageVars
  <2>2. phase[j] \notin {"committed", "rolledBack"} /\ \A c \in Calls \ {j} : phase'[c] = phase[c]
    BY <1>7 DEF Job, Begin, FindOld, FindNew, Write, Wrote, Ended, Commit, RollBack, InTransaction
  <2>3. \A c \in Calls : Busy(c)' => Busy(c)
    BY <2>1, <2>2 DEF Busy
  <2> QED BY <1>3, <2>3
<1>8. ASSUME NEW e \in Edits, Operator(e) PROVE UNCHANGED <<collecting, phase>>
  BY <1>8 DEF Operator, Find, Create, DeleteById, UpdateStatus, calendar, pageVars, jobVars
<1>9. CASE Calendar
  <2>1. phase' = phase
    BY <1>9 DEF Calendar, jobVars
  <2> QED BY <1>4, <1>5, <1>6, <1>9, <2>1 DEF Calendar, Revised, ReviseAny, Revise, Midnight,
             collectVars, pageVars
<1>10. CASE UNCHANGED vars
  BY <1>4, <1>10 DEF vars, calendar, pageVars, jobVars
<1> QED BY <1>4, <1>7, <1>8, <1>9, <1>10 DEF Next

-----------------------------------------------------------------------------
(***************************************************************************)
(* The changes that a job has applied, and what they make of a company.    *)
(***************************************************************************)
LEMMA ListFacts ==
  ASSUME JobsInv, NEW j \in Calls, phase[j] # "none", InOrder(j)
  PROVE  /\ Effective(j) \in FiniteChanges /\ applied[j] \in FiniteChanges
         /\ applied[j] \in SUBSET Effective(j) /\ Effective(j) \in SUBSET Position
<1>1. items[j] \in SUBSET Position /\ kind[j] = "renames" /\ Returned(j)
  BY DEF JobsInv, PageInv, PageTypeOK, Runs
<1>2. \A p \in items[j] : p.id \in NameChanges
  BY <1>1 DEF JobsInv, Listed, Returned
<1>3. Effective(j) \in SUBSET items[j] /\ IsFiniteSet(items[j])
  BY DEF Effective, InOrder
<1>4. IsFiniteSet(Effective(j))
  BY <1>3, FS_Subset
<1>5. Effective(j) \in FiniteChanges
  BY <1>1, <1>2, <1>3, <1>4 DEF FiniteChanges, Position
<1> QED BY <1>1, <1>3, <1>5, FiniteChangesTypes DEF InOrder

\* The change that a job applies comes after those it has applied.
LEMMA ChangeFacts ==
  ASSUME JobsInv, NEW j \in Calls, phase[j] # "none", InOrder(j), ToApply(j) # {}
  PROVE  /\ Change(j) \in ToApply(j) /\ Change(j) \in Position /\ Change(j).id \in NameChanges
         /\ Change(j) \in Effective(j) /\ Change(j) \notin applied[j]
         /\ \A q \in applied[j] : Before(q, Change(j))
         /\ \A q \in ToApply(j) : Change(j) = q \/ Before(Change(j), q)
         /\ Old[Change(j).id] \in Tickers /\ New[Change(j).id] \in Tickers
<1>1. items[j] \in SUBSET Position
  BY DEF JobsInv, PageInv, PageTypeOK
<1>2. /\ Change(j) \in ToApply(j) /\ Change(j) \in Position
      /\ \A q \in ToApply(j) : Change(j) = q \/ Before(Change(j), q)
  BY <1>1, ChangeToApply
<1>3. Change(j) \in Effective(j) /\ Change(j) \notin applied[j]
  BY <1>2 DEF ToApply
<1>4. Change(j).id \in NameChanges
  BY <1>3, ListFacts, FiniteChangesTypes
<1> QED BY <1>2, <1>3, <1>4, RenamesAssumption DEF InOrder

LEMMA DoneFacts ==
  ASSUME JobsInv, NEW j \in Calls, phase[j] # "none", InOrder(j)
  PROVE  /\ Done(j) \in SUBSET Effective(j) /\ Done(j) \in FiniteChanges
         /\ \A x \in Done(j), y \in Effective(j) \ Done(j) : Before(x, y)
         /\ Applying(j) => ToApply(j) # {}
<1>1. Applying(j) => ToApply(j) # {}
  BY DEF Applying, JobsInv, Runs
<1>2. CASE Applying(j)
  BY <1>1, <1>2, ListFacts, ChangeFacts, FiniteChangesTypes DEF Done, ToApply, InOrder
<1>3. CASE ~Applying(j)
  BY <1>3, ListFacts DEF Done, ToApply, InOrder
<1> QED BY <1>1, <1>2, <1>3

\* Every name of a company by the changes done is one on its way through the list.
LEMMA NamesAreStretches ==
  ASSUME JobsInv, NEW j \in Calls, phase[j] # "none", InOrder(j),
         NEW D \in {applied[j], Done(j)}, NEW t, NEW u \in Names(D, t)
  PROVE  \E S \in Stretches(Effective(j)) : RenamedBy[S][t] = u
<1>1. PICK S \in Tails(D) : u = RenamedBy[S][t]
  BY DEF Names
<1>2. D \in SUBSET Effective(j) /\ \A x \in D, y \in Effective(j) \ D : Before(x, y)
  BY ListFacts, DoneFacts DEF InOrder, ToApply
<1>3. S \in Stretches(Effective(j))
  BY <1>2, ListFacts, TailIsStretch
<1> QED BY <1>1, <1>3

\* One more change: the names become others, or stay.
LEMMA NamesOneMore ==
  ASSUME NEW D \in FiniteChanges, NEW p \in Position, p.id \in NameChanges,
         \A q \in D : Before(q, p), NEW t \in Tickers, NEW u \in Names(D, t)
  PROVE  (IF u = Old[p.id] THEN New[p.id] ELSE u) \in Names(D \cup {p}, t)
<1>1. PICK S \in Tails(D) : u = RenamedBy[S][t] /\ (S = D \/ Added(t))
  BY DEF Names
<1>2. S \in FiniteChanges /\ \A q \in S : Before(q, p)
  BY FiniteChangesTypes DEF Tails
<1>3. S \cup {p} \in Tails(D \cup {p})
  BY FiniteChangesTypes, TailOneMore
<1>4. RenamedBy[S \cup {p}][t] = IF u = Old[p.id] THEN New[p.id] ELSE u
  BY <1>1, <1>2, RenamedByOneMore
<1>5. S \cup {p} = D \cup {p} \/ Added(t)
  BY <1>1
<1> QED BY <1>3, <1>4, <1>5 DEF Names

\* Who has the old name of a change after it, has it from before it.
LEMMA NamesBack ==
  ASSUME NEW D \in FiniteChanges, NEW p \in Position, p.id \in NameChanges,
         \A q \in D : Before(q, p), Old[p.id] # New[p.id],
         NEW t \in Tickers, Old[p.id] \in Names(D \cup {p}, t)
  PROVE  t = Old[p.id] /\ t \in Names(D, t)
<1>1. PICK S \in Tails(D \cup {p}) :
        Old[p.id] = RenamedBy[S][t] /\ (S = D \cup {p} \/ Added(t))
  BY DEF Names
<1>2. S = {}
  BY <1>1, NotTheOldName
<1>3. RenamedBy[{}][t] = t
  BY RenamedByNothing
<1>4. {} \in Tails(D) /\ Added(t)
  BY <1>1, <1>2, FiniteChangesTypes, TailsOf
<1> QED BY <1>1, <1>2, <1>3, <1>4 DEF Names

\* A job that is in a transaction is the only one that steps.
LEMMA InTransactionBusy ==
  ASSUME JobsInv, NEW j \in Calls, InTransaction(j)
  PROVE  Busy(j) /\ j \in Jobs /\ phase[j] # "none"
BY DEF JobsInv, Runs, InTransaction, Busy, Jobs, Returned

\* The list of a job is final: neither revisions nor the day change it.
LEMMA CalendarKeepsList ==
  ASSUME JobsInv, Calendar, NEW j \in Calls, phase[j] # "none"
  PROVE  Effective(j)' = Effective(j)
<1> USE DEF JobsInv, PageInv, PageTypeOK
<1>1. collecting[j] \notin {"no", "fetching"}
  BY DEF Runs, Returned
<1>2. CASE Revised \/ Midnight
  BY <1>2 DEF Revised, ReviseAny, Revise, Midnight, collectVars, pageVars, calendarVars,
     Effective
<1>3. ASSUME NEW c \in Calls, StartCall(c) PROVE Effective(j)' = Effective(j)
  BY <1>1, <1>3 DEF StartCall, Collect, Effective, CalendarTypeOK
<1>4. ASSUME NEW c \in Calls, Page(c), UNCHANGED calendarVars
      PROVE  Effective(j)' = Effective(j)
  <2>1. c # j
    BY <1>1, <1>4 DEF Page, Full, LastPage, NextPage, Fits, CollectFails
  <2> QED BY <1>4, <2>1, PageItems DEF Effective, calendarVars
<1> QED BY <1>2, <1>3, <1>4 DEF Calendar

\* The calendar leaves a job alone that has its list.
LEMMA CalendarKeeps ==
  ASSUME RenamesInv, Calendar
  PROVE  \A j \in Calls : JobInv(j)'
<1> USE DEF RenamesInv, JobsInv, PageInv, PageTypeOK
<1>1. UNCHANGED <<table, edit, jobVars, removed>>
  BY DEF Calendar
<1>2. \A c \in Calls : IsFiniteSet(Past(c))
  <2> SUFFICES ASSUME NEW c \in Calls PROVE IsFiniteSet(Past(c))
    OBVIOUS
  <2> DEFINE place == [a \in Actions |-> At(a)]
             places == {place[a] : a \in Actions}
  <2>1. IsFiniteSet(places)
    <3>1. place \in Surjection(Actions, places)
      BY DEF Surjection
    <3> HIDE DEF place, places
    <3> QED BY <3>1, PaginationAssumption, FS_Surjection
  <2>2. Past(c) \in SUBSET places
    BY DEF Past, Selected, Query
  <2> HIDE DEF places
  <2> QED BY <2>1, <2>2, FS_Subset
<1>3. \A c \in Calls : IsFiniteSet(items'[c])
  <2> SUFFICES ASSUME NEW d \in Calls PROVE IsFiniteSet(items'[d])
    OBVIOUS
  <2>1. ASSUME NEW c \in Calls, Page(c) PROVE IsFiniteSet(items'[d])
    <3>1. CASE d = c
      <4>1. items'[c] \in SUBSET (items[c] \cup Past(c))
        BY <2>1, PageItems
      <4>2. IsFiniteSet(items[c] \cup Past(c))
        BY <1>2, FS_Union DEF JobInv, InOrder
      <4> QED BY <3>1, <4>1, <4>2, FS_Subset
    <3>2. CASE d # c
      BY <2>1, <3>2, PageItems DEF JobInv, InOrder
    <3> QED BY <3>1, <3>2
  <2>2. CASE UNCHANGED items
    BY <2>2 DEF JobInv, InOrder
  <2> QED BY <2>1, <2>2 DEF Calendar, Revised, ReviseAny, Revise, StartCall, Collect,
             Midnight, collectVars, pageVars
<1>4. \A j \in Calls : phase[j] # "none" => Effective(j)' = Effective(j)
  BY CalendarKeepsList
<1>5. ASSUME NEW j \in Calls PROVE JobInv(j)'
  <2>1. CASE phase[j] = "none"
    BY <1>1, <1>3, <2>1 DEF JobInv, InOrder, Prepared, Handling, Applying, Keeps,
       InTransaction, jobVars
  <2>2. CASE phase[j] # "none"
    <3>1. Effective(j)' = Effective(j) /\ ToApply(j)' = ToApply(j) /\ Change(j)' = Change(j)
      BY <1>1, <1>4, <2>2 DEF ToApply, Change, jobVars
    <3>2. InOrder(j)' /\ Prepared(j)'
      BY <1>1, <1>3, <2>2, <3>1 DEF JobInv, InOrder, Prepared, jobVars
    <3>3. View(j)' = View(j) /\ Done(j)' = Done(j)
      BY <1>1, <3>1 DEF View, Over, Done, Applying, jobVars
    <3>4. Handling(j)'
      BY <1>1, <3>1, <3>3 DEF JobInv, Handling, OldOrDeleted, Known, Applying, jobVars
    <3>5. \A D, t : Names(D, t)' = Names(D, t)
      BY <1>1 DEF Names, Added
    <3>6. Keeps(j)'
      <4>1. \A t : Lost(j, t)' = Lost(j, t)
        BY <1>1, <3>1 DEF Lost
      <4>2. \A s, t : Stored(j, s, t)' = Stored(j, s, t)
        BY <3>3, <3>5 DEF Stored
      <4>3. \A s, t : Waits(j, s, t)' = Waits(j, s, t)
        BY <1>1, <3>1, <3>3, <3>5 DEF Waits, Handles, Applying, jobVars
      <4> QED BY <1>1, <4>1, <4>2, <4>3 DEF JobInv, Keeps, InTransaction, jobVars
    <3> QED BY <3>2, <3>4, <3>6 DEF JobInv
  <2> QED BY <2>1, <2>2
<1> QED BY <1>5

-----------------------------------------------------------------------------
(***************************************************************************)
(* The operator beside the job.                                            *)
(***************************************************************************)
\* What an edit does: it changes at most one row, which no transaction has written.
Creates(r) == /\ table[r] = Absent /\ ~Known(r) /\ removed' = removed
              /\ \E t \in Tickers : /\ Added(t)'
                                    /\ table' = [table EXCEPT ![r] = NewRow(Watchlist, t)]
Deletes(r) == /\ Known(r)' /\ table' = [table EXCEPT ![r] = Absent]
              /\ \A j \in Calls : InTransaction(j) =>
                   removed'[j] = removed[j] \cup ({table[r].ticker} \ {None})
SetsStatus(r) == /\ table[r] # Absent /\ removed' = removed
                 /\ \E b \in BOOLEAN : table' = [table EXCEPT ![r].active = b]
Free(r) == \A j \in Calls : InTransaction(j) => writes[j][r] = Untouched

LEMMA OperatorChange ==
  ASSUME JobsInv, NEW e \in Edits, Operator(e)
  PROVE  /\ UNCHANGED <<calendar, jobVars>>
         /\ \A r \in Rows : Known(r) => Known(r)'
         /\ \A t : Added(t) => Added(t)'
         /\ \/ UNCHANGED <<table, removed>>
            \/ \E r \in Rows : Free(r) /\ (Creates(r) \/ Deletes(r) \/ SetsStatus(r))
<1> USE RenamesAssumption DEF JobsInv, RenamesTypeOK
<1>1. UNCHANGED <<calendar, jobVars>>
  BY DEF Operator, Find, Create, DeleteById, UpdateStatus
<1>2. \A r \in Rows : ~Locked(None, r) => Free(r)
  BY DEF Locked, Free
<1> DEFINE Grows == (\A r \in Rows : Known(r) => Known(r)') /\ \A t : Added(t) => Added(t)'
<1>3. ASSUME NEW ok \in BOOLEAN, Outcome(e, ok), edit[e].step = "found"
      PROVE  Grows /\ \A r \in Rows : edit[e].row = r => Known(r)'
  <2>1. \A x \in Edits : edit'[x].row = edit[x].row
    BY <1>3 DEF Outcome
  <2>2. \A x \in Edits : x # e => edit'[x] = edit[x]
    BY <1>3 DEF Outcome
  <2> QED BY <1>3, <2>1, <2>2 DEF Known, Added
<1>4. ASSUME NEW does \in Edit, NEW t \in Tickers, Find(e, does, t)
      PROVE  Grows /\ UNCHANGED <<table, removed>>
  <2>1. edit[e] = NotMade /\ \A x \in Edits : x # e => edit'[x] = edit[x]
    BY <1>4 DEF Find
  <2> QED BY <1>4, <2>1 DEF Find, Known, Added, NotMade
<1>5. CASE Create(e)
  <2>1. edit[e].step = "found" /\ edit[e].does = "add" /\ edit[e].ticker \in Tickers
    BY <1>5 DEF Create, Does, Makes
  <2>2. CASE Clashes(None, NewRow(Watchlist, edit[e].ticker), None)
    BY <1>1, <1>3, <1>5, <2>1, <2>2 DEF Create
  <2>3. CASE ~Clashes(None, NewRow(Watchlist, edit[e].ticker), None)
    <3>1. PICK r \in Rows :
            /\ table[r] = Absent /\ ~Locked(None, r) /\ \A x \in Edits : edit[x].row # r
            /\ table' = [table EXCEPT ![r] = NewRow(Watchlist, edit[e].ticker)]
            /\ Outcome(e, TRUE) /\ removed' = removed
      BY <1>5, <2>3 DEF Create
    <3>2. edit'[e].does = "add" /\ edit'[e].step = "done"
          /\ edit'[e].ticker = edit[e].ticker
      BY <2>1, <3>1 DEF Outcome
    <3>3. Creates(r)
      BY <2>1, <3>1, <3>2 DEF Creates, Known, Added
    <3> QED BY <1>1, <1>2, <1>3, <2>1, <3>1, <3>3
  <2> QED BY <2>2, <2>3
<1>6. CASE DeleteById(e)
  <2>1. PICK r \in Rows : r = edit[e].row /\ edit[e].step = "found"
    BY <1>6 DEF DeleteById, Does, Makes
  <2>2. PICK ok \in BOOLEAN : Outcome(e, ok)
    BY <1>6 DEF DeleteById
  <2>3. Deletes(r)
    <3>1. Known(r)'
      BY <1>3, <2>1, <2>2
    <3>2. /\ table' = [table EXCEPT ![r] = Absent]
          /\ removed' = [c \in Calls |->
               IF InTransaction(c) THEN removed[c] \cup ({table[r].ticker} \ {None})
               ELSE removed[c]]
      BY <1>6, <2>1 DEF DeleteById
    <3> QED BY <3>1, <3>2 DEF Deletes
  <2> QED BY <1>1, <1>2, <1>3, <1>6, <2>1, <2>2, <2>3 DEF DeleteById
<1>7. CASE UpdateStatus(e)
  <2>1. edit[e].step = "found" /\ edit[e].row \in Rows
    BY <1>7 DEF UpdateStatus, Makes
  <2>2. PICK ok \in BOOLEAN : Outcome(e, ok)
    BY <1>7 DEF UpdateStatus
  <2>3. (edit[e].does = "activate") \in BOOLEAN
    OBVIOUS
  <2>4. UNCHANGED <<table, removed>> \/ SetsStatus(edit[e].row)
    BY <1>7, <2>3 DEF UpdateStatus, SetsStatus
  <2> QED BY <1>1, <1>2, <1>3, <1>7, <2>1, <2>2, <2>4 DEF UpdateStatus
<1> QED BY <1>1, <1>4, <1>5, <1>6, <1>7 DEF Operator

\* What a transaction sees of it.
LEMMA OperatorSeen ==
  ASSUME JobsInv, NEW e \in Edits, Operator(e), NEW j \in Calls, InTransaction(j),
         NEW r \in Rows
  PROVE  /\ removed[j] \subseteq removed'[j]
         /\ \/ /\ View(j)'[r].scope = View(j)[r].scope /\ View(j)'[r].ticker = View(j)[r].ticker
               /\ table'[r].scope = table[r].scope /\ table'[r].ticker = table[r].ticker
               /\ View(j)[r] = Absent => View(j)'[r] = Absent
            \/ /\ View(j)[r] = Absent /\ ~Known(r) /\ table'[r] = View(j)'[r]
               /\ \E t \in Tickers : Added(t)' /\ View(j)'[r] = NewRow(Watchlist, t)
            \/ /\ View(j)'[r] = Absent /\ Known(r)' /\ table'[r] = Absent
               /\ View(j)[r].ticker \in removed'[j] \cup {None}
<1> USE RenamesAssumption DEF JobsInv, RenamesTypeOK
<1>1. View(j) = [x \in Rows |-> IF writes[j][x] = Untouched THEN table[x] ELSE writes[j][x]]
  BY DEF View, Over
<1>2. writes' = writes
  BY OperatorChange DEF jobVars
<1>3. View(j)' = [x \in Rows |-> IF writes[j][x] = Untouched THEN table'[x] ELSE writes[j][x]]
  BY <1>2 DEF View, Over
<1>4. CASE UNCHANGED <<table, removed>>
  BY <1>1, <1>3, <1>4
<1>5. ASSUME NEW q \in Rows, Free(q), Creates(q) \/ Deletes(q) \/ SetsStatus(q)
      PROVE  /\ removed[j] \subseteq removed'[j]
             /\ r # q => table'[r] = table[r]
             /\ View(j)[q] = table[q] /\ View(j)'[q] = table'[q]
  BY <1>1, <1>3, <1>5 DEF Free, Creates, Deletes, SetsStatus
<1>6. ASSUME Free(r), Creates(r)
      PROVE  /\ View(j)[r] = Absent /\ ~Known(r) /\ table'[r] = View(j)'[r]
             /\ \E t \in Tickers : Added(t)' /\ View(j)'[r] = NewRow(Watchlist, t)
  <2>1. PICK t \in Tickers : Added(t)' /\ table' = [table EXCEPT ![r] = NewRow(Watchlist, t)]
    BY <1>6 DEF Creates
  <2>2. table'[r] = NewRow(Watchlist, t)
    BY <2>1
  <2>3. View(j)[r] = table[r] /\ View(j)'[r] = table'[r]
    BY <1>5, <1>6
  <2> QED BY <1>6, <2>1, <2>2, <2>3 DEF Creates
<1>7. ASSUME Free(r), Deletes(r)
      PROVE  /\ View(j)'[r] = Absent /\ Known(r)' /\ table'[r] = Absent
             /\ View(j)[r].ticker \in removed'[j] \cup {None}
  <2>1. View(j)[r] = table[r] /\ View(j)'[r] = table'[r]
    BY <1>5, <1>7
  <2>2. table'[r] = Absent /\ Known(r)'
    BY <1>7 DEF Deletes
  <2>3. removed'[j] = removed[j] \cup ({table[r].ticker} \ {None})
    BY <1>7 DEF Deletes
  <2> QED BY <2>1, <2>2, <2>3
<1>8. ASSUME Free(r), SetsStatus(r)
      PROVE  /\ View(j)'[r].scope = View(j)[r].scope /\ View(j)'[r].ticker = View(j)[r].ticker
             /\ table'[r].scope = table[r].scope /\ table'[r].ticker = table[r].ticker
             /\ View(j)[r] = Absent => View(j)'[r] = Absent
  <2>1. table[r] \in Row /\ table[r] # Absent
    BY <1>8 DEF SetsStatus
  <2>2. PICK b \in BOOLEAN : table' = [table EXCEPT ![r].active = b]
    BY <1>8 DEF SetsStatus
  <2>3. table'[r].scope = table[r].scope /\ table'[r].ticker = table[r].ticker
    BY <2>1, <2>2 DEF Row
  <2> QED BY <1>5, <1>8, <2>1, <2>3
<1>9. ASSUME NEW q \in Rows, q # r, Free(q), Creates(q) \/ Deletes(q) \/ SetsStatus(q)
      PROVE  /\ View(j)'[r] = View(j)[r] /\ table'[r] = table[r]
  BY <1>1, <1>3, <1>5, <1>9
<1> QED BY <1>4, <1>5, <1>6, <1>7, <1>8, <1>9, OperatorChange

\* The operator may remove a name, and add one; the job keeps every other.
LEMMA OperatorKeeps ==
  ASSUME RenamesInv, NEW e \in Edits, Operator(e)
  PROVE  \A j \in Calls : JobInv(j)'
<1> USE RenamesAssumption DEF RenamesInv
<1>1. UNCHANGED <<calendar, jobVars>>
  BY OperatorChange
<1>2. ASSUME NEW j \in Calls
      PROVE  /\ Effective(j)' = Effective(j) /\ ToApply(j)' = ToApply(j)
             /\ Change(j)' = Change(j) /\ Done(j)' = Done(j)
             /\ InOrder(j)' /\ Prepared(j)'
  <2>1. Effective(j)' = Effective(j) /\ ToApply(j)' = ToApply(j) /\ Change(j)' = Change(j)
    BY <1>1 DEF calendar, pageVars, calendarVars, jobVars, Effective, ToApply, Change
  <2> QED BY <1>1, <2>1 DEF calendar, pageVars, jobVars, JobInv, InOrder, Prepared, Done,
             Applying
<1>3. ASSUME NEW j \in Calls, InTransaction(j) PROVE Handling(j)' /\ Keeps(j)'
  <2> DEFINE p == Change(j)
  <2>1. phase[j] # "none" /\ InOrder(j)
    BY <1>3 DEF InTransaction, JobInv
  <2>2. Applying(j) => Old[p.id] \in Tickers /\ New[p.id] \in Tickers
    BY <2>1, DoneFacts, ChangeFacts
  <2>3. scopes[j] \in SUBSET Scopes
    BY DEF JobsInv, RenamesTypeOK
  <2>4. Absent.scope = None /\ Absent.ticker = None
    BY DEF Absent
  <2>5. ASSUME NEW r \in Rows, NEW s \in scopes[j], NEW t \in Tickers, Has(View(j)[r], s, t)
        PROVE  Has(View(j)[r], s, t)' \/ t \in removed'[j]
    BY <1>3, <2>3, <2>4, <2>5, OperatorSeen DEF Has
  <2>6. Handling(j)'
    <3> SUFFICES ASSUME Applying(j) PROVE Handling(j)'
      BY <1>1 DEF Handling, Applying, jobVars
    <3>1. ASSUME NEW r \in Rows, NEW s \in scopes[j], OldOrDeleted(j, r, s)
          PROVE  OldOrDeleted(j, r, s)'
      <4>1. CASE View(j)[r] = Absent /\ Known(r)
        <5>1. View(j)'[r] = Absent
          BY <1>3, <4>1, OperatorSeen
        <5> QED BY <4>1, <5>1, OperatorChange DEF OldOrDeleted
      <4>2. CASE Has(View(j)[r], s, Old[p.id])
        <5>1. View(j)[r] # Absent
          BY <2>3, <2>4, <4>2 DEF Has
        <5> QED BY <1>2, <1>3, <4>2, <5>1, OperatorSeen DEF OldOrDeleted, Has
      <4> QED BY <3>1, <4>1, <4>2 DEF OldOrDeleted
    <3>2. removed[j] \subseteq removed'[j]
      <4>1. CASE Rows = {}
        BY <4>1, OperatorChange
      <4> QED BY <1>3, <4>1, OperatorSeen
    <3>3. phase[j] = "write" => found[j].row \in Rows
      BY DEF JobsInv, Runs
    <3>4. found[j].new \in Rows \cup {None}
      BY DEF JobsInv, RenamesTypeOK
    <3>5. /\ Old[p.id] # New[p.id]
          /\ \A r \in Rows, s \in Scopes : <<r, s>> \in todo[j] =>
               /\ s \in scopes[j] /\ OldOrDeleted(j, r, s)'
               /\ \A q \in Scopes : <<r, q>> \in todo[j] => q = s
      BY <3>1 DEF JobInv, Handling
    <3>6. ASSUME phase[j] = "write"
          PROVE  /\ \A s \in Scopes : <<found[j].row, s>> \notin todo[j]
                 /\ \E s \in scopes[j] :
                      /\ OldOrDeleted(j, found[j].row, s)'
                      /\ found[j].new # None =>
                           \/ Has(View(j)[found[j].new], s, New[p.id])'
                           \/ New[p.id] \in removed'[j]
      <4>1. PICK s \in scopes[j] :
              /\ OldOrDeleted(j, found[j].row, s)
              /\ found[j].new # None => \/ Has(View(j)[found[j].new], s, New[p.id])
                                        \/ New[p.id] \in removed[j]
        BY <3>6 DEF JobInv, Handling
      <4>2. OldOrDeleted(j, found[j].row, s)'
        <5>1. \A r \in Rows : OldOrDeleted(j, r, s) => OldOrDeleted(j, r, s)'
          BY <3>1
        <5>2. found' = found
          BY <1>1 DEF jobVars
        <5>3. PICK r \in Rows : r = found[j].row
          BY <3>3, <3>6
        <5> QED BY <4>1, <5>1, <5>2, <5>3
      <4>3. found[j].new # None => \/ Has(View(j)[found[j].new], s, New[p.id])'
                                   \/ New[p.id] \in removed'[j]
        <5>1. PICK n : n = New[p.id]
          OBVIOUS
        <5>2. PICK r : r = found[j].new
          OBVIOUS
        <5>3. r \in Rows /\ Has(View(j)[r], s, n) => Has(View(j)[r], s, n)' \/ n \in removed'[j]
          BY <2>2, <2>5, <5>1
        <5>4. found' = found /\ New[p.id]' = n
          BY <1>1, <1>2, <5>1 DEF jobVars
        <5> QED BY <3>2, <3>4, <4>1, <5>1, <5>2, <5>3, <5>4
      <4>4. \A s1 \in Scopes : <<found[j].row, s1>> \notin todo[j]
        BY <3>6 DEF JobInv, Handling
      <4> QED BY <4>2, <4>3, <4>4
    <3> QED BY <1>1, <1>2, <3>5, <3>6 DEF Handling, jobVars
  <2>7. Keeps(j)'
    <3> SUFFICES ASSUME NEW r \in Rows, (table[r].scope)' \in scopes[j],
                        NEW s, NEW t, s = (table[r].scope)', t = (table[r].ticker)'
                 PROVE  Lost(j, t)' \/ Stored(j, s, t)' \/ Waits(j, s, t)'
      BY <1>1, <1>3 DEF Keeps, InTransaction, jobVars
    <3>1. s \in Scopes /\ s # None
      BY <2>3
    <3>2. t \in Tickers
      <4>1. JobsInv'
        BY OperatorStep
      <4>2. table'[r] \in Row
        BY <2>4, <3>1, <4>1 DEF JobsInv, RenamesTypeOK
      <4> QED BY <4>2 DEF Row
    <3>3. \A D, u : u \in Names(D, t) => u \in Names(D, t)'
      BY OperatorChange DEF Names
    <3>4. Lost(j, t) => Lost(j, t)'
      BY <1>2, <1>3, OperatorSeen DEF Lost
    <3>5. \A D \in {applied[j], Done(j)} : \A u \in Names(D, t) :
            u \in removed'[j] => Lost(j, t)'
      <4> SUFFICES ASSUME NEW D \in {applied[j], Done(j)}, NEW u \in Names(D, t),
                          u \in removed'[j]
                   PROVE  Lost(j, t)'
        OBVIOUS
      <4>1. \E S \in Stretches(Effective(j)) : RenamedBy[S][t] = u
        <5>1. JobsInv /\ phase[j] # "none" /\ InOrder(j)
          BY <2>1
        <5> QED BY ONLY <5>1, NamesAreStretches, j \in Calls,
                       D \in {applied[j], Done(j)}, u \in Names(D, t)
      <4>2. Stretches(Effective(j))' = Stretches(Effective(j))
        BY <1>2 DEF Stretches
      <4> QED BY <4>1, <4>2 DEF Lost
    <3>6. ASSUME Stored(j, s, t) PROVE Lost(j, t)' \/ Stored(j, s, t)'
      <4>1. PICK x \in Rows, u \in Names(Done(j), t) : Has(View(j)[x], s, u)
        BY <3>6 DEF Stored
      <4>2. u \in Tickers
        BY <2>1, <3>2, <4>1, DoneFacts, FiniteChangesTypes, RenamedByType DEF Names, Tails
      <4>3. Has(View(j)[x], s, u)' \/ u \in removed'[j]
        BY <2>5, <4>1, <4>2
      <4>4. u \in Names(Done(j), t)'
        <5>1. \A D : u \in Names(D, t) => u \in Names(D, t)'
          BY <3>3
        <5> QED BY <1>2, <4>1, <5>1
      <4> QED BY <3>5, <4>1, <4>3, <4>4 DEF Stored
    <3>7. ASSUME Waits(j, s, t) PROVE Lost(j, t)' \/ Waits(j, s, t)'
      <4>1. PICK x \in Rows, u \in Names(applied[j], t) :
              u = Old[p.id] /\ Handles(j, x) /\ Has(View(j)[x], s, u)
        BY <3>7 DEF Waits
      <4>2. u \in Tickers
        BY <2>2, <3>7, <4>1 DEF Waits
      <4>3. Has(View(j)[x], s, u)' \/ u \in removed'[j]
        BY <2>5, <4>1, <4>2
      <4>4. u \in Names(applied[j], t)'
        <5>1. \A D : u \in Names(D, t) => u \in Names(D, t)'
          BY <3>3
        <5> QED BY <1>1, <4>1, <5>1 DEF jobVars
      <4>5. Handles(j, x)' /\ Applying(j)' /\ (Old[Change(j).id])' = u
        BY <1>1, <1>2, <3>7, <4>1 DEF Handles, Applying, Waits, jobVars
      <4> QED BY <3>5, <4>1, <4>3, <4>4, <4>5 DEF Waits
    <3>8. CASE table'[r].scope = table[r].scope /\ table'[r].ticker = table[r].ticker
      BY <1>3, <3>4, <3>6, <3>7, <3>8 DEF JobInv, Keeps
    <3>9. CASE View(j)'[r] = NewRow(Watchlist, t) /\ table'[r] = View(j)'[r] /\ Added(t)'
      <4>1. s = Watchlist /\ Has(View(j)[r], s, t)'
        BY <3>9 DEF NewRow, Has
      <4>2. t \in Names(Done(j), t)'
        <5>1. {} \in Tails(Done(j)') /\ RenamedBy[{}][t] = t
          BY <1>2, <2>1, <3>2, DoneFacts, FiniteChangesTypes, TailsOf, RenamedByNothing
        <5> QED BY <3>9, <5>1 DEF Names
      <4> QED BY <4>1, <4>2 DEF Stored
    <3>10. CASE table'[r] = Absent
      BY <2>4, <3>1, <3>10
    <3>11. ASSUME NEW u \in Tickers, Added(u)', View(j)'[r] = NewRow(Watchlist, u),
                  table'[r] = View(j)'[r]
           PROVE  View(j)'[r] = NewRow(Watchlist, t) /\ Added(t)'
      <4>1. t = u
        BY <3>11 DEF NewRow
      <4> QED BY <3>11, <4>1
    <3> QED BY <1>3, <3>8, <3>9, <3>10, <3>11, OperatorSeen
  <2> QED BY <2>6, <2>7
<1>4. ASSUME NEW j \in Calls, ~InTransaction(j) PROVE Handling(j)' /\ Keeps(j)'
  BY <1>1, <1>4 DEF Handling, Applying, Keeps, InTransaction, jobVars
<1> QED BY <1>2, <1>3, <1>4 DEF JobInv

-----------------------------------------------------------------------------
(***************************************************************************)
(* The steps of a job.                                                     *)
(***************************************************************************)
\* What the steps of a job leave alone.
LEMMA JobFrame ==
  ASSUME NEW j \in Calls, UNCHANGED <<calendar, edit, removed>>
  PROVE  /\ Effective(j)' = Effective(j) /\ items' = items
         /\ \A t : Lost(j, t)' = Lost(j, t)
         /\ \A D, t : Names(D, t)' = Names(D, t)
         /\ \A r : Known(r)' = Known(r)
<1>1. Effective(j)' = Effective(j) /\ items' = items
  BY DEF Effective, calendar, pageVars, calendarVars
<1>2. \A D, t : Names(D, t)' = Names(D, t)
  BY DEF Names, Added
<1>3. \A t : Lost(j, t)' = Lost(j, t)
  BY <1>1 DEF Lost
<1> QED BY <1>1, <1>2, <1>3 DEF Known

\* A name that the operator removed is lost.
LEMMA RemovedIsLost ==
  ASSUME JobsInv, NEW j \in Calls, phase[j] # "none", InOrder(j), NEW t,
         NEW u \in Names(Done(j), t), u \in removed[j]
  PROVE  Lost(j, t)
<1>1. \E S \in Stretches(Effective(j)) : RenamedBy[S][t] = u
  BY NamesAreStretches
<1> QED BY <1>1 DEF Lost

LEMMA AppliedKeepsOrder ==
  ASSUME JobsInv, NEW j \in Calls, phase[j] # "none", InOrder(j), ToApply(j) # {},
         UNCHANGED <<calendar, edit, removed>>,
         applied'[j] = applied[j] \/ applied'[j] = applied[j] \cup {Change(j)}
  PROVE  InOrder(j)'
<1>1. Effective(j)' = Effective(j) /\ items' = items
  BY JobFrame
<1>2. CASE applied'[j] = applied[j]
  BY <1>1, <1>2 DEF InOrder, ToApply
<1>3. CASE applied'[j] = applied[j] \cup {Change(j)}
  BY <1>1, <1>3, ChangeFacts DEF InOrder, ToApply
<1> QED BY <1>2, <1>3

LEMMA BeginKeeps ==
  ASSUME RenamesInv, NEW j \in Calls, NEW s \in {{Watchlist}, Strategies}, Begin(j, s)
  PROVE  JobInv(j)'
<1> USE RenamesAssumption DEF RenamesInv, JobsInv, RenamesTypeOK
<1>1. /\ phase'[j] = "old" /\ scopes'[j] = s /\ applied[j] = {}
      /\ writes[j] = [r \in Rows |-> Untouched]
      /\ UNCHANGED <<calendar, table, edit, applied, todo, found, writes, removed>>
  BY DEF Begin, JobInv, Prepared
<1>2. InOrder(j)'
  BY <1>1, JobFrame DEF JobInv, InOrder, ToApply
<1>3. Prepared(j)' /\ Handling(j)'
  BY <1>1 DEF Prepared, Handling, Applying
<1>4. View(j)' = table
  BY <1>1 DEF View, Over
<1>5. Done(j)' = {}
  BY <1>1 DEF Done, Applying
<1>6. s \in SUBSET Scopes /\ Absent.scope = None
  BY DEF Scopes, Absent
<1>7. ASSUME NEW r \in Rows, table[r].scope \in s
      PROVE  Stored(j, table[r].scope, table[r].ticker)'
  <2>1. table[r] \in Row
    BY <1>6, <1>7
  <2>2. PICK t \in Tickers : t = table[r].ticker
    BY <2>1 DEF Row
  <2>3. t \in Names({}, t)
    BY RenamedByNothing DEF Names, Tails
  <2>4. t \in Names({}, t)'
    BY <1>1, <2>3, JobFrame
  <2>5. PICK q : q = table[r].scope
    OBVIOUS
  <2>6. Has(View(j)[r], q, t)'
    BY <1>1, <1>4, <2>2, <2>5 DEF Has
  <2>7. Stored(j, q, t)'
    BY <1>5, <2>4, <2>6 DEF Stored
  <2> QED BY <1>1, <2>2, <2>5, <2>7
<1>8. Keeps(j)'
  BY <1>1, <1>7 DEF Keeps
<1> QED BY <1>2, <1>3, <1>8 DEF JobInv

LEMMA FindOldKeeps ==
  ASSUME RenamesInv, NEW j \in Calls, FindOld(j)
  PROVE  JobInv(j)'
<1> USE RenamesAssumption DEF RenamesInv, RenamesTypeOK
<1> DEFINE p == Change(j)
           old == Old[p.id]
           olds == IF old = New[p.id] THEN {} ELSE OldRows(j)
<1>1. /\ phase[j] = "old" /\ ToApply(j) # {} /\ todo'[j] = olds
      /\ IF olds = {} THEN applied'[j] = applied[j] \cup {p} /\ phase'[j] = "old"
         ELSE applied'[j] = applied[j] /\ phase'[j] = "new"
      /\ UNCHANGED <<calendar, table, edit, scopes, found, writes, removed>>
  BY DEF FindOld, Applied, JobsInv
<1>2. InOrder(j) /\ InOrder(j)' /\ Prepared(j)'
  BY <1>1, AppliedKeepsOrder DEF JobInv, Prepared
<1>3. /\ p \in Position /\ p.id \in NameChanges /\ \A q \in applied[j] : Before(q, p)
      /\ applied[j] \in FiniteChanges
  BY <1>1, <1>2, ChangeFacts, ListFacts
<1>4. View(j)' = View(j)
  BY <1>1 DEF View, Over
<1>5. Done(j) = applied[j] /\ Done(j)' = applied[j] \cup {p}
  <2>1. olds # {} => p' = p
    BY <1>1, JobFrame DEF Change, ToApply
  <2> QED BY <1>1, <2>1 DEF Done, Applying
<1>6. olds = {} \/ old # New[p.id]
  OBVIOUS
<1>7. ASSUME NEW r \in Rows, NEW s \in scopes[j], Has(View(j)[r], s, old), old # New[p.id]
      PROVE  <<r, s>> \in olds
  <2>1. r \in With(j, s, old)
    <3>1. s # None
      BY DEF JobsInv
    <3>2. View(j)[r] # Absent
      BY <1>7, <3>1 DEF Has, Absent
    <3> QED BY <1>7, <3>2 DEF With, Has
  <2> QED BY <1>7, <2>1 DEF OldRows
<1>8. ASSUME NEW r, NEW s, <<r, s>> \in olds
      PROVE  old # New[p.id] /\ s \in scopes[j] /\ r \in Rows /\ Has(View(j)[r], s, old)
  BY <1>8 DEF OldRows, With, Has
<1> HIDE DEF olds
<1>9. Handling(j)'
  <2> SUFFICES ASSUME olds # {} PROVE Handling(j)'
    BY <1>1 DEF Handling, Applying
  <2>1. p' = p
    BY <1>1, JobFrame DEF Change, ToApply
  <2>2. \A r \in Rows, s \in Scopes : <<r, s>> \in olds =>
          /\ s \in scopes[j] /\ OldOrDeleted(j, r, s)'
          /\ \A q \in Scopes : <<r, q>> \in olds => q = s
    BY <1>4, <1>8, <2>1 DEF OldOrDeleted, Has
  <2> QED BY <1>1, <1>6, <2>1, <2>2 DEF Handling
<1>10. Keeps(j)'
  <2> SUFFICES ASSUME NEW r \in Rows, table[r].scope \in scopes[j], NEW s, NEW t,
                      s = table[r].scope, t = table[r].ticker
               PROVE  Lost(j, t)' \/ Stored(j, s, t)' \/ Waits(j, s, t)'
    BY <1>1 DEF Keeps
  <2>0. t \in Tickers
    <3>1. scopes[j] \in SUBSET Scopes /\ table[r] \in Row \cup {Absent}
      BY DEF JobsInv
    <3>2. table[r] # Absent
      BY <3>1, RenamesAssumption DEF Absent
    <3> QED BY <3>1, <3>2 DEF Row
  <2>1. Lost(j, t) \/ Stored(j, s, t)
    BY <1>1 DEF JobInv, Keeps, InTransaction, Waits, Applying
  <2>2. CASE Lost(j, t)
    BY <1>1, <2>2, JobFrame
  <2>3. CASE Stored(j, s, t)
    <3>1. PICK x \in Rows, u \in Names(applied[j], t) : Has(View(j)[x], s, u)
      BY <1>5, <2>3 DEF Stored
    <3>2. (IF u = old THEN New[p.id] ELSE u) \in Names(applied[j] \cup {p}, t)
      <4>1. PICK D \in FiniteChanges : D = applied[j]
        BY ONLY <1>3
      <4>2. (IF u = Old[p.id] THEN New[p.id] ELSE u) \in Names(D \cup {p}, t)
        BY ONLY <1>3, <2>0, <4>1, u \in Names(applied[j], t), NamesOneMore
      <4> QED BY ONLY <4>1, <4>2
    <3>3. \A D, v : Names(D, v)' = Names(D, v)
      BY <1>1, JobFrame
    <3>4. CASE u = old /\ old # New[p.id]
      <4>1. <<x, s>> \in olds
        BY <1>7, <3>1, <3>4
      <4>2. phase'[j] = "new" /\ applied'[j] = applied[j] /\ p' = p
        BY <1>1, <4>1, JobFrame DEF Change, ToApply
      <4>3. s \in Scopes
        BY DEF JobsInv
      <4>4. Handles(j, x)'
        BY <1>1, <4>1, <4>3 DEF Handles
      <4> QED BY <1>4, <3>1, <3>3, <3>4, <4>2, <4>4 DEF Waits, Applying, Has
    <3>5. CASE u # old \/ old = New[p.id]
      <4>1. u \in Names(applied[j] \cup {p}, t)
        BY <3>2, <3>5
      <4> QED BY <1>4, <1>5, <3>1, <3>3, <4>1 DEF Stored, Has
    <3> QED BY <3>4, <3>5
  <2> QED BY <2>1, <2>2, <2>3
<1> QED BY <1>2, <1>9, <1>10 DEF JobInv

LEMMA FindNewKeeps ==
  ASSUME RenamesInv, NEW j \in Calls, NEW r \in Rows, NEW s \in Scopes, FindNew(j, r, s)
  PROVE  JobInv(j)'
<1> USE RenamesAssumption DEF RenamesInv, RenamesTypeOK
<1> DEFINE p == Change(j)
           new == FindUnique(j, s, New[p.id])
<1>1. /\ phase[j] = "new" /\ <<r, s>> \in todo[j] /\ phase'[j] = "write"
      /\ todo'[j] = todo[j] \ {<<r, s>>} /\ found'[j] = [row |-> r, new |-> new]
      /\ UNCHANGED <<calendar, table, edit, scopes, applied, writes, removed>>
  BY DEF FindNew, JobsInv
<1>2. ToApply(j) # {}
  BY <1>1 DEF JobsInv, Runs
<1>3. InOrder(j)' /\ Prepared(j)'
  BY <1>1, <1>2, AppliedKeepsOrder DEF JobInv, Prepared
<1>4. /\ View(j)' = View(j) /\ p' = p /\ Done(j)' = Done(j)
  BY <1>1, JobFrame DEF View, Over, Change, ToApply, Done, Applying
<1>5. new # None => Has(View(j)[new], s, New[p.id])
  BY DEF FindUnique, With, Has
<1>6. \A x : Known(x)' = Known(x)
  BY <1>1, JobFrame
<1> HIDE DEF new
<1>7. Handling(j)'
  <2>1. /\ Old[p.id] # New[p.id]
        /\ \A x \in Rows, q \in Scopes : <<x, q>> \in todo[j] =>
             /\ q \in scopes[j] /\ OldOrDeleted(j, x, q)
             /\ \A y \in Scopes : <<x, y>> \in todo[j] => y = q
    BY <1>1 DEF JobInv, Handling, Applying
  <2>2. \A x, q : OldOrDeleted(j, x, q)' = OldOrDeleted(j, x, q)
    BY <1>4, <1>6 DEF OldOrDeleted, Has
  <2>3. \A q \in Scopes : <<r, q>> \notin todo'[j]
    BY <1>1, <2>1
  <2>4. s \in scopes[j] /\ OldOrDeleted(j, r, s)'
    BY <1>1, <2>1, <2>2
  <2>5. new # None => Has(View(j)[new], s, New[p.id])'
    <3>1. PICK x : x = new
      OBVIOUS
    <3>2. x # None => Has(View(j)[x], s, New[p.id])'
      BY <1>4, <1>5, <3>1 DEF Has
    <3>3. new' = new
      BY <1>1, <1>4 DEF new, FindUnique, With
    <3> QED BY <3>1, <3>2, <3>3
  <2>6. found'[j].row = r /\ found'[j].new = new
    BY <1>1
  <2>7. \A x \in Rows, q \in Scopes : <<x, q>> \in todo'[j] =>
             /\ q \in scopes'[j] /\ OldOrDeleted(j, x, q)'
             /\ \A y \in Scopes : <<x, y>> \in todo'[j] => y = q
    BY <1>1, <2>1, <2>2
  <2> QED BY <1>1, <1>4, <1>5, <2>1, <2>3, <2>4, <2>6, <2>7 DEF Handling, OldOrDeleted, Has
<1>8. Keeps(j)'
  <2> SUFFICES ASSUME NEW x \in Rows, table[x].scope \in scopes[j], NEW q, NEW t,
                      q = table[x].scope, t = table[x].ticker
               PROVE  Lost(j, t)' \/ Stored(j, q, t)' \/ Waits(j, q, t)'
    BY <1>1 DEF Keeps
  <2>1. Lost(j, t) \/ Stored(j, q, t) \/ Waits(j, q, t)
    BY <1>1 DEF JobInv, Keeps, InTransaction
  <2>2. \A D, v : Names(D, v)' = Names(D, v)
    BY <1>1, JobFrame
  <2>3. \A y : Handles(j, y) => Handles(j, y)'
    BY <1>1 DEF Handles
  <2>4. Lost(j, t)' = Lost(j, t)
    BY <1>1, JobFrame
  <2>5. Stored(j, q, t) => Stored(j, q, t)'
    BY <1>4, <2>2 DEF Stored, Has
  <2>6. Waits(j, q, t) => Waits(j, q, t)'
    BY <1>1, <1>4, <2>2, <2>3 DEF Waits, Applying, Has
  <2> QED BY <2>1, <2>4, <2>5, <2>6
<1> QED BY <1>3, <1>7, <1>8 DEF JobInv

\* The row that a job writes is gone, for one that has the new ticker, or has it.
LEMMA WroteKeeps ==
  ASSUME RenamesInv, NEW j \in Calls, phase[j] = "write", NEW to, Wrote(j, to),
         UNCHANGED <<calendar, table, edit, scopes, todo, found, removed>>,
         View(j)[found[j].row] # Absent,
         \/ to = Absent /\ found[j].new # None
         \/ to.scope = View(j)[found[j].row].scope /\ to.ticker = New[Change(j).id]
            /\ to # Untouched
  PROVE  JobInv(j)'
<1> USE RenamesAssumption DEF RenamesInv, RenamesTypeOK
<1> DEFINE p == Change(j)
           D == applied[j]
<1>1. PICK r \in Rows : r = found[j].row
  BY DEF JobsInv, Runs
<1>2. ToApply(j) # {} /\ phase[j] # "none" /\ Applying(j)
  BY DEF JobsInv, Runs, Applying
<1>3. /\ writes' = [writes EXCEPT ![j][r] = to]
      /\ IF todo[j] = {} THEN phase'[j] = "old" /\ applied'[j] = D \cup {p}
         ELSE phase'[j] = "new" /\ applied'[j] = D
  BY <1>1 DEF Wrote, Applied, JobsInv
<1>4. InOrder(j) /\ InOrder(j)' /\ Prepared(j)'
  BY <1>2, <1>3, AppliedKeepsOrder DEF JobInv, Prepared
<1>5. /\ p \in Position /\ p.id \in NameChanges /\ \A q \in D : Before(q, p)
      /\ D \in FiniteChanges
  BY <1>2, <1>4, ChangeFacts, ListFacts
<1>6. Done(j) = D \cup {p} /\ Done(j)' = Done(j)
  <2>1. todo[j] # {} => p' = p
    BY <1>3, JobFrame DEF Change, ToApply
  <2> QED BY <1>2, <1>3, <2>1 DEF Done, Applying
<1>7. View(j)'[r] = to /\ \A x \in Rows : x # r => View(j)'[x] = View(j)[x]
  <2>1. /\ writes'[j][r] = to /\ \A x \in Rows : x # r => writes'[j][x] = writes[j][x]
    BY <1>3 DEF JobsInv
  <2>2. to # Untouched
    BY DEF Absent, Untouched
  <2> QED BY <2>1, <2>2 DEF View, Over
<1>8. Old[p.id] # New[p.id] /\ \A s \in Scopes : <<r, s>> \notin todo[j]
  BY <1>1, <1>2 DEF JobInv, Handling
<1>9. PICK s0 \in scopes[j] :
        /\ Has(View(j)[r], s0, Old[p.id])
        /\ found[j].new # None => \/ Has(View(j)[found[j].new], s0, New[p.id])
                                  \/ New[p.id] \in removed[j]
  BY <1>1, <1>2 DEF JobInv, Handling, OldOrDeleted
<1>10. Handling(j)'
  <2> SUFFICES ASSUME todo[j] # {} PROVE Handling(j)'
    BY <1>3 DEF Handling, Applying
  <2>1. p' = p
    BY <1>3, JobFrame DEF Change, ToApply
  <2>2. \A x \in Rows, s \in Scopes : <<x, s>> \in todo[j] =>
          /\ s \in scopes[j] /\ OldOrDeleted(j, x, s)
          /\ \A y \in Scopes : <<x, y>> \in todo[j] => y = s
    BY <1>2 DEF JobInv, Handling
  <2>3. \A x \in Rows, s \in Scopes : <<x, s>> \in todo[j] => OldOrDeleted(j, x, s)'
    <3> SUFFICES ASSUME NEW x \in Rows, NEW s \in Scopes, <<x, s>> \in todo[j]
                 PROVE  OldOrDeleted(j, x, s)'
      OBVIOUS
    <3>1. x # r
      BY <1>8
    <3>2. View(j)'[x] = View(j)[x] /\ Known(x)' = Known(x)
      BY <1>7, <3>1, JobFrame
    <3> QED BY <2>1, <2>2, <3>2 DEF OldOrDeleted, Has
  <2> QED BY <1>3, <1>8, <2>1, <2>2, <2>3 DEF Handling
\* Who had the old ticker by that row has the new one now, or lost it.
<1>11. ASSUME NEW t \in Tickers, Old[p.id] \in Names(D, t)
       PROVE  Lost(j, t)' \/ Stored(j, s0, t)'
  <2>1. New[p.id] \in Names(D \cup {p}, t)
    BY ONLY <1>5, <1>11, NamesOneMore
  <2>2. PICK n : n = New[p.id]
    OBVIOUS
  <2>3. n \in Names(Done(j), t)'
    BY <1>6, <2>1, <2>2, JobFrame
  <2>4. CASE n \in removed[j]
    <3>1. Lost(j, t)
      BY <1>2, <1>4, <1>6, <2>1, <2>2, <2>4, RemovedIsLost DEF JobsInv
    <3> QED BY <3>1, JobFrame
  <2>5. CASE to # Absent
    <3>1. Has(View(j)[r], s0, n)'
      BY <1>1, <1>7, <1>9, <2>2, <2>5 DEF Has
    <3> QED BY <2>3, <3>1 DEF Stored
  <2>6. CASE to = Absent /\ n \notin removed[j]
    <3>1. found[j].new # None
      <4>1. to.scope = None /\ s0 # None
        BY <2>6 DEF Absent, JobsInv
      <4> QED BY <1>1, <1>9, <4>1 DEF Has
    <3>2. PICK x \in Rows : x = found[j].new
      BY <3>1 DEF JobsInv
    <3>3. Has(View(j)[x], s0, n)
      BY <1>9, <2>2, <2>6, <3>1, <3>2
    <3>4. x # r
      BY <1>8, <1>9, <2>2, <3>3 DEF Has
    <3>5. Has(View(j)[x], s0, n)'
      BY <1>7, <3>3, <3>4 DEF Has
    <3> QED BY <2>3, <3>5 DEF Stored
  <2> QED BY <2>4, <2>5, <2>6
<1>12. Keeps(j)'
  <2> SUFFICES ASSUME NEW y \in Rows, table[y].scope \in scopes[j], NEW s, NEW t,
                      s = table[y].scope, t = table[y].ticker
               PROVE  Lost(j, t)' \/ Stored(j, s, t)' \/ Waits(j, s, t)'
    BY DEF Keeps
  <2>1. Lost(j, t) \/ Stored(j, s, t) \/ Waits(j, s, t)
    BY DEF JobInv, Keeps, InTransaction
  <2>2. \A X, v : Names(X, v)' = Names(X, v)
    BY JobFrame
  <2>3. s # None /\ t \in Tickers
    <3>1. scopes[j] \in SUBSET Scopes /\ table[y] \in Row \cup {Absent}
      BY DEF JobsInv
    <3>2. table[y] # Absent
      BY <3>1 DEF Absent
    <3> QED BY <3>1, <3>2 DEF Row
  <2>4. CASE Lost(j, t)
    BY <2>4, JobFrame
  <2>5. CASE Stored(j, s, t)
    <3>1. PICK x \in Rows, u \in Names(D \cup {p}, t) : Has(View(j)[x], s, u)
      BY <1>6, <2>5 DEF Stored
    <3>2. CASE x # r
      <4>1. Has(View(j)[x], s, u)'
        BY <1>7, <3>1, <3>2 DEF Has
      <4>2. u \in Names(Done(j), t)'
        BY <1>6, <2>2
      <4> QED BY <4>1, <4>2 DEF Stored
    <3>3. CASE x = r
      <4>1. s = s0 /\ u = Old[p.id]
        BY <1>9, <3>1, <3>3 DEF Has
      <4>2. t = Old[p.id] /\ t \in Names(D, t)
        <5>1. Old[p.id] \in Names(D \cup {p}, t)
          BY <4>1
        <5> QED BY ONLY <1>5, <1>8, <2>3, <5>1, NamesBack
      <4> QED BY <1>11, <2>3, <4>1, <4>2
    <3> QED BY <3>2, <3>3
  <2>6. CASE Waits(j, s, t)
    <3>1. Old[p.id] \in Names(D, t)
      BY <2>6 DEF Waits
    <3>2. PICK x \in Rows : Handles(j, x) /\ Has(View(j)[x], s, Old[p.id])
      BY <2>6 DEF Waits
    <3>3. CASE x # r
      <4>1. PICK q \in Scopes : <<x, q>> \in todo[j]
        BY <1>1, <3>2, <3>3 DEF Handles
      <4>2. phase'[j] = "new" /\ applied'[j] = D /\ p' = p
        BY <1>3, <4>1, JobFrame DEF Change, ToApply
      <4>3. Handles(j, x)' /\ Applying(j)'
        BY <4>1, <4>2 DEF Handles, Applying
      <4>4. View(j)'[x] = View(j)[x]
        BY <1>7, <3>3
      <4> QED BY <2>2, <3>1, <3>2, <4>2, <4>3, <4>4 DEF Waits, Has
    <3>4. CASE x = r
      <4>1. s = s0
        BY <1>9, <3>2, <3>4 DEF Has
      <4> QED BY <1>11, <2>3, <3>1, <4>1
    <3> QED BY <3>3, <3>4
  <2> QED BY <2>1, <2>4, <2>5, <2>6
<1> QED BY <1>4, <1>10, <1>12 DEF JobInv

\* A write that does not fail deletes the row, or gives it the new ticker.
LEMMA WriteDoes ==
  ASSUME RenamesInv, NEW j \in Calls, Write(j), InTransaction(j)'
  PROVE  /\ phase[j] = "write" /\ View(j)[found[j].row] # Absent
         /\ UNCHANGED <<calendar, table, edit, scopes, todo, found, removed>>
         /\ \E to : /\ Wrote(j, to)
                     /\ \/ to = Absent /\ found[j].new # None
                        \/ to.scope = View(j)[found[j].row].scope
                           /\ to.ticker = New[Change(j).id] /\ to # Untouched
<1> USE RenamesAssumption DEF RenamesInv, RenamesTypeOK
<1> DEFINE r == found[j].row
           row == View(j)[r]
           renamed == [row EXCEPT !.ticker = New[Change(j).id]]
<1>1. phase[j] = "write" /\ UNCHANGED <<calendar, table, edit, scopes, todo, found, removed>>
  BY DEF Write
<1>2. row \in Row \cup {Absent}
  BY <1>1, ViewType DEF JobsInv, Runs
<1>3. row # Absent => renamed.scope = row.scope /\ renamed.ticker = New[Change(j).id]
                      /\ renamed # Untouched
  <2> SUFFICES ASSUME row \in Row
               PROVE  /\ renamed.scope = row.scope /\ renamed.ticker = New[Change(j).id]
                      /\ renamed # Untouched
    BY <1>2
  <2>1. renamed.scope = row.scope /\ renamed.ticker = New[Change(j).id]
    BY DEF Row
  <2>2. row.scope # None /\ Untouched.scope = None
    BY DEF Row, Untouched
  <2> QED BY <2>1, <2>2
<1>4. ~ \E how \in {"committed", "rolledBack"} : Ended(j, how)
  BY DEF Ended, InTransaction, JobsInv
<1>5. row # Absent /\ ((found[j].new # None /\ Wrote(j, Absent)) \/ Wrote(j, renamed))
  BY <1>4 DEF Write
<1> HIDE DEF renamed
<1> QED BY <1>1, <1>3, <1>5

LEMMA WriteKeeps ==
  ASSUME RenamesInv, NEW j \in Calls, Write(j), InTransaction(j)'
  PROVE  JobInv(j)'
BY WriteDoes, WroteKeeps

\* A job that steps is busy, and changes its own state alone.
LEMMA JobAlone ==
  ASSUME JobsInv, NEW i \in Calls, Job(i)
  PROVE  /\ Busy(i) /\ i \in Jobs /\ UNCHANGED <<calendar, edit, removed>>
         /\ \A j \in Calls : j # i => /\ phase'[j] = phase[j] /\ applied'[j] = applied[j]
                                      /\ writes'[j] = writes[j] /\ scopes'[j] = scopes[j]
<1> USE DEF RenamesTypeOK
<1>1. /\ UNCHANGED <<calendar, edit, removed>>
      /\ \A j \in Calls : j # i => /\ phase'[j] = phase[j] /\ applied'[j] = applied[j]
                                   /\ writes'[j] = writes[j] /\ scopes'[j] = scopes[j]
  BY DEF Job, Begin, FindOld, FindNew, Write, Wrote, Applied, Ended, Commit, RollBack, JobsInv
<1>2. Busy(i) /\ i \in Jobs
  BY DEF Job, Begin, FindOld, FindNew, Write, Commit, RollBack, InTransaction, JobsInv, Runs,
     Busy, Returned, Jobs
<1> QED BY <1>1, <1>2

LEMMA JobKeeps ==
  ASSUME RenamesInv, NEW i \in Calls, Job(i)
  PROVE  \A j \in Calls : JobInv(j)'
<1> USE DEF RenamesInv, RenamesTypeOK
<1>1. /\ UNCHANGED <<calendar, edit, removed>>
      /\ \A j \in Calls : j # i => /\ phase'[j] = phase[j] /\ applied'[j] = applied[j]
                                   /\ writes'[j] = writes[j]
  BY JobAlone
<1>2. Busy(i) /\ i \in Jobs
  BY JobAlone
<1>3. ASSUME NEW j \in Calls, ~InTransaction(j)', phase'[j] # "none" \/ j # i, InOrder(j)'
      PROVE  JobInv(j)'
  BY <1>1, <1>3 DEF JobInv, Prepared, Handling, Applying, Keeps, InTransaction
<1>4. ASSUME NEW j \in Calls, j # i PROVE JobInv(j)'
  <2>1. ~InTransaction(j)
    BY <1>2, <1>4, InTransactionBusy DEF OneJob
  <2>2. InOrder(j)'
    BY <1>1, <1>4, JobFrame DEF JobInv, InOrder, ToApply
  <2> QED BY <1>1, <1>3, <1>4, <2>1, <2>2 DEF InTransaction
<1>5. ASSUME NEW how \in {"committed", "rolledBack"}, Ended(i, how),
             UNCHANGED applied
      PROVE  JobInv(i)'
  <2>1. phase'[i] = how
    BY <1>5 DEF Ended, JobsInv
  <2>2. InOrder(i)'
    BY <1>1, <1>5, JobFrame DEF JobInv, InOrder, ToApply
  <2> QED BY <1>3, <1>5, <2>1, <2>2 DEF InTransaction
<1>6. ASSUME Write(i) PROVE JobInv(i)'
  <2>1. CASE InTransaction(i)'
    BY <1>6, <2>1, WriteKeeps
  <2>2. CASE ~InTransaction(i)'
    <3>1. \A to : ~Wrote(i, to)
      BY <2>2 DEF Wrote, InTransaction, JobsInv
    <3>2. /\ ~Wrote(i, Absent)
          /\ ~Wrote(i, [View(i)[found[i].row] EXCEPT !.ticker = New[Change(i).id]])
      BY <3>1
    <3>3. Ended(i, "rolledBack") /\ UNCHANGED applied
      BY <1>6, <3>2 DEF Write
    <3> QED BY <1>5, <3>3
  <2> QED BY <2>1, <2>2
<1>7. ASSUME Commit(i) \/ RollBack(i) PROVE JobInv(i)'
  <2>1. UNCHANGED applied /\ (Ended(i, "committed") \/ Ended(i, "rolledBack"))
    BY <1>7 DEF Commit, RollBack
  <2> QED BY <1>5, <2>1
<1>8. JobInv(i)'
  BY <1>6, <1>7, BeginKeeps, FindOldKeeps, FindNewKeeps DEF Job
<1> QED BY <1>4, <1>8

\* Only its own commit commits a job.
LEMMA CommitsOnly ==
  ASSUME JobsInv, [Next]_vars, NEW j \in Calls, phase[j] # "committed",
         phase'[j] = "committed"
  PROVE  Commit(j)
<1> USE DEF JobsInv, RenamesTypeOK
<1>1. phase' # phase
  OBVIOUS
<1>2. PICK i \in Calls : Job(i)
  BY <1>1 DEF Next, Calendar, Operator, Find, Create, DeleteById, UpdateStatus, vars, jobVars
<1> QED BY <1>2 DEF Job, Begin, FindOld, FindNew, Write, Wrote, Ended, Commit, RollBack

LEMMA RenamesStart == Init => RenamesInv
<1> SUFFICES ASSUME Init PROVE RenamesInv
  OBVIOUS
<1>1. JobsInv
  BY JobsStart
<1>2. OneJob
  BY DEF Init, PageInit, OneJob, Busy, Jobs
<1>3. ASSUME NEW j \in Calls PROVE JobInv(j)
  BY FS_EmptySet DEF Init, PageInit, RenamesInit, JobInv, InOrder, ToApply, Effective,
     Prepared, Handling, Applying, Keeps, InTransaction
<1> QED BY <1>1, <1>2, <1>3 DEF RenamesInv

LEMMA RenamesStep == RenamesInv /\ [Next]_vars => RenamesInv'
<1> SUFFICES ASSUME RenamesInv, [Next]_vars PROVE RenamesInv'
  OBVIOUS
<1>1. JobsInv' /\ OneJob'
  BY JobsStep, OneJobStep DEF RenamesInv
<1>2. CASE UNCHANGED vars
  <2> USE DEF vars, jobVars
  <2>1. \A j \in Calls : InOrder(j)' /\ Prepared(j)'
    BY <1>2, JobFrame DEF RenamesInv, JobInv, InOrder, ToApply, Prepared
  <2>2. ASSUME NEW j \in Calls PROVE Handling(j)' /\ Keeps(j)'
    <3>1. /\ Effective(j)' = Effective(j) /\ \A t : Lost(j, t)' = Lost(j, t)
          /\ \A D, t : Names(D, t)' = Names(D, t)
          /\ \A r : Known(r)' = Known(r)
      BY <1>2, JobFrame
    <3>2. View(j)' = View(j) /\ Change(j)' = Change(j) /\ Done(j)' = Done(j)
      BY <1>2, <3>1 DEF View, Over, Change, ToApply, Done, Applying
    <3>3. Handling(j)'
      BY <1>2, <3>1, <3>2 DEF RenamesInv, JobInv, Handling, OldOrDeleted, Applying
    <3>4. \A s, t : Stored(j, s, t)' = Stored(j, s, t) /\ Waits(j, s, t)' = Waits(j, s, t)
      BY <1>2, <3>1, <3>2 DEF Stored, Waits, Handles, Applying
    <3>5. Keeps(j)'
      BY <1>2, <3>1, <3>4 DEF RenamesInv, JobInv, Keeps, InTransaction
    <3> QED BY <3>3, <3>5
  <2> QED BY <1>1, <2>1, <2>2 DEF RenamesInv, JobInv
<1>3. CASE Next
  BY <1>1, <1>3, CalendarKeeps, OperatorKeeps, JobKeeps DEF Next, RenamesInv
<1> QED BY <1>2, <1>3

\* A job that commits has kept every company of its scopes.
THEOREM NothingLost == Spec => JobsLoseNothing
<1> DEFINE Keeping ==
      \A j \in Calls : phase[j] # "committed" /\ phase'[j] = "committed" =>
        \A r \in Rows : table[r].scope \in scopes[j] =>
          LET s == table[r].scope  t == table[r].ticker IN
          \/ \E S \in Tails(Effective(j)) :
               /\ S = Effective(j) \/ Added(t)
               /\ Holds(table', s, RenamedBy[S][t])
          \/ \E S \in Stretches(Effective(j)) : RenamedBy[S][t] \in removed[j]
<1>1. RenamesInv /\ [Next]_vars => [Keeping]_vars
  <2> SUFFICES ASSUME RenamesInv, [Next]_vars, NEW j \in Calls,
                      phase[j] # "committed", phase'[j] = "committed",
                      NEW r \in Rows, table[r].scope \in scopes[j],
                      NEW s, NEW t, s = table[r].scope, t = table[r].ticker
               PROVE  \/ \E S \in Tails(Effective(j)) :
                           /\ S = Effective(j) \/ Added(t)
                           /\ Holds(table', s, RenamedBy[S][t])
                      \/ \E S \in Stretches(Effective(j)) : RenamedBy[S][t] \in removed[j]
    OBVIOUS
  <2>1. Commit(j)
    BY CommitsOnly DEF RenamesInv
  <2>2. phase[j] = "old" /\ ToApply(j) = {} /\ table' = View(j)
    BY <2>1 DEF Commit
  <2>3. Done(j) = Effective(j)
    BY <2>2 DEF RenamesInv, JobInv, InOrder, Done, Applying, ToApply
  <2>4. Lost(j, t) \/ Stored(j, s, t)
    BY <2>2 DEF RenamesInv, JobInv, Keeps, InTransaction, Waits, Applying
  <2>5. CASE Lost(j, t)
    BY <2>5 DEF Lost
  <2>6. CASE Stored(j, s, t)
    <3>1. PICK x \in Rows, u \in Names(Effective(j), t) : Has(View(j)[x], s, u)
      BY <2>3, <2>6 DEF Stored
    <3>2. PICK S \in Tails(Effective(j)) : u = RenamedBy[S][t] /\ (S = Effective(j) \/ Added(t))
      BY <3>1 DEF Names
    <3>3. Holds(table', s, u)
      BY <2>2, <3>1 DEF Holds, Has
    <3> QED BY <3>2, <3>3
  <2> QED BY <2>4, <2>5, <2>6
<1>2. Spec => [][Keeping]_vars
  BY <1>1, RenamesStart, RenamesStep, PTL DEF Spec
<1> QED BY <1>2 DEF JobsLoseNothing

-----------------------------------------------------------------------------
(***************************************************************************)
(* A second run.  A change leaves no row with its old ticker, nobody       *)
(* brings that back when no later change takes it, and so the same list    *)
(* finds nothing to handle.                                                *)
(***************************************************************************)
NoEdits == \A e \in Edits : edit[e] = NotMade
OnlyOne(i) == \A k \in Jobs \ {i} : phase[k] # "committed"
Gone(rows, ss, D) ==
  \A p \in D : Old[p.id] # New[p.id] =>
    \A r \in Rows : rows[r].scope \in ss => rows[r].ticker # Old[p.id]
AllHandled(j) ==
  \A r \in Rows : View(j)[r].scope \in scopes[j] /\ View(j)[r].ticker = Old[Change(j).id] =>
    Handles(j, r)
Cleans(j) == ~Reused(Effective(j)) =>
  /\ InTransaction(j) => Gone(View(j), scopes[j], applied[j])
  /\ Applying(j) => AllHandled(j)
  /\ phase[j] = "committed" /\ OnlyOne(j) => Gone(table, scopes[j], Effective(j))
Repeats(i, j) ==
  /\ phase[i] = "committed" /\ OnlyOne(i) /\ InTransaction(j)
  /\ scopes[i] = scopes[j] /\ Effective(i) = Effective(j) /\ ~Reused(Effective(j))
Idles(i, j) ==
  Repeats(i, j) => phase[j] = "old" /\ writes[j] = [r \in Rows |-> Untouched]
SecondInv ==
  RenamesInv /\ (NoEdits => \A j \in Calls : Cleans(j) /\ \A i \in Calls : Idles(i, j))

LEMMA SecondStart == Init => SecondInv
<1> SUFFICES ASSUME Init PROVE SecondInv
  OBVIOUS
<1>1. \A j \in Calls : phase[j] = "none"
  BY DEF Init, RenamesInit
<1> QED BY <1>1, RenamesStart DEF SecondInv, Cleans, Idles, Repeats, InTransaction, Applying

\* Once the operator has made an edit, it stays made.
LEMMA EditsStay ==
  ASSUME JobsInv, [Next]_vars, NoEdits'
  PROVE  NoEdits /\ (Calendar \/ (\E j \in Calls : Job(j)) \/ UNCHANGED vars)
<1> USE DEF JobsInv, RenamesTypeOK
<1>1. ASSUME NEW e \in Edits, Operator(e) PROVE edit'[e] # NotMade
  BY <1>1 DEF Operator, Find, Create, DeleteById, UpdateStatus, Outcome, Does, NotMade
<1>2. ~ \E e \in Edits : Operator(e)
  BY <1>1 DEF NoEdits
<1>3. Calendar \/ (\E j \in Calls : Job(j)) \/ UNCHANGED vars
  BY <1>2 DEF Next
<1>4. UNCHANGED edit
  BY <1>3, JobAlone DEF Calendar, vars
<1> QED BY <1>3, <1>4 DEF NoEdits

LEMMA FindOldCleans ==
  ASSUME RenamesInv, NEW j \in Calls, Cleans(j), FindOld(j)
  PROVE  Cleans(j)'
<1> USE DEF RenamesInv, RenamesTypeOK
<1> DEFINE p == Change(j)
           old == Old[p.id]
           olds == IF old = New[p.id] THEN {} ELSE OldRows(j)
<1>1. /\ phase[j] = "old" /\ ToApply(j) # {} /\ todo'[j] = olds
      /\ IF olds = {} THEN applied'[j] = applied[j] \cup {p} /\ phase'[j] = "old"
         ELSE applied'[j] = applied[j] /\ phase'[j] = "new"
      /\ UNCHANGED <<calendar, table, edit, scopes, found, writes, removed>>
  BY DEF FindOld, Applied, JobsInv
<1>2. /\ View(j)' = View(j) /\ Effective(j)' = Effective(j)
      /\ Reused(Effective(j))' = Reused(Effective(j))
  BY <1>1, JobFrame DEF View, Over, Reused
<1>3. ASSUME old # New[p.id], NEW r \in Rows, NEW s \in scopes[j],
             View(j)[r].scope = s, View(j)[r].ticker = old
      PROVE  <<r, s>> \in olds
  <2>1. s # None
    BY RenamesAssumption DEF JobsInv
  <2>2. View(j)[r] # Absent
    BY <1>3, <2>1 DEF Absent
  <2>3. r \in With(j, s, old)
    BY <1>3, <2>2 DEF With
  <2> QED BY <1>3, <2>3 DEF OldRows
<1> HIDE DEF olds
<1>4. CASE olds = {}
  <2>1. \A r \in Rows : old # New[p.id] /\ View(j)[r].scope \in scopes[j] =>
          View(j)[r].ticker # old
    BY <1>3, <1>4
  <2>2. ~Reused(Effective(j)) => Gone(View(j), scopes[j], applied[j] \cup {p})
    BY <1>1, <2>1 DEF Cleans, Gone, InTransaction
  <2>3. phase'[j] = "old" /\ applied'[j] = applied[j] \cup {p} /\ scopes' = scopes
    BY <1>1, <1>4
  <2>4. ~Reused(Effective(j))' => Gone(View(j), scopes[j], applied[j])'
    BY <1>2, <2>2, <2>3 DEF Gone
  <2> QED BY <2>3, <2>4 DEF Cleans, Applying
<1>5. CASE olds # {}
  <2>1. phase'[j] = "new" /\ applied'[j] = applied[j] /\ scopes' = scopes /\ todo'[j] = olds
    BY <1>1, <1>5
  <2>2. ~Reused(Effective(j))' => Gone(View(j), scopes[j], applied[j])'
    BY <1>1, <1>2, <2>1 DEF Cleans, Gone, InTransaction
  <2>3. p' = p
    BY <1>1, <2>1, JobFrame DEF Change, ToApply
  <2>4. old # New[p.id]
    BY <1>5 DEF olds
  <2>5. AllHandled(j)'
    <3> SUFFICES ASSUME NEW r \in Rows, View(j)[r].scope \in scopes[j], View(j)[r].ticker = old
                 PROVE  Handles(j, r)'
      BY <1>2, <2>1, <2>3 DEF AllHandled
    <3>1. View(j)[r].scope \in Scopes
      BY DEF JobsInv
    <3>2. <<r, View(j)[r].scope>> \in olds
      BY <1>3, <2>4
    <3> QED BY <2>1, <3>1, <3>2 DEF Handles
  <2> QED BY <2>1, <2>2, <2>5 DEF Cleans
<1> QED BY <1>4, <1>5

LEMMA FindNewCleans ==
  ASSUME RenamesInv, NEW j \in Calls, Cleans(j), NEW r \in Rows, NEW s \in Scopes,
         FindNew(j, r, s)
  PROVE  Cleans(j)'
<1> USE DEF RenamesInv, RenamesTypeOK
<1>1. /\ phase[j] = "new" /\ <<r, s>> \in todo[j] /\ phase'[j] = "write"
      /\ todo'[j] = todo[j] \ {<<r, s>>} /\ found'[j].row = r
      /\ UNCHANGED <<calendar, table, edit, scopes, applied, writes, removed>>
  BY DEF FindNew, JobsInv
<1>2. /\ View(j)' = View(j) /\ Change(j)' = Change(j) /\ Effective(j)' = Effective(j)
      /\ Reused(Effective(j))' = Reused(Effective(j))
  BY <1>1, JobFrame DEF View, Over, Change, ToApply, Reused
<1>3. \A x \in Rows : Handles(j, x) => Handles(j, x)'
  BY <1>1 DEF Handles
<1>4. AllHandled(j) => AllHandled(j)'
  BY <1>1, <1>2, <1>3 DEF AllHandled
<1>5. Gone(View(j), scopes[j], applied[j]) => Gone(View(j), scopes[j], applied[j])'
  BY <1>1, <1>2 DEF Gone
<1> QED BY <1>1, <1>2, <1>4, <1>5 DEF Cleans, InTransaction, Applying

LEMMA WriteCleans ==
  ASSUME RenamesInv, NEW j \in Calls, Cleans(j), Write(j), InTransaction(j)'
  PROVE  Cleans(j)'
<1> USE DEF RenamesInv, RenamesTypeOK
<1> DEFINE p == Change(j)
           D == applied[j]
<1>1. /\ phase[j] = "write" /\ InTransaction(j) /\ Applying(j)
      /\ UNCHANGED <<calendar, table, edit, scopes, todo, found, removed>>
  BY WriteDoes DEF InTransaction, Applying
<1>2. PICK to : /\ Wrote(j, to)
                /\ \/ to = Absent
                   \/ to.ticker = New[p.id] /\ to # Untouched
  BY WriteDoes
<1>3. PICK r \in Rows : r = found[j].row
  BY <1>1 DEF JobsInv, Runs
<1>4. /\ writes' = [writes EXCEPT ![j][r] = to]
      /\ IF todo[j] = {} THEN phase'[j] = "old" /\ applied'[j] = D \cup {p}
         ELSE phase'[j] = "new" /\ applied'[j] = D
  BY <1>2, <1>3 DEF Wrote, Applied, JobsInv
<1>5. View(j)'[r] = to /\ \A x \in Rows : x # r => View(j)'[x] = View(j)[x]
  <2>1. /\ writes'[j][r] = to /\ \A x \in Rows : x # r => writes'[j][x] = writes[j][x]
    BY <1>4 DEF JobsInv
  <2>2. to # Untouched
    BY <1>2 DEF Absent, Untouched
  <2> QED BY <1>1, <2>1, <2>2, RenamesAssumption DEF View, Over
<1>6. /\ \A q \in D : q \in Effective(j) /\ Before(q, p)
      /\ p \in Effective(j) /\ Old[p.id] # New[p.id]
  <2>1. ToApply(j) # {}
    BY <1>1 DEF JobsInv, Runs
  <2> QED BY <1>1, <2>1, ChangeFacts, ListFacts DEF JobInv, Handling
<1>7. Effective(j)' = Effective(j) /\ Reused(Effective(j))' = Reused(Effective(j))
  BY <1>1, JobFrame DEF Reused
<1> SUFFICES ASSUME ~Reused(Effective(j)) PROVE Cleans(j)'
  BY <1>7 DEF Cleans
<1>8. Gone(View(j), scopes[j], D) /\ AllHandled(j)
  BY <1>1 DEF Cleans
\* No row gets the old ticker of a change up to this one.
<1>9. ASSUME NEW q \in D \cup {p}, View(j)'[r].scope \in scopes[j]
      PROVE  View(j)'[r].ticker # Old[q.id]
  <2>1. to # Absent
    BY <1>5, <1>9, RenamesAssumption DEF Absent, JobsInv
  <2>2. to.ticker = New[p.id]
    BY <1>2, <2>1
  <2>3. New[p.id] # Old[q.id]
    BY <1>6 DEF Reused
  <2> QED BY <1>5, <2>2, <2>3
<1>10. Gone(View(j)', scopes[j], D)
  BY <1>5, <1>8, <1>9 DEF Gone
<1>11. \A x \in Rows : View(j)'[x].scope \in scopes[j] /\ View(j)'[x].ticker = Old[p.id] =>
         x # r /\ \E s \in Scopes : <<x, s>> \in todo[j]
  BY <1>3, <1>5, <1>8, <1>9 DEF AllHandled, Handles
<1>12. CASE todo[j] = {}
  <2>1. Gone(View(j)', scopes[j], D \cup {p})
    BY <1>10, <1>11, <1>12 DEF Gone
  <2>2. phase'[j] = "old" /\ applied'[j] = D \cup {p} /\ scopes'[j] = scopes[j]
    BY <1>1, <1>4, <1>12
  <2> QED BY <2>1, <2>2 DEF Cleans, Applying, Gone
<1>13. CASE todo[j] # {}
  <2>1. phase'[j] = "new" /\ applied'[j] = D /\ scopes'[j] = scopes[j] /\ todo'[j] = todo[j]
    BY <1>1, <1>4, <1>13
  <2>2. p' = p
    BY <1>7, <2>1 DEF Change, ToApply
  <2>3. AllHandled(j)'
    BY <1>11, <2>1, <2>2 DEF AllHandled, Handles
  <2>4. Gone(View(j), scopes[j], applied[j])'
    BY <1>10, <2>1 DEF Gone
  <2> QED BY <2>1, <2>3, <2>4 DEF Cleans
<1> QED BY <1>12, <1>13

LEMMA JobCleans ==
  ASSUME RenamesInv, NEW k \in Calls, Job(k), NEW j \in Calls, Cleans(j)
  PROVE  Cleans(j)'
<1> USE DEF RenamesInv, RenamesTypeOK
<1>1. /\ Busy(k) /\ k \in Jobs /\ UNCHANGED <<calendar, edit, removed>>
      /\ \A c \in Calls : c # k => /\ phase'[c] = phase[c] /\ applied'[c] = applied[c]
                                   /\ writes'[c] = writes[c] /\ scopes'[c] = scopes[c]
  BY JobAlone
<1>2. Effective(j)' = Effective(j) /\ Reused(Effective(j))' = Reused(Effective(j))
  BY <1>1, JobFrame DEF Reused
<1>3. CASE j # k
  <2>1. phase'[j] = phase[j] /\ scopes'[j] = scopes[j]
    BY <1>1, <1>3
  <2>2. ~InTransaction(j) /\ ~InTransaction(j)' /\ ~Applying(j)'
    BY <1>1, <1>3, <2>1, InTransactionBusy DEF OneJob, InTransaction, Applying
  <2>3. OnlyOne(j)' => OnlyOne(j) /\ phase'[k] # "committed"
    <3>1. Jobs' = Jobs
      BY <1>1 DEF Jobs, calendar, calendarVars
    <3>2. phase[k] # "committed"
      BY <1>1 DEF Busy
    <3> QED BY <1>1, <1>3, <3>1, <3>2 DEF OnlyOne, Jobs
  <2>4. phase'[k] = "committed" \/ table' = table
    BY DEF Job, Begin, FindOld, FindNew, Write, Commit, RollBack, Ended, JobsInv
  <2> QED BY <1>2, <2>1, <2>2, <2>3, <2>4 DEF Cleans, Gone
<1>4. CASE Begin(j, scopes'[j]) \/ Commit(j) \/ RollBack(j)
  <2>1. CASE Begin(j, scopes'[j])
    <3>1. phase'[j] = "old" /\ applied'[j] = {}
      BY <2>1 DEF Begin, JobInv, Prepared, JobsInv
    <3> QED BY <3>1 DEF Cleans, Gone, Applying
  <2>2. CASE Commit(j)
    <3>1. /\ phase'[j] = "committed" /\ table' = View(j) /\ InTransaction(j)
          /\ ToApply(j) = {} /\ scopes'[j] = scopes[j]
      BY <2>2 DEF Commit, Ended, JobsInv, InTransaction
    <3>2. applied[j] = Effective(j)
      BY <3>1 DEF ToApply, JobInv, InOrder
    <3>3. ~Reused(Effective(j)) => Gone(table, scopes[j], Effective(j))'
      BY <1>2, <3>1, <3>2 DEF Cleans, Gone
    <3> QED BY <1>2, <3>1, <3>3 DEF Cleans, InTransaction, Applying
  <2>3. CASE RollBack(j)
    <3>1. phase'[j] = "rolledBack"
      BY <2>3 DEF RollBack, Ended, JobsInv
    <3> QED BY <3>1 DEF Cleans, InTransaction, Applying
  <2> QED BY <1>4, <2>1, <2>2, <2>3
<1>5. CASE Write(j)
  <2>1. CASE InTransaction(j)'
    BY <1>5, <2>1, WriteCleans
  <2>2. CASE ~InTransaction(j)'
    <3>1. phase[j] = "write" /\ phase'[j] \in {"old", "new", "rolledBack"}
      BY <1>5 DEF Write, Wrote, Ended, JobsInv
    <3> QED BY <2>2, <3>1 DEF Cleans, InTransaction, Applying
  <2> QED BY <2>1, <2>2
<1>6. CASE j = k
  <2>1. \A s : Begin(j, s) => Begin(j, scopes'[j])
    BY DEF Begin, JobsInv
  <2> QED BY <1>4, <1>5, <1>6, <2>1, FindOldCleans, FindNewCleans DEF Job
<1> QED BY <1>3, <1>6

\* With the list of the one that committed, a job finds nothing to handle.
LEMMA JobIdles ==
  ASSUME RenamesInv, NEW k \in Calls, Job(k), NEW i \in Calls, NEW j \in Calls,
         Cleans(i), Idles(i, j)
  PROVE  Idles(i, j)'
<1> USE DEF RenamesInv, RenamesTypeOK
<1> SUFFICES ASSUME Repeats(i, j)'
             PROVE  (phase[j] = "old" /\ writes[j] = [r \in Rows |-> Untouched])'
  BY DEF Idles
<1>1. /\ Busy(k) /\ k \in Jobs /\ UNCHANGED <<calendar, edit, removed>>
      /\ \A c \in Calls : c # k => /\ phase'[c] = phase[c] /\ applied'[c] = applied[c]
                                   /\ writes'[c] = writes[c] /\ scopes'[c] = scopes[c]
  BY JobAlone
<1>2. /\ phase'[i] = "committed" /\ phase'[j] \in {"old", "new", "write"} /\ i # j
      /\ \A c \in Jobs \ {i} : phase'[c] # "committed"
      /\ scopes'[i] = scopes'[j] /\ Effective(i) = Effective(j) /\ ~Reused(Effective(j))
  <2>1. /\ Effective(i)' = Effective(i) /\ Effective(j)' = Effective(j)
        /\ Reused(Effective(j))' = Reused(Effective(j)) /\ Jobs' = Jobs
    BY <1>1, JobFrame DEF Reused, Jobs, calendar, calendarVars
  <2>2. phase'[i] = "committed" /\ phase'[j] \in {"old", "new", "write"}
    BY DEF Repeats, InTransaction
  <2>3. \A c \in Jobs \ {i} : phase'[c] # "committed"
    BY <2>1 DEF Repeats, OnlyOne
  <2>4. scopes'[i] = scopes'[j] /\ Effective(i)' = Effective(j)' /\ ~Reused(Effective(j))'
    BY DEF Repeats
  <2> QED BY <2>1, <2>2, <2>3, <2>4
<1>3. j = k
  <2>1. CASE j # k
    <3>1. InTransaction(j)
      BY <1>1, <1>2, <2>1 DEF InTransaction
    <3> QED BY <1>1, <2>1, <3>1, InTransactionBusy DEF OneJob
  <2> QED BY <2>1
<1>4. phase[i] = "committed" /\ OnlyOne(i) /\ scopes'[i] = scopes[i]
  <2>1. phase[j] # "committed"
    BY <1>1, <1>3 DEF Busy
  <2> QED BY <1>1, <1>2, <1>3, <2>1 DEF OnlyOne, Jobs
<1>5. CASE phase[j] = "none"
  <2>1. PICK s : Begin(j, s)
    BY <1>3, <1>5 DEF Job, FindOld, FindNew, Write, Commit, RollBack, InTransaction
  <2> QED BY <1>5, <2>1 DEF Begin, JobInv, Prepared, JobsInv
<1>6. CASE phase[j] # "none"
  <2>1. InTransaction(j)
    BY <1>1, <1>3, <1>6 DEF Busy, InTransaction, JobsInv
  <2>2. scopes' = scopes
    BY <1>3, <1>6 DEF Job, Begin, FindOld, FindNew, Write, Commit, RollBack
  <2>3. phase[j] = "old" /\ writes[j] = [r \in Rows |-> Untouched]
    BY <1>2, <1>4, <2>1, <2>2 DEF Idles, Repeats
  <2>4. View(j) = table
    BY <2>3 DEF View, Over, JobsInv
  <2>5. CASE FindOld(j)
    <3> DEFINE p == Change(j)
    <3>1. ToApply(j) # {} /\ writes' = writes
      BY <2>5 DEF FindOld
    <3>2. p \in Effective(i)
      BY <1>2, <1>6, <3>1, ChangeFacts DEF JobInv
    <3>3. Gone(table, scopes[j], Effective(i))
      BY <1>2, <1>4, <2>2 DEF Cleans
    <3>4. Old[p.id] # New[p.id] => OldRows(j) = {}
      BY <2>4, <3>2, <3>3 DEF Gone, OldRows, With
    <3>5. phase' = phase
      BY <2>5, <3>4 DEF FindOld
    <3> QED BY <2>3, <3>1, <3>5
  <2>6. CASE Commit(j) \/ RollBack(j)
    BY <1>2, <2>6 DEF Commit, RollBack, Ended, JobsInv
  <2> QED BY <1>3, <1>6, <2>3, <2>5, <2>6 DEF Job, Begin, FindNew, Write
<1> QED BY <1>5, <1>6

LEMMA SecondStep == ASSUME SecondInv, [Next]_vars PROVE SecondInv'
<1>1. RenamesInv /\ RenamesInv'
  BY RenamesStep DEF SecondInv
<1> SUFFICES ASSUME NoEdits', NEW j \in Calls
             PROVE  Cleans(j)' /\ \A i \in Calls : Idles(i, j)'
  BY <1>1 DEF SecondInv
<1>2. NoEdits /\ (Calendar \/ (\E k \in Calls : Job(k)) \/ UNCHANGED vars)
  BY <1>1, EditsStay DEF RenamesInv
<1>3. \A c \in Calls : Cleans(c) /\ \A i \in Calls : Idles(i, c)
  BY <1>2 DEF SecondInv
<1>4. CASE \E k \in Calls : Job(k)
  BY <1>1, <1>3, <1>4, JobCleans, JobIdles
<1>5. CASE Calendar \/ UNCHANGED vars
  <2>1. UNCHANGED <<table, edit, jobVars, removed>>
    BY <1>5 DEF Calendar, vars
  <2>2. \A c \in Calls : phase[c] # "none" => Effective(c)' = Effective(c)
    BY <1>1, <1>5, CalendarKeepsList DEF RenamesInv, vars, Effective, calendar, pageVars,
       calendarVars
  <2>3. Jobs' = Jobs
    BY <1>5 DEF Jobs, Calendar, Revised, ReviseAny, Revise, StartCall, Midnight, vars,
       calendar, calendarVars
  <2>4. phase' = phase /\ applied' = applied /\ scopes' = scopes /\ writes' = writes
        /\ found' = found /\ todo' = todo
    BY <2>1 DEF jobVars
  <2>5. \A c \in Calls : OnlyOne(c)' = OnlyOne(c) /\ InTransaction(c)' = InTransaction(c)
    BY <2>3, <2>4 DEF OnlyOne, InTransaction
  <2>6. ASSUME NEW c \in Calls, phase[c] # "none"
        PROVE  /\ View(c)' = View(c) /\ Change(c)' = Change(c)
               /\ Reused(Effective(c))' = Reused(Effective(c))
    BY <2>1, <2>2, <2>4, <2>6 DEF View, Over, Change, ToApply, Reused
  <2>7. Cleans(j)'
    <3>1. CASE phase[j] = "none"
      BY <2>4, <3>1 DEF Cleans, InTransaction, Applying
    <3>2. CASE phase[j] # "none"
      <4>1. AllHandled(j)' = AllHandled(j)
        BY <2>4, <2>6, <3>2 DEF AllHandled, Handles
      <4> QED BY <1>3, <2>1, <2>2, <2>4, <2>5, <2>6, <3>2, <4>1 DEF Cleans, Gone, Applying
    <3> QED BY <3>1, <3>2
  <2>8. ASSUME NEW i \in Calls PROVE Idles(i, j)'
    <3> SUFFICES ASSUME Repeats(i, j)'
                 PROVE  (phase[j] = "old" /\ writes[j] = [r \in Rows |-> Untouched])'
      BY DEF Idles
    <3>1. phase[i] # "none" /\ phase[j] # "none"
      BY <2>4 DEF Repeats, InTransaction
    <3>2. Repeats(i, j)
      BY <2>2, <2>4, <2>5, <2>6, <3>1 DEF Repeats
    <3> QED BY <1>3, <2>4, <3>2 DEF Idles
  <2> QED BY <2>7, <2>8
<1> QED BY <1>2, <1>4, <1>5

\* The same list applied again changes nothing.
THEOREM SecondRunIsIdle == Spec => SecondRunChangesNothing
<1> DEFINE Idle ==
      \A i, j \in Calls :
        /\ phase[i] = "committed" /\ phase[j] # "committed" /\ phase'[j] = "committed"
        /\ scopes[i] = scopes[j] /\ Effective(i) = Effective(j)
        /\ ~Reused(Effective(j)) /\ \A e \in Edits : edit[e] = NotMade
        /\ \A k \in Jobs \ {i, j} : phase[k] # "committed"
        => table' = table
<1>1. SecondInv /\ [Next]_vars => [Idle]_vars
  <2> SUFFICES ASSUME SecondInv, [Next]_vars, NEW i \in Calls, NEW j \in Calls,
                      phase[i] = "committed", phase[j] # "committed",
                      phase'[j] = "committed", scopes[i] = scopes[j],
                      Effective(i) = Effective(j), ~Reused(Effective(j)), NoEdits,
                      \A k \in Jobs \ {i, j} : phase[k] # "committed"
               PROVE  table' = table
    BY DEF NoEdits
  <2>1. RenamesInv /\ JobsInv
    BY DEF SecondInv, RenamesInv
  <2>2. Commit(j)
    BY <2>1, CommitsOnly
  <2>3. phase[j] = "old" /\ table' = View(j)
    BY <2>2 DEF Commit
  <2>4. Repeats(i, j)
    BY <2>3 DEF Repeats, OnlyOne, InTransaction
  <2>5. writes[j] = [r \in Rows |-> Untouched]
    BY <2>4 DEF SecondInv, Idles
  <2> QED BY <2>1, <2>3, <2>5 DEF View, Over, JobsInv, RenamesTypeOK
<1>2. Spec => [][Idle]_vars
  BY <1>1, SecondStart, SecondStep, PTL DEF Spec
<1> QED BY <1>2 DEF SecondRunChangesNothing
=============================================================================
