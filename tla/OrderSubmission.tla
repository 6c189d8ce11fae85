-------------------------- MODULE OrderSubmission --------------------------
(***************************************************************************)
(* AlpacaSubmitOrderService.submitOrder with the guard it calls, the       *)
(* replacement and cancellation of orders, the table of the platform's own *)
(* orders, and AlpacaExternalActivityService.detectExternalOrders, for the *)
(* orders of one symbol at a venue that answers late, or not at all.       *)
(*                                                                         *)
(* Every await is a step.  The venue's account is a version, which changes *)
(* with everything the consistency check compares, and its permission to   *)
(* trade; the account does not allow short selling.  Orders fill whole,    *)
(* those of others too, and a replacement may ask for any quantity.        *)
(***************************************************************************)
EXTENDS Integers

CONSTANTS
  Submissions,   \* calls of submitOrder
  Foreign,       \* orders placed by others
  Sells,         \* the submissions and foreign orders that sell; the others buy
  Detections,    \* calls of detectExternalOrders
  Quantity,      \* the quantity of each submission and foreign order
  Quantities,    \* what a replacement may ask for
  Held,          \* the position at the start
  MaxReplaced,   \* bound: for each, the replacements one after the other
  MaxChanges     \* bound: changes of the account, the asset and the halt

ASSUME OrderAssumption ==
  /\ Submissions \cap Foreign = {}
  /\ Sells \subseteq Submissions \cup Foreign
  /\ Quantity \in [Submissions \cup Foreign -> Nat \ {0}]
  /\ Quantities \subseteq Nat \ {0}
  /\ MaxReplaced \in [Submissions \cup Foreign -> Nat]
  /\ Held \in Nat /\ MaxChanges \in Nat

\* An order of the venue: who placed it, and how often it was replaced.  Every
\* replacement has an id of its own.
Ids == UNION {{c} \X (0..MaxReplaced[c]) : c \in Submissions \cup Foreign}
Original(c) == <<c, 0>>
Replacement(i) == <<i[1], i[2] + 1>>

VARIABLES
  \* The venue, and what the process knows of the symbol's halt.
  orders,      \* per id: "absent", "open", or "closed": filled, canceled or replaced
  remaining,   \* per id, what an open order is still to buy or sell
  arriving,    \* submissions whose POST is on its way
  account,     \* its version, and whether it may trade
  tradable,    \* the asset is active and tradable
  position,
  halted,      \* MarketDataHaltDetectionService.detect answers HALTED
  \* The database.
  owned,       \* ids with a row of PlatformAlpacaOrder
  snapshot,    \* the row of AlpacaAccountRestrictionSnapshot, an account
  \* The calls.
  pc, reads, verdicts, listed,
  \* History, which no step reads.
  met,         \* per submission, the conditions met at some time since its start
  confirmed,   \* per detection, the submissions that had returned when it listed
  sold,        \* per submission, what was sold since it read the position
  changes

vars == <<orders, remaining, arriving, account, tradable, position, halted, owned, snapshot,
          pc, reads, verdicts, listed, met, confirmed, sold, changes>>
venue == <<orders, remaining, arriving, account, tradable, position, halted>>
database == <<owned, snapshot>>
detection == <<verdicts, listed, confirmed>>

Account == [version : Nat, trading : BOOLEAN]
NoAccount == [version |-> -1, trading |-> FALSE]
NoReads == [account |-> NoAccount, stored |-> FALSE, tradable |-> "unread", long |-> -1]
Reads == [account : Account \cup {NoAccount}, stored : BOOLEAN,
          tradable : {"unread", "yes", "no"}, long : Nat \cup {-1}]

TypeOK ==
  /\ orders \in [Ids -> {"absent", "open", "closed"}]
  /\ remaining \in [Ids -> Nat]
  /\ arriving \subseteq Submissions
  /\ account \in Account
  /\ tradable \in BOOLEAN /\ halted \in BOOLEAN
  /\ position \in Int
  /\ owned \subseteq Ids
  /\ snapshot \in Account \cup {NoAccount}
  /\ pc \in [Submissions -> {"new", "blocked", "reading", "sending", "sent", "registering",
                             "done", "failed"}]
  /\ reads \in [Submissions -> Reads]
  /\ verdicts \in [Detections -> [Ids -> {"none", "platform", "external"}]]
  /\ listed \in [Detections -> SUBSET Ids]
  /\ met \in [Submissions -> SUBSET {"NOT_HALTED", "TRADING", "TRADABLE"}]
  /\ confirmed \in [Detections -> SUBSET Submissions]
  /\ sold \in [Submissions -> Nat] /\ changes \in Nat

Init ==
  /\ orders = [i \in Ids |-> "absent"]
  /\ remaining = [i \in Ids |-> 0]
  /\ arriving = {}
  /\ account \in [version : {1}, trading : BOOLEAN]
  /\ tradable \in BOOLEAN
  /\ halted \in BOOLEAN
  /\ position = Held
  /\ owned = {}
  /\ snapshot \in {[version |-> 0, trading |-> TRUE], NoAccount}
  /\ pc = [c \in Submissions |-> "new"]
  /\ reads = [c \in Submissions |-> NoReads]
  /\ verdicts = [d \in Detections |-> [i \in Ids |-> "none"]]
  /\ listed = [d \in Detections |-> {}]
  /\ met = [c \in Submissions |-> {}]
  /\ confirmed = [d \in Detections |-> {}]
  /\ sold = [c \in Submissions |-> 0]
  /\ changes = 0

-----------------------------------------------------------------------------
(***************************************************************************)
(* The world: the account, the asset, the halt, fills and foreign orders.  *)
(***************************************************************************)
Conditions(trading, asset, halt) ==
  (IF trading THEN {"TRADING"} ELSE {}) \cup (IF asset THEN {"TRADABLE"} ELSE {})
    \cup (IF halt THEN {} ELSE {"NOT_HALTED"})

Met == met' = [c \in Submissions |->
                 IF pc[c] = "reading"
                   THEN met[c] \cup Conditions(account.trading, tradable, halted)'
                   ELSE met[c]]

AccountChanges(trading) ==
  /\ changes < MaxChanges /\ changes' = changes + 1
  /\ account' = [version |-> account.version + 1, trading |-> trading]
  /\ UNCHANGED <<orders, remaining, arriving, tradable, position, halted, database, pc, reads,
                 detection, sold>>
  /\ Met

AssetChanges ==
  /\ changes < MaxChanges /\ changes' = changes + 1
  /\ tradable' = ~tradable
  /\ UNCHANGED <<orders, remaining, arriving, account, position, halted, database, pc, reads,
                 detection, sold>>
  /\ Met

HaltChanges ==
  /\ changes < MaxChanges /\ changes' = changes + 1
  /\ halted' = ~halted
  /\ UNCHANGED <<orders, remaining, arriving, account, tradable, position, database, pc, reads,
                 detection, sold>>
  /\ Met

Open(i, quantity) ==
  /\ orders' = [orders EXCEPT ![i] = "open"]
  /\ remaining' = [remaining EXCEPT ![i] = quantity]

Close(i) ==
  /\ orders' = [orders EXCEPT ![i] = "closed"]
  /\ remaining' = [remaining EXCEPT ![i] = 0]

\* The venue takes an order it received, however long ago it was sent.
VenueAccepts(c) ==
  /\ c \in arriving
  /\ arriving' = arriving \ {c}
  /\ Open(Original(c), Quantity[c])
  /\ UNCHANGED <<account, tradable, position, halted, database, pc, reads, detection,
                 met, sold, changes>>

VenueRefuses(c) ==
  /\ c \in arriving
  /\ arriving' = arriving \ {c}
  /\ UNCHANGED <<orders, remaining, account, tradable, position, halted, database, pc, reads,
                 detection, met, sold, changes>>

ForeignOrder(o) ==
  /\ orders[Original(o)] = "absent"
  /\ Open(Original(o), Quantity[o])
  /\ UNCHANGED <<arriving, account, tradable, position, halted, database, pc, reads,
                 detection, met, sold, changes>>

HasRead(c) == reads[c].long # -1

Sell(quantity) ==
  /\ position' = position - quantity
  /\ sold' = [c \in Submissions |-> IF HasRead(c) THEN sold[c] + quantity ELSE sold[c]]

Buy(quantity) ==
  /\ position' = position + quantity
  /\ UNCHANGED sold

Fill(i) ==
  /\ orders[i] = "open"
  /\ Close(i)
  /\ IF i[1] \in Sells THEN Sell(remaining[i]) ELSE Buy(remaining[i])
  /\ UNCHANGED <<arriving, account, tradable, halted, database, pc, reads,
                 detection, met, changes>>

-----------------------------------------------------------------------------
(***************************************************************************)
(* submitOrder.                                                            *)
(***************************************************************************)
Goto(c, step) == pc' = [pc EXCEPT ![c] = step]

\* The halt is checked and validateOrder starts its three reads.
Submit(c) ==
  /\ pc[c] = "new"
  /\ Goto(c, IF halted THEN "blocked" ELSE "reading")
  /\ met' = [met EXCEPT ![c] = Conditions(account.trading, tradable, halted)]
  /\ UNCHANGED <<venue, database, reads, detection, sold, changes>>

\* Mutation: an account that was stored before is not fetched again.
ReadAccountStored(c) ==
  /\ pc[c] \in {"reading", "failed"} /\ reads[c].account = NoAccount
  /\ reads' = [reads EXCEPT ![c].account =
                 IF snapshot = NoAccount THEN account ELSE snapshot]
  /\ UNCHANGED <<venue, database, pc, detection, met, sold, changes>>

\* syncFromAlpaca: the account is fetched, and then stored, also when the call has
\* failed meanwhile for another of its reads.
ReadAccount(c) ==
  /\ pc[c] \in {"reading", "failed"} /\ reads[c].account = NoAccount
  /\ reads' = [reads EXCEPT ![c].account = account]
  /\ UNCHANGED <<venue, database, pc, detection, met, sold, changes>>

StoreSnapshot(c) ==
  /\ pc[c] \in {"reading", "failed"} /\ reads[c].account # NoAccount /\ ~reads[c].stored
  /\ snapshot' = reads[c].account
  /\ reads' = [reads EXCEPT ![c].stored = TRUE]
  /\ UNCHANGED <<venue, owned, pc, detection, met, sold, changes>>

ReadAsset(c) ==
  /\ pc[c] = "reading" /\ reads[c].tradable = "unread"
  /\ reads' = [reads EXCEPT ![c].tradable = IF tradable THEN "yes" ELSE "no"]
  /\ UNCHANGED <<venue, database, pc, detection, met, sold, changes>>

\* A short position covers nothing.
ReadPosition(c) ==
  /\ pc[c] = "reading" /\ reads[c].long = -1
  /\ reads' = [reads EXCEPT ![c].long = IF position > 0 THEN position ELSE 0]
  /\ UNCHANGED <<venue, database, pc, detection, met, sold, changes>>

\* Mutation: a sell of one more than the position is still covered.
PassesShortByOne(c) ==
  /\ reads[c].account = snapshot
  /\ reads[c].account.trading
  /\ reads[c].tradable = "yes"
  /\ c \in Sells => Quantity[c] <= reads[c].long + 1

\* assertConsistent against the stored row, then the checks of validateOrder.
Passes(c) ==
  /\ reads[c].account = snapshot
  /\ reads[c].account.trading
  /\ reads[c].tradable = "yes"
  /\ c \in Sells => Quantity[c] <= reads[c].long

Validate(c) ==
  /\ pc[c] = "reading"
  /\ reads[c].stored /\ reads[c].tradable # "unread" /\ reads[c].long # -1
  /\ Goto(c, IF Passes(c) THEN "sending" ELSE "failed")
  /\ UNCHANGED <<venue, database, reads, detection, met, sold, changes>>

\* Mutation: the order is registered before it is sent.
PostRegistering(c) ==
  /\ pc[c] = "sending"
  /\ Goto(c, "sent")
  /\ arriving' = arriving \cup {c}
  /\ owned' = owned \cup {Original(c)}
  /\ UNCHANGED <<orders, remaining, account, tradable, position, halted, snapshot, reads,
                 detection, met, sold, changes>>

\* The request passes the rate limit and the circuit breaker and is sent, once.
Post(c) ==
  /\ pc[c] = "sending"
  /\ Goto(c, "sent")
  /\ arriving' = arriving \cup {c}
  /\ UNCHANGED <<orders, remaining, account, tradable, position, halted, database, reads,
                 detection, met, sold, changes>>

Answered(c) ==
  /\ pc[c] = "sent"
  /\ orders[Original(c)] # "absent"
  /\ Goto(c, "registering")
  /\ UNCHANGED <<venue, database, reads, detection, met, sold, changes>>

\* registerPlatformOrder
Register(c) ==
  /\ pc[c] = "registering"
  /\ owned' = owned \cup {Original(c)}
  /\ Goto(c, "done")
  /\ UNCHANGED <<venue, snapshot, reads, detection, met, sold, changes>>

\* A read, a request or a statement fails, or its answer is lost or unusable; the
\* statement of a failed registration may have been executed.
Fails(c) ==
  /\ pc[c] \in {"reading", "sending", "sent", "registering"}
  /\ Goto(c, "failed")
  /\ \/ UNCHANGED owned
     \/ pc[c] = "registering" /\ owned' = owned \cup {Original(c)}
  /\ UNCHANGED <<venue, snapshot, reads, detection, met, sold, changes>>

\* cancelOrder, of any id the caller has: the venue does as asked, the database
\* nothing.
Cancel(i) ==
  /\ orders[i] = "open"
  /\ Close(i)
  /\ UNCHANGED <<arriving, account, tradable, position, halted, database, pc, reads,
                 detection, met, sold, changes>>

\* cancelAllOrders
CancelAll ==
  /\ \E i \in Ids : orders[i] = "open"
  /\ orders' = [i \in Ids |-> IF orders[i] = "open" THEN "closed" ELSE orders[i]]
  /\ remaining' = [i \in Ids |-> 0]
  /\ UNCHANGED <<arriving, account, tradable, position, halted, database, pc, reads,
                 detection, met, sold, changes>>

\* replaceOrder, of any id, a replacement's too, by an order for as much as the
\* caller says; nothing is validated again and nothing is registered.
Replace(i, quantity) ==
  /\ orders[i] = "open" /\ i[2] < MaxReplaced[i[1]]
  /\ orders' = [orders EXCEPT ![i] = "closed", ![Replacement(i)] = "open"]
  /\ remaining' = [remaining EXCEPT ![i] = 0, ![Replacement(i)] = quantity]
  /\ UNCHANGED <<arriving, account, tradable, position, halted, database, pc, reads,
                 detection, met, sold, changes>>

-----------------------------------------------------------------------------
(***************************************************************************)
(* detectExternalOrders.                                                   *)
(***************************************************************************)
Existing == {i \in Ids : orders[i] # "absent"}

List(d) ==
  /\ listed[d] = {}
  /\ listed' = [listed EXCEPT ![d] = Existing]
  /\ confirmed' = [confirmed EXCEPT ![d] = {c \in Submissions : pc[c] = "done"}]
  /\ UNCHANGED <<venue, database, pc, reads, verdicts, met, sold, changes>>

\* Mutation: an order that is not open any more is nobody's.
OwnedAndOpen(i) == i \in owned /\ orders[i] = "open"

\* isPlatformOrder
IsPlatformOrder(i) == i \in owned

Judge(d, i) ==
  /\ i \in listed[d] /\ verdicts[d][i] = "none"
  /\ verdicts' = [verdicts EXCEPT ![d][i] =
                    IF IsPlatformOrder(i) THEN "platform" ELSE "external"]
  /\ UNCHANGED <<venue, database, pc, reads, listed, met, confirmed, sold, changes>>

-----------------------------------------------------------------------------
World ==
  \/ \E trading \in BOOLEAN : AccountChanges(trading)
  \/ AssetChanges \/ HaltChanges
  \/ \E c \in Submissions : VenueAccepts(c) \/ VenueRefuses(c)
  \/ \E o \in Foreign : ForeignOrder(o)
  \/ \E i \in Ids : Fill(i)

Submits(c) ==
  \/ Submit(c) \/ ReadAccount(c) \/ StoreSnapshot(c) \/ ReadAsset(c) \/ ReadPosition(c)
  \/ Validate(c) \/ Post(c) \/ Answered(c) \/ Register(c) \/ Fails(c)

Amends(i) == Cancel(i) \/ \E quantity \in Quantities \cup {remaining[i]} : Replace(i, quantity)

Detects(d) == List(d) \/ \E i \in Ids : Judge(d, i)

Next ==
  \/ World
  \/ \E c \in Submissions : Submits(c)
  \/ CancelAll \/ \E i \in Ids : Amends(i)
  \/ \E d \in Detections : Detects(d)

Spec == Init /\ [][Next]_vars

-----------------------------------------------------------------------------
\* Safety: the platform claims only orders that its own submissions placed at the
\* venue, so a detection never takes another's order for the platform's.
ForeignNeverClaimed ==
  /\ \A i \in owned : i[1] \in Submissions /\ orders[i] # "absent"
  /\ \A d \in Detections, i \in Ids : verdicts[d][i] = "platform" => i[1] \in Submissions

\* Safety: an order whose submission had returned when the detection listed the
\* orders is not called external, whatever happens to the order meanwhile.
ConfirmedNeverExternal ==
  \A d \in Detections : \A c \in confirmed[d] : verdicts[d][Original(c)] # "external"

\* Safety: an order reaches the venue only if, at some time since its submission
\* began, the symbol was not halted, the account could trade and so could the asset.
SentWasAdmissible ==
  \A c \in Submissions :
    c \in arriving \/ orders[Original(c)] # "absent" =>
      met[c] = {"NOT_HALTED", "TRADING", "TRADABLE"}

\* Safety: with short selling forbidden, an open sell of a submission is for no more
\* than the position and what was sold, by anybody, since the submission read the
\* position.  So it takes the position below zero only if another sell filled after
\* the read, and by no more than that.  A replacement that asks for more than the
\* submission read is the exception (replaceOrder compares nothing).
NoUncoveredShort ==
  \A i \in Ids :
    orders[i] = "open" /\ i[1] \in Submissions \cap Sells =>
      \/ remaining[i] <= position + sold[i[1]]
      \/ i # Original(i[1]) /\ remaining[i] > reads[i[1]].long
=============================================================================
