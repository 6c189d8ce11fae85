----------------------- MODULE OrderSubmissionProofs -----------------------
(***************************************************************************)
(* Theorems of OrderSubmission, for any number of submissions, foreign     *)
(* orders, replacements and detections, any quantities, and any sequence   *)
(* of changes of the account.                                              *)
(***************************************************************************)
EXTENDS OrderSubmission, TLAPS

All == {"NOT_HALTED", "TRADING", "TRADABLE"}
Now == Conditions(account.trading, tradable, halted)

\* A submission past its POST has placed an order, and orders do not vanish.
Placed ==
  /\ \A c \in Submissions : pc[c] \in {"registering", "done"} =>
       orders[Original(c)] # "absent"
  /\ \A i \in owned : i[1] \in Submissions /\ orders[i] # "absent"
  /\ \A c \in Submissions : pc[c] = "done" => Original(c) \in owned

\* Verdicts are for listed orders, and say what the table said, which only grows.
Judged ==
  /\ \A d \in Detections, i \in Ids : verdicts[d][i] # "none" => i \in listed[d]
  /\ \A d \in Detections, i \in Ids : verdicts[d][i] = "platform" => i \in owned
  /\ \A d \in Detections : \A c \in confirmed[d] :
       pc[c] = "done" /\ verdicts[d][Original(c)] # "external"

\* What a reading submission has seen was so at some time since its start.
Seen ==
  \A c \in Submissions :
    /\ pc[c] = "reading" => /\ Now \subseteq met[c]
                            /\ "NOT_HALTED" \in met[c]
                            /\ reads[c].account.trading => "TRADING" \in met[c]
                            /\ reads[c].tradable = "yes" => "TRADABLE" \in met[c]
    /\ pc[c] \in {"new", "blocked"} => reads[c] = NoReads
    /\ pc[c] \in {"sending", "sent", "registering", "done"} => met[c] = All
    /\ c \in arriving => pc[c] \notin {"new", "reading"} /\ met[c] = All
    /\ orders[Original(c)] # "absent" => pc[c] \notin {"new", "reading"} /\ met[c] = All

\* An order of the venue goes back to an original, which is for what it was placed
\* for as long as it is open.
Rooted ==
  /\ \A i \in Ids : orders[i] # "absent" => orders[Original(i[1])] # "absent"
  /\ \A c \in Submissions :
       orders[Original(c)] = "open" => remaining[Original(c)] = Quantity[c]

\* A sell that was validated is for no more than it read.
Bounded ==
  \A c \in Submissions \cap Sells :
    pc[c] = "sending" \/ c \in arriving \/ orders[Original(c)] # "absent" =>
      reads[c].long # -1 /\ Quantity[c] <= reads[c].long

\* Only sells take away from the position that a submission read.
Covered ==
  \A c \in Submissions : reads[c].long > 0 => reads[c].long <= position + sold[c]

Inv == TypeOK /\ Placed /\ Judged /\ Seen /\ Rooted /\ Bounded /\ Covered

-----------------------------------------------------------------------------
LEMMA IdTypes ==
  /\ \A i \in Ids : i[1] \in Submissions \cup Foreign /\ i[2] \in Nat
  /\ \A c \in Submissions \cup Foreign :
       /\ Original(c) \in Ids /\ Original(c)[1] = c /\ Original(c)[2] = 0
       /\ \A d \in Submissions \cup Foreign : Original(c) = Original(d) => c = d
  /\ \A i \in Ids : i[2] < MaxReplaced[i[1]] =>
       /\ Replacement(i) \in Ids /\ Replacement(i)[1] = i[1]
       /\ \A c \in Submissions \cup Foreign : Replacement(i) # Original(c)
<1>1. \A i \in Ids : \E c \in Submissions \cup Foreign : \E n \in 0..MaxReplaced[c] : i = <<c, n>>
  BY DEF Ids
<1>2. \A c \in Submissions \cup Foreign : \A n \in 0..MaxReplaced[c] : <<c, n>> \in Ids
  BY DEF Ids
<1>3. \A c \in Submissions \cup Foreign : MaxReplaced[c] \in Nat
  BY OrderAssumption
<1>4. ASSUME NEW c \in Submissions \cup Foreign PROVE Original(c) \in Ids
  <2>1. 0 \in 0..MaxReplaced[c]
    BY <1>3
  <2> QED BY <1>2, <2>1 DEF Original
<1>5. ASSUME NEW i \in Ids, i[2] < MaxReplaced[i[1]]
      PROVE  /\ Replacement(i) \in Ids /\ Replacement(i)[1] = i[1]
             /\ \A c \in Submissions \cup Foreign : Replacement(i) # Original(c)
  <2>1. PICK c \in Submissions \cup Foreign : \E n \in 0..MaxReplaced[c] : i = <<c, n>>
    BY <1>1
  <2>2. PICK n \in 0..MaxReplaced[c] : i = <<c, n>>
    BY <2>1
  <2>3. n \in Nat /\ n + 1 \in 0..MaxReplaced[c] /\ n + 1 # 0
    BY <1>3, <1>5, <2>2
  <2> QED BY <1>2, <2>2, <2>3 DEF Replacement, Original
<1>6. \A i \in Ids : i[1] \in Submissions \cup Foreign /\ i[2] \in Nat
  BY <1>1, <1>3
<1>7. \A c, d \in Submissions \cup Foreign :
        /\ Original(c)[1] = c /\ Original(c)[2] = 0
        /\ Original(c) = Original(d) => c = d
  BY DEF Original
<1> QED BY <1>4, <1>5, <1>6, <1>7

LEMMA ConditionTypes ==
  ASSUME NEW trading \in BOOLEAN, NEW asset \in BOOLEAN, NEW halt \in BOOLEAN
  PROVE  Conditions(trading, asset, halt) \subseteq All
  BY DEF Conditions, All

LEMMA ReadTypes ==
  ASSUME NEW r \in Reads
  PROVE  /\ \A a \in Account : [r EXCEPT !.account = a] \in Reads
         /\ [r EXCEPT !.stored = TRUE] \in Reads
         /\ \A t \in {"yes", "no"} : [r EXCEPT !.tradable = t] \in Reads
         /\ \A n \in Nat : [r EXCEPT !.long = n] \in Reads
         /\ r.account # NoAccount => r.account \in Account
  BY DEF Reads

LEMMA InitInv == Init => Inv
<1> SUFFICES ASSUME Init PROVE Inv
  OBVIOUS
<1>1. TypeOK
  <2>1. NoReads \in Reads
    BY DEF NoReads, Reads, NoAccount
  <2>2. Held \in Int /\ account \in Account
    BY OrderAssumption DEF Init, Account
  <2>3. [version |-> 0, trading |-> TRUE] \in Account
    BY DEF Account
  <2>4. snapshot \in Account \cup {NoAccount}
    BY <2>3 DEF Init
  <2> QED BY <2>1, <2>2, <2>4 DEF Init, TypeOK
<1>2. Placed
  BY DEF Init, Placed
<1>3. Judged
  BY IdTypes DEF Init, Judged
<1>4. Seen
  BY IdTypes DEF Init, Seen
<1>5. Rooted /\ Bounded /\ Covered
  BY IdTypes DEF Init, Rooted, Bounded, Covered, NoReads
<1> QED BY <1>1, <1>2, <1>3, <1>4, <1>5 DEF Inv

-----------------------------------------------------------------------------
\* The steps of the world, and those on an order of the venue.
LEMMA WorldTypes ==
  ASSUME TypeOK, World
  PROVE  TypeOK'
<1> USE DEF TypeOK, database, detection
<1>0. Met => met' \in [Submissions -> SUBSET All]
  <2>1. Conditions(account.trading, tradable, halted)' \subseteq All
    BY DEF Conditions, All
  <2> QED BY <2>1 DEF Met, All
<1>1. ASSUME NEW trading \in BOOLEAN, AccountChanges(trading) PROVE TypeOK'
  BY <1>0, <1>1 DEF AccountChanges, Account, All
<1>2. CASE AssetChanges
  BY <1>0, <1>2 DEF AssetChanges, All
<1>3. CASE HaltChanges
  BY <1>0, <1>3 DEF HaltChanges, All
<1>4. ASSUME NEW c \in Submissions, VenueAccepts(c) \/ VenueRefuses(c) PROVE TypeOK'
  BY <1>4, OrderAssumption DEF VenueAccepts, VenueRefuses, Open
<1>5. ASSUME NEW o \in Foreign, ForeignOrder(o) PROVE TypeOK'
  BY <1>5, OrderAssumption DEF ForeignOrder, Open
<1>6. ASSUME NEW i \in Ids, Fill(i) PROVE TypeOK'
  <2>1. remaining[i] \in Nat /\ position \in Int /\ sold \in [Submissions -> Nat]
    OBVIOUS
  <2>2. position' \in Int
    BY <1>6, <2>1 DEF Fill, Sell, Buy
  <2>3. sold' \in [Submissions -> Nat]
    BY <1>6, <2>1 DEF Fill, Sell, Buy
  <2>4. orders' \in [Ids -> {"absent", "open", "closed"}] /\ remaining' \in [Ids -> Nat]
    BY <1>6 DEF Fill, Close
  <2> QED BY <1>6, <2>2, <2>3, <2>4 DEF Fill
<1> QED BY <1>1, <1>2, <1>3, <1>4, <1>5, <1>6 DEF World

LEMMA AmendTypes ==
  ASSUME TypeOK, CancelAll \/ \E i \in Ids : Amends(i)
  PROVE  TypeOK'
<1> USE DEF TypeOK, database, detection
<1>1. CASE CancelAll
  BY <1>1 DEF CancelAll
<1>2. ASSUME NEW i \in Ids, Cancel(i) PROVE TypeOK'
  BY <1>2 DEF Cancel, Close
<1>3. ASSUME NEW i \in Ids, NEW quantity \in Quantities \cup {remaining[i]},
             Replace(i, quantity)
      PROVE  TypeOK'
  <2>1. quantity \in Nat
    BY OrderAssumption
  <2> QED BY <1>3, <2>1 DEF Replace
<1> QED BY <1>1, <1>2, <1>3 DEF Amends

\* What a step may do to an order: none vanishes, and a new one is an original that
\* was sent, or replaces an open order.
VenueStep ==
  \A i \in Ids :
    /\ orders[i] # "absent" => orders'[i] # "absent"
    /\ \/ orders'[i] = "absent"
       \/ /\ orders[i] # "absent"
          /\ i = Original(i[1]) /\ orders'[i] = "open" =>
               orders[i] = "open" /\ remaining'[i] = remaining[i]
       \/ /\ i = Original(i[1]) /\ i[1] \in arriving \cup Foreign
          /\ remaining'[i] = Quantity[i[1]]
       \/ i # Original(i[1]) /\ \E j \in Ids : j[1] = i[1] /\ orders[j] = "open"

LEMMA NextVenue ==
  ASSUME TypeOK, [Next]_vars
  PROVE  VenueStep
<1> USE DEF TypeOK
<1>1. CASE UNCHANGED <<orders, remaining>>
  BY <1>1 DEF VenueStep
<1>2. ASSUME NEW c \in arriving \cup Foreign, Open(Original(c), Quantity[c]) PROVE VenueStep
  <2>1. /\ c \in Submissions \cup Foreign
        /\ Original(c) \in Ids /\ Original(c)[1] = c
    BY IdTypes
  <2>2. \A i \in Ids :
          /\ orders'[i] = IF i = Original(c) THEN "open" ELSE orders[i]
          /\ remaining'[i] = IF i = Original(c) THEN Quantity[c] ELSE remaining[i]
    BY <1>2 DEF Open
  <2>3. ASSUME NEW i \in Ids, i = Original(c)
        PROVE  /\ i = Original(i[1]) /\ i[1] \in arriving \cup Foreign
               /\ remaining'[i] = Quantity[i[1]] /\ orders'[i] = "open"
    BY <2>1, <2>2, <2>3
  <2>4. ASSUME NEW i \in Ids, i # Original(c)
        PROVE  orders'[i] = orders[i] /\ remaining'[i] = remaining[i]
    BY <2>2, <2>4
  <2> QED BY <2>3, <2>4 DEF VenueStep
<1>3. ASSUME NEW i \in Ids, orders[i] = "open", Close(i) PROVE VenueStep
  BY <1>3 DEF VenueStep, Close
<1>4. CASE CancelAll
  BY <1>4 DEF VenueStep, CancelAll
<1>5. ASSUME NEW i \in Ids, NEW quantity, Replace(i, quantity) PROVE VenueStep
  <2>1. /\ orders[i] = "open"
        /\ Replacement(i) \in Ids /\ Replacement(i)[1] = i[1]
        /\ Replacement(i) # Original(Replacement(i)[1])
    BY <1>5, IdTypes DEF Replace
  <2>2. \A j \in Ids :
          /\ orders'[j] = IF j = Replacement(i) THEN "open"
                          ELSE IF j = i THEN "closed" ELSE orders[j]
          /\ j # i /\ j # Replacement(i) => remaining'[j] = remaining[j]
    BY <1>5, <2>1 DEF Replace
  <2> QED BY <2>1, <2>2 DEF VenueStep
<1>6. CASE World
  BY <1>1, <1>2, <1>3, <1>6 DEF World, AccountChanges, AssetChanges, HaltChanges,
     VenueAccepts, VenueRefuses, ForeignOrder, Fill
<1>7. ASSUME NEW c \in Submissions, Submits(c) PROVE UNCHANGED <<orders, remaining>>
  BY <1>7 DEF Submits, Submit, ReadAccount, StoreSnapshot, ReadAsset, ReadPosition,
     Validate, Post, Answered, Register, Fails, venue
<1>8. ASSUME NEW d \in Detections, Detects(d) PROVE UNCHANGED <<orders, remaining>>
  BY <1>8 DEF Detects, List, Judge, venue
<1>9. CASE UNCHANGED vars
  BY <1>1, <1>9 DEF vars
<1> QED BY <1>1, <1>3, <1>4, <1>5, <1>6, <1>7, <1>8, <1>9 DEF Next, Amends, Cancel

\* What only concerns the venue keeps what is known of registrations and conditions.
LEMMA VenueInv ==
  ASSUME Inv, VenueStep, arriving' \subseteq arriving,
         UNCHANGED <<account, tradable, halted, owned, pc, reads, verdicts, listed, confirmed,
                     met>>
  PROVE  Placed' /\ Judged' /\ Seen'
<1> USE DEF Inv, TypeOK
<1>1. \A i \in Ids : orders[i] # "absent" => orders'[i] # "absent"
  BY DEF VenueStep
<1>2. ASSUME NEW c \in Submissions, orders'[Original(c)] # "absent"
      PROVE  orders[Original(c)] # "absent" \/ c \in arriving
  <2>1. /\ Original(c) \in Ids /\ Original(c)[1] = c /\ c \notin Foreign
    BY IdTypes, OrderAssumption
  <2> QED BY <1>2, <2>1 DEF VenueStep
<1>3. Placed'
  BY <1>1, IdTypes DEF Placed
<1>4. Judged'
  BY DEF Judged
<1>5. Seen'
  BY <1>2 DEF Seen, Now
<1> QED BY <1>3, <1>4, <1>5

LEMMA WorldInv ==
  ASSUME Inv, World \/ CancelAll \/ \E i \in Ids : Amends(i)
  PROVE  Placed' /\ Judged' /\ Seen'
<1> USE DEF Inv, TypeOK, database, detection
<1> DEFINE Goal == Placed' /\ Judged' /\ Seen'
<1>0. VenueStep
  BY NextVenue DEF Next
<1>1. ASSUME NEW c \in Submissions, VenueAccepts(c) \/ VenueRefuses(c) PROVE Goal
  BY <1>0, <1>1, VenueInv DEF VenueAccepts, VenueRefuses
<1>2. ASSUME NEW o \in Foreign, ForeignOrder(o) PROVE Goal
  BY <1>0, <1>2, VenueInv DEF ForeignOrder
<1>3. ASSUME NEW i \in Ids, Fill(i) \/ Cancel(i) PROVE Goal
  BY <1>0, <1>3, VenueInv DEF Fill, Cancel
<1>4. ASSUME NEW i \in Ids, NEW quantity, Replace(i, quantity) PROVE Goal
  BY <1>0, <1>4, VenueInv DEF Replace
<1>5. CASE CancelAll
  BY <1>0, <1>5, VenueInv DEF CancelAll
<1>6. ASSUME Met, UNCHANGED <<orders, arriving, pc, reads, owned, verdicts, listed, confirmed>>
      PROVE  Goal
  <2>1. Placed' /\ Judged'
    BY <1>6 DEF Placed, Judged
  <2>2. \A c \in Submissions :
          met'[c] = IF pc[c] = "reading" THEN met[c] \cup Now' ELSE met[c]
    BY <1>6 DEF Met, Now
  <2> HIDE DEF Now
  <2>3. ASSUME NEW c \in Submissions
        PROVE  /\ pc[c] = "reading" => Now' \subseteq met'[c] /\ met[c] \subseteq met'[c]
               /\ pc[c] # "reading" => met'[c] = met[c]
    BY <2>2
  <2>4. Seen'
    BY <1>6, <2>3, Zenon DEF Seen
  <2> QED BY <2>1, <2>4
<1> QED BY <1>1, <1>2, <1>3, <1>4, <1>5, <1>6
        DEF World, Amends, AccountChanges, AssetChanges, HaltChanges

-----------------------------------------------------------------------------
\* The steps of submitOrder.
LEMMA SubmitTypes ==
  ASSUME TypeOK, NEW c \in Submissions, Submits(c)
  PROVE  TypeOK'
<1> USE DEF TypeOK, venue, database, detection, Goto
<1>1. CASE Submit(c)
  <2>1. Conditions(account.trading, tradable, halted) \subseteq All
    BY ConditionTypes DEF Account
  <2> QED BY <1>1, <2>1 DEF Submit, All
<1>2. CASE ReadAccount(c)
  <2>1. [reads[c] EXCEPT !.account = account] \in Reads
    BY ReadTypes
  <2> QED BY <1>2, <2>1 DEF ReadAccount
<1>3. CASE StoreSnapshot(c)
  <2>1. [reads[c] EXCEPT !.stored = TRUE] \in Reads /\ reads[c].account \in Account
    BY <1>3, ReadTypes DEF StoreSnapshot
  <2> QED BY <1>3, <2>1 DEF StoreSnapshot
<1>4. CASE ReadAsset(c)
  <2>1. \A t \in {"yes", "no"} : [reads[c] EXCEPT !.tradable = t] \in Reads
    BY ReadTypes
  <2> QED BY <1>4, <2>1 DEF ReadAsset
<1>5. CASE ReadPosition(c)
  <2>1. \A n \in Nat : [reads[c] EXCEPT !.long = n] \in Reads
    BY ReadTypes
  <2>2. (IF position > 0 THEN position ELSE 0) \in Nat
    OBVIOUS
  <2> QED BY <1>5, <2>1, <2>2 DEF ReadPosition
<1>6. CASE Validate(c)
  BY <1>6 DEF Validate
<1>7. CASE Post(c)
  BY <1>7 DEF Post
<1>8. CASE Answered(c)
  BY <1>8 DEF Answered
<1>9. CASE Register(c)
  BY <1>9, IdTypes DEF Register
<1>10. CASE Fails(c)
  BY <1>10, IdTypes DEF Fails
<1> QED BY <1>1, <1>2, <1>3, <1>4, <1>5, <1>6, <1>7, <1>8, <1>9, <1>10 DEF Submits

\* The steps that only read, validate and send.
LEMMA ReadingInv ==
  ASSUME Inv, NEW c \in Submissions,
         Submit(c) \/ ReadAccount(c) \/ StoreSnapshot(c) \/ ReadAsset(c)
           \/ ReadPosition(c) \/ Validate(c) \/ Post(c)
  PROVE  Placed' /\ Judged' /\ Seen'
<1> USE DEF Inv, TypeOK, venue, database, detection, Goto
<1>1. Placed'
  BY DEF Placed, Submit, ReadAccount, StoreSnapshot, ReadAsset,
     ReadPosition, Validate, Post
<1>2. Judged'
  BY DEF Judged, Submit, ReadAccount, StoreSnapshot, ReadAsset, ReadPosition, Validate, Post
<1>3. Seen'
  <2> USE DEF Seen, Now
  <2>1. CASE Submit(c)
    BY <2>1 DEF Submit, Conditions, NoReads, NoAccount
  <2>2. CASE ReadAccount(c)
    BY <2>2 DEF ReadAccount, Conditions, Reads
  <2>3. CASE StoreSnapshot(c)
    BY <2>3 DEF StoreSnapshot, Reads
  <2>4. CASE ReadAsset(c)
    BY <2>4 DEF ReadAsset, Conditions, Reads
  <2>5. CASE ReadPosition(c)
    BY <2>5 DEF ReadPosition, Reads
  <2>6. CASE Validate(c)
    BY <2>6 DEF Validate, Passes, All
  <2>7. CASE Post(c)
    BY <2>7 DEF Post
  <2> QED BY <2>1, <2>2, <2>3, <2>4, <2>5, <2>6, <2>7
<1> QED BY <1>1, <1>2, <1>3

\* The steps after the POST.
LEMMA SettlingInv ==
  ASSUME Inv, NEW c \in Submissions, Answered(c) \/ Register(c) \/ Fails(c)
  PROVE  Placed' /\ Judged' /\ Seen'
<1> USE DEF Inv, TypeOK, venue, database, detection, Goto
<1> DEFINE Goal == Placed' /\ Judged' /\ Seen'
<1>1. CASE Answered(c)
  BY <1>1 DEF Answered, Placed, Judged, Seen, Now
<1>2. CASE Register(c)
  <2>1. Placed'
    BY <1>2, IdTypes DEF Register, Placed
  <2>2. Judged' /\ Seen'
    BY <1>2 DEF Register, Judged, Seen, Now
  <2> QED BY <2>1, <2>2
<1>3. CASE Fails(c)
  <2>1. Placed'
    BY <1>3, IdTypes DEF Fails, Placed
  <2>2. Judged' /\ Seen'
    BY <1>3 DEF Fails, Judged, Seen, Now
  <2> QED BY <2>1, <2>2
<1> QED BY <1>1, <1>2, <1>3

-----------------------------------------------------------------------------
\* The steps of a detection.
LEMMA DetectionInv ==
  ASSUME Inv, NEW d \in Detections, Detects(d)
  PROVE  TypeOK' /\ Placed' /\ Judged' /\ Seen'
<1> USE DEF Inv, TypeOK, venue, database
<1>1. CASE List(d)
  <2>1. TypeOK'
    BY <1>1 DEF List, Existing
  <2>2. \A i \in Ids : verdicts[d][i] = "none"
    BY <1>1 DEF List, Judged
  <2>3. /\ \A x \in Detections : x # d => listed'[x] = listed[x] /\ confirmed'[x] = confirmed[x]
        /\ \A x \in confirmed'[d] : x \in Submissions /\ pc[x] = "done"
        /\ UNCHANGED <<verdicts, owned, pc>>
    BY <1>1 DEF List
  <2>4. Judged'
    <3>1. \A x \in Detections, i \in Ids : verdicts'[x][i] # "none" => i \in listed'[x]
      BY <2>2, <2>3 DEF Judged
    <3>2. \A x \in Detections, i \in Ids : verdicts'[x][i] = "platform" => i \in owned'
      BY <2>3 DEF Judged
    <3>3. \A x \in Detections : \A c \in confirmed'[x] :
            pc'[c] = "done" /\ verdicts'[x][Original(c)] # "external"
      <4>1. \A c \in Submissions : Original(c) \in Ids
        BY IdTypes
      <4>2. ASSUME NEW x \in Detections, x # d, NEW c \in confirmed'[x]
            PROVE  pc'[c] = "done" /\ verdicts'[x][Original(c)] # "external"
        BY <2>3, <4>2 DEF Judged
      <4>3. ASSUME NEW c \in confirmed'[d]
            PROVE  pc'[c] = "done" /\ verdicts'[d][Original(c)] # "external"
        BY <2>2, <2>3, <4>1, <4>3
      <4> QED BY <4>2, <4>3
    <3> QED BY <3>1, <3>2, <3>3 DEF Judged
  <2>5. UNCHANGED <<orders, arriving, account, tradable, halted, owned, pc, reads, met>>
    BY <1>1 DEF List
  <2>6. Placed'
    BY <2>5 DEF Placed
  <2>7. Seen'
    <3>1. Now' = Now
      BY <2>5 DEF Now
    <3> QED BY <2>5, <3>1, Zenon DEF Seen
  <2> QED BY <2>1, <2>4, <2>6, <2>7
<1>2. ASSUME NEW i \in Ids, Judge(d, i)
      PROVE  TypeOK' /\ Placed' /\ Judged' /\ Seen'
  <2>1. TypeOK'
    BY <1>2 DEF Judge
  <2>2. Judged'
    <3>1. \A x \in Detections, j \in Ids :
            verdicts'[x][j] = IF x = d /\ j = i
                                THEN IF i \in owned THEN "platform" ELSE "external"
                                ELSE verdicts[x][j]
      BY <1>2 DEF Judge, IsPlatformOrder
    <3> QED BY <1>2, <3>1, IdTypes DEF Judge, Judged, Placed
  <2> QED BY <1>2, <2>1, <2>2 DEF Judge, Placed, Seen, Now
<1> QED BY <1>1, <1>2 DEF Detects

-----------------------------------------------------------------------------
(***************************************************************************)
(* The position.  A sell is validated against the position it read; sells  *)
(* that fill after the read are counted, and nothing else lowers it.       *)
(***************************************************************************)
LEMMA NextRooted ==
  ASSUME TypeOK, Rooted, [Next]_vars
  PROVE  Rooted'
<1>0. VenueStep
  BY NextVenue
<1>1. ASSUME NEW i \in Ids, orders'[i] # "absent" PROVE orders'[Original(i[1])] # "absent"
  <2>1. Original(i[1]) \in Ids
    BY IdTypes
  <2>2. CASE i = Original(i[1])
    BY <1>1, <2>2
  <2>3. CASE i # Original(i[1])
    <3>1. \E j \in Ids : j[1] = i[1] /\ orders[j] # "absent"
      BY <1>0, <1>1, <2>3 DEF VenueStep
    <3> QED BY <1>0, <2>1, <3>1 DEF Rooted, VenueStep
  <2> QED BY <2>2, <2>3
<1>2. ASSUME NEW c \in Submissions, orders'[Original(c)] = "open"
      PROVE  remaining'[Original(c)] = Quantity[c]
  <2>1. Original(c) \in Ids /\ Original(c)[1] = c
    BY IdTypes
  <2> QED BY <1>0, <1>2, <2>1 DEF Rooted, VenueStep
<1> QED BY <1>1, <1>2 DEF Rooted

\* Only the steps of a submission change what it read and where it is.
LEMMA NextLong ==
  ASSUME TypeOK, [Next]_vars, NEW c \in Submissions
  PROVE  /\ reads'[c].long = reads[c].long \/ ReadPosition(c)
         /\ pc'[c] = "sending" => pc[c] = "sending" \/ (Validate(c) /\ Passes(c))
         /\ c \in arriving' => c \in arriving \/ pc[c] = "sending"
<1> USE DEF TypeOK, Reads, Goto
<1> DEFINE Goal == /\ reads'[c].long = reads[c].long \/ ReadPosition(c)
                   /\ pc'[c] = "sending" => pc[c] = "sending" \/ (Validate(c) /\ Passes(c))
                   /\ c \in arriving' => c \in arriving \/ pc[c] = "sending"
<1>1. CASE World
  BY <1>1 DEF World, AccountChanges, AssetChanges, HaltChanges, VenueAccepts, VenueRefuses,
     ForeignOrder, Fill
<1>2. ASSUME NEW d \in Submissions, Submits(d) PROVE Goal
  <2>1. CASE Submit(d) \/ Answered(d) \/ Register(d) \/ Fails(d)
    BY <2>1 DEF Submit, Answered, Register, Fails, venue
  <2>2. CASE ReadAccount(d)
    BY <2>2 DEF ReadAccount, venue
  <2>3. CASE StoreSnapshot(d)
    BY <2>3 DEF StoreSnapshot, venue
  <2>4. CASE ReadAsset(d)
    BY <2>4 DEF ReadAsset, venue
  <2>5. CASE ReadPosition(d)
    <3>1. d # c => reads'[c] = reads[c]
      BY <2>5 DEF ReadPosition
    <3> QED BY <2>5, <3>1 DEF ReadPosition, venue
  <2>6. CASE Validate(d)
    <3>1. pc'[d] = IF Passes(d) THEN "sending" ELSE "failed"
      BY <2>6 DEF Validate
    <3>2. (d # c => pc'[c] = pc[c]) /\ UNCHANGED <<arriving, reads>>
      BY <2>6 DEF Validate, venue
    <3> QED BY <2>6, <3>1, <3>2
  <2>7. CASE Post(d)
    BY <2>7 DEF Post
  <2> QED BY <1>2, <2>1, <2>2, <2>3, <2>4, <2>5, <2>6, <2>7 DEF Submits
<1>3. ASSUME NEW d \in Detections, Detects(d) PROVE Goal
  BY <1>3 DEF Detects, List, Judge, venue
<1>4. CASE CancelAll \/ \E i \in Ids : Amends(i)
  BY <1>4 DEF CancelAll, Amends, Cancel, Replace
<1>5. CASE UNCHANGED vars
  BY <1>5 DEF vars
<1> QED BY <1>1, <1>2, <1>3, <1>4, <1>5 DEF Next

\* A submission is on its way since its validation.
Sent(c) == pc[c] = "sending" \/ c \in arriving \/ orders[Original(c)] # "absent"

LEMMA NextBounded ==
  ASSUME TypeOK, Seen, Bounded, [Next]_vars
  PROVE  Bounded'
<1> SUFFICES ASSUME NEW c \in Submissions \cap Sells, Sent(c)'
             PROVE  reads'[c].long # -1 /\ Quantity[c] <= reads'[c].long
  BY DEF Bounded, Sent
<1>1. Original(c) \in Ids /\ Original(c)[1] = c /\ c \notin Foreign
  BY IdTypes, OrderAssumption
<1>2. CASE Sent(c)
  <2>1. ~ReadPosition(c)
    BY <1>2 DEF Seen, Sent, ReadPosition
  <2> QED BY <1>2, <2>1, NextLong DEF Bounded, Sent
<1>3. CASE Validate(c) /\ Passes(c)
  BY <1>3 DEF Validate, Passes
<1>4. orders'[Original(c)] # "absent" => orders[Original(c)] # "absent" \/ c \in arriving
  BY <1>1, NextVenue DEF VenueStep
<1> QED BY <1>2, <1>3, <1>4, NextLong DEF Sent

LEMMA NextCovered ==
  ASSUME TypeOK, Covered, [Next]_vars
  PROVE  Covered'
<1>1. /\ position \in Int
      /\ \A c \in Submissions : sold[c] \in Nat /\ reads[c].long \in Int
      /\ \A i \in Ids : remaining[i] \in Nat
  BY DEF TypeOK, Reads
<1>2. CASE UNCHANGED <<position, sold>>
  <2>1. ASSUME NEW c \in Submissions, ReadPosition(c), reads'[c].long > 0
        PROVE  reads'[c].long <= position + sold[c]
    <3>1. reads'[c].long = IF position > 0 THEN position ELSE 0
      BY <2>1 DEF ReadPosition, TypeOK, Reads
    <3> QED BY <1>1, <2>1, <3>1
  <2> QED BY <1>2, <2>1, NextLong DEF Covered
<1>3. ASSUME NEW i \in Ids, Fill(i) PROVE Covered'
  <2>1. UNCHANGED reads
    BY <1>3 DEF Fill
  <2>2. CASE Sell(remaining[i])
    <3>1. ASSUME NEW c \in Submissions, reads[c].long > 0
          PROVE  position' + sold'[c] = position + sold[c]
      <4>1. HasRead(c)
        BY <1>1, <3>1 DEF HasRead
      <4>2. position' = position - remaining[i] /\ sold'[c] = sold[c] + remaining[i]
        BY <2>2, <4>1 DEF Sell
      <4> QED BY <1>1, <4>2
    <3> QED BY <2>1, <3>1 DEF Covered
  <2>3. CASE Buy(remaining[i])
    <3>1. position' = position + remaining[i] /\ sold' = sold
      BY <2>3 DEF Buy
    <3>2. ASSUME NEW c \in Submissions, reads[c].long <= position + sold[c]
          PROVE  reads[c].long <= position' + sold'[c]
      BY <1>1, <3>1, <3>2
    <3> QED BY <2>1, <3>2 DEF Covered
  <2> QED BY <1>3, <2>2, <2>3 DEF Fill
<1>4. CASE World
  BY <1>2, <1>3, <1>4 DEF World, AccountChanges, AssetChanges, HaltChanges, VenueAccepts,
     VenueRefuses, ForeignOrder
<1>5. ASSUME NEW c \in Submissions, Submits(c) PROVE UNCHANGED <<position, sold>>
  BY <1>5 DEF Submits, Submit, ReadAccount, StoreSnapshot, ReadAsset, ReadPosition,
     Validate, Post, Answered, Register, Fails, venue
<1>6. ASSUME NEW d \in Detections, Detects(d) PROVE UNCHANGED <<position, sold>>
  BY <1>6 DEF Detects, List, Judge, venue
<1>7. CASE CancelAll \/ \E i \in Ids : Amends(i)
  BY <1>2, <1>7 DEF CancelAll, Amends, Cancel, Replace
<1>8. CASE UNCHANGED vars
  BY <1>2, <1>8 DEF vars
<1> QED BY <1>2, <1>4, <1>5, <1>6, <1>7, <1>8 DEF Next

LEMMA NextInv == Inv /\ [Next]_vars => Inv'
<1> SUFFICES ASSUME Inv, [Next]_vars PROVE Inv'
  OBVIOUS
<1>1. TypeOK' /\ Placed' /\ Judged' /\ Seen'
  <2>1. CASE World
    BY <2>1, WorldTypes, WorldInv DEF Inv
  <2>2. ASSUME NEW c \in Submissions, Submits(c)
        PROVE  TypeOK' /\ Placed' /\ Judged' /\ Seen'
    BY <2>2, SubmitTypes, ReadingInv, SettlingInv DEF Inv, Submits
  <2>3. CASE CancelAll \/ \E i \in Ids : Amends(i)
    BY <2>3, AmendTypes, WorldInv DEF Inv
  <2>4. ASSUME NEW d \in Detections, Detects(d)
        PROVE  TypeOK' /\ Placed' /\ Judged' /\ Seen'
    BY <2>4, DetectionInv
  <2>5. CASE UNCHANGED vars
    BY <2>5 DEF vars, Inv, TypeOK, Placed, Judged, Seen, Now
  <2> QED BY <2>1, <2>2, <2>3, <2>4, <2>5 DEF Next
<1>2. Rooted' /\ Bounded' /\ Covered'
  BY NextRooted, NextBounded, NextCovered DEF Inv
<1> QED BY <1>1, <1>2 DEF Inv

\* The inductive invariant holds.
THEOREM Invariant == Spec => []Inv
  BY InitInv, NextInv, PTL DEF Spec

\* Type correctness of the venue, the database and the calls.
THEOREM TypeCorrect == Spec => []TypeOK
<1>1. Inv => TypeOK
  BY DEF Inv
<1> QED BY <1>1, Invariant, PTL

\* The platform never claims another's order.
THEOREM NoFalseClaim == Spec => []ForeignNeverClaimed
<1>1. Inv => ForeignNeverClaimed
  BY DEF Inv, Placed, Judged, ForeignNeverClaimed
<1> QED BY <1>1, Invariant, PTL

\* A detection never calls an order external that was confirmed before it listed.
THEOREM NoFalseAlarm == Spec => []ConfirmedNeverExternal
<1>1. Inv => ConfirmedNeverExternal
  BY DEF Inv, Judged, ConfirmedNeverExternal
<1> QED BY <1>1, Invariant, PTL

\* Only admissible orders reach the venue.
THEOREM Admissible == Spec => []SentWasAdmissible
<1>1. Inv => SentWasAdmissible
  BY DEF Inv, Seen, SentWasAdmissible, All
<1> QED BY <1>1, Invariant, PTL

\* A submission's sell takes the position below zero only as far as other sells have
\* filled since it read the position, or as a replacement for more than it read:
\* validateOrder's comparison suffices for everything else.
THEOREM SellsAreCovered == Spec => []NoUncoveredShort
<1>1. Inv => NoUncoveredShort
  <2> SUFFICES ASSUME Inv, NEW i \in Ids, orders[i] = "open", i[1] \in Submissions \cap Sells,
                      i = Original(i[1]) \/ ~(remaining[i] > reads[i[1]].long)
               PROVE  remaining[i] <= position + sold[i[1]]
    BY DEF NoUncoveredShort
  <2>1. /\ remaining[i] \in Nat /\ position \in Int
        /\ sold[i[1]] \in Nat /\ reads[i[1]].long \in Int /\ Quantity[i[1]] \in Nat \ {0}
    BY OrderAssumption DEF Inv, TypeOK, Reads
  <2>2. Quantity[i[1]] <= reads[i[1]].long
    BY DEF Inv, Rooted, Bounded
  <2>3. remaining[i] <= reads[i[1]].long
    BY <2>1, <2>2 DEF Inv, Rooted
  <2>4. reads[i[1]].long <= position + sold[i[1]]
    BY <2>1, <2>2 DEF Inv, Covered
  <2> QED BY <2>1, <2>3, <2>4
<1> QED BY <1>1, Invariant, PTL
=============================================================================
