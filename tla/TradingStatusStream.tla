------------------------ MODULE TradingStatusStream ------------------------
(***************************************************************************)
(* MarketDataTradingStatusService: the life cycle of its WebSocket, the    *)
(* frames it handles, the trading statuses it keeps, the audit of halts    *)
(* and resumes, and what the halt services derive from the statuses.       *)
(*                                                                         *)
(* JavaScript runs to completion: a frame that is not waiting for an audit *)
(* is "ready", and nothing else happens until it waits or has ended.  A    *)
(* message is its symbol, its timestamp and the state its tape and code    *)
(* classify as.  A WebSocket delivers nothing once close() was called.     *)
(***************************************************************************)
EXTENDS Integers, Sequences

CONSTANTS
  Sockets,      \* the WebSockets the process creates
  Symbols,
  Feeds,
  Slots,        \* frames that can be under way at once
  MaxFrame,     \* bound: messages of a frame
  MaxAt,        \* bound: the latest timestamp
  Cooldown,     \* marketData.resumeCooldownMs
  None,         \* null
  Malformed     \* a message that normalizeMarketDataTradingStatus rejects

ASSUME StreamAssumption ==
  /\ None \notin Sockets \cup Feeds
  /\ MaxAt \in Nat /\ MaxFrame \in Nat /\ Cooldown \in Nat

VARIABLES
  \* The fields of the service.
  socket, feed, authenticated, subscriptions, statuses, previous,
  life,       \* per socket: "unused", "connecting", "open" or "closed"
  auth,       \* per socket, the promise of authenticate
  frames,     \* per slot, the frame handleMessage is working on
  events,     \* the rows of MarketDataHaltEvent
  \* History, which no step reads.
  requested,  \* the symbols the current socket was asked for
  lost        \* the events whose audit failed

session == <<socket, feed, authenticated, subscriptions, life, auth, requested>>
vars == <<session, statuses, previous, frames, events, lost>>

States == {"HALTED", "NOT_HALTED", "UNKNOWN"}
Times == 1..MaxAt
Message == [symbol : Symbols, state : States, at : Times]
Status == [state : States, at : Times, feed : Feeds \cup {None}]
NoStatus == [state |-> "UNKNOWN", at |-> 0, feed |-> None]
Event == [type : {"HALT", "RESUME"}, symbol : Symbols, at : Times]

Idle == [stage |-> "idle", rest |-> <<>>, audit |-> {}]
Frame == [stage : {"idle", "ready", "auditing"},
          rest  : Seq(Message \cup {Malformed}),
          audit : SUBSET Event]     \* the event being recorded, if any

TypeOK ==
  /\ socket \in Sockets \cup {None}
  /\ feed \in Feeds \cup {None}
  /\ authenticated \in BOOLEAN
  /\ subscriptions \subseteq Symbols /\ requested \subseteq Symbols
  /\ statuses \in [Symbols -> Status \cup {NoStatus}]
  /\ previous \in [Symbols -> Status \cup {NoStatus}]
  /\ life \in [Sockets -> {"unused", "connecting", "open", "closed"}]
  /\ auth \in [Sockets -> {"none", "pending", "resolved", "rejected"}]
  /\ frames \in [Slots -> Frame]
  /\ events \subseteq Event /\ lost \subseteq Event

Init ==
  /\ socket = None
  /\ feed = None
  /\ authenticated = FALSE
  /\ subscriptions = {} /\ requested = {}
  /\ statuses = [s \in Symbols |-> NoStatus]
  /\ previous = [s \in Symbols |-> NoStatus]
  /\ life = [w \in Sockets |-> "unused"]
  /\ auth = [w \in Sockets |-> "none"]
  /\ frames = [f \in Slots |-> Idle]
  /\ events = {} /\ lost = {}

-----------------------------------------------------------------------------
(***************************************************************************)
(* The connection.                                                         *)
(***************************************************************************)
Quiet == \A f \in Slots : frames[f].stage # "ready"

\* Mutation: the reset of disconnect forgets to close the socket.
DisconnectedOpen ==
  /\ socket' = None /\ feed' = None
  /\ authenticated' = FALSE
  /\ subscriptions' = {} /\ requested' = {}
  /\ UNCHANGED life

\* Mutation: disconnect keeps the subscriptions.
DisconnectedSubscribed ==
  /\ socket' = None /\ feed' = None
  /\ authenticated' = FALSE
  /\ requested' = {}
  /\ life' = [w \in Sockets |-> IF w = socket THEN "closed" ELSE life[w]]
  /\ UNCHANGED subscriptions

\* What disconnect() does to whatever socket is current.
Disconnected ==
  /\ socket' = None /\ feed' = None
  /\ authenticated' = FALSE
  /\ subscriptions' = {} /\ requested' = {}
  /\ life' = [w \in Sockets |-> IF w = socket THEN "closed" ELSE life[w]]

Disconnect ==
  /\ Quiet
  /\ Disconnected
  /\ UNCHANGED <<auth, statuses, previous, frames, events, lost>>

\* connect, up to the await of authenticate.
Connect(w, fd) ==
  /\ Quiet
  /\ socket = None
  /\ life[w] = "unused"
  /\ socket' = w /\ feed' = fd
  /\ authenticated' = FALSE
  /\ life' = [life EXCEPT ![w] = "connecting"]
  /\ auth' = [auth EXCEPT ![w] = "pending"]
  /\ UNCHANGED <<subscriptions, requested, statuses, previous, frames, events, lost>>

\* The socket opens and sends the credentials.
Open(w) ==
  /\ Quiet
  /\ life[w] = "connecting"
  /\ life' = [life EXCEPT ![w] = "open"]
  /\ UNCHANGED <<socket, feed, authenticated, subscriptions, auth, requested,
                 statuses, previous, frames, events, lost>>

Authenticate(w) ==
  /\ Quiet
  /\ life[w] = "open"
  /\ auth[w] = "pending"
  /\ authenticated' = TRUE
  /\ auth' = [auth EXCEPT ![w] = "resolved"]
  /\ UNCHANGED <<socket, feed, subscriptions, life, requested, statuses, previous,
                 frames, events, lost>>

\* Mutation: an attempt whose socket was replaced is forgotten, not rejected.
RejectCurrentOnly(w) ==
  /\ Quiet
  /\ auth[w] = "pending"
  /\ w = socket
  /\ auth' = [auth EXCEPT ![w] = "rejected"]
  /\ Disconnected
  /\ UNCHANGED <<statuses, previous, frames, events, lost>>

\* An error event, a close event, an error message or the ten seconds' timeout:
\* connect disconnects the socket that is current by then.
RejectAuthentication(w) ==
  /\ Quiet
  /\ auth[w] = "pending"
  /\ auth' = [auth EXCEPT ![w] = "rejected"]
  /\ Disconnected
  /\ UNCHANGED <<statuses, previous, frames, events, lost>>

\* Nobody listens for the end of an authenticated connection.
ServerCloses(w) ==
  /\ Quiet
  /\ life[w] \in {"connecting", "open"}
  /\ life' = [life EXCEPT ![w] = "closed"]
  /\ UNCHANGED <<socket, feed, authenticated, subscriptions, auth, requested,
                 statuses, previous, frames, events, lost>>

\* assertConnected
Usable == socket # None /\ authenticated /\ life[socket] = "open"

SubscribeSymbol(s) ==
  /\ Quiet
  /\ Usable
  /\ s \notin subscriptions
  /\ subscriptions' = subscriptions \cup {s}
  /\ requested' = requested \cup {s}
  /\ UNCHANGED <<socket, feed, authenticated, life, auth, statuses, previous,
                 frames, events, lost>>

UnsubscribeSymbol(s) ==
  /\ Quiet
  /\ Usable
  /\ s \in subscriptions
  /\ subscriptions' = subscriptions \ {s}
  /\ requested' = requested \ {s}
  /\ UNCHANGED <<socket, feed, authenticated, life, auth, statuses, previous,
                 frames, events, lost>>

-----------------------------------------------------------------------------
(***************************************************************************)
(* The frames.                                                             *)
(***************************************************************************)
\* A frame of statuses arrives, in any order and repeated ones included, also of a
\* symbol just unsubscribed; handleMessage starts with its first message.
Receive(f, messages) ==
  /\ Quiet
  /\ frames[f] = Idle
  /\ socket # None
  /\ life[socket] = "open" /\ auth[socket] = "resolved"
  /\ frames' = [frames EXCEPT ![f] = [Idle EXCEPT !.stage = "ready", !.rest = messages]]
  /\ UNCHANGED <<session, statuses, previous, events, lost>>

\* storeStatus accepts a status that is newer than the one it has.
Accepts(m) == m.at > statuses[m.symbol].at

\* Mutation: a resume is a change from anything to NOT_HALTED.
TransitionLoose(old, m) ==
  IF m.state = "HALTED" /\ old.state # "HALTED"
    THEN {[type |-> "HALT", symbol |-> m.symbol, at |-> m.at]}
  ELSE IF m.state = "NOT_HALTED"
    THEN {[type |-> "RESUME", symbol |-> m.symbol, at |-> m.at]}
  ELSE {}

\* Mutation: a halt that follows an unknown status is not recorded.
TransitionKnown(old, m) ==
  IF m.state = "HALTED" /\ old.state = "NOT_HALTED"
    THEN {[type |-> "HALT", symbol |-> m.symbol, at |-> m.at]}
  ELSE IF old.state = "HALTED" /\ m.state = "NOT_HALTED"
    THEN {[type |-> "RESUME", symbol |-> m.symbol, at |-> m.at]}
  ELSE {}

\* recordAcceptedTransition: the event to record, if any.
Transition(old, m) ==
  IF m.state = "HALTED" /\ old.state # "HALTED"
    THEN {[type |-> "HALT", symbol |-> m.symbol, at |-> m.at]}
  ELSE IF old.state = "HALTED" /\ m.state = "NOT_HALTED"
    THEN {[type |-> "RESUME", symbol |-> m.symbol, at |-> m.at]}
  ELSE {}

\* storeStatusAndAudit of the first message of a frame, up to the audit.
Store(f) ==
  LET m == Head(frames[f].rest)
      audit == Transition(statuses[m.symbol], m)
  IN /\ frames[f].stage = "ready" /\ frames[f].rest # <<>>
     /\ m # Malformed
     /\ Accepts(m)
     /\ previous' = [previous EXCEPT ![m.symbol] = statuses[m.symbol]]
     /\ statuses' = [statuses EXCEPT ![m.symbol] =
                       [state |-> m.state, at |-> m.at, feed |-> feed]]
     /\ frames' = [frames EXCEPT ![f] =
                     [stage |-> IF audit = {} THEN "ready" ELSE "auditing",
                      rest |-> Tail(frames[f].rest), audit |-> audit]]
     /\ UNCHANGED <<session, events, lost>>

\* A message with a status that is not newer is skipped.
Skip(f) ==
  /\ frames[f].stage = "ready" /\ frames[f].rest # <<>>
  /\ Head(frames[f].rest) # Malformed
  /\ ~Accepts(Head(frames[f].rest))
  /\ frames' = [frames EXCEPT ![f].rest = Tail(frames[f].rest)]
  /\ UNCHANGED <<session, statuses, previous, events, lost>>

EndFrame(f) ==
  /\ frames[f].stage = "ready" /\ frames[f].rest = <<>>
  /\ frames' = [frames EXCEPT ![f] = Idle]
  /\ UNCHANGED <<session, statuses, previous, events, lost>>

\* A message that cannot be normalised: the rest of the frame is dropped and the
\* listener of the socket disconnects.
RejectFrame(f) ==
  /\ frames[f].stage = "ready" /\ frames[f].rest # <<>>
  /\ Head(frames[f].rest) = Malformed
  /\ frames' = [frames EXCEPT ![f] = Idle]
  /\ Disconnected
  /\ UNCHANGED <<auth, statuses, previous, events, lost>>

AuditSucceeds(f) ==
  /\ Quiet
  /\ frames[f].stage = "auditing"
  /\ events' = events \cup frames[f].audit
  /\ frames' = [frames EXCEPT ![f].stage = "ready", ![f].audit = {}]
  /\ UNCHANGED <<session, statuses, previous, lost>>

\* The database fails, or the event looks later than its receipt.
AuditFails(f) ==
  /\ Quiet
  /\ frames[f].stage = "auditing"
  /\ lost' = lost \cup frames[f].audit
  /\ frames' = [frames EXCEPT ![f] = Idle]
  /\ Disconnected
  /\ UNCHANGED <<auth, statuses, previous, events>>

-----------------------------------------------------------------------------
Connection ==
  \/ Disconnect
  \/ \E w \in Sockets, fd \in Feeds : Connect(w, fd)
  \/ \E w \in Sockets : \/ Open(w) \/ Authenticate(w)
                        \/ RejectAuthentication(w) \/ ServerCloses(w)
  \/ \E s \in Symbols : SubscribeSymbol(s) \/ UnsubscribeSymbol(s)

Reads(f) == Store(f) \/ Skip(f) \/ EndFrame(f) \/ RejectFrame(f)
Arrives(f) ==
  \E n \in 1..MaxFrame :
    \E messages \in [1..n -> Message \cup {Malformed}] : Receive(f, messages)

Next == Connection \/ \E f \in Slots : Arrives(f) \/ Reads(f) \/ AuditSucceeds(f) \/ AuditFails(f)

Spec == Init /\ [][Next]_vars

\* A frame is read until it waits; the database answers and authenticate gives up
\* after ten seconds.  Both answers wait in the queue of the event loop, which comes
\* to them although other callbacks keep running before them.
Audited(f) == AuditSucceeds(f) \/ AuditFails(f)
AuthenticationEnds(w) == Authenticate(w) \/ RejectAuthentication(w)
Fairness ==
  /\ \A f \in Slots : WF_vars(Reads(f)) /\ SF_vars(Audited(f))
  /\ \A w \in Sockets : SF_vars(AuthenticationEnds(w))
FairSpec == Spec /\ Fairness

-----------------------------------------------------------------------------
(***************************************************************************)
(* What the halt services answer.                                          *)
(***************************************************************************)
Halted(s) == statuses[s].state = "HALTED"

\* Mutation: a resume is any change to NOT_HALTED.
ResumedLoose(s) ==
  previous[s].at > 0 /\ statuses[s].state = "NOT_HALTED"

\* detectResume
Resumed(s) == previous[s].state = "HALTED" /\ statuses[s].state = "NOT_HALTED"

\* Mutation: the cooldown is over one unit early.
EntryAllowedEarly(s, t) ==
  Resumed(s) /\ t >= statuses[s].at /\ t + 1 >= statuses[s].at + Cooldown

\* MarketDataResumeCooldownService.assertEntryAllowed
EntryAllowed(s, t) ==
  Resumed(s) /\ t >= statuses[s].at /\ t >= statuses[s].at + Cooldown

-----------------------------------------------------------------------------
(***************************************************************************)
(* Properties.                                                             *)
(***************************************************************************)
\* Every event that was accepted for recording, recorded or not.
Noted == events \cup lost \cup UNION {frames[f].audit : f \in Slots}
NotedFor(s) == {e \in Noted : e.symbol = s}
Newest(es, e) == e \in es /\ \A d \in es : d.at <= e.at

\* Safety: connect and disconnect, however they interleave with the answers of
\* older sockets, leave at most the current socket open.
OneSocket ==
  \A w \in Sockets : life[w] \in {"connecting", "open"} => w = socket

\* Safety: the service believes in an authenticated session, and in subscriptions,
\* only for the socket that was authenticated and asked for them.
SessionIsReal ==
  /\ authenticated => socket # None /\ auth[socket] = "resolved"
  /\ subscriptions # {} => authenticated
  /\ subscriptions = requested

\* Safety: a halt in force is the newest event noted for its symbol, so the audit
\* misses it only where its write has failed, whatever frames overlap.
EveryHaltNoted ==
  \A s \in Symbols : Halted(s) =>
    \E e \in NotedFor(s) : Newest(NotedFor(s), e) /\ e.type = "HALT"

\* Safety: in the order of their times, a resume follows a halt.
ResumesFollowHalts ==
  \A s \in Symbols : \A e \in NotedFor(s) : e.type = "RESUME" =>
    \E h \in {d \in NotedFor(s) : d.at < e.at} :
      h.type = "HALT" /\ \A d \in NotedFor(s) : d.at < e.at => d.at <= h.at

\* Safety: the resume that the detection reports is the one the audit notes, though
\* each classifies the statuses for itself.
ResumeDetectedIsNoted ==
  \A s \in Symbols :
    Resumed(s) <=> \E e \in NotedFor(s) : e.type = "RESUME" /\ e.at = statuses[s].at

\* Safety: an entry that the cooldown lets pass is at least Cooldown later than every
\* halt noted for the symbol, and later than each of them.
EntriesFarFromHalts ==
  \A s \in Symbols, t \in 1..(MaxAt + Cooldown) : EntryAllowed(s, t) =>
    \A e \in NotedFor(s) : e.type = "HALT" => t > e.at + Cooldown

\* Liveness: every call of connect settles, even one whose socket has been replaced.
EveryConnectSettles ==
  \A w \in Sockets : auth[w] = "pending" ~> auth[w] # "pending"
=============================================================================
