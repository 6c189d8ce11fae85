------------------------ MODULE TradingStatusProofs ------------------------
(***************************************************************************)
(* Theorems of TradingStatusStream, for any number of sockets, symbols,    *)
(* overlapping frames and timestamps.                                      *)
(***************************************************************************)
EXTENDS TradingStatusStream, TLAPS

\* A frame that is not being audited has no event to record.
FrameShape == \A f \in Slots : frames[f].stage # "auditing" => frames[f].audit = {}

\* No event is later than the status of its symbol, and one as late agrees with it.
EventsBehindStatuses ==
  \A e \in Noted :
    /\ e.at <= statuses[e.symbol].at
    /\ e.at = statuses[e.symbol].at /\ e.type = "HALT" => Halted(e.symbol)

SessionType ==
  /\ socket \in Sockets \cup {None}
  /\ feed \in Feeds \cup {None}
  /\ authenticated \in BOOLEAN
  /\ subscriptions \subseteq Symbols /\ requested \subseteq Symbols
  /\ life \in [Sockets -> {"unused", "connecting", "open", "closed"}]

SessionInv == OneSocket /\ SessionIsReal
NoteInv == /\ FrameShape /\ EventsBehindStatuses
           /\ EveryHaltNoted /\ ResumesFollowHalts /\ ResumeDetectedIsNoted
Inv == TypeOK /\ SessionInv /\ NoteInv

-----------------------------------------------------------------------------
LEMMA TransitionType ==
  ASSUME NEW old \in Status \cup {NoStatus}, NEW m \in Message
  PROVE  Transition(old, m) \in SUBSET Event
  BY DEF Transition, Event, Message

LEMMA InitInv == Init => Inv
<1> SUFFICES ASSUME Init PROVE Inv
  OBVIOUS
<1>1. Noted = {}
  BY DEF Init, Noted, Idle
<1>2. TypeOK
  <2>1. Idle \in Frame
    BY DEF Idle, Frame
  <2> QED BY <2>1 DEF Init, TypeOK, NoStatus
<1>3. SessionInv
  BY StreamAssumption DEF Init, SessionInv, OneSocket, SessionIsReal
<1>4. NoteInv
  BY <1>1 DEF Init, NoteInv, FrameShape, EventsBehindStatuses, EveryHaltNoted,
     ResumesFollowHalts, ResumeDetectedIsNoted, NotedFor, Halted, Resumed, NoStatus, Idle
<1> QED BY <1>2, <1>3, <1>4 DEF Inv

-----------------------------------------------------------------------------
\* Disconnecting keeps the session's types and invariants, whatever auth becomes.
LEMMA DisconnectedSession ==
  ASSUME SessionType, OneSocket, Disconnected
  PROVE  SessionType' /\ SessionInv'
  BY DEF SessionType, SessionInv, OneSocket, SessionIsReal, Disconnected

\* The steps of the connection.
LEMMA ConnectionStep ==
  ASSUME TypeOK, SessionInv, Connection
  PROVE  /\ SessionType' /\ SessionInv'
         /\ auth' \in [Sockets -> {"none", "pending", "resolved", "rejected"}]
         /\ UNCHANGED <<statuses, previous, frames, events, lost>>
<1> DEFINE Goal ==
      /\ SessionType' /\ SessionInv'
      /\ auth' \in [Sockets -> {"none", "pending", "resolved", "rejected"}]
      /\ UNCHANGED <<statuses, previous, frames, events, lost>>
<1> USE DEF TypeOK, SessionType, SessionInv, OneSocket, SessionIsReal
<1>1. CASE Disconnect
  BY <1>1, DisconnectedSession DEF Disconnect
<1>2. ASSUME NEW w \in Sockets, NEW fd \in Feeds, Connect(w, fd) PROVE Goal
  BY <1>2, StreamAssumption DEF Connect
<1>3. ASSUME NEW w \in Sockets, Open(w) PROVE Goal
  BY <1>3 DEF Open
<1>4. ASSUME NEW w \in Sockets, Authenticate(w) PROVE Goal
  BY <1>4, StreamAssumption DEF Authenticate
<1>5. ASSUME NEW w \in Sockets, RejectAuthentication(w) PROVE Goal
  BY <1>5, DisconnectedSession DEF RejectAuthentication
<1>6. ASSUME NEW w \in Sockets, ServerCloses(w) PROVE Goal
  BY <1>6 DEF ServerCloses
<1>7. ASSUME NEW s \in Symbols, SubscribeSymbol(s) PROVE Goal
  BY <1>7 DEF SubscribeSymbol, Usable
<1>8. ASSUME NEW s \in Symbols, UnsubscribeSymbol(s) PROVE Goal
  BY <1>8 DEF UnsubscribeSymbol, Usable
<1> QED BY <1>1, <1>2, <1>3, <1>4, <1>5, <1>6, <1>7, <1>8 DEF Connection

-----------------------------------------------------------------------------
\* The steps of a frame keep the types and the session.
LEMMA FrameStepTypes ==
  ASSUME TypeOK, SessionInv, NEW f \in Slots,
         Arrives(f) \/ Reads(f) \/ AuditSucceeds(f) \/ AuditFails(f)
  PROVE  TypeOK' /\ SessionInv'
<1> USE DEF SessionType, SessionInv, OneSocket, SessionIsReal, session
<1>0. TypeOK => SessionType
  BY DEF TypeOK
<1>1. CASE Arrives(f)
  <2>0. PICK n \in 1..MaxFrame :
          \E messages \in [1..n -> Message \cup {Malformed}] : Receive(f, messages)
    BY <1>1 DEF Arrives
  <2>1. PICK messages \in [1..n -> Message \cup {Malformed}] : Receive(f, messages)
    BY <2>0
  <2>2. messages \in Seq(Message \cup {Malformed})
    BY StreamAssumption
  <2>3. [Idle EXCEPT !.stage = "ready", !.rest = messages] \in Frame
    BY <2>2 DEF Idle, Frame
  <2> QED BY <2>1, <2>3 DEF Receive, TypeOK
<1>2. CASE Store(f)
  <2> DEFINE m == Head(frames[f].rest)
             audit == Transition(statuses[m.symbol], m)
  <2>1. m \in Message /\ Tail(frames[f].rest) \in Seq(Message \cup {Malformed})
    BY <1>2 DEF Store, TypeOK, Frame
  <2>2. [state |-> m.state, at |-> m.at, feed |-> feed] \in Status
    BY <2>1 DEF Message, Status, TypeOK
  <2>3. audit \in SUBSET Event
    BY <2>1, TransitionType DEF TypeOK, Message
  <2>4. [stage |-> IF audit = {} THEN "ready" ELSE "auditing",
         rest |-> Tail(frames[f].rest), audit |-> audit] \in Frame
    BY <2>1, <2>3 DEF Frame
  <2> HIDE DEF m, audit
  <2>5. /\ previous' = [previous EXCEPT ![m.symbol] = statuses[m.symbol]]
        /\ statuses' = [statuses EXCEPT ![m.symbol] =
                          [state |-> m.state, at |-> m.at, feed |-> feed]]
        /\ frames' = [frames EXCEPT ![f] =
                        [stage |-> IF audit = {} THEN "ready" ELSE "auditing",
                         rest |-> Tail(frames[f].rest), audit |-> audit]]
        /\ UNCHANGED <<session, events, lost>>
    BY <1>2 DEF Store, m, audit
  <2> QED BY <2>1, <2>2, <2>4, <2>5 DEF TypeOK, Message
<1>3. CASE Skip(f)
  <2>1. Tail(frames[f].rest) \in Seq(Message \cup {Malformed})
    BY <1>3 DEF Skip, TypeOK, Frame
  <2>2. [frames[f] EXCEPT !.rest = Tail(frames[f].rest)] \in Frame
    BY <2>1 DEF TypeOK, Frame
  <2> QED BY <1>3, <2>2 DEF Skip, TypeOK
<1>4. Idle \in Frame
  BY DEF Idle, Frame
<1>5. CASE EndFrame(f)
  BY <1>4, <1>5 DEF EndFrame, TypeOK
<1>6. CASE RejectFrame(f)
  BY <1>0, <1>4, <1>6, DisconnectedSession DEF RejectFrame, TypeOK
<1>7. CASE AuditSucceeds(f)
  <2>1. frames[f].audit \in SUBSET Event
    BY DEF TypeOK, Frame
  <2>2. [frames[f] EXCEPT !.stage = "ready", !.audit = {}] \in Frame
    BY DEF TypeOK, Frame
  <2> QED BY <1>7, <2>1, <2>2 DEF AuditSucceeds, TypeOK
<1>8. CASE AuditFails(f)
  <2>1. frames[f].audit \in SUBSET Event
    BY DEF TypeOK, Frame
  <2> QED BY <1>0, <1>4, <1>8, <2>1, DisconnectedSession DEF AuditFails, TypeOK
<1> QED BY <1>1, <1>2, <1>3, <1>5, <1>6, <1>7, <1>8 DEF Reads

-----------------------------------------------------------------------------
LEMMA NotedMember ==
  ASSUME NEW e
  PROVE  e \in Noted <=> e \in events \/ e \in lost \/ \E f \in Slots : e \in frames[f].audit
  BY DEF Noted

\* Steps that move an event from one place to another, or none, note no other.
LEMMA NotingUnchanged ==
  ASSUME TypeOK, NoteInv, NEW f \in Slots,
         Arrives(f) \/ Skip(f) \/ EndFrame(f) \/ RejectFrame(f)
           \/ AuditSucceeds(f) \/ AuditFails(f)
  PROVE  Noted' = Noted /\ FrameShape' /\ UNCHANGED <<statuses, previous>>
<1> USE DEF TypeOK, Frame
<1> DEFINE NotedNext(e) ==
      e \in events' \/ e \in lost' \/ \E g \in Slots : e \in frames'[g].audit
<1>0. /\ \A e : e \in Noted' <=> NotedNext(e)
      /\ FrameShape
  BY DEF Noted, NoteInv
<1>1. CASE Arrives(f)
  <2>1. PICK messages : Receive(f, messages)
    BY <1>1 DEF Arrives
  <2> QED BY <1>0, <2>1, NotedMember DEF Receive, FrameShape, Idle
<1>2. CASE Skip(f)
  BY <1>0, <1>2, NotedMember DEF Skip, FrameShape
<1>3. CASE EndFrame(f)
  BY <1>0, <1>3, NotedMember DEF EndFrame, FrameShape, Idle
<1>4. CASE RejectFrame(f)
  BY <1>0, <1>4, NotedMember DEF RejectFrame, FrameShape, Idle
<1>5. CASE AuditSucceeds(f)
  <2>1. \A g \in Slots :
          frames'[g] = IF g = f THEN [frames[f] EXCEPT !.stage = "ready", !.audit = {}]
                                ELSE frames[g]
    BY <1>5 DEF AuditSucceeds
  <2>2. \A g \in Slots :
          /\ frames'[g].audit = IF g = f THEN {} ELSE frames[g].audit
          /\ frames'[g].stage = IF g = f THEN "ready" ELSE frames[g].stage
    BY <2>1
  <2>3. events' = events \cup frames[f].audit /\ lost' = lost
    BY <1>5 DEF AuditSucceeds
  <2>4. \A e : NotedNext(e) <=> e \in Noted
    BY <2>2, <2>3, NotedMember
  <2>5. Noted' = Noted
    BY <1>0, <2>4
  <2> QED BY <1>0, <1>5, <2>2, <2>5 DEF AuditSucceeds, FrameShape
<1>6. CASE AuditFails(f)
  BY <1>0, <1>6, NotedMember DEF AuditFails, FrameShape, Idle
<1> QED BY <1>1, <1>2, <1>3, <1>4, <1>5, <1>6

\* Storing a status notes the event of its transition, if it has one.
LEMMA NotingStored ==
  ASSUME TypeOK, NoteInv, NEW f \in Slots, Store(f)
  PROVE  FrameShape'
         /\ \E m \in Message :
              /\ m.at > statuses[m.symbol].at
              /\ Noted' = Noted \cup Transition(statuses[m.symbol], m)
              /\ statuses' = [statuses EXCEPT ![m.symbol] =
                                [state |-> m.state, at |-> m.at, feed |-> feed]]
              /\ previous' = [previous EXCEPT ![m.symbol] = statuses[m.symbol]]
<1> DEFINE m == Head(frames[f].rest)
           audit == Transition(statuses[m.symbol], m)
<1>1. m \in Message
  BY DEF Store, TypeOK, Frame
<1>2. /\ m.at > statuses[m.symbol].at
      /\ statuses' = [statuses EXCEPT ![m.symbol] =
                        [state |-> m.state, at |-> m.at, feed |-> feed]]
      /\ previous' = [previous EXCEPT ![m.symbol] = statuses[m.symbol]]
  BY DEF Store, Accepts
<1>3. /\ frames' = [frames EXCEPT ![f] =
                     [stage |-> IF audit = {} THEN "ready" ELSE "auditing",
                      rest |-> Tail(frames[f].rest), audit |-> audit]]
      /\ frames[f].stage = "ready" /\ events' = events /\ lost' = lost
  BY DEF Store
<1> HIDE DEF m, audit
<1>4. /\ \A g \in Slots : frames'[g].audit = IF g = f THEN audit ELSE frames[g].audit
      /\ FrameShape'
  BY <1>3 DEF FrameShape, NoteInv, TypeOK
<1>5. frames[f].audit = {}
  BY <1>3 DEF NoteInv, FrameShape
<1>6. \A e : e \in Noted' <=> e \in events' \/ e \in lost' \/ \E g \in Slots : e \in frames'[g].audit
  BY DEF Noted
<1>7. \A e : e \in Noted' <=> e \in Noted \/ e \in audit
  BY <1>3, <1>4, <1>5, <1>6, NotedMember
<1>8. Noted' = Noted \cup audit
  BY <1>7
<1> QED BY <1>1, <1>2, <1>4, <1>8 DEF audit

\* The invariants of the noted events do not depend on where an event is.
LEMMA NoteInvUnchanged ==
  ASSUME NoteInv, Noted' = Noted, FrameShape', UNCHANGED <<statuses, previous>>
  PROVE  NoteInv'
  BY DEF NoteInv, EventsBehindStatuses, EveryHaltNoted, ResumesFollowHalts,
     ResumeDetectedIsNoted, NotedFor, Halted, Resumed, Newest

LEMMA NotedTypes ==
  ASSUME TypeOK
  PROVE  Noted \subseteq Event
  BY DEF TypeOK, Noted, Frame

LEMMA NoteInvStored ==
  ASSUME TypeOK, NoteInv, NEW f \in Slots, Store(f)
  PROVE  NoteInv'
<1>1. PICK m \in Message :
        /\ m.at > statuses[m.symbol].at
        /\ Noted' = Noted \cup Transition(statuses[m.symbol], m)
        /\ statuses' = [statuses EXCEPT ![m.symbol] =
                          [state |-> m.state, at |-> m.at, feed |-> feed]]
        /\ previous' = [previous EXCEPT ![m.symbol] = statuses[m.symbol]]
  BY NotingStored
<1> DEFINE s0 == m.symbol
           old == statuses[s0]
           new == Transition(old, m)
<1>2. /\ s0 \in Symbols /\ m.state \in States /\ m.at \in Nat /\ old.at \in Int
      /\ old.state \in States
  BY DEF Message, TypeOK, Status, NoStatus, Times, States
<1>3. /\ statuses'[s0].state = m.state /\ statuses'[s0].at = m.at
      /\ previous'[s0] = old
      /\ \A s \in Symbols \ {s0} : statuses'[s] = statuses[s] /\ previous'[s] = previous[s]
  BY <1>1, <1>2 DEF TypeOK
<1>4. \A e \in new : /\ e.symbol = s0 /\ e.at = m.at
                     /\ e.type = "HALT" => m.state = "HALTED" /\ old.state # "HALTED"
                     /\ e.type = "RESUME" => m.state = "NOT_HALTED" /\ old.state = "HALTED"
                     /\ e.type \in {"HALT", "RESUME"}
  BY DEF Transition
<1>5. /\ m.state = "HALTED" /\ old.state # "HALTED" =>
           \E e \in new : e.type = "HALT"
      /\ m.state = "NOT_HALTED" /\ old.state = "HALTED" =>
           \E e \in new : e.type = "RESUME"
  BY DEF Transition
<1>6. \A e \in Noted : e \in Event /\ e.at \in Nat /\ e.symbol \in Symbols
  BY NotedTypes DEF Event, Times
<1>7. \A e \in Noted : e.symbol = s0 => e.at <= old.at /\ e.at < m.at
  BY <1>1, <1>2, <1>6 DEF NoteInv, EventsBehindStatuses
<1>8. /\ \A s \in Symbols \ {s0} : (NotedFor(s))' = NotedFor(s)
      /\ (NotedFor(s0))' = NotedFor(s0) \cup new
  BY <1>1, <1>4 DEF NotedFor
<1>9. NotedFor(s0) = {e \in Noted : e.symbol = s0}
  BY DEF NotedFor
<1> HIDE DEF new, old, s0
<1>10. EventsBehindStatuses'
  <2> SUFFICES ASSUME NEW e \in Noted'
               PROVE  /\ e.at <= statuses'[e.symbol].at
                      /\ e.at = statuses'[e.symbol].at /\ e.type = "HALT" =>
                           statuses'[e.symbol].state = "HALTED"
    BY DEF EventsBehindStatuses, Halted
  <2>1. CASE e \in new
    BY <2>1, <1>2, <1>3, <1>4
  <2>2. CASE e \in Noted /\ e.symbol = s0
    BY <2>2, <1>2, <1>3, <1>6, <1>7
  <2>3. CASE e \in Noted /\ e.symbol # s0
    BY <2>3, <1>3, <1>6 DEF NoteInv, EventsBehindStatuses, Halted
  <2> QED BY <1>1, <2>1, <2>2, <2>3 DEF new, old, s0
<1>11. EveryHaltNoted'
  <2> SUFFICES ASSUME NEW s \in Symbols, statuses'[s].state = "HALTED"
               PROVE  \E e \in (NotedFor(s))' : Newest((NotedFor(s))', e) /\ e.type = "HALT"
    BY DEF EveryHaltNoted, Halted, Newest
  <2>1. CASE s # s0
    BY <2>1, <1>3, <1>8 DEF NoteInv, EveryHaltNoted, Halted
  <2>2. CASE s = s0 /\ old.state # "HALTED"
    <3>1. PICK e \in new : e.type = "HALT"
      BY <2>2, <1>3, <1>5
    <3>2. \A d \in (NotedFor(s))' : d.at <= e.at
      BY <2>2, <1>2, <1>4, <1>6, <1>7, <1>8, <1>9
    <3> QED BY <2>2, <3>1, <3>2, <1>8 DEF Newest
  <2>3. CASE s = s0 /\ old.state = "HALTED"
    <3>1. new = {}
      BY <2>3, <1>3, <1>4
    <3>2. PICK e \in NotedFor(s) : Newest(NotedFor(s), e) /\ e.type = "HALT"
      BY <2>3 DEF NoteInv, EveryHaltNoted, Halted, old
    <3> QED BY <2>3, <3>1, <3>2, <1>8
  <2> QED BY <2>1, <2>2, <2>3
<1>12. ResumesFollowHalts'
  <2> SUFFICES ASSUME NEW s \in Symbols, NEW e \in (NotedFor(s))', e.type = "RESUME"
               PROVE  \E h \in (NotedFor(s))' :
                        /\ h.at < e.at /\ h.type = "HALT"
                        /\ \A d \in (NotedFor(s))' : d.at < e.at => d.at <= h.at
    BY DEF ResumesFollowHalts
  <2>1. CASE e \in NotedFor(s)
    <3>1. PICK h \in NotedFor(s) :
            /\ h.at < e.at /\ h.type = "HALT"
            /\ \A d \in NotedFor(s) : d.at < e.at => d.at <= h.at
      BY <2>1 DEF NoteInv, ResumesFollowHalts
    <3>2. CASE s # s0
      BY <3>1, <3>2, <1>8
    <3>3. CASE s = s0
      <4>1. \A d \in new : ~(d.at < e.at)
        BY <2>1, <3>3, <1>2, <1>4, <1>6, <1>7, <1>9
      <4> QED BY <3>1, <3>3, <4>1, <1>8
    <3> QED BY <3>2, <3>3
  <2>2. CASE s = s0 /\ e \in new
    <3>1. PICK h \in NotedFor(s) : Newest(NotedFor(s), h) /\ h.type = "HALT"
      BY <2>2, <1>4 DEF NoteInv, EveryHaltNoted, Halted, old
    <3>2. h.at < e.at
      BY <2>2, <3>1, <1>4, <1>7, <1>9
    <3>3. \A d \in new : ~(d.at < e.at)
      BY <2>2, <1>2, <1>4
    <3> QED BY <2>2, <3>1, <3>2, <3>3, <1>8 DEF Newest
  <2> QED BY <2>1, <2>2, <1>8
<1>13. ResumeDetectedIsNoted'
  <2> SUFFICES ASSUME NEW s \in Symbols
               PROVE  (Resumed(s))' <=> \E e \in (NotedFor(s))' :
                                          e.type = "RESUME" /\ e.at = statuses'[s].at
    BY DEF ResumeDetectedIsNoted
  <2>1. CASE s # s0
    BY <2>1, <1>3, <1>8 DEF NoteInv, ResumeDetectedIsNoted, Resumed
  <2>2. CASE s = s0
    <3>1. (Resumed(s))' <=> old.state = "HALTED" /\ m.state = "NOT_HALTED"
      BY <2>2, <1>3 DEF Resumed
    <3>2. \A e \in NotedFor(s) : e.at # statuses'[s].at
      BY <2>2, <1>2, <1>3, <1>6, <1>7, <1>9
    <3> QED BY <2>2, <3>1, <3>2, <1>3, <1>4, <1>5, <1>8
  <2> QED BY <2>1, <2>2
<1> QED BY <1>10, <1>11, <1>12, <1>13, NotingStored DEF NoteInv

-----------------------------------------------------------------------------
LEMMA NextInv == Inv /\ [Next]_vars => Inv'
<1> SUFFICES ASSUME Inv, [Next]_vars PROVE Inv'
  OBVIOUS
<1> USE DEF Inv
<1>1. CASE Connection
  <2>1. TypeOK' /\ SessionInv'
    BY <1>1, ConnectionStep DEF TypeOK, SessionType
  <2>2. Noted' = Noted /\ FrameShape'
    BY <1>1, ConnectionStep DEF Noted, NoteInv, FrameShape
  <2> QED BY <1>1, <2>1, <2>2, ConnectionStep, NoteInvUnchanged
<1>2. ASSUME NEW f \in Slots, Arrives(f) \/ Reads(f) \/ AuditSucceeds(f) \/ AuditFails(f)
      PROVE  Inv'
  <2>1. TypeOK' /\ SessionInv'
    BY <1>2, FrameStepTypes
  <2>2. CASE Store(f)
    BY <2>1, <2>2, NoteInvStored
  <2>3. CASE Arrives(f) \/ Skip(f) \/ EndFrame(f) \/ RejectFrame(f)
               \/ AuditSucceeds(f) \/ AuditFails(f)
    BY <2>1, <2>3, NotingUnchanged, NoteInvUnchanged
  <2> QED BY <1>2, <2>2, <2>3 DEF Reads
<1>3. CASE UNCHANGED vars
  <2>1. TypeOK' /\ SessionInv'
    BY <1>3 DEF vars, session, TypeOK, SessionInv, OneSocket, SessionIsReal
  <2>2. Noted' = Noted /\ FrameShape'
    BY <1>3 DEF vars, Noted, NoteInv, FrameShape
  <2> QED BY <1>3, <2>1, <2>2, NoteInvUnchanged DEF vars
<1> QED BY <1>1, <1>2, <1>3 DEF Next

\* The inductive invariant holds.
THEOREM Invariant == Spec => []Inv
  BY InitInv, NextInv, PTL DEF Spec

\* Type correctness of the service's fields and of the frames it handles.
THEOREM TypeCorrect == Spec => []TypeOK
<1>1. Inv => TypeOK
  BY DEF Inv
<1> QED BY <1>1, Invariant, PTL

\* connect and disconnect never leave a second socket open.
THEOREM SingleSocket == Spec => []OneSocket
<1>1. Inv => OneSocket
  BY DEF Inv, SessionInv
<1> QED BY <1>1, Invariant, PTL

\* Authentication and subscriptions are those of the current socket.
THEOREM RealSession == Spec => []SessionIsReal
<1>1. Inv => SessionIsReal
  BY DEF Inv, SessionInv
<1> QED BY <1>1, Invariant, PTL

\* A halt in force is the newest event noted for its symbol.
THEOREM HaltsNoted == Spec => []EveryHaltNoted
<1>1. Inv => EveryHaltNoted
  BY DEF Inv, NoteInv
<1> QED BY <1>1, Invariant, PTL

\* A noted resume follows a halt.
THEOREM ResumesAfterHalts == Spec => []ResumesFollowHalts
<1>1. Inv => ResumesFollowHalts
  BY DEF Inv, NoteInv
<1> QED BY <1>1, Invariant, PTL

\* The detection of resumes and the audit agree.
THEOREM DetectionAgrees == Spec => []ResumeDetectedIsNoted
<1>1. Inv => ResumeDetectedIsNoted
  BY DEF Inv, NoteInv
<1> QED BY <1>1, Invariant, PTL

\* The cooldown after a resume keeps entries away from every noted halt.
THEOREM EntriesAwayFromHalts == Spec => []EntriesFarFromHalts
<1>1. Inv => EntriesFarFromHalts
  <2> SUFFICES ASSUME Inv, NEW s \in Symbols, NEW t \in 1..(MaxAt + Cooldown),
                      EntryAllowed(s, t), NEW e \in NotedFor(s), e.type = "HALT"
               PROVE  t > e.at + Cooldown
    BY DEF EntriesFarFromHalts
  <2>1. e \in Event /\ e \in Noted /\ e.symbol = s
    BY NotedTypes DEF Inv, NotedFor
  <2>2. ~Halted(s) /\ t >= statuses[s].at + Cooldown
    BY DEF EntryAllowed, Resumed, Halted
  <2>3. e.at <= statuses[s].at /\ e.at # statuses[s].at
    BY <2>1, <2>2 DEF Inv, NoteInv, EventsBehindStatuses
  <2>4. e.at \in Int /\ statuses[s].at \in Int
    BY <2>1 DEF Inv, TypeOK, Status, NoStatus, Event, Times
  <2>5. t \in Int /\ Cooldown \in Int
    BY StreamAssumption
  <2> HIDE DEF Inv
  <2> QED BY <2>2, <2>3, <2>4, <2>5
<1> QED BY <1>1, Invariant, PTL
=============================================================================
