---------------------------- MODULE PlaybackProofs ----------------------------
(***************************************************************************)
(* Theorems about Playback, for any browsers, any guests among them and    *)
(* any number of sessions.                                                 *)
(***************************************************************************)
EXTENDS Playback, TLAPS

Pc   == {"none", "sent", "invite", "revoke", "insert", "reply"}
Kind == {"url", "refresh"}
Sid  == Session \union {None}
Ask  == [pc : Pc, kind : Kind, late : BOOLEAN, session : Sid]

\* Session None is in no row of the table.
LEMMA NoneIsNoSession == None \notin Session
BY PlaybackAssumption DEF None, Session

LEMMA InitTypes == Init => TypeOK
BY DEF Init, TypeOK, NoAsk, NoGet

\* What the steps of a request write, by the form of their assignments.
LEMMA AskTypes ==
  ASSUME ask \in [Viewer -> Ask], NEW v \in Viewer
  PROVE  /\ \A to \in Pc : Goes(v, to) => ask' \in [Viewer -> Ask]
         /\ Refused(v) => ask' \in [Viewer -> Ask]
         /\ \A p \in Pc, k \in Kind, l \in BOOLEAN, s \in Sid :
              ask' = [ask EXCEPT ![v] = [pc |-> p, kind |-> k, late |-> l, session |-> s]]
                => ask' \in [Viewer -> Ask]
<1>1. NoAsk \in Ask
  BY DEF NoAsk, Ask, Pc, Kind, Sid
<1>2. ask[v] \in Ask
  OBVIOUS
<1>3. ASSUME NEW to \in Pc, Goes(v, to) PROVE ask' \in [Viewer -> Ask]
  BY <1>2, <1>3 DEF Goes, Ask
<1>4. ASSUME Refused(v) PROVE ask' \in [Viewer -> Ask]
  BY <1>1, <1>4 DEF Refused
<1>5. ASSUME NEW p \in Pc, NEW k \in Kind, NEW l \in BOOLEAN, NEW s \in Sid,
             ask' = [ask EXCEPT ![v] = [pc |-> p, kind |-> k, late |-> l, session |-> s]]
      PROVE  ask' \in [Viewer -> Ask]
  <2>1. [pc |-> p, kind |-> k, late |-> l, session |-> s] \in Ask
    BY DEF Ask
  <2>2. QED
    BY <1>5, <2>1
<1>6. QED
  BY <1>3, <1>4, <1>5

\* The actions that write no request, no cookie and no timer.
LEMMA HostTypes ==
  ASSUME TypeOK, Hosts \/ SweepRooms \/ SweepSessions \/ SweepFails \/ Overdue
  PROVE  TypeOK'
BY DEF TypeOK, Hosts, CheckAsset, InsertRoom, InsertParticipant, InsertInvitation, End, EndSessions,
       EndInvitations, PlaybackRevoke, HostFails, Host, SweepRooms, SweepSessions, SweepFails, Sweep, Overdue

LEMMA BrowserTypes ==
  ASSUME TypeOK, NEW v \in Viewer, Browses(v)
  PROVE  TypeOK'
<1>1. ask \in [Viewer -> Ask] /\ ask[v] \in Ask /\ cookie[v] \in Sid
  BY DEF TypeOK, Ask, Pc, Kind, Sid
<1>2. SUFFICES ask' \in [Viewer -> Ask] /\ get' \in [pc : {"none", "asked"}, session : Sid, stale : BOOLEAN]
               /\ cookie' \in [Viewer -> Sid] /\ timer' \in [Viewer -> BOOLEAN]
  BY DEF TypeOK, Browses, Mount, TokenExpiring, Reply, Get, Ask, Pc, Kind, Sid
<1>3. CASE Mount(v)
  <2>1. [NoAsk EXCEPT !.pc = "sent", !.late = Shut] \in Ask
    BY DEF NoAsk, Ask, Pc, Kind, Sid, Shut
  <2>2. QED
    BY <1>1, <1>3, <2>1 DEF Mount, TypeOK, Sid
<1>4. CASE TokenExpiring(v)
  <2>1. [NoAsk EXCEPT !.pc = "sent", !.kind = "refresh", !.late = Shut] \in Ask
    BY DEF NoAsk, Ask, Pc, Kind, Sid, Shut
  <2>2. QED
    BY <1>1, <1>4, <2>1 DEF TokenExpiring, TypeOK, Sid
<1>5. CASE Reply(v)
  <2>1. NoAsk \in Ask
    BY DEF NoAsk, Ask, Pc, Kind, Sid
  <2>2. ask[v].session \in Sid
    BY <1>1 DEF Ask
  <2>3. QED
    BY <1>1, <1>5, <2>1, <2>2 DEF Reply, TypeOK, Sid
<1>6. CASE Get(v)
  BY <1>1, <1>6 DEF Get, TypeOK, Sid
<1>7. QED
  BY <1>3, <1>4, <1>5, <1>6 DEF Browses

LEMMA ServerTypes ==
  ASSUME TypeOK, NEW v \in Viewer, Serves(v) \/ AskFails(v)
  PROVE  TypeOK'
<1>1. ask \in [Viewer -> Ask] /\ ask[v] \in Ask /\ live \subseteq Session
  BY DEF TypeOK, Ask, Pc, Kind, Sid
<1>2. SUFFICES ask' \in [Viewer -> Ask] /\ live' \subseteq Session
  BY DEF TypeOK, Serves, Serve, ReadRoom, CheckInvite, CheckStorage, RevokeOld, InsertSession, AskFails,
         Ask, Pc, Kind, Sid
<1>3. CASE ReadRoom(v)
  <2>1. Way(v) \in Pc
    BY DEF Way, Pc
  <2>2. QED
    BY <1>1, <1>3, <2>1, AskTypes DEF ReadRoom
<1>4. CASE CheckInvite(v)
  BY <1>1, <1>4, AskTypes DEF CheckInvite, Pc
<1>5. CASE CheckStorage(v) \/ AskFails(v)
  BY <1>1, <1>5, AskTypes DEF CheckStorage, AskFails
<1>6. CASE RevokeOld(v)
  BY <1>1, <1>6, AskTypes DEF RevokeOld, Pc
<1>7. CASE InsertSession(v)
  <2>1. PICK s \in Session : /\ live' = live \union {s}
                             /\ ask' = [ask EXCEPT ![v] = [NoAsk EXCEPT !.pc = "reply", !.session = s]]
    BY <1>7 DEF InsertSession
  <2>2. [NoAsk EXCEPT !.pc = "reply", !.session = s] \in Ask
    BY DEF NoAsk, Ask, Pc, Kind, Sid
  <2>3. QED
    BY <1>1, <2>1, <2>2
<1>8. QED
  BY <1>3, <1>4, <1>5, <1>6, <1>7 DEF Serves

LEMMA TypeStep == ASSUME TypeOK, [Next]_vars PROVE TypeOK'
<1>1. CASE UNCHANGED vars
  BY <1>1 DEF vars, TypeOK
<1>2. CASE CheckSession
  BY <1>2 DEF CheckSession, Answer, NoGet, TypeOK
<1>3. ASSUME NEW s \in Session, Expire(s) PROVE TypeOK'
  BY <1>3 DEF Expire, TypeOK
<1>4. QED
  BY <1>1, <1>2, <1>3, HostTypes, BrowserTypes, ServerTypes DEF Next

\* The rows, the requests and the browsers' tokens keep their types.
THEOREM TypeCorrect == Spec => []TypeOK
BY InitTypes, TypeStep, PTL DEF Spec

-----------------------------------------------------------------------------
(* What the gate streams. *)

\* A request with a dead session names none, and nothing has been streamed for one.
GateInv == get.stale => get.pc = "asked" /\ get.session = None

LEMMA GateStep == ASSUME TypeOK, GateInv, [Next]_vars PROVE GateInv'
<1>1. CASE UNCHANGED get
  BY <1>1 DEF GateInv
<1>2. ASSUME NEW v \in Viewer, Get(v) PROVE GateInv'
  BY <1>2 DEF Get, GateInv
<1>3. CASE CheckSession
  BY <1>3, NoneIsNoSession DEF CheckSession, Answer, NoGet, GateInv, TypeOK
<1>4. QED
  BY <1>1, <1>2, <1>3
  DEF Next, vars, Serves, Serve, ReadRoom, CheckInvite, CheckStorage, RevokeOld, InsertSession, AskFails,
      Browses, Mount, TokenExpiring, Reply, Hosts, CheckAsset, InsertRoom, InsertParticipant, InsertInvitation,
      End, EndSessions, EndInvitations, PlaybackRevoke, HostFails, Host, SweepRooms, SweepSessions, SweepFails,
      Sweep, Overdue, Expire

\* The edge streams nothing for a request sent with a session that was dead by then.
THEOREM GateShut == Spec => []ShutIsShut
<1>1. Init => GateInv
  BY DEF Init, NoGet, GateInv
<1>2. GateInv => ShutIsShut
  BY DEF GateInv, ShutIsShut
<1>3. QED
  BY <1>1, <1>2, TypeCorrect, GateStep, PTL DEF Spec

-----------------------------------------------------------------------------
(* Requests that are sent after the end. *)

\* Such a request never gets past the room's row: a room that has ended stays so, because the one
\* INSERT of it is over by then.
LateInv ==
  /\ host = "asset" => room = "none"
  /\ \A v \in Viewer : ask[v].late => room = "ended" /\ ask[v].pc \in {"none", "sent"}

LEMMA RoomStays == ASSUME LateInv, [Next]_vars, room = "ended" PROVE room' = "ended"
BY DEF LateInv, Next, vars, Serves, Serve, ReadRoom, CheckInvite, CheckStorage, RevokeOld, InsertSession, AskFails,
      Browses, Mount, TokenExpiring, Reply, Get, CheckSession, Answer, Hosts, CheckAsset, InsertRoom,
      InsertParticipant, InsertInvitation, End, EndSessions, EndInvitations, PlaybackRevoke, HostFails, Host,
      SweepRooms, SweepSessions, SweepFails, Sweep, Overdue, Expire

LEMMA LateStep == ASSUME TypeOK, LateInv, [Next]_vars PROVE LateInv'
<1>1. (host = "asset" => room = "none")'
  BY DEF LateInv, Next, vars, Serves, Serve, ReadRoom, CheckInvite, CheckStorage, RevokeOld, InsertSession, AskFails,
      Browses, Mount, TokenExpiring, Reply, Get, CheckSession, Answer, Hosts, CheckAsset, InsertRoom,
      InsertParticipant, InsertInvitation, End, EndSessions, EndInvitations, PlaybackRevoke, HostFails, Host,
      SweepRooms, SweepSessions, SweepFails, Sweep, Overdue, Expire
<1>2. SUFFICES ASSUME NEW w \in Viewer, ask'[w].late
               PROVE  room' = "ended" /\ ask'[w].pc \in {"none", "sent"}
  BY <1>1 DEF LateInv
<1>3. ask \in [Viewer -> Ask] /\ ask[w] \in Ask
  BY DEF TypeOK, Ask, Pc, Kind, Sid
<1>4. CASE ask'[w] = ask[w]
  BY <1>2, <1>4, RoomStays DEF LateInv
<1>5. ASSUME NEW v \in Viewer, Mount(v) \/ TokenExpiring(v), w = v
      PROVE  room' = "ended" /\ ask'[w].pc \in {"none", "sent"}
  BY <1>2, <1>3, <1>5 DEF Mount, TokenExpiring, NoAsk, Shut
<1>6. ASSUME NEW v \in Viewer, ReadRoom(v) \/ CheckInvite(v) \/ RevokeOld(v), ~Refused(v), w = v PROVE FALSE
  <2>1. ask'[w].late = ask[w].late
    BY <1>3, <1>6 DEF ReadRoom, CheckInvite, RevokeOld, Goes, Ask
  <2>2. ask[w].pc \in {"sent", "invite", "revoke"} /\ (ask[w].pc = "sent" => room # "ended")
    BY <1>6 DEF ReadRoom, CheckInvite, RevokeOld, Serve, Shut
  <2>3. QED
    BY <1>2, <2>1, <2>2 DEF LateInv
<1>7. ASSUME NEW v \in Viewer, Refused(v) \/ Reply(v), w = v PROVE FALSE
  BY <1>2, <1>3, <1>7 DEF Refused, Reply, NoAsk
<1>8. ASSUME NEW v \in Viewer, InsertSession(v), w = v PROVE FALSE
  <2>1. PICK s \in Session : ask' = [ask EXCEPT ![v] = [NoAsk EXCEPT !.pc = "reply", !.session = s]]
    BY <1>8 DEF InsertSession
  <2>2. QED
    BY <1>2, <1>3, <1>8, <2>1 DEF NoAsk
<1>9. ASSUME NEW v \in Viewer, Serves(v) \/ Browses(v) \/ AskFails(v), w # v PROVE ask'[w] = ask[w]
  BY <1>3, <1>9 DEF Serves, Serve, ReadRoom, CheckInvite, CheckStorage, RevokeOld, InsertSession, Goes, Refused,
       Browses, Mount, TokenExpiring, Reply, Get, AskFails
<1>10. ASSUME NEW v \in Viewer, Serves(v) \/ Browses(v) \/ AskFails(v)
       PROVE  room' = "ended" /\ ask'[w].pc \in {"none", "sent"}
  <2>1. CASE w # v
    BY <1>4, <1>9, <1>10, <2>1
  <2>2. CASE Get(v)
    BY <1>4, <2>2 DEF Get
  <2>3. CASE CheckStorage(v) \/ AskFails(v)
    BY <1>4, <1>7, <1>9, <2>3 DEF CheckStorage, AskFails, Serves
  <2>4. QED
    BY <1>5, <1>6, <1>7, <1>8, <1>10, <2>1, <2>2, <2>3 DEF Serves, Browses
<1>11. QED
  BY <1>4, <1>10 DEF Next, vars, CheckSession, Answer, Hosts, CheckAsset, InsertRoom, InsertParticipant,
      InsertInvitation, End, EndSessions, EndInvitations, PlaybackRevoke, HostFails, Host, SweepRooms,
      SweepSessions, SweepFails, Sweep, Overdue, Expire

LEMMA LateAlways == Spec => [](TypeOK /\ LateInv)
<1>1. Init => LateInv
  BY DEF Init, NoAsk, LateInv
<1>2. QED
  BY <1>1, TypeCorrect, LateStep, PTL DEF Spec

\* Whatever is under way: a session that enters the table was asked for before the room ended.
THEOREM NothingAfterTheEnd == Spec => NoLateSession
<1>1. ASSUME TypeOK, LateInv, [Next]_vars, NEW s \in Session, s \notin live, s \in live'
      PROVE  \E v \in Viewer : ask[v].pc = "insert" /\ ~ask[v].late /\ ask'[v].session = s
  <2>1. PICK v \in Viewer : InsertSession(v)
    BY <1>1 DEF Next, vars, Serves, Serve, ReadRoom, CheckInvite, CheckStorage, RevokeOld, AskFails,
      Browses, Mount, TokenExpiring, Reply, Get, CheckSession, Answer, Hosts, CheckAsset, InsertRoom,
      InsertParticipant, InsertInvitation, End, EndSessions, EndInvitations, PlaybackRevoke, HostFails, Host,
      SweepRooms, SweepSessions, SweepFails, Sweep, Overdue, Expire
  <2>2. PICK t \in Session : /\ live' = live \union {t}
                             /\ ask' = [ask EXCEPT ![v] = [NoAsk EXCEPT !.pc = "reply", !.session = t]]
    BY <2>1 DEF InsertSession
  <2>3. t = s
    BY <1>1, <2>2
  <2>4. ask \in [Viewer -> Ask] /\ ask[v] \in Ask
    BY <1>1 DEF TypeOK, Ask, Pc, Kind, Sid
  <2>5. ask'[v].session = s
    BY <2>2, <2>3, <2>4 DEF NoAsk
  <2>6. ask[v].pc = "insert" /\ ~ask[v].late
    BY <1>1, <2>1 DEF InsertSession, Serve, LateInv
  <2>7. QED
    BY <2>5, <2>6
<1>2. TypeOK /\ LateInv /\ [Next]_vars =>
        [\A s \in Session : s \notin live /\ s \in live' =>
           \E v \in Viewer : ask[v].pc = "insert" /\ ~ask[v].late /\ ask'[v].session = s]_vars
  BY <1>1
<1>3. QED
  BY <1>2, LateAlways, PTL DEF Spec, NoLateSession

=============================================================================
