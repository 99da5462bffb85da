------------------------------ MODULE Playback ------------------------------
(***************************************************************************)
(* Who may fetch the segments of a film, and until when: the room,         *)
(* playback and invitation routes of the API                               *)
(* (src/services/api/src/routes/rooms.ts), the gate of the media edge      *)
(* (routes/media.ts) and the retention sweep (lib/retention.ts); and the   *)
(* browsers that ask for a playback session, renew it two minutes before   *)
(* it runs out and fetch segments with it (src/lib/streaming.ts,           *)
(* src/hooks/useAdaptivePlayer.ts).                                        *)
(*                                                                         *)
(* One room of one asset, published and not purged.  A handler is cut at   *)
(* every query.  No client sends a participantId, so every session of the  *)
(* table has none.  Time is left out: a session may run out, and a timer   *)
(* go off, at any moment.                                                  *)
(***************************************************************************)
EXTENDS Naturals

CONSTANTS
  Viewer,      \* the browsers that play the film
  Guest,       \* those among them that come by an invitation, the others have signed in
  MaxSession   \* bound: rows of playback_sessions that still matter at a time

ASSUME PlaybackAssumption ==
  Guest \subseteq Viewer /\ MaxSession \in Nat

Session == 1..MaxSession
None == 0

VARIABLES
  room,     \* the row of rooms
  invite,   \* its row of room_invitations
  live,     \* the rows of playback_sessions that are neither revoked nor run out
  ask,      \* per viewer, the request for a session that is under way
  cookie,   \* per viewer, the session of cookie partmov_playback and of tokenRef
  timer,    \* per viewer, whether the renewal is set
  get,      \* the request for a segment that is under way
  host,     \* where the host's request is
  sweep     \* where runRetentionSweep is

vars == <<room, invite, live, ask, cookie, timer, get, host, sweep>>

NoAsk == [pc |-> "none", kind |-> "url", late |-> FALSE, session |-> None]
NoGet == [pc |-> "none", session |-> None, stale |-> FALSE]

TypeOK ==
  /\ room \in {"none", "open", "overdue", "ended"}
  /\ invite \in {"none", "valid", "revoked"}
  /\ live \subseteq Session
  /\ ask \in [Viewer -> [pc : {"none", "sent", "invite", "revoke", "insert", "reply"},
                         kind : {"url", "refresh"}, late : BOOLEAN, session : Session \union {None}]]
  /\ cookie \in [Viewer -> Session \union {None}]
  /\ timer \in [Viewer -> BOOLEAN]
  /\ get \in [pc : {"none", "asked"}, session : Session \union {None}, stale : BOOLEAN]
  /\ host \in {"idle", "asset", "room", "member", "ended", "sessions", "revoke"}
  /\ sweep \in {"idle", "sessions"}

Shut == room = "ended"

-----------------------------------------------------------------------------
(* The browser. *)

NoRequest(v) == ask[v].pc = "none"

\* The page mounts and asks for its first session (fetchPlaybackUrl); so does a reload, which
\* keeps the cookie.  Bound: a page that can renew its session is not reloaded.
Mount(v) ==
  /\ NoRequest(v) /\ ~timer[v] /\ room # "none"
  /\ v \in Guest => invite # "none"
  /\ ask' = [ask EXCEPT ![v] = [NoAsk EXCEPT !.pc = "sent", !.late = Shut]]
  /\ UNCHANGED <<room, invite, live, cookie, timer, get, host, sweep>>

\* The timer of useAdaptivePlayer, two minutes before tokenExpiresAt.
TokenExpiring(v) ==
  /\ NoRequest(v) /\ timer[v]
  /\ ask' = [ask EXCEPT ![v] = [NoAsk EXCEPT !.pc = "sent", !.kind = "refresh", !.late = Shut]]
  /\ timer' = [timer EXCEPT ![v] = FALSE]
  /\ UNCHANGED <<room, invite, live, cookie, get, host, sweep>>

\* The answer arrives: setPlaybackToken, setTokenExpiresAt, and the effect that arms the timer.
Reply(v) ==
  /\ ask[v].pc = "reply"
  /\ cookie' = [cookie EXCEPT ![v] = ask[v].session]
  /\ timer' = [timer EXCEPT ![v] = TRUE]
  /\ ask' = [ask EXCEPT ![v] = NoAsk]
  /\ UNCHANGED <<room, invite, live, get, host, sweep>>

\* hls.js loads a playlist or a segment.  A dead session stays dead: it needs no name.
Get(v) ==
  /\ get.pc = "none" /\ cookie[v] # None
  /\ get' = IF cookie[v] \in live THEN [pc |-> "asked", session |-> cookie[v], stale |-> FALSE]
            ELSE [pc |-> "asked", session |-> None, stale |-> TRUE]
  /\ UNCHANGED <<room, invite, live, ask, cookie, timer, host, sweep>>

-----------------------------------------------------------------------------
(* POST /rooms/:id/playback-url and /rooms/:id/playback-refresh. *)

Serve(v, from) == ask[v].pc = from /\ UNCHANGED <<room, invite, cookie, timer, get, host, sweep>>
Goes(v, to)    == ask' = [ask EXCEPT ![v].pc = to]
Refused(v)     == ask' = [ask EXCEPT ![v] = NoAsk]

\* The next query of the route.
Way(v) ==
  IF ask[v].kind = "refresh" THEN "revoke" ELSE IF v \in Guest THEN "invite" ELSE "insert"

\* Mutant: the room is looked up, its end is not.
ReadEndedRoom(v) ==
  /\ Serve(v, "sent") /\ UNCHANGED live
  /\ Goes(v, Way(v))

\* SELECT ... FROM rooms JOIN assets; a refresh does not look at the invitation.
ReadRoom(v) ==
  /\ Serve(v, "sent") /\ UNCHANGED live
  /\ IF Shut THEN Refused(v)
     ELSE Goes(v, Way(v))

\* The invitation runs out with the room; use_count stays 0.
CheckInvite(v) ==
  /\ Serve(v, "invite") /\ UNCHANGED live
  /\ IF invite = "valid" /\ room # "overdue" THEN Goes(v, "insert") ELSE Refused(v)

\* assertStorageAllows(0) finds the buckets full, in its listing or its cache: 507.
CheckStorage(v) ==
  /\ ask[v].pc \in {"revoke", "insert"} /\ (ask[v].pc = "insert" => ask[v].kind = "url")
  /\ Serve(v, ask[v].pc) /\ Refused(v) /\ UNCHANGED live

\* The UPDATE that rotates: with no participantId it covers the room.
RevokeOld(v) ==
  /\ Serve(v, "revoke") /\ Goes(v, "insert")
  /\ live' = {}

Unused(s) ==
  /\ s \notin live /\ get.session # s
  /\ \A v \in Viewer : cookie[v] # s /\ ask[v].session # s
InsertSession(v) ==
  /\ Serve(v, "insert")
  /\ \E s \in Session :
       /\ Unused(s) /\ \A t \in Session : Unused(t) => s <= t
       /\ live' = live \union {s}
       /\ ask' = [ask EXCEPT ![v] = [NoAsk EXCEPT !.pc = "reply", !.session = s]]

\* A query, or the way there or back, fails.  The caller catches and warns; nothing sets the
\* timer again.
AskFails(v) ==
  /\ ~NoRequest(v) /\ Refused(v)
  /\ UNCHANGED <<room, invite, live, cookie, timer, get, host, sweep>>

-----------------------------------------------------------------------------
(* GET /media/* and GET /internal/media-auth: the signature and exp of the token, then the row. *)

\* "stale" stays when the request is answered with the segment.
Answer(ok) ==
  /\ get.pc = "asked"
  /\ get' = [NoGet EXCEPT !.stale = ok /\ get.stale]
  /\ UNCHANGED <<room, invite, live, ask, cookie, timer, host, sweep>>

\* Mutant: the signed token is enough.
CheckToken == Answer(TRUE)

CheckSession == Answer(get.session \in live)

Expire(s) ==
  /\ s \in live /\ live' = live \ {s}
  /\ UNCHANGED <<room, invite, ask, cookie, timer, get, host, sweep>>

-----------------------------------------------------------------------------
(* The host: POST /rooms, /rooms/:id/end and /rooms/:id/playback-revoke. *)

Host(from, to) == host = from /\ host' = to /\ UNCHANGED <<ask, cookie, timer, get, sweep>>

\* POST /rooms: the asset is ready; then the room, the host's participant, the invitation.
CheckAsset ==
  Host("idle", "asset") /\ room = "none" /\ UNCHANGED <<room, invite, live>>
InsertRoom        == Host("asset", "room") /\ room' = "open" /\ UNCHANGED <<invite, live>>
InsertParticipant == Host("room", "member") /\ UNCHANGED <<room, invite, live>>
InsertInvitation  == Host("member", "idle") /\ invite' = "valid" /\ UNCHANGED <<room, live>>

\* POST end.  Bound: once; the route does not ask whether the room has ended before.
End ==
  /\ Host("idle", "ended") /\ room \in {"open", "overdue"}
  /\ room' = "ended" /\ UNCHANGED <<invite, live>>
EndSessions    == Host("ended", "sessions") /\ live' = {} /\ UNCHANGED <<room, invite>>
EndInvitations ==
  /\ Host("sessions", "idle") /\ UNCHANGED <<room, live>>
  /\ invite' = IF invite = "valid" THEN "revoked" ELSE invite

PlaybackRevoke == Host("idle", "idle") /\ room # "none" /\ live' = {} /\ UNCHANGED <<room, invite>>

HostFails ==
  /\ host # "idle" /\ host' = "idle"
  /\ UNCHANGED <<room, invite, live, ask, cookie, timer, get, sweep>>

-----------------------------------------------------------------------------
(* What goes on without anybody asking. *)

\* rooms.expires_at passes.
Overdue ==
  /\ room = "open" /\ room' = "overdue"
  /\ UNCHANGED <<invite, live, ask, cookie, timer, get, host, sweep>>

Sweep(from, to) ==
  /\ sweep = from /\ sweep' = to
  /\ UNCHANGED <<invite, ask, cookie, timer, get, host>>

\* Mutant: the reason of the end is written where its state belongs.
SweepReason ==
  /\ Sweep("idle", "sessions") /\ room # "none" /\ UNCHANGED live
  /\ room' = IF room = "overdue" THEN "expired" ELSE room
SweepRooms ==
  /\ Sweep("idle", "sessions") /\ room # "none" /\ UNCHANGED live
  /\ room' = IF room = "overdue" THEN "ended" ELSE room
\* Mutant: the sessions of the rooms that are over their time, which the UPDATE before has ended.
SweepOnce ==
  /\ Sweep("sessions", "idle") /\ UNCHANGED room
  /\ live' = IF room = "overdue" THEN {} ELSE live
SweepSessions ==
  /\ Sweep("sessions", "idle") /\ UNCHANGED room
  /\ live' = IF room = "ended" THEN {} ELSE live
SweepFails ==
  /\ sweep # "idle" /\ sweep' = "idle"
  /\ UNCHANGED <<room, invite, live, ask, cookie, timer, get, host>>

-----------------------------------------------------------------------------
Init ==
  /\ room = "none" /\ invite = "none"
  /\ live = {}
  /\ ask = [v \in Viewer |-> NoAsk]
  /\ cookie = [v \in Viewer |-> None]
  /\ timer = [v \in Viewer |-> FALSE]
  /\ get = NoGet /\ host = "idle" /\ sweep = "idle"

Serves(v) ==
  \/ ReadRoom(v) \/ CheckInvite(v) \/ CheckStorage(v) \/ RevokeOld(v) \/ InsertSession(v)
Browses(v) == Mount(v) \/ TokenExpiring(v) \/ Reply(v) \/ Get(v)
Hosts ==
  \/ CheckAsset \/ InsertRoom \/ InsertParticipant \/ InsertInvitation
  \/ End \/ EndSessions \/ EndInvitations \/ PlaybackRevoke \/ HostFails

Next ==
  \/ \E v \in Viewer : Serves(v) \/ Browses(v) \/ AskFails(v)
  \/ CheckSession \/ Hosts \/ SweepRooms \/ SweepSessions \/ SweepFails \/ Overdue
  \/ \E s \in Session : Expire(s)

\* The API serves what it was sent.  The interval sweeps again and again, and a sweep that fails
\* is followed by others, some of which come through.
Spec ==
  /\ Init /\ [][Next]_vars
  /\ WF_vars(SweepRooms) /\ SF_vars(SweepSessions) /\ \A v \in Viewer : WF_vars(Serves(v))

-----------------------------------------------------------------------------
(* A request that is sent when the room has ended never puts a session     *)
(* into the table, whatever else is under way; one sent before may do so   *)
(* afterwards (the awaits between the SELECT and the INSERT of both        *)
(* routes).                                                                *)
NoLateSession ==
  [][\A s \in Session : s \notin live /\ s \in live' =>
       \E v \in Viewer : ask[v].pc = "insert" /\ ~ask[v].late /\ ask'[v].session = s]_vars

(* The edge streams nothing for a request that was sent with a session     *)
(* already rotated, revoked or run out: the signature of the token is not  *)
(* enough (the session query of routes/media.ts).                          *)
ShutIsShut == get.pc = "none" => ~get.stale

(* When a room is over, by its host or by its time, sooner or later every  *)
(* session of it is dead for good, though requests that were under way at  *)
(* the end still insert theirs, and the host's three statements may fail   *)
(* in between: the sweep's second statement catches what slipped through.  *)
AllShut ==
  room \in {"overdue", "ended"} ~> [](live = {})

=============================================================================
