----------------------------- MODULE SyncClient -----------------------------
(***************************************************************************)
(* A browser in a room of the sync service: the hook                       *)
(* src/hooks/useAuthoritativeSync.ts, mounted by                           *)
(* src/components/watch/StreamingWatchRoom.tsx.  The page passes the hook  *)
(* new callbacks on every render, so that a render that follows from a     *)
(* change of state tears the hook's effect down and runs it again, with a  *)
(* connection of its own.                                                  *)
(*                                                                         *)
(* The service (src/services/sync/src/index.ts) is here what this browser  *)
(* sees of it: what the room says, one command after the other, and a      *)
(* handler that waits for the database before it admits.  Who else is in   *)
(* the room is left to SyncRoom, the clock's arithmetic to RoomClock and   *)
(* SessionClock: here the anchor only plays or is paused.  A participant   *)
(* that the service does not know never comes up: rows are never deleted.  *)
(***************************************************************************)
EXTENDS Naturals, Sequences

CONSTANTS
  Null,      \* no anchor yet
  MaxSeq,    \* bound: commands in the life of a room
  MaxChan    \* bound: messages under way in one direction when a timer or a command sends another

ASSUME ClientAssumption == MaxSeq \in Nat /\ MaxChan \in Nat /\ Null \notin {"paused", "playing"}

State == {"paused", "playing"}
Room == [seq : 0..MaxSeq, mode : {"host_only", "shared"}, anchor : State]

VARIABLES
  svc,       \* the room of the service
  saved,     \* its checkpoint
  over,      \* the room has ended
  rights,    \* the role of this browser's row
  srv,       \* this browser's connection at the service: none, its handler waiting, in the room
  ws,        \* the WebSocket: none when unmounted, connecting, open, or down with a retry to come
  stale,     \* the effect before this one has a socket whose onclose is still to come
  up, down,  \* messages under way on the connection
  seqRef, known,         \* the refs: the last seq, and whether there is a participant id
  role, mode, ended, connected,    \* the state of the page
  anchor, applying, countdown,     \* anchorRef, applyingRemote, countdownTimerRef
  video,     \* does the video play
  dirty      \* a change of state waits for its render

svcVars == <<svc, saved, over, rights>>
netVars == <<srv, ws, stale, up, down>>
pageVars ==
  <<seqRef, known, role, mode, ended, connected, anchor, applying, countdown, video, dirty>>
vars == <<svc, saved, over, rights, srv, ws, stale, up, down,
          seqRef, known, role, mode, ended, connected, anchor, applying, countdown, video, dirty>>

ToServer == {"join", "reconnect", "heartbeat", "sync_ping"}
Roles == {"host", "guest"}
Message ==
  [type : {"snapshot"}, seq : 0..MaxSeq, role : Roles, mode : {"host_only", "shared"},
   anchor : State]
    \cup [type : {"playback", "heartbeat_ack"}, seq : 0..MaxSeq, anchor : State]
    \cup [type : {"control_mode"}, seq : 0..MaxSeq, mode : {"host_only", "shared"}]
    \cup [type : {"host_transfer"}, seq : 0..MaxSeq, role : Roles]
    \cup [type : {"sync_pong"}, anchor : State] \cup [type : {"room_ended"}]

\* Types; a countdown runs only under an anchor that plays, with the video held.
TypeOK ==
  /\ {svc, saved} \subseteq Room /\ over \in BOOLEAN /\ rights \in Roles
  /\ srv \in {"none", "waiting", "in"}
  /\ ws \in {"none", "connecting", "open", "down"} /\ stale \in BOOLEAN
  /\ up \in Seq(ToServer) /\ down \in Seq(Message)
  /\ seqRef \in 0..MaxSeq /\ role \in Roles /\ mode \in {"host_only", "shared"}
  /\ {known, ended, connected, applying, countdown, video, dirty} \subseteq BOOLEAN
  /\ anchor \in State \cup {Null}
  /\ countdown => anchor = "playing" /\ applying /\ ~video

-----------------------------------------------------------------------------
(* The service. *)

\* broadcast, to this browser
Tells(msg) == down' = IF srv = "in" THEN Append(down, msg) ELSE down

Commands == ~over /\ svc.seq < MaxSeq /\ Len(down) < MaxChan

PlaybackCmd ==
  /\ Commands
  /\ \E s \in State : svc' = [svc EXCEPT !.seq = @ + 1, !.anchor = s]
  /\ Tells([type |-> "playback", seq |-> svc'.seq, anchor |-> svc'.anchor])
  /\ UNCHANGED <<saved, over, rights, srv, ws, stale, up, pageVars>>

ControlModeCmd ==
  /\ Commands
  /\ \E m \in {"host_only", "shared"} : svc' = [svc EXCEPT !.seq = @ + 1, !.mode = m]
  /\ Tells([type |-> "control_mode", seq |-> svc'.seq, mode |-> svc'.mode])
  /\ UNCHANGED <<saved, over, rights, srv, ws, stale, up, pageVars>>

\* The host hands over, or leaves and somebody inherits.
HostTransfer ==
  /\ Commands
  /\ rights' \in Roles \ {rights}
  /\ svc' = [svc EXCEPT !.seq = @ + 1, !.mode = "host_only"]
  /\ Tells([type |-> "host_transfer", seq |-> svc'.seq, role |-> rights'])
  /\ UNCHANGED <<saved, over, srv, ws, stale, up, pageVars>>

checkpoint ==
  /\ saved # svc /\ saved' = svc
  /\ UNCHANGED <<svc, over, rights, netVars, pageVars>>

\* The connection is lost: the network drops it, or the service ends it.
Lost ==
  /\ srv' = "none" /\ ws' = IF ws = "open" THEN "down" ELSE ws
  /\ up' = <<>> /\ down' = <<>>
  /\ IF ws = "open" THEN connected' = FALSE /\ dirty' = (dirty \/ connected)
     ELSE UNCHANGED <<connected, dirty>>

pageRest == <<seqRef, known, role, mode, ended, anchor, applying, countdown, video>>

Drop == ws = "open" /\ Lost /\ UNCHANGED <<svcVars, stale, pageRest>>

\* The service dies and goes on from the checkpoint.
Restart ==
  /\ svc' = saved /\ Lost
  /\ UNCHANGED <<saved, over, rights, stale, pageRest>>

\* endRoom: room_ended goes out before the socket closes.
EndRoom ==
  /\ ~over /\ over' = TRUE
  /\ Tells([type |-> "room_ended"])
  /\ UNCHANGED <<svc, saved, rights, srv, ws, stale, up, pageVars>>

\* A room that has ended closes whoever is in it or comes, once the word is out.
Closes ==
  /\ over /\ srv = "in" /\ down = <<>> /\ Lost
  /\ UNCHANGED <<svcVars, stale, pageRest>>

Asked(t) == up # <<>> /\ Head(up) = t /\ up' = Tail(up)

\* The first message of a connection: the handler goes to the database.
OnJoin ==
  /\ srv = "none" /\ (Asked("join") \/ Asked("reconnect"))
  /\ IF over THEN srv' = "in" /\ down' = Append(down, [type |-> "room_ended"])
     ELSE srv' = "waiting" /\ UNCHANGED down
  /\ UNCHANGED <<svcVars, ws, stale, pageVars>>

Admit ==
  /\ srv = "waiting" /\ srv' = "in"
  /\ down' = Append(down, [type |-> "snapshot", seq |-> svc.seq, role |-> rights,
                           mode |-> svc.mode, anchor |-> svc.anchor])
  /\ UNCHANGED <<svcVars, ws, stale, up, pageVars>>

OnHeartbeat ==
  /\ Asked("heartbeat")
  /\ down' = IF srv = "in" /\ ~over
             THEN Append(down, [type |-> "heartbeat_ack", seq |-> svc.seq, anchor |-> svc.anchor])
             ELSE down
  /\ UNCHANGED <<svcVars, srv, ws, stale, pageVars>>

OnPing ==
  /\ Asked("sync_ping")
  /\ down' = IF srv = "in" /\ ~over
             THEN Append(down, [type |-> "sync_pong", anchor |-> svc.anchor]) ELSE down
  /\ UNCHANGED <<svcVars, srv, ws, stale, pageVars>>

Service == OnJoin \/ Admit \/ OnHeartbeat \/ OnPing \/ Closes

-----------------------------------------------------------------------------
(* The hook's effect and its connection. *)

\* ws.onopen
Open ==
  /\ ws = "connecting" /\ ws' = "open"
  /\ connected' = TRUE /\ dirty' = (dirty \/ ~connected)
  /\ up' = <<IF known THEN "reconnect" ELSE "join">>
  /\ UNCHANGED <<svcVars, srv, stale, down, pageRest>>

\* ws.onclose of a connection that was not to be had
Refused ==
  /\ ws = "connecting" /\ ws' = "down"
  /\ connected' = FALSE /\ dirty' = (dirty \/ connected)
  /\ UNCHANGED <<svcVars, srv, stale, up, down, pageRest>>

\* Mutant: a page that was told of the end does not come back for more.
RetryUnlessEnded ==
  /\ ws = "down" /\ ~ended /\ ws' = "connecting"
  /\ UNCHANGED <<svcVars, srv, stale, up, down, pageVars>>

\* The timer of onclose; its delay doubles up to ten seconds, and starts over with every onopen.
Retry ==
  /\ ws = "down" /\ ws' = "connecting"
  /\ UNCHANGED <<svcVars, srv, stale, up, down, pageVars>>

\* The effect's cleanup: leave, close, and the countdown is off.
Cleanup ==
  /\ stale' = (stale \/ ws = "open")
  /\ srv' = "none" /\ up' = <<>> /\ down' = <<>>
  /\ countdown' = FALSE

\* A render, with its new callbacks, runs the effect again.
Render ==
  /\ dirty /\ dirty' = FALSE /\ ws # "none"
  /\ Cleanup /\ ws' = "connecting"
  /\ UNCHANGED <<svcVars, seqRef, known, role, mode, ended, connected, anchor, applying, video>>

\* The socket of an earlier effect closes: that its effect is over does not keep it from saying so.
StaleClose ==
  /\ stale /\ stale' = FALSE
  /\ connected' = FALSE /\ dirty' = (ws # "none" /\ (dirty \/ connected))
  /\ UNCHANGED <<svcVars, srv, ws, up, down, pageRest>>

Unmount ==
  /\ ws # "none" /\ ws' = "none" /\ dirty' = FALSE
  /\ Cleanup
  /\ UNCHANGED <<svcVars, seqRef, known, role, mode, ended, connected, anchor, applying, video>>

-----------------------------------------------------------------------------
(* The video and its clock. *)

\* Mutant: an earlier countdown is left alone.
ApplyOverCountdown(s, wait) ==
  /\ anchor' = s
  /\ applying' = (wait /\ s = "playing")
  /\ countdown' = (countdown \/ applying')
  /\ video' = (s = "playing" /\ ~wait)

\* applySessionClock: an earlier countdown is off.  A start may lie ahead, by the clock of
\* this device.
Apply(s, wait) ==
  /\ anchor' = s
  /\ applying' = (wait /\ s = "playing")
  /\ countdown' = applying'
  /\ video' = (s = "playing" /\ ~wait)

\* The countdown's timer
CountdownEnds ==
  /\ countdown /\ countdown' = FALSE
  /\ video' = TRUE /\ applying' = FALSE /\ dirty' = (ws # "none")
  /\ UNCHANGED <<svcVars, netVars, seqRef, known, role, mode, ended, connected, anchor>>

\* driftTimer: the position on the page moves while the room plays, and a video that has drifted
\* is brought back.
Drift ==
  /\ ws = "open" /\ anchor # Null /\ ~applying
  /\ \/ UNCHANGED <<anchor, applying, countdown, video>>
     \/ Apply(anchor, FALSE)
  /\ dirty' = (dirty \/ anchor = "playing")
  /\ UNCHANGED <<svcVars, netVars, seqRef, known, role, mode, ended, connected>>

\* resyncToSession, when the player has become ready
Resync ==
  /\ ws # "none" /\ anchor # Null
  /\ Apply(anchor, FALSE) /\ dirty' = TRUE
  /\ UNCHANGED <<svcVars, netVars, seqRef, known, role, mode, ended, connected>>

\* hbTimer, pingTimer
Beat ==
  /\ ws = "open" /\ Len(up) + Len(down) < MaxChan
  /\ \E t \in {"heartbeat", "sync_ping"} : up' = Append(up, t)
  /\ UNCHANGED <<svcVars, srv, ws, stale, down, pageVars>>

-----------------------------------------------------------------------------
(* ws.onmessage. *)

\* Mutant: a snapshot is held against the last seq like everything else.
OldAlways(msg) == msg.seq < seqRef

\* What is older than the last seq is dropped, snapshots excepted.
Old(msg) == msg.seq < seqRef /\ msg.type # "snapshot"

Heard(t) == ws = "open" /\ down # <<>> /\ Head(down).type = t /\ down' = Tail(down)

\* A message with a seq: it is dropped, or does what Effect says and becomes the last.
Takes(msg, Effect, Kept) ==
  IF Old(msg) THEN UNCHANGED <<seqRef, dirty>> /\ Kept
  ELSE seqRef' = msg.seq /\ dirty' = TRUE /\ Effect

clockVars == <<anchor, applying, countdown, video>>

OnSnapshot ==
  LET msg == Head(down) IN
  /\ Heard("snapshot")
  /\ Takes(msg, known' = TRUE /\ role' = msg.role /\ mode' = msg.mode /\ Apply(msg.anchor, FALSE),
           UNCHANGED <<known, role, mode, clockVars>>)
  /\ UNCHANGED <<svcVars, srv, ws, stale, up, ended, connected>>

OnPlayback ==
  LET msg == Head(down) IN
  /\ Heard("playback")
  /\ Takes(msg, \E wait \in BOOLEAN : Apply(msg.anchor, wait), UNCHANGED clockVars)
  /\ UNCHANGED <<svcVars, srv, ws, stale, up, known, role, mode, ended, connected>>

OnControlMode ==
  LET msg == Head(down) IN
  /\ Heard("control_mode")
  /\ Takes(msg, mode' = msg.mode, UNCHANGED mode)
  /\ UNCHANGED <<svcVars, srv, ws, stale, up, known, role, ended, connected, clockVars>>

OnHostTransfer ==
  LET msg == Head(down) IN
  /\ Heard("host_transfer")
  /\ Takes(msg, role' = msg.role /\ mode' = "host_only", UNCHANGED <<role, mode>>)
  /\ UNCHANGED <<svcVars, srv, ws, stale, up, known, ended, connected, clockVars>>

\* heartbeat_ack: the anchor is taken, and the video with it when it has drifted.
OnHeartbeatAck ==
  LET msg == Head(down) IN
  /\ Heard("heartbeat_ack")
  /\ Takes(msg, \/ anchor' = msg.anchor /\ UNCHANGED <<applying, countdown, video>>
                \/ Apply(msg.anchor, FALSE),
           UNCHANGED clockVars)
  /\ UNCHANGED <<svcVars, srv, ws, stale, up, known, role, mode, ended, connected>>

\* sync_pong has no seq: only the anchor is taken.
OnPong ==
  /\ Heard("sync_pong")
  /\ anchor' = Head(down).anchor /\ dirty' = (dirty \/ anchor' # anchor)
  /\ UNCHANGED <<svcVars, srv, ws, stale, up, seqRef, known, role, mode, ended, connected,
                 applying, countdown, video>>

OnRoomEnded ==
  /\ Heard("room_ended")
  /\ ended' = TRUE /\ dirty' = TRUE
  /\ UNCHANGED <<svcVars, srv, ws, stale, up, seqRef, known, role, mode, connected, clockVars>>

Hears ==
  \/ OnSnapshot \/ OnPlayback \/ OnControlMode \/ OnHostTransfer
  \/ OnHeartbeatAck \/ OnPong \/ OnRoomEnded

-----------------------------------------------------------------------------
\* The page is mounted for a room that may have gone on for a while.
Init ==
  /\ svc = [seq |-> 0, mode |-> "host_only", anchor |-> "paused"] /\ saved = svc
  /\ over = FALSE /\ rights = "guest"
  /\ srv = "none" /\ ws = "connecting" /\ stale = FALSE /\ up = <<>> /\ down = <<>>
  /\ seqRef = 0 /\ known = FALSE /\ role = "host" /\ mode = "host_only"
  /\ ended = FALSE /\ connected = FALSE
  /\ anchor = Null /\ applying = FALSE /\ countdown = FALSE /\ video = FALSE /\ dirty = FALSE

Next ==
  \/ PlaybackCmd \/ ControlModeCmd \/ HostTransfer \/ checkpoint \/ EndRoom
  \/ Drop \/ Restart \/ Service
  \/ Open \/ Refused \/ Retry \/ Render \/ StaleClose \/ Unmount
  \/ CountdownEnds \/ Drift \/ Resync \/ Beat \/ Hears

\* Timers fire, renders come, and a connection is not refused for ever.
Fairness == WF_vars(Retry) /\ WF_vars(Render) /\ SF_vars(Open)

Spec == Init /\ [][Next]_vars /\ Fairness

-----------------------------------------------------------------------------
\* A browser that is in the room, with nothing under way to it, shows what the service says:
\* after crashes that set the service's seq back, and after any number of connections.
Agrees ==
  ws = "open" /\ srv = "in" /\ down = <<>> /\ ~over
    => seqRef = svc.seq /\ role = rights /\ mode = svc.mode /\ anchor = svc.anchor

\* Its video then plays when the room does, unless a countdown is running: no countdown of an
\* earlier start outlives a pause.
VideoFollows ==
  ws = "open" /\ srv = "in" /\ down = <<>> /\ ~over /\ ~countdown
    => (video <=> svc.anchor = "playing")

\* A mounted page does not stay without a connection.
Comes == ws = "down" ~> ws \in {"open", "none"}

=============================================================================
