---------------------------- MODULE SessionClock ----------------------------
(***************************************************************************)
(* What one room of the sync service says about the film                   *)
(* (src/services/sync/src/index.ts): its command sequence, the anchor of   *)
(* its clock and its control mode, in memory and in the row of table       *)
(* rooms, through commands, checkpoints, crashes and reloads.              *)
(*                                                                         *)
(* Who is a member, and who becomes host, is module SyncRoom: here a       *)
(* command comes from anybody with a role, and HandOver is what a host     *)
(* transfer or a promotion does to the clock's state.  Rooms that end are  *)
(* left to SyncRoom too.  Two joins that both find the map empty both load *)
(* the room (line 65-111), and the RoomState that loses its place in the   *)
(* map keeps its checkpoint timer; Loader bounds the loads under way.      *)
(***************************************************************************)
EXTENDS RoomClock, FiniteSets

CONSTANTS
  Loader,      \* the joins that may load the room at once
  Lead,        \* the 400 ms start lead, in ticks
  Period,      \* the 5 s of the checkpoint timer, in ticks
  RawRates,    \* the rates a rate_cmd may carry, as sent
  RawPos,      \* the positions a playback_cmd or seek_cmd may carry, as sent
  Null,
  DbFaults,    \* may the checkpoint of an emptied room fail?
  MaxObj,      \* bound: RoomState objects built in one life of the process
  MaxTime,     \* bound: ticks
  MaxSeq       \* bound: commands

Role  == {"host", "guest"}
Mode  == {"host_only", "shared", "handed_to_guest"}
Obj   == 1..MaxObj

State == [seq : Nat, anchor : Anchor, controlMode : Mode, remoteHolder : Role]
SavedAnchor == Anchor \cup [wall : {Null}, pos : {0}, state : {"paused"}, rate : {1}]
SavedState  == [seq : Nat, anchor : SavedAnchor, controlMode : Mode, remoteHolder : Role]

\* What an anchor shows: a stopwatch of module FilmClock.
Films == [pos : Nat, wait : Nat, state : {"playing", "paused"}, rate : Nat \ {0}]

ASSUME SessionClockAssumption ==
  /\ Lead \in Nat /\ Period \in Nat \ {0}
  /\ RawRates \subseteq Int /\ RawPos \subseteq Int
  /\ Null \notin Int \cup State \cup SavedState \cup Films
  /\ DbFaults \in BOOLEAN
  /\ MaxObj \in Nat /\ MaxTime \in Nat /\ MaxSeq \in Nat

VARIABLES
  now,       \* Date.now()
  room,      \* rooms.get(roomId): the object in the map, or 0
  hot,       \* the RoomState objects of this process, in the order they were built
  due,       \* ticks to the next checkpoint of each
  load,      \* the row each load under way has read, or Null
  saved,     \* the row of table rooms
  unsaved    \* history: when the oldest command not saved yet was taken, or Null

vars == <<now, room, hot, due, load, saved, unsaved>>

TypeOK ==
  /\ now \in Nat
  /\ room \in Obj \cup {0}
  /\ hot \in [Obj -> State \cup {Null}]
  /\ due \in [Obj -> 0..Period]
  /\ load \in [Loader -> SavedState \cup {Null}]
  /\ saved \in SavedState
  /\ unsaved \in Nat \cup {Null}

Built == {o \in Obj : hot[o] # Null}

-----------------------------------------------------------------------------
(* loadOrCreateRoom: read the row, then put a new object in the map. *)

BeginLoad(l) ==
  /\ room = 0 /\ load[l] = Null
  /\ load' = [load EXCEPT ![l] = saved]
  /\ UNCHANGED <<now, room, hot, due, saved, unsaved>>

\* Mutants: the anchor is taken as it is; the commands are counted from the load on.
FromRowAsIs(r)  == r
FromRowFresh(r) == [r EXCEPT !.seq = 0, !.anchor.wall = IF @ = Null THEN now ELSE @]

\* A row whose anchor was never written starts its clock now.
FromRow(r) == IF r.anchor.wall = Null THEN [r EXCEPT !.anchor.wall = now] ELSE r

EndLoad(l) ==
  /\ load[l] # Null
  /\ LET o == Cardinality(Built) + 1 IN
       /\ o \in Obj
       /\ hot' = [hot EXCEPT ![o] = FromRow(load[l])]
       /\ due' = [due EXCEPT ![o] = Period]
       /\ room' = o
  /\ load' = [load EXCEPT ![l] = Null]
  /\ unsaved' = Null
  /\ UNCHANGED <<now, saved>>

-----------------------------------------------------------------------------
(* Commands.  Each takes the next sequence number, and most set the anchor. *)

\* Mutant: a command takes no number.
CommandUncounted(r) ==
  /\ room # 0 /\ hot[room].seq < MaxSeq
  /\ hot' = [hot EXCEPT ![room] = r]
  /\ unsaved' = IF unsaved = Null THEN now ELSE unsaved
  /\ UNCHANGED <<now, room, due, load, saved>>

\* The state of the room in the map becomes r with the next sequence number.
Command(r) ==
  /\ room # 0 /\ hot[room].seq < MaxSeq
  /\ hot' = [hot EXCEPT ![room] = [r EXCEPT !.seq = r.seq + 1]]
  /\ unsaved' = IF unsaved = Null THEN now ELSE unsaved
  /\ UNCHANGED <<now, room, due, load, saved>>

\* A command that canControlPlayback lets the sender give.
Controls(role, action) ==
  /\ room # 0
  /\ canControlPlayback(role, hot[room].controlMode, hot[room].remoteHolder, action)

Here == hot[room].anchor

\* The anchor is set at instant t, at position p.
Anchored(t, p, state, rate) ==
  Command([hot[room] EXCEPT !.anchor = [wall |-> t, pos |-> p, state |-> state, rate |-> rate]])

\* Play gives everyone Lead to get ready; only a paused room takes the sender's position.
Play(role, raw) ==
  /\ Controls(role, "play")
  /\ Anchored(now + Lead,
              IF Here.state = "paused" THEN Above0(raw) ELSE authoritativePosition(Here, now),
              "playing", Here.rate)

Pause(role) ==
  /\ Controls(role, "pause")
  /\ Anchored(now, authoritativePosition(Here, now), "paused", Here.rate)

SeekTo(role, raw) ==
  /\ Controls(role, "seek")
  /\ Anchored(now, Above0(raw), Here.state, Here.rate)

\* Mutant: the new rate counts from the old anchor's position.
SetRateOnly(role, raw) ==
  /\ Controls(role, "rate")
  /\ Anchored(now, Here.pos, Here.state, raw)

SetRate(role, raw) ==
  /\ Controls(role, "rate")
  /\ Anchored(now, authoritativePosition(Here, now), Here.state, raw)

\* media_cmd and track_cmd, and the host's settings_cmd: the clock is not touched.
Announce(role) ==
  /\ \/ Controls(role, "media") \/ Controls(role, "subtitle_track")
     \/ room # 0 /\ role = "host"
  /\ Command(hot[room])

ControlModeCmd(role, mode, holder) ==
  /\ room # 0 /\ role = "host"
  /\ Command([hot[room] EXCEPT !.controlMode = mode, !.remoteHolder = holder])

\* host_transfer_cmd, and the promotion when a host leaves: the remote goes to the new host.
HandOver ==
  /\ room # 0
  /\ Command([hot[room] EXCEPT !.controlMode = "host_only", !.remoteHolder = "host"])

-----------------------------------------------------------------------------
(* Checkpoints, time and crashes. *)

\* The clock is re-sampled in memory, and the row is written from it.
Sampled(o) == [hot[o] EXCEPT !.anchor = liveAnchor(@, now)]

Save(o) ==
  /\ hot' = [hot EXCEPT ![o] = Sampled(o)]
  /\ saved' = Sampled(o)
  /\ unsaved' = IF o = room THEN Null ELSE unsaved
  /\ UNCHANGED <<now, room, load>>

\* Mutant: a paused room is not worth a checkpoint.
TimerCheckpointPlaying(o) ==
  /\ hot[o] # Null /\ due[o] = 0
  /\ IF hot[o].anchor.state = "playing" THEN Save(o)
     ELSE UNCHANGED <<now, room, hot, load, saved, unsaved>>
  /\ due' = [due EXCEPT ![o] = Period]

\* The timer of an object, in the map or not.
TimerCheckpoint(o) ==
  /\ hot[o] # Null /\ due[o] = 0
  /\ Save(o)
  /\ due' = [due EXCEPT ![o] = Period]

\* The last client of the room left; its `leave` may survive a failing query.
EmptyCheckpoint ==
  /\ room # 0
  /\ \/ Save(room) /\ UNCHANGED due
     \/ /\ DbFaults
        /\ hot' = [hot EXCEPT ![room] = Sampled(room)]
        /\ UNCHANGED <<now, room, due, load, saved, unsaved>>

\* Time passes, up to the next timer.
Tick ==
  /\ now < MaxTime
  /\ \A o \in Built : due[o] > 0
  /\ now' = now + 1
  /\ due' = [o \in Obj |-> IF o \in Built THEN due[o] - 1 ELSE due[o]]
  /\ UNCHANGED <<room, hot, load, saved, unsaved>>

\* The process dies, for one because the query of a timer failed, and starts again.
Crash ==
  /\ room' = 0
  /\ hot' = [o \in Obj |-> Null]
  /\ due' = [o \in Obj |-> 0]
  /\ load' = [l \in Loader |-> Null]
  /\ unsaved' = Null
  /\ UNCHANGED <<now, saved>>

-----------------------------------------------------------------------------
\* The defaults of table rooms.
Init ==
  /\ now = 0
  /\ room = 0
  /\ hot = [o \in Obj |-> Null]
  /\ due = [o \in Obj |-> 0]
  /\ load = [l \in Loader |-> Null]
  /\ saved = [seq |-> 0, controlMode |-> "host_only", remoteHolder |-> "host",
              anchor |-> [wall |-> Null, pos |-> 0, state |-> "paused", rate |-> 1]]
  /\ unsaved = Null

Commands ==
  \/ \E role \in Role :
       \/ \E raw \in RawPos : Play(role, raw) \/ SeekTo(role, raw)
       \/ \E raw \in RawRates : SetRate(role, raw)
       \/ Pause(role) \/ Announce(role)
       \/ \E mode \in Mode, holder \in Role : ControlModeCmd(role, mode, holder)
  \/ HandOver

Next ==
  \/ \E l \in Loader : BeginLoad(l) \/ EndLoad(l)
  \/ Commands
  \/ \E o \in Obj : TimerCheckpoint(o)
  \/ EmptyCheckpoint \/ Tick \/ Crash

Spec == Init /\ [][Next]_vars

-----------------------------------------------------------------------------
(* Properties *)

\* The anchors implement two stopwatches, the live one and the stored one: no command but a
\* seek, and a play in a paused room, moves the film; a checkpoint stores what the room
\* shows; and a restart comes back to the minute the stored clock has run on to (line 114).
FilmAt(a, t) == [pos |-> authoritativePosition(a, t), wait |-> Held(a, t),
                 state |-> a.state, rate |-> Rate(a)]

FilmOf(a) == FilmAt(a, now)

Rates     == {Rate([rate |-> r]) : r \in RawRates}
Positions == {Above0(p) : p \in RawPos}

Film == INSTANCE FilmClock WITH
  Off    <- Null,
  live   <- IF room = 0 THEN Null ELSE FilmOf(hot[room].anchor),
  stored <- FilmOf(saved.anchor)

ShowsTheFilm == Film!Spec

\* The row is never ahead of the room in the map, and when both are at the same command they
\* show the same film under the same remote: what a command number stands for is settled.
SavedIsPast ==
  room # 0 =>
    /\ saved.seq <= hot[room].seq
    /\ saved.seq = hot[room].seq =>
         /\ FilmOf(saved.anchor) = FilmOf(hot[room].anchor)
         /\ saved.controlMode = hot[room].controlMode
         /\ saved.remoteHolder = hot[room].remoteHolder

\* A command is in the row one period after it was taken, at the latest.
SavedInTime == unsaved # Null => now <= unsaved + Period

\* The command sequence in the row never goes back, whatever crashes and reloads.
SeqNeverBack == [][saved'.seq >= saved.seq]_vars

=============================================================================
