---------------------------- MODULE PeerPlayback ----------------------------
(***************************************************************************)
(* How the two browsers of a PeerJS room play the film together            *)
(* (src/hooks/useRoomSync.ts; the controls of                              *)
(* src/components/watch/WatchRoom.tsx).  Either may hold the remote: what  *)
(* it does is done to its own video and sent.  The host's heartbeats pull  *)
(* the guest along; the guest's tell the host how much it has buffered.    *)
(*                                                                         *)
(* A video is where it is, one of a few scenes, and plays or does not: how *)
(* it drifts within a scene, and the rates that mend it, are left out.  A  *)
(* start is held by a timer on each side, each on its own clock, so that a *)
(* timer may fire at any time.  The channel stays up (PeerRoom drops it,   *)
(* and has the greetings) and delivers in order.  Asking for the remote    *)
(* only lights a button at the host, and is left out; the courtesy pause   *)
(* of the settings is on, as it is by default.                             *)
(***************************************************************************)
EXTENDS Naturals, Sequences, SequencesExt

CONSTANTS
  H, G,        \* the host and the guest
  End,         \* the last scene
  HostSeq,     \* what the host's seqRef may be when the guest comes
  MaxCmds,     \* bound: what the users do
  MaxChan      \* bound: messages under way in one direction when a user does something

ASSUME PlaybackAssumption ==
  End \in Nat /\ HostSeq \subseteq Nat /\ MaxCmds \in Nat /\ MaxChan \in Nat /\ H # G

RC == INSTANCE RoomClock

Browser == {H, G}
Other(b) == IF b = H THEN G ELSE H
Role(b) == IF b = H THEN "host" ELSE "guest"
Scene == 0..End
Mode == {"host_only", "shared", "handed_to_guest"}

\* A film that was uploaded is announced with the time of day for its seq.
Now == 1000

VARIABLES
  playing,    \* is the video of a browser playing
  at,         \* the scene it is at
  mode,       \* controlMode; remoteHolder follows from it
  seq,        \* seqRef
  timers,     \* countdowns under way: its own start, or the scene of the other's
  chan,       \* messages under way to each browser
  wired,      \* playState at the host when it wired the connection
  last,       \* history: the last command, if it was a pause that no start or seek crossed
  cmds        \* commands so far

vars == <<playing, at, mode, seq, timers, chan, wired, last, cmds>>

Playback == [type : {"playback"}, play : BOOLEAN, at : Scene, seq : Nat, together : BOOLEAN]
Seek == [type : {"seek"}, play : BOOLEAN, at : Scene, seq : Nat]
Heartbeat == [type : {"heartbeat"}, play : BOOLEAN, at : Scene, seq : Nat, low : BOOLEAN]
Control == [type : {"control_mode"}, mode : Mode, seq : Nat]
Changing == [type : {"media_changing"}]
MediaSet == [type : {"media_set"}, seq : Nat]

\* Types; no skip takes a video past its end.
TypeOK ==
  /\ playing \in [Browser -> BOOLEAN] /\ at \in [Browser -> Scene] /\ mode \in [Browser -> Mode]
  /\ seq \in [Browser -> Nat]
  /\ timers \in [Browser -> SUBSET ({"own"} \X {0} \cup {"other"} \X Scene)]
  /\ chan \in [Browser -> Seq(Playback \cup Seek \cup Heartbeat
                                 \cup Control \cup Changing \cup MediaSet)]
  /\ wired \in BOOLEAN /\ last \in {"pause", "else"} /\ cmds \in 0..MaxCmds

-----------------------------------------------------------------------------
\* canPlay, canSeek
May(b) ==
  RC!canControlPlayback(Role(b), mode[b],
                        IF mode[b] = "handed_to_guest" THEN "guest" ELSE "host", "play")

Sent(b, msgs) == [chan EXCEPT ![Other(b)] = @ \o msgs]

\* A user acts, and the channel can take what it sends.
Acts(b) == cmds < MaxCmds /\ cmds' = cmds + 1 /\ Len(chan[Other(b)]) < MaxChan

\* play() on a video at its end starts it again.
Play(b, scene) ==
  /\ playing' = [playing EXCEPT ![b] = TRUE]
  /\ at' = [at EXCEPT ![b] = IF scene = End THEN 0 ELSE scene]

\* Nothing that would start or move a film is on its way.
Calm ==
  \A b \in Browser :
    /\ timers[b] = {}
    /\ \A i \in DOMAIN chan[b] : chan[b][i].type \in {"playback", "seek"} => ~chan[b][i].play

\* broadcastPause
Pause(b) ==
  /\ Acts(b) /\ playing[b]
  /\ playing' = [playing EXCEPT ![b] = FALSE]
  /\ seq' = [seq EXCEPT ![b] = @ + 1]
  /\ chan' = Sent(b, <<[type |-> "playback", play |-> FALSE, at |-> at[b],
                        seq |-> seq'[b], together |-> FALSE]>>)
  /\ last' = IF Calm THEN "pause" ELSE "else"
  /\ UNCHANGED <<at, mode, timers, wired>>

\* togglePlay on a video that does not play, with requestPlayTogether and scheduleStartTogether:
\* one at its end goes to the start first.
PlayTogether(b) ==
  LET over == at[b] = End
      from == IF over THEN 0 ELSE at[b]
      n == IF over THEN 2 ELSE 1
      back == [type |-> "seek", play |-> FALSE, at |-> 0, seq |-> seq[b] + 1]
      go == [type |-> "playback", play |-> TRUE, at |-> from, seq |-> seq[b] + n, together |-> TRUE]
  IN
  /\ Acts(b) /\ ~playing[b] /\ May(b)
  /\ seq' = [seq EXCEPT ![b] = @ + n]
  /\ chan' = Sent(b, IF over THEN <<back, go>> ELSE <<go>>)
  /\ at' = [at EXCEPT ![b] = from]
  /\ timers' = [timers EXCEPT ![b] = @ \cup {<<"own", 0>>}]
  /\ last' = "else"
  /\ UNCHANGED <<playing, mode, wired>>

\* seekTo, by the time line, by a skip or by a key
SeekTo(b, scene) ==
  /\ Acts(b) /\ May(b) /\ scene # at[b]
  /\ at' = [at EXCEPT ![b] = scene]
  /\ seq' = [seq EXCEPT ![b] = @ + 1]
  /\ chan' = Sent(b, <<[type |-> "seek", play |-> playing[b], at |-> scene, seq |-> seq'[b]]>>)
  /\ last' = IF playing[b] THEN "else" ELSE last
  /\ UNCHANGED <<playing, mode, timers, wired>>

\* setMode, by the three buttons.
SetMode(m) ==
  /\ Acts(H) /\ mode[H] # m
  /\ mode' = [mode EXCEPT ![H] = m]
  /\ seq' = [seq EXCEPT ![H] = @ + 1]
  /\ chan' = Sent(H, <<[type |-> "control_mode", mode |-> m, seq |-> seq'[H]]>>)
  /\ UNCHANGED <<playing, at, timers, wired, last>>

\* A film of a link or of the catalogue; a film that was uploaded takes the time for its seq and
\* leaves seqRef alone.  The video of a new film is at its start and waits.
SetFilm ==
  /\ Acts(H)
  /\ playing' = [playing EXCEPT ![H] = FALSE] /\ at' = [at EXCEPT ![H] = 0]
  /\ \/ /\ seq' = [seq EXCEPT ![H] = @ + 1]
        /\ chan' = Sent(H, <<[type |-> "media_set", seq |-> seq'[H]]>>)
     \/ /\ chan' = Sent(H, <<[type |-> "media_set", seq |-> Now]>>)
        /\ UNCHANGED seq
  /\ UNCHANGED <<mode, timers, wired, last>>

\* sendLocalFile, over a film that is there already
ChangeFilm ==
  /\ Acts(H)
  /\ chan' = Sent(H, <<[type |-> "media_changing"]>>)
  /\ UNCHANGED <<playing, at, mode, seq, timers, wired, last>>

Users ==
  \/ \E b \in Browser : Pause(b) \/ PlayTogether(b) \/ \E scene \in Scene : SeekTo(b, scene)
  \/ \E m \in Mode : SetMode(m)
  \/ SetFilm \/ ChangeFilm

-----------------------------------------------------------------------------
(* Timers and videos. *)

\* The end of a countdown: tick at the browser that asked, run at the other.
Start(b) ==
  /\ \E t \in timers[b] :
       /\ timers' = [timers EXCEPT ![b] = @ \ {t}]
       /\ Play(b, IF t[1] = "own" THEN at[b] ELSE t[2])
  /\ UNCHANGED <<mode, seq, chan, wired, last, cmds>>

\* onEnded
Finishes(b) ==
  /\ playing[b] /\ at[b] = End
  /\ playing' = [playing EXCEPT ![b] = FALSE]
  /\ UNCHANGED <<at, mode, seq, timers, chan, wired, last, cmds>>

\* The interval of heartbeats; one is under way at a time.  The host takes no notice of a guest's
\* that is not low, and there is none here.
Beat(b) ==
  /\ ~\E i \in DOMAIN chan[Other(b)] : chan[Other(b)][i].type = "heartbeat"
  /\ chan' = Sent(b, <<[type |-> "heartbeat", play |-> playing[b], at |-> at[b],
                        seq |-> seq[b], low |-> b = G]>>)
  /\ UNCHANGED <<playing, at, mode, seq, timers, wired, last, cmds>>

-----------------------------------------------------------------------------
(* onMessage. *)

Takes(b, t) == chan[b] # <<>> /\ Head(chan[b]).type = t
Taken(b) == [chan EXCEPT ![b] = Tail(@)]
Raised(b, n) == [seq EXCEPT ![b] = IF n > @ THEN n ELSE @]

\* applyRemotePlayback
Applies(b, msg) ==
  IF msg.play /\ ~playing[b] THEN Play(b, msg.at)
  ELSE /\ playing' = [playing EXCEPT ![b] = msg.play]
       /\ at' = [at EXCEPT ![b] = msg.at]

\* Mutant: a playback is dropped the way a seek is.
OnPlaybackOld(b) ==
  LET msg == Head(chan[b]) IN
  /\ Takes(b, "playback") /\ chan' = Taken(b)
  /\ seq' = Raised(b, msg.seq)
  /\ IF msg.seq + 2 < seq[b] THEN UNCHANGED <<playing, at, timers>>
     ELSE IF msg.together
       THEN /\ playing' = [playing EXCEPT ![b] = FALSE] /\ at' = [at EXCEPT ![b] = msg.at]
            /\ timers' = [timers EXCEPT ![b] = @ \cup {<<"other", msg.at>>}]
     ELSE Applies(b, msg) /\ UNCHANGED timers
  /\ UNCHANGED <<mode, wired, last, cmds>>

\* A start together waits for its time; a pause is taken at once.
OnPlayback(b) ==
  LET msg == Head(chan[b]) IN
  /\ Takes(b, "playback") /\ chan' = Taken(b)
  /\ seq' = Raised(b, msg.seq)
  /\ IF msg.together
       THEN /\ playing' = [playing EXCEPT ![b] = FALSE] /\ at' = [at EXCEPT ![b] = msg.at]
            /\ timers' = [timers EXCEPT ![b] = @ \cup {<<"other", msg.at>>}]
       ELSE Applies(b, msg) /\ UNCHANGED timers
  /\ UNCHANGED <<mode, wired, last, cmds>>

\* A seek from well before what this browser has seen is dropped.
OnSeek(b) ==
  LET msg == Head(chan[b]) IN
  /\ Takes(b, "seek") /\ chan' = Taken(b)
  /\ IF msg.seq + 2 < seq[b] THEN UNCHANGED <<seq, playing, at>>
     ELSE seq' = Raised(b, msg.seq) /\ Applies(b, msg)
  /\ UNCHANGED <<mode, timers, wired, last, cmds>>

\* Mutant: a heartbeat is dropped the way a seek is.
GuestBeatOld ==
  LET msg == Head(chan[G]) IN
  /\ Takes(G, "heartbeat") /\ chan' = Taken(G)
  /\ IF msg.seq + 2 < seq[G] THEN UNCHANGED <<seq, playing, at>>
     ELSE seq' = Raised(G, msg.seq) /\ Applies(G, msg)
  /\ UNCHANGED <<mode, timers, wired, last, cmds>>

\* The guest follows every heartbeat.
GuestBeat ==
  LET msg == Head(chan[G]) IN
  /\ Takes(G, "heartbeat") /\ chan' = Taken(G)
  /\ seq' = Raised(G, msg.seq)
  /\ Applies(G, msg)
  /\ UNCHANGED <<mode, timers, wired, last, cmds>>

\* The host follows none: it asks whether to wait for the guest, going by what playState was when
\* the connection was wired.
HostBeat ==
  /\ Takes(H, "heartbeat")
  /\ IF Head(chan[H]).low /\ wired /\ playing[H]
       THEN /\ playing' = [playing EXCEPT ![H] = FALSE]
            /\ seq' = [seq EXCEPT ![H] = @ + 1]
            /\ chan' = [Taken(H) EXCEPT ![G] = Append(@,
                  [type |-> "playback", play |-> FALSE, at |-> at[H],
                    seq |-> seq'[H], together |-> FALSE])]
       ELSE chan' = Taken(H) /\ UNCHANGED <<playing, seq>>
  /\ UNCHANGED <<at, mode, timers, wired, last, cmds>>

OnControlMode(b) ==
  LET msg == Head(chan[b]) IN
  /\ Takes(b, "control_mode") /\ chan' = Taken(b)
  /\ seq' = Raised(b, msg.seq)
  /\ mode' = [mode EXCEPT ![b] = msg.mode]
  /\ UNCHANGED <<playing, at, timers, wired, last, cmds>>

OnMediaSet(b) ==
  /\ Takes(b, "media_set") /\ chan' = Taken(b)
  /\ seq' = Raised(b, Head(chan[b]).seq)
  /\ playing' = [playing EXCEPT ![b] = FALSE] /\ at' = [at EXCEPT ![b] = 0]
  /\ UNCHANGED <<mode, timers, wired, last, cmds>>

OnMediaChanging(b) ==
  /\ Takes(b, "media_changing") /\ chan' = Taken(b)
  /\ playing' = [playing EXCEPT ![b] = FALSE]
  /\ UNCHANGED <<at, mode, seq, timers, wired, last, cmds>>

HostHears == OnPlayback(H) \/ OnSeek(H) \/ HostBeat
GuestHears ==
  \/ OnPlayback(G) \/ OnSeek(G) \/ GuestBeat
  \/ OnControlMode(G) \/ OnMediaSet(G) \/ OnMediaChanging(G)

-----------------------------------------------------------------------------
\* The two have greeted, and the host has given the remote to both or kept it.  The host may have
\* watched alone before; if it inherited the room, it may have been playing when it wired its side.
Init ==
  /\ \E play \in BOOLEAN, scene \in Scene :
       /\ playing = [b \in Browser |-> b = H /\ play]
       /\ at = [b \in Browser |-> IF b = H THEN scene ELSE 0]
  /\ \E m \in {"host_only", "shared"} : mode = [b \in Browser |-> m]
  /\ \E n \in HostSeq : seq = [b \in Browser |-> IF b = H THEN n ELSE 0]
  /\ timers = [b \in Browser |-> {}]
  /\ chan = [b \in Browser |-> <<>>]
  /\ wired \in BOOLEAN
  /\ last = "else" /\ cmds = 0

Next ==
  \/ Users
  \/ \E b \in Browser : Start(b) \/ Finishes(b) \/ Beat(b)
  \/ HostHears \/ GuestHears

\* Timers fire, videos play on, and the channel delivers.
Fairness ==
  /\ WF_vars(HostHears) /\ WF_vars(GuestHears) /\ WF_vars(Beat(H))
  /\ \A b \in Browser : WF_vars(Start(b)) /\ WF_vars(Finishes(b))

Spec == Init /\ [][Next]_vars /\ Fairness

-----------------------------------------------------------------------------
\* When the users have done what they do, the guest's video ends up where the host's is and plays
\* if it does, whatever crossed on the way.
SettledTogether == <>[](playing[G] = playing[H] /\ at[G] = at[H])

\* Pause for both: a pause that no start and no seek crossed, with nobody playing after it, ends
\* with both videos paused.
PauseForBoth == <>[](last = "pause" => \A b \in Browser : ~playing[b])

=============================================================================
