----------------------------- MODULE RoomClock -----------------------------
(***************************************************************************)
(* The room clock and the remote, as pure functions                        *)
(* (src/packages/protocol/src/index.ts).  An anchor says where the film    *)
(* was at an instant; the position now is derived from it.                 *)
(*                                                                         *)
(* Instants are whole ticks of a clock and positions are whole steps of    *)
(* the film, so that a rate is the whole number of steps a tick advances.  *)
(***************************************************************************)
EXTENDS Integers

Anchor == [wall : Int, pos : Int, state : {"playing", "paused"}, rate : Int]

\* Math.max(0, x)
Above0(x) == IF x > 0 THEN x ELSE 0

\* A rate that is not positive counts as 1.
Rate(a) == IF a.rate > 0 THEN a.rate ELSE 1

\* Where everyone should be at `now`.  An anchor in the future holds the film until then.
authoritativePosition(a, now) ==
  IF a.state = "playing"
  THEN Above0(a.pos + Above0(now - a.wall) * Rate(a))
  ELSE Above0(a.pos)

\* The same clock, re-sampled at `now`.
liveAnchor(a, now) ==
  [wall |-> now, pos |-> authoritativePosition(a, now), state |-> a.state, rate |-> Rate(a)]

\* How long the film is still held: the 400 ms a play command gives everyone to get ready.
Held(a, now) == IF a.state = "playing" THEN Above0(a.wall - now) ELSE 0

\* Who may do what: anybody may pause, only the host sets the media, and the rest goes by
\* the control mode.
canControlPlayback(role, mode, remoteHolder, action) ==
  \/ action = "pause"
  \/ action = "media" /\ role = "host"
  \/ action # "media" /\ \/ mode = "shared"
                         \/ mode = "handed_to_guest" /\ remoteHolder = role
                         \/ mode = "host_only" /\ role = "host"

=============================================================================
