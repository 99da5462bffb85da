----------------------------- MODULE FilmClock -----------------------------
(***************************************************************************)
(* What the anchors of a room implement: two stopwatches, the one its      *)
(* members watch and the one a restart comes back to.  Both run on, also   *)
(* while the service is down; saving sets the stored one to the live one,  *)
(* restoring sets the live one to the stored one, and nothing else makes   *)
(* either of them jump.                                                    *)
(***************************************************************************)
EXTENDS Integers

CONSTANTS Lead, Rates, Positions, Off

VARIABLES live, stored

\* A stopwatch: the position, how long it is still held there, and whether and how fast it
\* runs.
Film == [pos : Nat, wait : Nat, state : {"playing", "paused"}, rate : Nat \ {0}]

Zero == [pos |-> 0, wait |-> 0, state |-> "paused", rate |-> 1]

After(f) == IF f.state = "paused" THEN f
            ELSE IF f.wait > 0 THEN [f EXCEPT !.wait = @ - 1]
            ELSE [f EXCEPT !.pos = @ + f.rate]

Unheld(f) == [f EXCEPT !.wait = 0]

Init == live = Off /\ stored = Zero

Tick == live' = (IF live = Off THEN Off ELSE After(live)) /\ stored' = After(stored)

On == live # Off /\ UNCHANGED stored

\* Everyone starts Lead from now: a running film where it is, a stopped one where asked.
Start(p) == On /\ live' = [live EXCEPT !.state = "playing", !.wait = Lead,
                                       !.pos = IF live.state = "playing" THEN @ ELSE p]
Stop == On /\ live' = [Unheld(live) EXCEPT !.state = "paused"]
Seek(p) == On /\ live' = [Unheld(live) EXCEPT !.pos = p]
SetRate(r) == On /\ live' = [Unheld(live) EXCEPT !.rate = r]

\* Sampling the clock drops what is left of the hold, and never moves the film.
Sample == On /\ live' = Unheld(live)
Save == live # Off /\ live' = Unheld(live) /\ stored' = live'

Lose == live' = Off /\ UNCHANGED stored
Restore == live = Off /\ live' = stored /\ UNCHANGED stored

Next ==
  \/ Tick
  \/ \E p \in Positions : Start(p) \/ Seek(p)
  \/ \E r \in Rates : SetRate(r)
  \/ Stop \/ Sample \/ Save
  \/ Lose \/ Restore

Spec == Init /\ [][Next]_<<live, stored>>

=============================================================================
