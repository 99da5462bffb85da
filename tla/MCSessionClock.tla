--------------------------- MODULE MCSessionClock ---------------------------
(* SessionClock on a short film: a negative position and a rate of 0 are among the values *)
(* a browser may send. *)
EXTENDS SessionClock

MCRates == {0, 2}
MCPos   == {-1, 3}

=============================================================================
