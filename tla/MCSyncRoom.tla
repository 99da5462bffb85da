----------------------------- MODULE MCSyncRoom -----------------------------
(* SyncRoom on a few sockets.  Without fairness the sockets are interchangeable. *)
EXTENDS SyncRoom, TLC

Symmetry == Permutations(Sock)

=============================================================================
