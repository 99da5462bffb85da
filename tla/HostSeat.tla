------------------------------ MODULE HostSeat ------------------------------
(***************************************************************************)
(* What the partial unique index room_one_host                             *)
(* (src/services/api/migrations/001_init.sql:163) promises of a room: its  *)
(* host seat is a lock.  At most one active participant row holds it, and  *)
(* it passes from one participant to another only by being free between.   *)
(***************************************************************************)
CONSTANT Participant

VARIABLE holders   \* the participants whose active row says host

TypeOK == \E p \in Participant : holders \subseteq {p}

Init == holders = {} \/ \E p \in Participant : holders = {p}

Take(p) == holders = {} /\ holders' = {p}

Free == holders # {} /\ holders' = {}

Next == Free \/ \E p \in Participant : Take(p)

Spec == Init /\ [][Next]_holders

=============================================================================
