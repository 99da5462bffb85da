------------------------------ MODULE SyncRoom ------------------------------
(***************************************************************************)
(* Membership of one watch room in the sync service                        *)
(* (src/services/sync/src/index.ts): which sockets sit in the hot          *)
(* RoomState, with which role, while joins, reconnects, leaves, grace      *)
(* timers, host transfers and room ends interleave at every `await`.       *)
(*                                                                         *)
(* Node runs one callback at a time, so a step is the code from one await  *)
(* to the next.  The query a step ends with takes effect in PostgreSQL in  *)
(* that step; what it returned is used by the next step of that handler,   *)
(* when anything may have changed.  A query may fail at any time           *)
(* (DbFaults), and the process may die and start again between two steps.  *)
(*                                                                         *)
(* Left to module SessionClock: what a room says about the film (seq,      *)
(* anchor, control mode) and its checkpoint.  Left out: names, colours,    *)
(* chat, and the redis route key, which nothing reads.                     *)
(***************************************************************************)
EXTENDS Naturals, FiniteSets

CONSTANTS
  Sock,       \* the WebSocket connections ever opened; a join makes participant row s
  Seat,       \* the participant row POST /rooms inserts for the owner
  SeatTaken,  \* may that second statement of POST /rooms have gone through, or failed?
  Strangers,  \* participant ids of other rooms
  None,
  RoleHints,  \* the roles a join may ask for: the `role?` of the join message
  DbFaults,   \* may a query fail although its statement is legal?
  MaxObj,     \* bound: RoomState objects built in one life of the process
  MaxAwait    \* bound: handlers waiting at an await at once

Role  == {"host", "guest"}
Pid   == Sock \cup Strangers \cup {Seat}
Obj   == 1..MaxObj
NoObj == 0

Client == [pid : Pid, role : Role]
Row    == [role : Role, active : BOOLEAN]   \* active: left_at IS NULL

ASSUME SyncRoomAssumption ==
  /\ Seat \notin Sock /\ Strangers \cap (Sock \cup {Seat}) = {}
  /\ None \notin Sock \cup Strangers \cup {Seat}
  /\ None \notin Client \cup Row
  /\ RoleHints \subseteq {"host", "guest"}
  /\ ({Seat, None} \cup Sock \cup Strangers) \cap {"host", "guest"} = {}
  /\ SeatTaken \subseteq BOOLEAN /\ DbFaults \in BOOLEAN
  /\ MaxObj \in Nat /\ MaxAwait \in Nat
  /\ IsFiniteSet(Sock)

VARIABLES
  rooms,     \* rooms.get(roomId): the object in the map, or NoObj
  objs,      \* how many RoomState objects this process has built
  clients,   \* room.clients of each object, as the set of its sockets
  conn,      \* readyState of each socket, at the server
  client,    \* the `client` variable of each connection handler
  msg,       \* the join or reconnect each socket is waiting in
  leaving,   \* the removeClient each socket's client is waiting in
  busy,      \* the host_transfer_cmd or end_room_cmd each socket is waiting in
  grace,     \* sockets whose close armed a removal that has not run yet
  row,       \* table room_participants
  ended,     \* rooms.ended_at IS NOT NULL
  welcomed,  \* participant ids some browser has been told
  late       \* history: sockets admitted after they had closed

vars == <<rooms, objs, clients, conn, client, msg, leaving, busy, grace, row, ended,
          welcomed, late>>

Msg     == [at : {"idle", "load", "route", "insert", "select", "update",
                  "rejected", "refused", "done"},
            ask : RoleHints \cup Pid \cup {None}, obj : Obj \cup {NoObj}, role : Role]
Leaving == [at : {"idle", "left", "promoted", "demoted"}, obj : Obj \cup {NoObj},
            how : {"leave", "grace"}]
Busy    == [at : {"idle", "transfer", "end"}, obj : Obj \cup {NoObj}, pid : Pid \cup {None}]

IdleMsg     == [at |-> "idle", ask |-> None, obj |-> NoObj, role |-> "guest"]
IdleLeaving == [at |-> "idle", obj |-> NoObj, how |-> "leave"]
IdleBusy    == [at |-> "idle", obj |-> NoObj, pid |-> None]

TypeOK ==
  /\ rooms \in Obj \cup {NoObj}
  /\ objs \in 0..MaxObj
  /\ clients \in [Obj -> SUBSET Sock]
  /\ conn \in [Sock -> {"new", "open", "closing", "closed"}]
  /\ client \in [Sock -> Client \cup {None}]
  /\ msg \in [Sock -> Msg]
  /\ leaving \in [Sock -> Leaving]
  /\ busy \in [Sock -> Busy]
  /\ grace \subseteq Sock
  /\ row \in [Pid -> Row \cup {None}]
  /\ ended \in BOOLEAN
  /\ welcomed \subseteq Pid
  /\ late \subseteq Sock

-----------------------------------------------------------------------------
(* What the room and the tables look like. *)

HostsIn(o)   == {s \in clients[o] : client[s].role = "host"}
GuestsIn(o)  == {s \in clients[o] : client[s].role = "guest"}
SocksOf(o, p) == {s \in clients[o] : client[s].pid = p}

\* Mutant: a table without the index.
RoomManyHosts(table) == \A p \in Pid : table[p] # None => table[p].role \in Role

\* The partial unique index room_one_host on (room_id) of active host rows.
RoomOneHost(table) ==
  \A p, q \in Pid : table[p] = [role |-> "host", active |-> TRUE] /\ table[q] = table[p]
                      => p = q

\* A statement that leaves the table as `table` goes through.
Commits(table) == RoomOneHost(table) /\ row' = table

\* It fails: the index forbids it, or the database is not there to run it.
Fails(table) == (~RoomOneHost(table) \/ DbFaults) /\ UNCHANGED row

SetRole(p, r)   == [row EXCEPT ![p] = IF @ = None THEN None ELSE [@ EXCEPT !.role = r]]
SetActive(p, b) == [row EXCEPT ![p] = IF @ = None THEN None ELSE [@ EXCEPT !.active = b]]

\* A socket on which a message can still arrive.
Receives(s) == conn[s] \in {"open", "closing"}

\* ws.close() on the server: the close event comes later.
Closing(S) == [s \in Sock |-> IF s \in S /\ conn[s] = "open" THEN "closing" ELSE conn[s]]

\* Where a join or reconnect waits for the database.
Awaiting == {"load", "route", "insert", "select", "update"}

\* The bound under which a handler may start.
MayStart ==
  Cardinality({s \in Sock : msg[s].at \in Awaiting})
    + Cardinality({s \in Sock : leaving[s].at # "idle"})
    + Cardinality({s \in Sock : busy[s].at # "idle"}) < MaxAwait

-----------------------------------------------------------------------------
(* The first message of a socket: join or reconnect. *)

\* A join in a loaded room picks its role and inserts its row.
EnterJoin(s, hint, o) ==
  LET role  == IF HostsIn(o) # {} \/ hint = "guest" THEN "guest" ELSE "host"
      table == [row EXCEPT ![s] = [role |-> role, active |-> TRUE]]
  IN \/ /\ Commits(table)
        /\ msg' = [msg EXCEPT ![s] = [at |-> "insert", ask |-> hint, obj |-> o, role |-> role]]
     \/ /\ Fails(table)      \* the handler's catch only logs: the socket hears nothing
        /\ msg' = [msg EXCEPT ![s] = [IdleMsg EXCEPT !.at = "refused"]]

\* Mutant: nobody asks whether there is a row.
EnterReconnectUnknown(s, p, o) ==
  /\ UNCHANGED row
  /\ msg' = [msg EXCEPT ![s] = [at |-> "select", ask |-> p, obj |-> o,
                                role |-> IF row[p] = None THEN None ELSE row[p].role]]

\* A reconnect in a loaded room reads its row; without one it is told to join.
EnterReconnect(s, p, o) ==
  /\ UNCHANGED row
  /\ msg' = [msg EXCEPT ![s] =
       IF row[p] = None THEN [IdleMsg EXCEPT !.at = "rejected"]
       ELSE [at |-> "select", ask |-> p, obj |-> o, role |-> row[p].role]]

Enter(s, a, o) == IF a \in RoleHints THEN EnterJoin(s, a, o) ELSE EnterReconnect(s, a, o)

\* Mutant: any row will do.
LoadableAlways == TRUE

\* loadOrCreateRoom refuses a room whose row is gone or ended.
Loadable == ~ended

\* The browser opens a socket and asks to join or to reconnect, or joins after it was told
\* that its participant is unknown.  A room in the map is used as it is; otherwise its row
\* is read.
FirstMessage(s, a) ==
  /\ MayStart
  /\ \/ conn[s] = "new" /\ a \in RoleHints \cup welcomed \cup Strangers
     \/ conn[s] = "open" /\ msg[s].at = "rejected" /\ a \in RoleHints
  /\ \/ /\ rooms # NoObj
        /\ Enter(s, a, rooms)
        /\ conn' = [conn EXCEPT ![s] = "open"]
     \/ /\ rooms = NoObj /\ Loadable
        /\ msg' = [msg EXCEPT ![s] = [IdleMsg EXCEPT !.at = "load", !.ask = a]]
        /\ conn' = [conn EXCEPT ![s] = "open"]
        /\ UNCHANGED row
     \/ /\ rooms = NoObj /\ ~Loadable       \* room_ended, and the socket is closed
        /\ msg' = [msg EXCEPT ![s] = [IdleMsg EXCEPT !.at = "done"]]
        /\ conn' = [conn EXCEPT ![s] = "closing"]
        /\ UNCHANGED row
  /\ UNCHANGED <<rooms, objs, clients, client, leaving, busy, grace, ended, welcomed, late>>

\* The room's row arrived: a new RoomState goes into the map, over whatever is there by now.
Loaded(s) ==
  /\ msg[s].at = "load"
  /\ objs < MaxObj
  /\ objs' = objs + 1
  /\ rooms' = objs'
  /\ msg' = [msg EXCEPT ![s].at = "route", ![s].obj = objs']
  /\ UNCHANGED <<clients, conn, client, leaving, busy, grace, row, ended, welcomed, late>>

\* redis.set returned, and the handler goes on with the object it built.
Routed(s) ==
  /\ msg[s].at = "route"
  /\ Enter(s, msg[s].ask, msg[s].obj)
  /\ UNCHANGED <<rooms, objs, clients, conn, client, leaving, busy, grace, ended, welcomed,
                 late>>

\* The client object of a socket enters room.clients under its participant id, in place of
\* any other socket of that participant; welcome or reconnect_snapshot goes out.
Admit(s, p, role, o) ==
  /\ client' = [client EXCEPT ![s] = [pid |-> p, role |-> role]]
  /\ clients' = [clients EXCEPT ![o] = (@ \ SocksOf(o, p)) \cup {s}]
  /\ msg' = [msg EXCEPT ![s] = [IdleMsg EXCEPT !.at = "done"]]
  /\ welcomed' = IF conn[s] = "open" THEN welcomed \cup {p} ELSE welcomed
  /\ late' = IF conn[s] = "closed" THEN late \cup {s} ELSE late

Inserted(s) ==
  /\ msg[s].at = "insert"
  /\ Admit(s, s, msg[s].role, msg[s].obj)
  /\ UNCHANGED <<rooms, objs, conn, leaving, busy, grace, row, ended>>

\* The participant's row arrived: an older socket of it is dropped, and the row is active
\* again.
Selected(s) ==
  LET p     == msg[s].ask
      o     == msg[s].obj
      stale == SocksOf(o, p)
  IN /\ msg[s].at = "select"
     /\ clients' = [clients EXCEPT ![o] = @ \ stale]
     /\ conn' = Closing(stale)
     /\ \/ /\ Commits(SetActive(p, TRUE))
           /\ msg' = [msg EXCEPT ![s].at = "update"]
        \/ /\ Fails(SetActive(p, TRUE))
           /\ msg' = [msg EXCEPT ![s] = [IdleMsg EXCEPT !.at = "refused"]]
     /\ UNCHANGED <<rooms, objs, client, leaving, busy, grace, ended, welcomed, late>>

\* The participant comes back with the role its row had when it was read, unless somebody
\* in the room is host by now.
Updated(s) ==
  LET o    == msg[s].obj
      role == IF HostsIn(o) # {} THEN "guest" ELSE msg[s].role
  IN /\ msg[s].at = "update"
     /\ Admit(s, msg[s].ask, role, o)
     /\ UNCHANGED <<rooms, objs, conn, leaving, busy, grace, row, ended>>

-----------------------------------------------------------------------------
(* Leaving: the close event, its grace timer, and removeClient. *)

\* Mutant: only a host's seat is cleared.
CloseOfHost(s) ==
  /\ Receives(s)
  /\ conn' = [conn EXCEPT ![s] = "closed"]
  /\ grace' = IF client[s] # None /\ client[s].role = "host" THEN grace \cup {s} ELSE grace
  /\ UNCHANGED <<rooms, objs, clients, client, msg, leaving, busy, row, ended, welcomed,
                 late>>

\* The connection is gone.  Only a socket whose handler has set `client` arms a timer.
Close(s) ==
  /\ Receives(s)
  /\ conn' = [conn EXCEPT ![s] = "closed"]
  /\ grace' = IF client[s] # None THEN grace \cup {s} ELSE grace
  /\ UNCHANGED <<rooms, objs, clients, client, msg, leaving, busy, row, ended, welcomed,
                 late>>

\* Mutant: whoever sits under the participant id is removed.
RemoveParticipant(s, how) ==
  IF rooms # NoObj /\ SocksOf(rooms, client[s].pid) # {}
  THEN /\ clients' = [clients EXCEPT ![rooms] = @ \ SocksOf(rooms, client[s].pid)]
       /\ Commits(SetActive(client[s].pid, FALSE))
       /\ leaving' = [leaving EXCEPT ![s] = [at |-> "left", obj |-> rooms, how |-> how]]
  ELSE UNCHANGED <<clients, row, leaving>>

\* removeClient up to its first query: a client that a newer socket has replaced stays put.
\* The left_at update is the last thing this step does.
RemoveClient(s, how) ==
  LET table == SetActive(client[s].pid, FALSE) IN
  IF rooms # NoObj /\ s \in clients[rooms]
  THEN /\ clients' = [clients EXCEPT ![rooms] = @ \ {s}]
       /\ \/ /\ Commits(table)
             /\ leaving' = [leaving EXCEPT ![s] = [at |-> "left", obj |-> rooms, how |-> how]]
          \/ /\ Fails(table) /\ how = "leave"    \* from a timer it ends in Restart
             /\ UNCHANGED leaving
  ELSE UNCHANGED <<clients, row, leaving>>

Leave(s) ==
  /\ MayStart
  /\ client[s] # None /\ Receives(s) /\ rooms # NoObj
  /\ RemoveClient(s, "leave")
  /\ UNCHANGED <<rooms, objs, conn, client, msg, busy, grace, ended, welcomed, late>>

\* Mutant: the timer yields to a reconnect under way in the room.
GraceYields(s) ==
  /\ MayStart
  /\ s \in grace
  /\ grace' = grace \ {s}
  /\ IF \E t \in Sock : msg[t].at \in {"select", "update"}
     THEN UNCHANGED <<clients, row, leaving>>
     ELSE RemoveClient(s, "grace")
  /\ UNCHANGED <<rooms, objs, conn, client, msg, busy, ended, welcomed, late>>

GraceOver(s) ==
  /\ MayStart
  /\ s \in grace
  /\ grace' = grace \ {s}
  /\ RemoveClient(s, "grace")
  /\ UNCHANGED <<rooms, objs, conn, client, msg, busy, ended, welcomed, late>>

\* Everything in memory is gone with the process, and so is every socket.
Restart ==
  /\ rooms' = NoObj
  /\ objs' = 0
  /\ clients' = [o \in Obj |-> {}]
  /\ conn' = [s \in Sock |-> IF conn[s] = "new" THEN "new" ELSE "closed"]
  /\ client' = [s \in Sock |-> None]
  /\ msg' = [s \in Sock |-> IdleMsg]
  /\ leaving' = [s \in Sock |-> IdleLeaving]
  /\ busy' = [s \in Sock |-> IdleBusy]
  /\ grace' = {}
  /\ late' = {}
  /\ UNCHANGED <<row, ended, welcomed>>

\* left_at is written.  If the client was host, some guest of the room becomes host, in
\* memory first and then in its row.  (The code takes the oldest guest; any may be.)
Promote(s) ==
  LET o == leaving[s].obj IN
  /\ leaving[s].at = "left"
  /\ client[s].role = "host"
  /\ \E g \in GuestsIn(o) :
       LET table == SetRole(client[g].pid, "host") IN
       \/ /\ Commits(table)
          /\ client' = [client EXCEPT ![g].role = "host"]
          /\ leaving' = [leaving EXCEPT ![s].at = "promoted"]
          /\ UNCHANGED <<rooms, objs, clients, conn, msg, busy, grace, ended, welcomed, late>>
       \/ /\ Fails(table) /\ leaving[s].how = "leave"    \* caught and logged
          /\ client' = [client EXCEPT ![g].role = "host"]
          /\ leaving' = [leaving EXCEPT ![s] = IdleLeaving]
          /\ UNCHANGED <<rooms, objs, clients, conn, msg, busy, grace, ended, welcomed, late>>
       \/ /\ Fails(table) /\ leaving[s].how = "grace"    \* an unhandled rejection
          /\ Restart

Demote(s) ==
  /\ leaving[s].at = "promoted"
  /\ \/ /\ Commits(SetRole(client[s].pid, "guest"))
        /\ leaving' = [leaving EXCEPT ![s].at = "demoted"]
     \/ /\ Fails(SetRole(client[s].pid, "guest")) /\ leaving[s].how = "leave"
        /\ leaving' = [leaving EXCEPT ![s] = IdleLeaving]
  /\ UNCHANGED <<rooms, objs, clients, conn, client, msg, busy, grace, ended, welcomed, late>>

\* partner_left goes out; an emptied room is checkpointed.
PartnerLeft(s) ==
  /\ \/ leaving[s].at = "demoted"
     \/ leaving[s].at = "left" /\ (client[s].role = "guest" \/ GuestsIn(leaving[s].obj) = {})
  /\ leaving' = [leaving EXCEPT ![s] = IdleLeaving]
  /\ UNCHANGED <<rooms, objs, clients, conn, client, msg, busy, grace, row, ended, welcomed,
                 late>>

-----------------------------------------------------------------------------
(* The host's commands that change who is in charge, or end the room. *)

\* handleMessage looks the room up by id: the sender need not be in its clients.
Commands(s) ==
  /\ client[s] # None /\ Receives(s) /\ rooms # NoObj
  /\ busy[s].at = "idle" /\ MayStart

HostTransferCmd(s) ==
  /\ Commands(s) /\ client[s].role = "host"
  /\ \E g \in GuestsIn(rooms) :
       /\ client' = [client EXCEPT ![s].role = "guest", ![g].role = "host"]
       /\ \/ /\ Commits(SetRole(client[s].pid, "guest"))
             /\ busy' = [busy EXCEPT ![s] =
                          [at |-> "transfer", obj |-> rooms, pid |-> client[g].pid]]
          \/ Fails(SetRole(client[s].pid, "guest")) /\ UNCHANGED busy
  /\ UNCHANGED <<rooms, objs, clients, conn, msg, leaving, grace, ended, welcomed, late>>

Transferred(s) ==
  /\ busy[s].at = "transfer"
  /\ Commits(SetRole(busy[s].pid, "host")) \/ Fails(SetRole(busy[s].pid, "host"))
  /\ busy' = [busy EXCEPT ![s] = IdleBusy]
  /\ UNCHANGED <<rooms, objs, clients, conn, client, msg, leaving, grace, ended, welcomed,
                 late>>

\* end_room_cmd: room_ended goes out and ended_at is written.  (If that fails, nothing else
\* happens.)
EndRoomCmd(s) ==
  /\ Commands(s) /\ client[s].role = "host"
  /\ ended' = TRUE
  /\ busy' = [busy EXCEPT ![s] = [at |-> "end", obj |-> rooms, pid |-> None]]
  /\ UNCHANGED <<rooms, objs, clients, conn, client, msg, leaving, grace, row, welcomed, late>>

\* The rest of endRoom: every socket now in that object is closed, and the room leaves the
\* map whichever object the map holds.
RoomEnded(s) ==
  /\ busy[s].at = "end"
  /\ conn' = Closing(clients[busy[s].obj])
  /\ rooms' = NoObj
  /\ busy' = [busy EXCEPT ![s] = IdleBusy]
  /\ UNCHANGED <<objs, clients, client, msg, leaving, grace, row, ended, welcomed, late>>

\* POST /rooms/:id/end and the retention sweep write ended_at and tell the sync service
\* nothing.
ApiEnd ==
  /\ ~ended
  /\ ended' = TRUE
  /\ UNCHANGED <<rooms, objs, clients, conn, client, msg, leaving, busy, grace, row, welcomed,
                 late>>

\* The answer a handler waits for is an error, the statement done or not: the handler stops
\* where it is.  (In a removal that a timer started this kills the process: Restart.)
AnswerLost(s) ==
  /\ DbFaults
  /\ \/ /\ msg[s].at \in Awaiting
        /\ msg' = [msg EXCEPT ![s] = [IdleMsg EXCEPT !.at = "refused"]]
        /\ UNCHANGED <<leaving, busy>>
     \/ /\ leaving[s].at # "idle" /\ leaving[s].how = "leave"
        /\ leaving' = [leaving EXCEPT ![s] = IdleLeaving]
        /\ UNCHANGED <<msg, busy>>
     \/ /\ busy[s].at # "idle"
        /\ busy' = [busy EXCEPT ![s] = IdleBusy]
        /\ UNCHANGED <<msg, leaving>>
  /\ UNCHANGED <<rooms, objs, clients, conn, client, grace, row, ended, welcomed, late>>

-----------------------------------------------------------------------------
\* POST /rooms inserts the room and then, in a statement of its own, its owner's row.
Init ==
  /\ rooms = NoObj
  /\ objs = 0
  /\ clients = [o \in Obj |-> {}]
  /\ conn = [s \in Sock |-> "new"]
  /\ client = [s \in Sock |-> None]
  /\ msg = [s \in Sock |-> IdleMsg]
  /\ leaving = [s \in Sock |-> IdleLeaving]
  /\ busy = [s \in Sock |-> IdleBusy]
  /\ grace = {}
  /\ \E taken \in SeatTaken :
       row = [p \in Pid |-> IF p = Seat /\ taken THEN [role |-> "host", active |-> TRUE]
                            ELSE None]
  /\ ended = FALSE
  /\ welcomed = {}
  /\ late = {}

\* The next step of a handler that is waiting for an answer.
Continue(s) ==
  \/ Loaded(s) \/ Routed(s) \/ Inserted(s) \/ Selected(s) \/ Updated(s)
  \/ Promote(s) \/ Demote(s) \/ PartnerLeft(s)
  \/ Transferred(s) \/ RoomEnded(s)

Next ==
  \/ \E s \in Sock :
       \/ \E a \in RoleHints \cup Pid : FirstMessage(s, a)
       \/ Continue(s)
       \/ Close(s) \/ Leave(s) \/ GraceOver(s)
       \/ HostTransferCmd(s) \/ EndRoomCmd(s)
       \/ AnswerLost(s)
  \/ ApiEnd
  \/ Restart

Spec == Init /\ [][Next]_vars

-----------------------------------------------------------------------------
(* Fairness: a query is answered sooner or later, and an armed timer fires.  Nothing is
   assumed of the browsers or of the network: no socket need open, send or close. *)

HandlersRun(s) ==
  /\ WF_vars(Loaded(s) \/ Routed(s) \/ Inserted(s) \/ Selected(s) \/ Updated(s))
  /\ WF_vars(Promote(s) \/ Demote(s) \/ PartnerLeft(s))
  /\ WF_vars(Transferred(s) \/ RoomEnded(s))

FairSpec ==
  /\ Spec
  /\ \A s \in Sock : HandlersRun(s) /\ WF_vars(GraceOver(s))

-----------------------------------------------------------------------------
(* Properties *)

\* A member of the live room whose socket has closed is on its way out: the grace timer
\* that removes it is armed, unless it was only admitted after it had closed (the close
\* handler returns when `client` is not set yet, line 678).
RemovalPending ==
  rooms # NoObj =>
    \A s \in clients[rooms] : conn[s] = "closed" => s \in grace \cup late

\* As long as its room lives, nobody loses a seat in it but by its own leave, by its own
\* socket's close, or to a newer socket of the same participant: the timer of a replaced
\* socket never wipes the client that came back (line 451).
NoEviction ==
  [][\A s \in Sock :
       (rooms # NoObj /\ rooms' = rooms /\ s \in clients[rooms] \ clients'[rooms]) =>
          \/ conn[s] = "closed"
          \/ Leave(s)
          \/ \E t \in Sock : msg[t].ask = client[s].pid /\ msg[t].at \in {"select", "update"}
    ]_vars

\* Once a room is ended and out of memory, with no load of it under way, it stays out:
\* neither a late joiner nor a restart of the process brings it back (line 74).
Gone == ended /\ rooms = NoObj /\ \A s \in Sock : msg[s].at # "load"

NoResurrection == [][Gone => Gone']_vars

\* The table implements the lock the index promises, whatever the handlers interleave,
\* whichever query fails and whenever the process dies (001_init.sql:163).
SeatOf(table) == {p \in Pid : table[p] = [role |-> "host", active |-> TRUE]}

HostSeat == INSTANCE HostSeat WITH Participant <- Pid, holders <- SeatOf(row)

SeatIsLock == HostSeat!Spec

\* Memory agrees with the table: a room object never has two hosts (001_init.sql:163).
AtMostOneHost == \A o \in Obj : \A s, t \in HostsIn(o) : s = t


\* A member of the live room whose grace timer is armed is in the end not in it.
ClosedMemberGoes ==
  \A s \in Sock :
    (rooms # NoObj /\ s \in grace /\ s \in clients[rooms])
      ~> (rooms = NoObj \/ s \notin clients[rooms])

=============================================================================
