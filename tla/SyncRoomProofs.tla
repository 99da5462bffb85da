--------------------------- MODULE SyncRoomProofs ---------------------------
(***************************************************************************)
(* Theorems about SyncRoom, for any number of sockets, room objects and    *)
(* waiting handlers.                                                       *)
(***************************************************************************)
EXTENDS SyncRoom, TLAPS

\* Setting the role or the activity of a row leaves a table of rows.
LEMMA TableTypes ==
  ASSUME row \in [Pid -> Row \cup {None}], NEW p \in Pid, NEW r \in Role
  PROVE  SetRole(p, r) \in [Pid -> Row \cup {None}]
BY DEF SetRole, Row

LEMMA ActiveTypes ==
  ASSUME row \in [Pid -> Row \cup {None}], NEW p \in Pid, NEW b \in BOOLEAN
  PROVE  SetActive(p, b) \in [Pid -> Row \cup {None}]
BY DEF SetActive, Row

\* The handler records and the closing of sockets are of their types.
LEMMA IdleTypes ==
  /\ IdleMsg \in Msg
  /\ IdleLeaving \in Leaving
  /\ IdleBusy \in Busy
BY DEF IdleMsg, IdleLeaving, IdleBusy, Msg, Leaving, Busy, Role

LEMMA ClosingType ==
  ASSUME conn \in [Sock -> {"new", "open", "closing", "closed"}], NEW S
  PROVE  Closing(S) \in [Sock -> {"new", "open", "closing", "closed"}]
BY DEF Closing

\* What a handler does with the room in hand keeps the message table and the rows well
\* typed.
LEMMA EnterTypes ==
  ASSUME TypeOK, NEW s \in Sock, NEW a \in RoleHints \cup Pid, NEW o \in Obj, Enter(s, a, o)
  PROVE  /\ msg' \in [Sock -> Msg]
         /\ row' \in [Pid -> Row \cup {None}]
<1> USE SyncRoomAssumption
<1>1. CASE a \in RoleHints
  <2>1. EnterJoin(s, a, o)
    BY <1>1 DEF Enter
  <2> DEFINE role  == IF HostsIn(o) # {} \/ a = "guest" THEN "guest" ELSE "host"
             table == [row EXCEPT ![s] = [role |-> role, active |-> TRUE]]
             wait  == [at |-> "insert", ask |-> a, obj |-> o, role |-> role]
             stop  == [IdleMsg EXCEPT !.at = "refused"]
  <2>2. role \in Role
    BY DEF Role
  <2>3. wait \in Msg /\ stop \in Msg
    BY <2>2 DEF Msg, IdleMsg, Role
  <2>4. table \in [Pid -> Row \cup {None}]
    BY <2>2 DEF TypeOK, Row, Pid
  <2>5. \/ row' = table /\ msg' = [msg EXCEPT ![s] = wait]
        \/ row' = row /\ msg' = [msg EXCEPT ![s] = stop]
    BY <2>1 DEF EnterJoin, Commits, Fails
  <2> HIDE DEF role, table, wait, stop
  <2>6. QED
    BY <2>3, <2>4, <2>5 DEF TypeOK
<1>2. CASE a \notin RoleHints
  <2>1. a \in Pid /\ EnterReconnect(s, a, o)
    BY <1>2 DEF Enter
  <2> DEFINE tell == [IdleMsg EXCEPT !.at = "rejected"]
             wait == [at |-> "select", ask |-> a, obj |-> o, role |-> row[a].role]
  <2>2. tell \in Msg
    BY DEF Msg, IdleMsg, Role
  <2>3. row[a] # None => wait \in Msg
    BY <2>1 DEF Msg, TypeOK, Row
  <2>4. row' = row /\ msg' = [msg EXCEPT ![s] = IF row[a] = None THEN tell ELSE wait]
    BY <2>1 DEF EnterReconnect
  <2> HIDE DEF tell, wait
  <2>5. QED
    BY <2>2, <2>3, <2>4 DEF TypeOK
<1>3. QED
  BY <1>1, <1>2

\* Admitting a client keeps everything it touches well typed.
LEMMA AdmitTypes ==
  ASSUME TypeOK, NEW s \in Sock, NEW p \in Pid, NEW r \in Role, NEW o \in Obj,
         Admit(s, p, r, o)
  PROVE  /\ client' \in [Sock -> Client \cup {None}]
         /\ clients' \in [Obj -> SUBSET Sock]
         /\ msg' \in [Sock -> Msg]
         /\ welcomed' \subseteq Pid
         /\ late' \subseteq Sock
<1>1. [pid |-> p, role |-> r] \in Client
  BY DEF Client
<1>2. [IdleMsg EXCEPT !.at = "done"] \in Msg
  BY DEF IdleMsg, Msg, Role
<1>3. QED
  BY <1>1, <1>2 DEF Admit, TypeOK

-----------------------------------------------------------------------------
(* The inductive invariant. *)

\* A waiting handler knows what it was asked and holds a room object this process built.
Waits ==
  \A s \in Sock :
    /\ msg[s].at \in Awaiting => msg[s].ask # None
    /\ msg[s].at \in Awaiting \ {"load"} => msg[s].obj \in 1..objs
    /\ msg[s].at \in {"select", "update"} => msg[s].ask \in Pid
    /\ leaving[s].at # "idle" => client[s] # None /\ leaving[s].obj \in 1..objs
    /\ busy[s].at # "idle" => busy[s].obj \in 1..objs
    /\ busy[s].at = "transfer" => busy[s].pid \in Pid

\* Only objects that were built have members, and every member has a client object.
Members ==
  /\ rooms <= objs
  /\ \A o \in Obj : /\ o > objs => clients[o] = {}
                    /\ \A s \in clients[o] : client[s] # None

Shape == TypeOK /\ Waits /\ Members

\* Every step keeps the types.
LEMMA TypeStep == ASSUME Shape, [Next]_vars PROVE TypeOK'
<1> USE SyncRoomAssumption, IdleTypes DEF Shape
<1>0. \A s \in Sock : msg[s] \in Msg /\ leaving[s] \in Leaving /\ busy[s] \in Busy
  BY DEF TypeOK
<1>1. CASE UNCHANGED vars
  BY <1>1 DEF vars, TypeOK
<1>2. ASSUME NEW s \in Sock, NEW a \in RoleHints \cup Pid, FirstMessage(s, a) PROVE TypeOK'
  <2>1. conn' \in [Sock -> {"new", "open", "closing", "closed"}]
    BY <1>2 DEF FirstMessage, TypeOK
  <2>2. msg' \in [Sock -> Msg] /\ row' \in [Pid -> Row \cup {None}]
    <3>1. CASE rooms # NoObj /\ Enter(s, a, rooms)
      <4>1. rooms \in Obj
        BY <3>1 DEF TypeOK
      <4>2. QED
        BY <3>1, <4>1, EnterTypes
    <3>2. CASE /\ msg' = [msg EXCEPT ![s] = [IdleMsg EXCEPT !.at = "load", !.ask = a]]
               /\ UNCHANGED row
      <4>1. [IdleMsg EXCEPT !.at = "load", !.ask = a] \in Msg
        BY DEF IdleMsg, Msg, Role
      <4>2. QED
        BY <3>2, <4>1 DEF TypeOK
    <3>3. CASE msg' = [msg EXCEPT ![s] = [IdleMsg EXCEPT !.at = "done"]] /\ UNCHANGED row
      <4>1. [IdleMsg EXCEPT !.at = "done"] \in Msg
        BY DEF IdleMsg, Msg, Role
      <4>2. QED
        BY <3>3, <4>1 DEF TypeOK
    <3>4. QED
      BY <1>2, <3>1, <3>2, <3>3 DEF FirstMessage
  <2>3. QED
    BY <1>2, <2>1, <2>2 DEF FirstMessage, TypeOK
<1>3. ASSUME NEW s \in Sock, Loaded(s) PROVE TypeOK'
  <2>1. objs' \in 0..MaxObj /\ rooms' \in Obj
    BY <1>3 DEF Loaded, TypeOK, Obj
  <2>2. [msg[s] EXCEPT !.at = "route", !.obj = objs'] \in Msg
    BY <1>0, <1>3, <2>1 DEF Loaded, Msg
  <2>3. QED
    BY <1>3, <2>1, <2>2 DEF Loaded, TypeOK
<1>4. ASSUME NEW s \in Sock, Routed(s) PROVE TypeOK'
  <2>1. msg[s].ask \in RoleHints \cup Pid /\ msg[s].obj \in Obj
    BY <1>0, <1>4 DEF Routed, Waits, Awaiting, Msg, TypeOK, Obj, NoObj
  <2>2. QED
    BY <1>4, <2>1, EnterTypes DEF Routed, TypeOK
<1>5. ASSUME NEW s \in Sock, Inserted(s) PROVE TypeOK'
  <2>1. s \in Pid /\ msg[s].role \in Role /\ msg[s].obj \in Obj
    BY <1>0, <1>5 DEF Inserted, Waits, Awaiting, Msg, TypeOK, Obj, NoObj, Pid
  <2>2. QED
    BY <1>5, <2>1, AdmitTypes DEF Inserted, TypeOK
<1>6. ASSUME NEW s \in Sock, Selected(s) PROVE TypeOK'
  <2>1. msg[s].ask \in Pid /\ msg[s].obj \in Obj
    BY <1>0, <1>6 DEF Selected, Waits, Awaiting, Msg, TypeOK, Obj, NoObj
  <2>2. [msg[s] EXCEPT !.at = "update"] \in Msg /\ [IdleMsg EXCEPT !.at = "refused"] \in Msg
    BY <1>0 DEF IdleMsg, Msg, Role
  <2>3. row' \in [Pid -> Row \cup {None}]
    <3>1. SetActive(msg[s].ask, TRUE) \in [Pid -> Row \cup {None}]
      <4>1. row \in [Pid -> Row \cup {None}]
        BY DEF TypeOK
      <4>2. QED
        BY <2>1, <4>1, ActiveTypes, Zenon
    <3>2. row' = row \/ row' = SetActive(msg[s].ask, TRUE)
      BY <1>6 DEF Selected, Commits, Fails
    <3>3. QED
      BY <3>1, <3>2 DEF TypeOK
  <2>4. conn' \in [Sock -> {"new", "open", "closing", "closed"}]
    BY <1>6, ClosingType DEF Selected, TypeOK
  <2>5. clients' \in [Obj -> SUBSET Sock]
    BY <1>6 DEF Selected, TypeOK
  <2>6. /\ \/ msg' = [msg EXCEPT ![s].at = "update"]
           \/ msg' = [msg EXCEPT ![s] = [IdleMsg EXCEPT !.at = "refused"]]
        /\ UNCHANGED <<rooms, objs, client, leaving, busy, grace, ended, welcomed, late>>
    BY <1>6 DEF Selected
  <2>7. msg' \in [Sock -> Msg]
    BY <2>2, <2>6 DEF TypeOK
  <2>8. QED
    BY <2>3, <2>4, <2>5, <2>6, <2>7 DEF TypeOK
<1>7. ASSUME NEW s \in Sock, Updated(s) PROVE TypeOK'
  <2>1. msg[s].ask \in Pid /\ msg[s].obj \in Obj /\ msg[s].role \in Role
    BY <1>0, <1>7 DEF Updated, Waits, Awaiting, Msg, TypeOK, Obj, NoObj
  <2>2. QED
    BY <1>7, <2>1, AdmitTypes DEF Updated, TypeOK, Role
<1>8. ASSUME NEW s \in Sock, Close(s) PROVE TypeOK'
  BY <1>8 DEF Close, TypeOK
<1>9. ASSUME NEW s \in Sock, NEW how \in {"leave", "grace"}, RemoveClient(s, how)
      PROVE /\ clients' \in [Obj -> SUBSET Sock]
            /\ row' \in [Pid -> Row \cup {None}]
            /\ leaving' \in [Sock -> Leaving]
  <2>1. CASE rooms # NoObj /\ s \in clients[rooms]
    <3>1. rooms \in Obj /\ client[s].pid \in Pid
      BY <2>1 DEF TypeOK, Members, Client
    <3>2. [at |-> "left", obj |-> rooms, how |-> how] \in Leaving
      BY <3>1 DEF Leaving
    <3>3. SetActive(client[s].pid, FALSE) \in [Pid -> Row \cup {None}]
      <4>1. row \in [Pid -> Row \cup {None}]
        BY DEF TypeOK
      <4>2. QED
        BY <3>1, <4>1, ActiveTypes, Zenon
    <3>4. /\ clients' = [clients EXCEPT ![rooms] = @ \ {s}]
          /\ row' = row \/ row' = SetActive(client[s].pid, FALSE)
          /\ \/ leaving' = leaving
             \/ leaving' = [leaving EXCEPT ![s] = [at |-> "left", obj |-> rooms, how |-> how]]
      BY <1>9, <2>1 DEF RemoveClient, Commits, Fails
    <3>5. leaving' \in [Sock -> Leaving]
      BY <3>2, <3>4 DEF TypeOK
    <3>6. clients' \in [Obj -> SUBSET Sock]
      BY <3>1, <3>4 DEF TypeOK
    <3>7. row' \in [Pid -> Row \cup {None}]
      BY <3>3, <3>4 DEF TypeOK
    <3>8. QED
      BY <3>5, <3>6, <3>7
  <2>2. CASE ~(rooms # NoObj /\ s \in clients[rooms])
    BY <1>9, <2>2 DEF RemoveClient, TypeOK
  <2>3. QED
    BY <2>1, <2>2
<1>10. ASSUME NEW s \in Sock, Leave(s) PROVE TypeOK'
  BY <1>9, <1>10 DEF Leave, TypeOK
<1>11. ASSUME NEW s \in Sock, GraceOver(s) PROVE TypeOK'
  BY <1>9, <1>11 DEF GraceOver, TypeOK
<1>12. ASSUME Restart PROVE TypeOK'
  BY <1>12 DEF Restart, TypeOK
<1>13. ASSUME NEW s \in Sock, Promote(s) PROVE TypeOK'
  <2>1. CASE Restart
    BY <1>12, <2>1
  <2>2. ASSUME NEW g \in GuestsIn(leaving[s].obj), client' = [client EXCEPT ![g].role = "host"],
               \/ Commits(SetRole(client[g].pid, "host")) \/ UNCHANGED row,
               \/ leaving' = [leaving EXCEPT ![s].at = "promoted"]
               \/ leaving' = [leaving EXCEPT ![s] = IdleLeaving],
               UNCHANGED <<rooms, objs, clients, conn, msg, busy, grace, ended, welcomed, late>>
        PROVE TypeOK'
    <3>1. g \in Sock /\ client[g] \in Client
      BY <1>0, <1>13 DEF Promote, GuestsIn, TypeOK, Waits, Members, Obj
    <3>2. client' \in [Sock -> Client \cup {None}]
      BY <2>2, <3>1 DEF TypeOK, Client, Role
    <3>3. row' \in [Pid -> Row \cup {None}]
      BY <2>2, <3>1, TableTypes DEF Commits, TypeOK, Client, Role
    <3>4. leaving' \in [Sock -> Leaving]
      <4>1. [leaving[s] EXCEPT !.at = "promoted"] \in Leaving
        BY <1>0 DEF Leaving
      <4>2. leaving \in [Sock -> Leaving]
        BY DEF TypeOK
      <4>3. QED
        BY <2>2, <4>1, <4>2
    <3>5. QED
      BY <2>2, <3>2, <3>3, <3>4 DEF TypeOK
  <2>3. QED
    BY <1>13, <2>1, <2>2 DEF Promote, Fails
<1>14. ASSUME NEW s \in Sock, Demote(s) PROVE TypeOK'
  <2>1. client[s].pid \in Pid
    BY <1>14 DEF Demote, Waits, TypeOK, Client
  <2>2. row' \in [Pid -> Row \cup {None}]
    BY <1>14, <2>1, TableTypes DEF Demote, Commits, Fails, TypeOK, Role
  <2>3. leaving' \in [Sock -> Leaving]
    <3>1. [leaving[s] EXCEPT !.at = "demoted"] \in Leaving
      BY <1>0 DEF Leaving
    <3>2. leaving \in [Sock -> Leaving]
      BY DEF TypeOK
    <3>3. QED
      BY <1>14, <3>1, <3>2 DEF Demote
  <2>4. QED
    BY <1>14, <2>2, <2>3 DEF Demote, TypeOK
<1>15. ASSUME NEW s \in Sock, PartnerLeft(s) PROVE TypeOK'
  BY <1>15 DEF PartnerLeft, TypeOK
<1>16. ASSUME NEW s \in Sock, HostTransferCmd(s) PROVE TypeOK'
  <2>1. PICK g \in GuestsIn(rooms) :
          /\ client' = [client EXCEPT ![s].role = "guest", ![g].role = "host"]
          /\ \/ UNCHANGED busy
             \/ busy' = [busy EXCEPT ![s] = [at |-> "transfer", obj |-> rooms, pid |-> client[g].pid]]
    BY <1>16 DEF HostTransferCmd
  <2>2. rooms \in Obj /\ g \in Sock /\ client[g] \in Client /\ client[s] \in Client
    BY <1>16 DEF HostTransferCmd, Commands, GuestsIn, TypeOK, Members
  <2>3. client' \in [Sock -> Client \cup {None}]
    BY <2>1, <2>2 DEF TypeOK, Client, Role
  <2>4. busy' \in [Sock -> Busy]
    <3>1. [at |-> "transfer", obj |-> rooms, pid |-> client[g].pid] \in Busy
      BY <2>2 DEF Client, Busy
    <3>2. busy \in [Sock -> Busy]
      BY DEF TypeOK
    <3>3. QED
      BY <2>1, <3>1, <3>2
  <2>5. row' \in [Pid -> Row \cup {None}]
    BY <1>16, <2>2, TableTypes DEF HostTransferCmd, Commits, Fails, TypeOK, Client, Role
  <2>6. QED
    BY <1>16, <2>3, <2>4, <2>5 DEF HostTransferCmd, TypeOK
<1>17. ASSUME NEW s \in Sock, Transferred(s) PROVE TypeOK'
  BY <1>17, TableTypes DEF Transferred, Commits, Fails, TypeOK, Waits, Role
<1>18. ASSUME NEW s \in Sock, EndRoomCmd(s) PROVE TypeOK'
  <2>1. [at |-> "end", obj |-> rooms, pid |-> None] \in Busy
    BY DEF TypeOK, Busy
  <2>2. QED
    BY <1>18, <2>1 DEF EndRoomCmd, TypeOK
<1>19. ASSUME NEW s \in Sock, RoomEnded(s) PROVE TypeOK'
  BY <1>19, ClosingType DEF RoomEnded, TypeOK
<1>20. ASSUME ApiEnd PROVE TypeOK'
  BY <1>20 DEF ApiEnd, TypeOK
<1>21. ASSUME NEW s \in Sock, AnswerLost(s) PROVE TypeOK'
  <2>1. [IdleMsg EXCEPT !.at = "refused"] \in Msg
    BY DEF IdleMsg, Msg, Role
  <2>2. QED
    BY <1>21, <2>1 DEF AnswerLost, TypeOK
<1>22. QED
  BY <1>1, <1>2, <1>3, <1>4, <1>5, <1>6, <1>7, <1>8, <1>10, <1>11, <1>12, <1>13, <1>14,
     <1>15, <1>16, <1>17, <1>18, <1>19, <1>20, <1>21 DEF Next, Continue

\* What a handler does with the room in hand leaves it waiting on that room, or not waiting.
LEMMA EnterWaits ==
  ASSUME TypeOK, NEW s \in Sock, NEW a \in RoleHints \cup Pid, NEW o,
         o \in 1..objs, Enter(s, a, o)
  PROVE  \E m \in Msg :
           /\ msg' = [msg EXCEPT ![s] = m]
           /\ m.at \in Awaiting => m.ask = a /\ m.ask # None /\ m.obj \in 1..objs /\ m.at # "update"
           /\ m.at = "select" => m.ask \in Pid
<1> USE SyncRoomAssumption
<1>0. o \in Obj /\ a # None
  BY DEF TypeOK, Obj, Pid
<1>1. CASE a \in RoleHints
  <2> DEFINE role == IF HostsIn(o) # {} \/ a = "guest" THEN "guest" ELSE "host"
             wait == [at |-> "insert", ask |-> a, obj |-> o, role |-> role]
             stop == [at |-> "refused", ask |-> None, obj |-> NoObj, role |-> "guest"]
  <2>1. \/ msg' = [msg EXCEPT ![s] = wait]
        \/ msg' = [msg EXCEPT ![s] = stop]
    BY <1>1 DEF Enter, EnterJoin, IdleMsg
  <2>2. /\ wait \in Msg /\ wait.at = "insert" /\ wait.ask = a /\ wait.ask # None /\ wait.obj \in 1..objs
        /\ stop \in Msg /\ stop.at \notin Awaiting /\ stop.at # "select"
    BY <1>0 DEF Msg, Role, Awaiting
  <2> HIDE DEF role, wait, stop
  <2>3. QED
    BY <2>1, <2>2
<1>2. CASE a \notin RoleHints
  <2> DEFINE tell == [at |-> "rejected", ask |-> None, obj |-> NoObj, role |-> "guest"]
             wait == [at |-> "select", ask |-> a, obj |-> o, role |-> row[a].role]
  <2>1. msg' = [msg EXCEPT ![s] = IF row[a] = None THEN tell ELSE wait]
    BY <1>2 DEF Enter, EnterReconnect, IdleMsg
  <2>2. /\ tell \in Msg /\ tell.at \notin Awaiting /\ tell.at # "select"
        /\ wait.at = "select" /\ wait.ask = a /\ wait.ask # None /\ wait.obj \in 1..objs /\ wait.ask \in Pid
    BY <1>0, <1>2 DEF Msg, Role, Awaiting
  <2>3. row[a] # None => wait \in Msg
    BY <1>0, <1>2 DEF Msg, TypeOK, Row
  <2> HIDE DEF tell, wait
  <2>4. QED
    BY <2>1, <2>2, <2>3
<1>3. QED
  BY <1>1, <1>2

\* Every step keeps what the waiting handlers hold.
LEMMA WaitsStep == ASSUME Shape, [Next]_vars PROVE Waits'
<1> USE SyncRoomAssumption DEF Shape
<1>0. /\ \A s \in Sock : msg[s] \in Msg /\ leaving[s] \in Leaving /\ busy[s] \in Busy
      /\ objs \in Nat /\ Obj = 1..MaxObj /\ rooms \in Obj \cup {NoObj}
  BY DEF TypeOK, Obj
<1> DEFINE MsgOK(m, n) ==
             /\ m.at \in Awaiting => m.ask # None
             /\ m.at \in Awaiting \ {"load"} => m.obj \in 1..n
             /\ m.at \in {"select", "update"} => m.ask \in Pid
           LeavingOK(l, c, n) == l.at # "idle" => c # None /\ l.obj \in 1..n
           BusyOK(b, n) == /\ b.at # "idle" => b.obj \in 1..n
                           /\ b.at = "transfer" => b.pid \in Pid
<1>a. Waits <=> \A s \in Sock : /\ MsgOK(msg[s], objs) /\ BusyOK(busy[s], objs)
                                /\ LeavingOK(leaving[s], client[s], objs)
  BY DEF Waits
<1>b. Waits' <=> \A s \in Sock : /\ MsgOK(msg'[s], objs') /\ BusyOK(busy'[s], objs')
                                 /\ LeavingOK(leaving'[s], client'[s], objs')
  BY DEF Waits
<1>c. MsgOK([IdleMsg EXCEPT !.at = "done"], objs) /\ MsgOK([IdleMsg EXCEPT !.at = "refused"], objs)
  BY DEF IdleMsg, Awaiting
<1>d. \A c : LeavingOK(IdleLeaving, c, objs)
  BY DEF IdleLeaving
<1>e. BusyOK(IdleBusy, objs)
  BY DEF IdleBusy
<1>1. CASE UNCHANGED vars
  BY <1>1 DEF vars, Waits
<1>2. ASSUME NEW s \in Sock, NEW a \in RoleHints \cup Pid, FirstMessage(s, a) PROVE Waits'
  <2>1. PICK m : msg' = [msg EXCEPT ![s] = m] /\ MsgOK(m, objs)
    <3>1. CASE rooms # NoObj /\ Enter(s, a, rooms)
      <4>1. rooms \in 1..objs
        BY <1>0, <3>1 DEF Members, NoObj
      <4>2. QED
        BY ZenonT(60), <3>1, <4>1, EnterWaits DEF Awaiting
    <3>2. CASE msg' = [msg EXCEPT ![s] = [IdleMsg EXCEPT !.at = "load", !.ask = a]]
      <4>1. MsgOK([IdleMsg EXCEPT !.at = "load", !.ask = a], objs)
        BY DEF IdleMsg, Awaiting, Pid
      <4>2. QED
        BY <3>2, <4>1
    <3>3. CASE msg' = [msg EXCEPT ![s] = [IdleMsg EXCEPT !.at = "done"]]
      BY <1>c, <3>3
    <3>4. QED
      BY <1>2, <3>1, <3>2, <3>3 DEF FirstMessage
  <2> HIDE DEF MsgOK, LeavingOK, BusyOK
  <2>2. QED
    BY <1>2, <1>a, <1>b, <2>1 DEF FirstMessage, TypeOK
<1>3. ASSUME NEW s \in Sock, Loaded(s) PROVE Waits'
  <2>1. /\ objs' \in 1..objs' /\ msg[s].ask # None
        /\ \A o : o \in 1..objs => o \in 1..objs'
    BY <1>0, <1>3 DEF Loaded, Waits, Awaiting
  <2>2. /\ msg' = [msg EXCEPT ![s] = [msg[s] EXCEPT !.at = "route", !.obj = objs']]
        /\ UNCHANGED <<leaving, busy, client>>
    BY <1>3 DEF Loaded
  <2>3. MsgOK([msg[s] EXCEPT !.at = "route", !.obj = objs'], objs')
    BY <1>0, <2>1 DEF Awaiting, Msg
  <2>4. ASSUME NEW t \in Sock
        PROVE  /\ MsgOK(msg[t], objs') /\ BusyOK(busy[t], objs')
               /\ LeavingOK(leaving[t], client[t], objs')
    BY <1>a, <2>1
  <2> HIDE DEF MsgOK, LeavingOK, BusyOK
  <2>5. QED
    BY <1>b, <2>2, <2>3, <2>4 DEF TypeOK
<1>4. ASSUME NEW s \in Sock, Routed(s) PROVE Waits'
  <2>1. msg[s].ask \in RoleHints \cup Pid /\ msg[s].obj \in 1..objs
    BY <1>0, <1>4 DEF Routed, Waits, Awaiting, Msg
  <2>2. PICK m : msg' = [msg EXCEPT ![s] = m] /\ MsgOK(m, objs)
    <3>1. PICK a \in RoleHints \cup Pid, o \in 1..objs : a = msg[s].ask /\ Enter(s, a, o)
      BY <1>4, <2>1 DEF Routed
    <3>2. TypeOK
      BY DEF Shape
    <3>3. \E m \in Msg :
           /\ msg' = [msg EXCEPT ![s] = m]
           /\ m.at \in Awaiting => m.ask = a /\ m.ask # None /\ m.obj \in 1..objs /\ m.at # "update"
           /\ m.at = "select" => m.ask \in Pid
      <4> HIDE SyncRoomAssumption DEF Shape
      <4>1. QED
        BY <3>1, <3>2, EnterWaits
    <3>4. QED
      BY <3>1, <3>3 DEF Awaiting
  <2> HIDE DEF MsgOK, LeavingOK, BusyOK
  <2>3. QED
    BY <1>4, <1>a, <1>b, <2>2 DEF Routed, TypeOK
<1>5. ASSUME NEW s \in Sock, NEW p \in Pid, NEW r \in Role, NEW o, Admit(s, p, r, o),
             UNCHANGED <<objs, leaving, busy>>
      PROVE Waits'
  <2>1. client' = [client EXCEPT ![s] = [pid |-> p, role |-> r]]
        /\ msg' = [msg EXCEPT ![s] = [IdleMsg EXCEPT !.at = "done"]]
    BY <1>5 DEF Admit
  <2>2. [pid |-> p, role |-> r] # None
    BY <1>5 DEF Client
  <2>3. QED
    BY <1>5, <1>a, <1>b, <1>c, <2>1, <2>2 DEF TypeOK
<1>6. ASSUME NEW s \in Sock, Inserted(s) PROVE Waits'
  <2>1. s \in Pid /\ msg[s].role \in Role
    BY <1>0 DEF Msg, Pid
  <2>2. QED
    BY <1>5, <1>6, <2>1 DEF Inserted
<1>7. ASSUME NEW s \in Sock, Selected(s) PROVE Waits'
  <2>1. PICK m : msg' = [msg EXCEPT ![s] = m] /\ MsgOK(m, objs)
    <3>1. MsgOK([msg[s] EXCEPT !.at = "update"], objs)
      BY <1>0, <1>7 DEF Selected, Waits, Awaiting, Msg
    <3>2. \/ msg' = [msg EXCEPT ![s] = [msg[s] EXCEPT !.at = "update"]]
          \/ msg' = [msg EXCEPT ![s] = [IdleMsg EXCEPT !.at = "refused"]]
      BY <1>7 DEF Selected
    <3>3. QED
      BY <1>c, <3>1, <3>2
  <2>2. UNCHANGED <<objs, client, leaving, busy>>
    BY <1>7 DEF Selected
  <2> HIDE DEF MsgOK, LeavingOK, BusyOK
  <2>3. QED
    BY <1>a, <1>b, <2>1, <2>2 DEF TypeOK
<1>8. ASSUME NEW s \in Sock, Updated(s) PROVE Waits'
  <2>1. msg[s].ask \in Pid /\ msg[s].role \in Role
    BY <1>0, <1>8 DEF Updated, Waits, Msg
  <2>2. QED
    BY <1>5, <1>8, <2>1 DEF Updated, Role
<1>9. ASSUME NEW s \in Sock, Close(s) PROVE Waits'
  BY <1>9 DEF Close, Waits
<1>10. ASSUME NEW s \in Sock, NEW how \in {"leave", "grace"}, RemoveClient(s, how),
              UNCHANGED <<objs, client, msg, busy>>
       PROVE  Waits'
  <2>1. \/ leaving' = leaving
        \/ /\ leaving' = [leaving EXCEPT ![s] = [at |-> "left", obj |-> rooms, how |-> how]]
           /\ rooms # NoObj /\ s \in clients[rooms]
    BY <1>10 DEF RemoveClient
  <2>2. CASE leaving' = leaving
    BY <1>10, <2>2 DEF Waits
  <2>3. CASE /\ leaving' = [leaving EXCEPT ![s] = [at |-> "left", obj |-> rooms, how |-> how]]
             /\ rooms # NoObj /\ s \in clients[rooms]
    <3>1. client[s] # None /\ rooms \in 1..objs
      BY <1>0, <2>3 DEF Members, NoObj
    <3>2. LeavingOK([at |-> "left", obj |-> rooms, how |-> how], client[s], objs)
      BY <3>1
    <3> HIDE DEF MsgOK, LeavingOK, BusyOK
    <3>3. QED
      BY <1>10, <1>a, <1>b, <2>3, <3>2 DEF TypeOK
  <2>4. QED
    BY <2>1, <2>2, <2>3
<1>11. ASSUME NEW s \in Sock, Leave(s) PROVE Waits'
  BY <1>10, <1>11 DEF Leave
<1>12. ASSUME NEW s \in Sock, GraceOver(s) PROVE Waits'
  BY <1>10, <1>12 DEF GraceOver
<1>13. ASSUME Restart PROVE Waits'
  BY <1>13 DEF Restart, Waits, IdleMsg, IdleLeaving, IdleBusy, Awaiting
<1>14. ASSUME NEW s \in Sock, Promote(s) PROVE Waits'
  <2>1. CASE Restart
    BY <1>13, <2>1
  <2>2. ASSUME NEW g \in GuestsIn(leaving[s].obj), client' = [client EXCEPT ![g].role = "host"],
               \/ leaving' = [leaving EXCEPT ![s].at = "promoted"]
               \/ leaving' = [leaving EXCEPT ![s] = IdleLeaving],
               UNCHANGED <<objs, msg, busy>>
        PROVE Waits'
    <3>1. \A t \in Sock : client[t] # None => client'[t] # None
      <4>1. g \in Sock /\ client[g] \in Client
        BY <1>0, <1>14 DEF Promote, GuestsIn, TypeOK, Waits, Members
      <4>2. [client[g] EXCEPT !.role = "host"] \in Client
        BY <4>1 DEF Client, Role
      <4>3. QED
        BY <2>2, <4>1, <4>2 DEF TypeOK
    <3>2. LeavingOK([leaving[s] EXCEPT !.at = "promoted"], client[s], objs)
      BY <1>0, <1>14 DEF Promote, Waits, Leaving
    <3>3. \A t \in Sock : LeavingOK(leaving'[t], client[t], objs)
      <4>1. CASE leaving' = [leaving EXCEPT ![s] = [leaving[s] EXCEPT !.at = "promoted"]]
        <5> HIDE DEF MsgOK, LeavingOK, BusyOK
        <5>1. QED
          BY <1>a, <3>2, <4>1 DEF TypeOK
      <4>2. CASE leaving' = [leaving EXCEPT ![s] = IdleLeaving]
        <5> HIDE DEF MsgOK, LeavingOK, BusyOK
        <5>1. QED
          BY <1>a, <1>d, <4>2 DEF TypeOK
      <4>3. QED
        BY <2>2, <4>1, <4>2
    <3>4. QED
      BY <1>a, <1>b, <2>2, <3>1, <3>3
  <2>3. QED
    BY <1>14, <2>1, <2>2 DEF Promote
<1>15. ASSUME NEW s \in Sock, Demote(s) PROVE Waits'
  <2>1. LeavingOK([leaving[s] EXCEPT !.at = "demoted"], client[s], objs)
    BY <1>0, <1>15 DEF Demote, Waits, Leaving
  <2>2. /\ \/ leaving' = [leaving EXCEPT ![s] = [leaving[s] EXCEPT !.at = "demoted"]]
           \/ leaving' = [leaving EXCEPT ![s] = IdleLeaving]
        /\ UNCHANGED <<objs, client, msg, busy>>
    BY <1>15 DEF Demote
  <2> HIDE DEF MsgOK, LeavingOK, BusyOK
  <2>3. QED
    BY <1>a, <1>b, <1>d, <2>1, <2>2 DEF TypeOK
<1>16. ASSUME NEW s \in Sock, PartnerLeft(s) PROVE Waits'
  BY <1>16, <1>a, <1>b, <1>d DEF PartnerLeft, TypeOK
<1>17. ASSUME NEW s \in Sock, HostTransferCmd(s) PROVE Waits'
  <2>1. PICK g \in GuestsIn(rooms) :
          /\ client' = [client EXCEPT ![s].role = "guest", ![g].role = "host"]
          /\ \/ UNCHANGED busy
             \/ busy' = [busy EXCEPT ![s] = [at |-> "transfer", obj |-> rooms, pid |-> client[g].pid]]
    BY <1>17 DEF HostTransferCmd
  <2>2. rooms \in 1..objs /\ g \in Sock /\ client[g] \in Client /\ client[s] \in Client
    BY <1>0, <1>17 DEF HostTransferCmd, Commands, GuestsIn, TypeOK, Members, NoObj
  <2>3. \A t \in Sock : client'[t] # None <=> client[t] # None
    <3>1. \A t \in Sock : t \notin {s, g} => client'[t] = client[t]
      BY <2>1, <2>2 DEF TypeOK
    <3>2. client'[s] \in Client /\ client'[g] \in Client
      BY <2>1, <2>2 DEF TypeOK, Client, Role
    <3>3. QED
      BY <2>2, <3>1, <3>2
  <2>4. BusyOK([at |-> "transfer", obj |-> rooms, pid |-> client[g].pid], objs)
    BY <2>2 DEF Client
  <2>5. \A t \in Sock : LeavingOK(leaving[t], client'[t], objs)
    BY <1>a, <2>3
  <2>6. UNCHANGED <<objs, msg, leaving>>
    BY <1>17 DEF HostTransferCmd
  <2> HIDE DEF MsgOK, LeavingOK, BusyOK
  <2>7. QED
    BY <1>a, <1>b, <2>1, <2>4, <2>5, <2>6 DEF TypeOK
<1>18. ASSUME NEW s \in Sock, Transferred(s) PROVE Waits'
  BY <1>18, <1>a, <1>b, <1>e DEF Transferred, TypeOK
<1>19. ASSUME NEW s \in Sock, EndRoomCmd(s) PROVE Waits'
  <2>1. BusyOK([at |-> "end", obj |-> rooms, pid |-> None], objs)
    BY <1>0, <1>19 DEF EndRoomCmd, Commands, Members, NoObj
  <2> HIDE DEF MsgOK, LeavingOK, BusyOK
  <2>2. QED
    BY <1>19, <1>a, <1>b, <2>1 DEF EndRoomCmd, TypeOK
<1>20. ASSUME NEW s \in Sock, RoomEnded(s) PROVE Waits'
  BY <1>20, <1>a, <1>b, <1>e DEF RoomEnded, TypeOK
<1>21. ASSUME ApiEnd PROVE Waits'
  BY <1>21 DEF ApiEnd, Waits
<1>22. ASSUME NEW s \in Sock, AnswerLost(s) PROVE Waits'
  <2> HIDE DEF MsgOK, LeavingOK, BusyOK
  <2>1. QED
    BY <1>22, <1>a, <1>b, <1>c, <1>d, <1>e DEF AnswerLost, TypeOK
<1>23. QED
  BY <1>1, <1>2, <1>3, <1>4, <1>6, <1>7, <1>8, <1>9, <1>11, <1>12, <1>13, <1>14,
     <1>15, <1>16, <1>17, <1>18, <1>19, <1>20, <1>21, <1>22 DEF Next, Continue

\* Every step keeps the members of the room objects.
LEMMA MembersStep == ASSUME Shape, [Next]_vars PROVE Members'
<1> USE SyncRoomAssumption DEF Shape
<1>0. /\ objs \in Nat /\ Obj = 1..MaxObj /\ rooms \in Obj \cup {NoObj} /\ NoObj = 0
      /\ \A s \in Sock : msg[s] \in Msg
  BY DEF TypeOK, Obj, NoObj
<1>1. CASE UNCHANGED vars
  BY <1>1 DEF vars, Members
<1>2. ASSUME NEW s \in Sock, NEW p \in Pid, NEW r \in Role, NEW o \in 1..objs, Admit(s, p, r, o),
             UNCHANGED <<objs, rooms>>
      PROVE  Members'
  <2>1. [pid |-> p, role |-> r] # None
    BY DEF Client
  <2>2. /\ client' = [client EXCEPT ![s] = [pid |-> p, role |-> r]]
        /\ clients' = [clients EXCEPT ![o] = (@ \ SocksOf(o, p)) \cup {s}]
    BY <1>2 DEF Admit
  <2>3. QED
    BY <1>0, <1>2, <2>1, <2>2 DEF Members, TypeOK
<1>3. ASSUME \A t \in Sock : client[t] # None => client'[t] # None,
             \A o \in Obj : clients'[o] \subseteq clients[o],
             UNCHANGED objs, rooms' = rooms \/ rooms' = NoObj
      PROVE  Members'
  BY <1>0, <1>3 DEF Members, TypeOK
<1>4. ASSUME NEW s \in Sock, NEW a \in RoleHints \cup Pid, FirstMessage(s, a) PROVE Members'
  BY <1>3, <1>4 DEF FirstMessage
<1>5. ASSUME NEW s \in Sock, Loaded(s) PROVE Members'
  BY <1>0, <1>5 DEF Loaded, Members
<1>6. ASSUME NEW s \in Sock, Routed(s) PROVE Members'
  BY <1>3, <1>6 DEF Routed
<1>7. ASSUME NEW s \in Sock, Inserted(s) PROVE Members'
  <2>1. s \in Pid /\ msg[s].role \in Role /\ msg[s].obj \in 1..objs
    BY <1>0, <1>7 DEF Inserted, Waits, Awaiting, Msg, Pid
  <2>2. QED
    BY <1>2, <1>7, <2>1 DEF Inserted
<1>8. ASSUME NEW s \in Sock, Selected(s) PROVE Members'
  BY <1>3, <1>8 DEF Selected, TypeOK
<1>9. ASSUME NEW s \in Sock, Updated(s) PROVE Members'
  <2>1. msg[s].ask \in Pid /\ msg[s].role \in Role /\ msg[s].obj \in 1..objs
    BY <1>0, <1>9 DEF Updated, Waits, Awaiting, Msg
  <2>2. QED
    BY <1>2, <1>9, <2>1 DEF Updated, Role
<1>10. ASSUME NEW s \in Sock, Close(s) PROVE Members'
  BY <1>3, <1>10 DEF Close
<1>11. ASSUME NEW s \in Sock, NEW how, RemoveClient(s, how), UNCHANGED <<rooms, objs, client>>
       PROVE  Members'
  <2>1. \A o \in Obj : clients'[o] \subseteq clients[o]
    <3>1. clients' = [clients EXCEPT ![rooms] = @ \ {s}] \/ clients' = clients
      BY <1>11 DEF RemoveClient
    <3>2. QED
      BY <3>1 DEF TypeOK
  <2>2. QED
    BY <1>3, <1>11, <2>1
<1>12. ASSUME NEW s \in Sock, Leave(s) PROVE Members'
  BY <1>11, <1>12 DEF Leave
<1>13. ASSUME NEW s \in Sock, GraceOver(s) PROVE Members'
  BY <1>11, <1>13 DEF GraceOver
<1>14. ASSUME Restart PROVE Members'
  BY <1>14 DEF Restart, Members, Obj, NoObj
<1>15. ASSUME NEW g \in Sock, client[g] \in Client,
              client' = [client EXCEPT ![g].role = "host"]
       PROVE  \A t \in Sock : client[t] # None => client'[t] # None
  <2>1. [client[g] EXCEPT !.role = "host"] \in Client
    BY <1>15 DEF Client, Role
  <2>2. QED
    BY <1>15, <2>1 DEF TypeOK
<1>16. ASSUME NEW s \in Sock, Promote(s) PROVE Members'
  <2>1. CASE Restart
    BY <1>14, <2>1
  <2>2. ASSUME NEW g \in GuestsIn(leaving[s].obj), client' = [client EXCEPT ![g].role = "host"],
               UNCHANGED <<rooms, objs, clients>>
        PROVE  Members'
    <3>1. g \in Sock /\ client[g] \in Client
      BY <1>0, <1>16 DEF Promote, GuestsIn, TypeOK, Waits, Members
    <3>2. QED
      BY <1>3, <1>15, <2>2, <3>1
  <2>3. QED
    BY <1>16, <2>1, <2>2 DEF Promote
<1>17. ASSUME NEW s \in Sock, Demote(s) PROVE Members'
  BY <1>3, <1>17 DEF Demote
<1>18. ASSUME NEW s \in Sock, PartnerLeft(s) PROVE Members'
  BY <1>3, <1>18 DEF PartnerLeft
<1>19. ASSUME NEW s \in Sock, HostTransferCmd(s) PROVE Members'
  <2>1. PICK g \in GuestsIn(rooms) :
          client' = [client EXCEPT ![s].role = "guest", ![g].role = "host"]
    BY <1>19 DEF HostTransferCmd
  <2>2. g \in Sock /\ client[g] \in Client /\ client[s] \in Client
    BY <1>0, <1>19 DEF HostTransferCmd, Commands, GuestsIn, TypeOK, Members
  <2>3. \A t \in Sock : t \notin {s, g} => client'[t] = client[t]
    BY <2>1, <2>2 DEF TypeOK
  <2>4. client'[s] \in Client /\ client'[g] \in Client
    BY <2>1, <2>2 DEF TypeOK, Client, Role
  <2>5. QED
    BY <1>3, <1>19, <2>3, <2>4 DEF HostTransferCmd
<1>20. ASSUME NEW s \in Sock, Transferred(s) PROVE Members'
  BY <1>3, <1>20 DEF Transferred
<1>21. ASSUME NEW s \in Sock, EndRoomCmd(s) PROVE Members'
  BY <1>3, <1>21 DEF EndRoomCmd
<1>22. ASSUME NEW s \in Sock, RoomEnded(s) PROVE Members'
  BY <1>3, <1>22 DEF RoomEnded
<1>23. ASSUME ApiEnd PROVE Members'
  BY <1>3, <1>23 DEF ApiEnd
<1>24. ASSUME NEW s \in Sock, AnswerLost(s) PROVE Members'
  BY <1>3, <1>24 DEF AnswerLost
<1>25. QED
  BY <1>1, <1>4, <1>5, <1>6, <1>7, <1>8, <1>9, <1>10, <1>12, <1>13, <1>14, <1>16, <1>17,
     <1>18, <1>19, <1>20, <1>21, <1>22, <1>23, <1>24 DEF Next, Continue

\* Shape holds of every initial state, and so always.
LEMMA ShapeAlways == Spec => []Shape
<1>1. Init => Shape
  <2> SUFFICES ASSUME Init PROVE Shape
    OBVIOUS
  <2>1. TypeOK
    <3>1. row \in [Pid -> Row \cup {None}]
      <4>1. [role |-> "host", active |-> TRUE] \in Row
        BY DEF Row, Role
      <4>2. \A p \in Pid : row[p] = [role |-> "host", active |-> TRUE] \/ row[p] = None
        BY DEF Init
      <4>3. row = [p \in Pid |-> row[p]]
        BY DEF Init
      <4>4. QED
        BY <4>1, <4>2, <4>3
    <3>2. rooms \in Obj \cup {NoObj} /\ objs \in 0..MaxObj
      BY SyncRoomAssumption DEF Init
    <3>3. ended \in BOOLEAN
      BY Zenon DEF Init
    <3>4. QED
      BY <3>1, <3>2, <3>3, IdleTypes DEF Init, TypeOK
  <2>2. Waits
    BY DEF Init, Waits, IdleMsg, IdleLeaving, IdleBusy, Awaiting
  <2>3. Members
    BY DEF Init, Members, Obj, NoObj
  <2>4. QED
    BY <2>1, <2>2, <2>3 DEF Shape
<1>2. Shape /\ [Next]_vars => Shape'
  BY TypeStep, WaitsStep, MembersStep DEF Shape
<1>3. QED
  BY <1>1, <1>2, PTL DEF Spec

\* The variables of the sync service and the rows of the table keep the types the code
\* gives them, whatever interleaves.
THEOREM TypeCorrect == Spec => []TypeOK
<1>1. Shape => TypeOK
  BY DEF Shape
<1>2. QED
  BY <1>1, ShapeAlways, PTL

-----------------------------------------------------------------------------
(* The host seat. *)

\* A step changes one row at most, and only to a table the index allows.
LEMMA RowStep ==
  ASSUME Shape, [Next]_vars
  PROVE  \/ UNCHANGED row
         \/ /\ RoomOneHost(row')
            /\ \E p \in Pid : \A q \in Pid : q # p => row'[q] = row[q]
<1> USE DEF Shape
<1> DEFINE Goal == \/ UNCHANGED row
                   \/ /\ RoomOneHost(row')
                      /\ \E p \in Pid : \A q \in Pid : q # p => row'[q] = row[q]
<1>0. /\ row \in [Pid -> Row \cup {None}]
      /\ \A s \in Sock : msg[s] \in Msg
  BY DEF TypeOK
<1>1. ASSUME NEW p \in Pid, NEW r, Commits(SetRole(p, r)) PROVE Goal
  BY <1>0, <1>1 DEF Commits, SetRole
<1>2. ASSUME NEW p \in Pid, NEW b, Commits(SetActive(p, b)) PROVE Goal
  BY <1>0, <1>2 DEF Commits, SetActive
<1>3. ASSUME NEW s \in Sock, NEW a, NEW o, Enter(s, a, o) PROVE Goal
  <2>1. CASE a \in RoleHints
    <3>1. UNCHANGED row \/ \E new : Commits([row EXCEPT ![s] = new])
      BY <1>3, <2>1 DEF Enter, EnterJoin, Fails
    <3>2. QED
      BY <1>0, <3>1 DEF Commits, Pid
  <2>2. CASE a \notin RoleHints
    BY <1>3, <2>2 DEF Enter, EnterReconnect
  <2>3. QED
    BY <2>1, <2>2
<1>4. ASSUME NEW s \in Sock, NEW how, RemoveClient(s, how) PROVE Goal
  <2>1. CASE rooms # NoObj /\ s \in clients[rooms]
    <3>1. client[s].pid \in Pid
      BY <2>1 DEF TypeOK, Members, Client
    <3>2. UNCHANGED row \/ Commits(SetActive(client[s].pid, FALSE))
      BY <1>4, <2>1 DEF RemoveClient, Fails
    <3>3. QED
      BY <1>2, <3>1, <3>2
  <2>2. CASE ~(rooms # NoObj /\ s \in clients[rooms])
    BY <1>4, <2>2 DEF RemoveClient
  <2>3. QED
    BY <2>1, <2>2
<1>5. CASE UNCHANGED row
  BY <1>5
<1>6. ASSUME NEW s \in Sock, NEW a \in RoleHints \cup Pid, FirstMessage(s, a) PROVE Goal
  BY <1>3, <1>5, <1>6 DEF FirstMessage
<1>7. ASSUME NEW s \in Sock, Routed(s) PROVE Goal
  BY <1>3, <1>7 DEF Routed
<1>8. ASSUME NEW s \in Sock, Selected(s) PROVE Goal
  <2>1. msg[s].ask \in Pid
    BY <1>8 DEF Selected, Waits
  <2>2. UNCHANGED row \/ Commits(SetActive(msg[s].ask, TRUE))
    BY <1>8 DEF Selected, Fails
  <2>3. QED
    BY <1>2, <2>1, <2>2
<1>9. ASSUME NEW s \in Sock, Leave(s) \/ GraceOver(s) PROVE Goal
  BY <1>4, <1>9 DEF Leave, GraceOver
<1>10. ASSUME NEW s \in Sock, Promote(s) PROVE Goal
  <2>1. \A g \in GuestsIn(leaving[s].obj) : client[g].pid \in Pid
    <3>1. leaving[s].obj \in Obj
      <4>1. leaving[s].at # "idle"
        BY <1>10 DEF Promote
      <4>2. leaving[s].obj \in 1..objs
        BY <4>1 DEF Waits
      <4>3. QED
        BY <4>2, SyncRoomAssumption DEF TypeOK, Obj
    <3>2. \A g \in GuestsIn(leaving[s].obj) : client[g] \in Client
      BY <3>1 DEF GuestsIn, TypeOK, Members
    <3>3. QED
      BY <3>2 DEF Client
  <2>2. UNCHANGED row \/ \E g \in GuestsIn(leaving[s].obj) : Commits(SetRole(client[g].pid, "host"))
    BY <1>10 DEF Promote, Restart, Fails
  <2>3. QED
    BY <1>1, <2>1, <2>2
<1>11. ASSUME NEW s \in Sock, Demote(s) PROVE Goal
  <2>1. client[s].pid \in Pid
    BY <1>11 DEF Demote, Waits, TypeOK, Client
  <2>2. QED
    BY <1>1, <1>11, <2>1 DEF Demote, Fails
<1>12. ASSUME NEW s \in Sock, HostTransferCmd(s) PROVE Goal
  <2>1. client[s].pid \in Pid
    BY <1>12 DEF HostTransferCmd, Commands, TypeOK, Client
  <2>2. QED
    BY <1>1, <1>12, <2>1 DEF HostTransferCmd, Fails
<1>13. ASSUME NEW s \in Sock, Transferred(s) PROVE Goal
  <2>1. busy[s].pid \in Pid
    BY <1>13 DEF Transferred, Waits
  <2>2. QED
    BY <1>1, <1>13, <2>1 DEF Transferred, Fails
<1>14. ASSUME NEW s \in Sock,
              \/ Loaded(s) \/ Inserted(s) \/ Updated(s) \/ Close(s) \/ PartnerLeft(s)
              \/ EndRoomCmd(s) \/ RoomEnded(s) \/ AnswerLost(s)
       PROVE  Goal
  BY <1>14 DEF Loaded, Inserted, Updated, Close, PartnerLeft, EndRoomCmd, RoomEnded, AnswerLost
<1>15. CASE ApiEnd \/ Restart
  BY <1>15 DEF ApiEnd, Restart
<1>16. CASE UNCHANGED vars
  BY <1>16 DEF vars
<1>17. QED
  BY <1>6, <1>7, <1>8, <1>9, <1>10, <1>11, <1>12, <1>13, <1>14, <1>15, <1>16 DEF Next, Continue

\* A changed row moves the seat as the lock allows, or not at all.
LEMMA SeatStep ==
  ASSUME RoomOneHost(row), RoomOneHost(row'),
         NEW p \in Pid, \A q \in Pid : q # p => row'[q] = row[q]
  PROVE  [HostSeat!Next]_(SeatOf(row))
<1> DEFINE old == SeatOf(row)
           new == SeatOf(row')
<1>1. /\ \A q \in Pid : q # p => (q \in new <=> q \in old)
      /\ old \subseteq Pid /\ new \subseteq Pid
      /\ \A q, r \in old : q = r
      /\ \A q, r \in new : q = r
  BY DEF SeatOf, RoomOneHost
<1> HIDE DEF old, new
<1>2. CASE p \in new /\ p \notin old
  <2>1. old = {} /\ new = {p}
    BY <1>1, <1>2
  <2>2. QED
    BY <2>1 DEF old, new, HostSeat!Next, HostSeat!Take
<1>3. CASE p \notin new /\ p \in old
  <2>1. old # {} /\ new = {}
    BY <1>1, <1>3
  <2>2. QED
    BY <2>1 DEF old, new, HostSeat!Next, HostSeat!Free
<1>4. CASE p \in new <=> p \in old
  <2>1. new = old
    BY <1>1, <1>4
  <2>2. QED
    BY <2>1 DEF old, new
<1>5. QED
  BY <1>2, <1>3, <1>4

\* At every moment one row at most holds the host seat of the room, and the seat changes
\* hands only by being free between: promotions, transfers, joins, reconnects and crashes
\* cannot bring the table to anything else (001_init.sql:163).
THEOREM SeatLocked == Spec => SeatIsLock
<1>1. Init => RoomOneHost(row) /\ HostSeat!Init
  <2> SUFFICES ASSUME Init PROVE RoomOneHost(row) /\ HostSeat!Init
    OBVIOUS
  <2>1. \A p \in Pid : row[p] = [role |-> "host", active |-> TRUE] => p = Seat
    <3>1. [role |-> "host", active |-> TRUE] \in Row
      BY DEF Row, Role
    <3>2. [role |-> "host", active |-> TRUE] # None
      BY <3>1, SyncRoomAssumption
    <3>3. \A p \in Pid : p # Seat => row[p] = None
      BY DEF Init
    <3>4. QED
      BY <3>2, <3>3
  <2>2. RoomOneHost(row)
    BY <2>1 DEF RoomOneHost
  <2>3. SeatOf(row) = {} \/ SeatOf(row) = {Seat}
    BY <2>1 DEF SeatOf
  <2>4. QED
    BY <2>2, <2>3 DEF HostSeat!Init, Pid
<1>2. Shape /\ RoomOneHost(row) /\ [Next]_vars => RoomOneHost(row)' /\ [HostSeat!Next]_(SeatOf(row))
  <2> SUFFICES ASSUME Shape, RoomOneHost(row), [Next]_vars
               PROVE  RoomOneHost(row') /\ [HostSeat!Next]_(SeatOf(row))
    OBVIOUS
  <2>1. CASE UNCHANGED row
    BY <2>1 DEF SeatOf
  <2>2. CASE /\ RoomOneHost(row')
             /\ \E p \in Pid : \A q \in Pid : q # p => row'[q] = row[q]
    BY <2>2, SeatStep
  <2>3. QED
    BY <2>1, <2>2, RowStep
<1>3. QED
  BY <1>1, <1>2, ShapeAlways, PTL DEF Spec, SeatIsLock, HostSeat!Spec

-----------------------------------------------------------------------------
(* Members whose socket has closed, and members who lose their seat. *)

\* Every step keeps the removal of every closed member pending.
LEMMA PendingStep == ASSUME Shape, RemovalPending, [Next]_vars PROVE RemovalPending'
<1> USE SyncRoomAssumption DEF Shape
<1>0. /\ objs \in Nat /\ Obj = 1..MaxObj /\ rooms \in Obj \cup {NoObj} /\ NoObj = 0
      /\ clients \in [Obj -> SUBSET Sock] /\ conn \in [Sock -> {"new", "open", "closing", "closed"}]
  BY DEF TypeOK, Obj, NoObj
<1>1. CASE UNCHANGED vars
  BY <1>1 DEF vars, RemovalPending
<1>2. ASSUME rooms' = rooms \/ rooms' = NoObj, \A o \in Obj : clients'[o] \subseteq clients[o],
             \A t \in Sock : conn'[t] = "closed" => conn[t] = "closed",
             grace \subseteq grace', late \subseteq late'
      PROVE  RemovalPending'
  BY <1>0, <1>2 DEF RemovalPending
<1>3. ASSUME NEW s \in Sock, NEW p, NEW r, NEW o, Admit(s, p, r, o), UNCHANGED <<rooms, conn, grace>>
      PROVE  RemovalPending'
  <2>1. /\ clients' = [clients EXCEPT ![o] = (@ \ SocksOf(o, p)) \cup {s}]
        /\ late' = IF conn[s] = "closed" THEN late \cup {s} ELSE late
    BY <1>3 DEF Admit
  <2>2. QED
    BY <1>0, <1>3, <2>1 DEF RemovalPending
<1>4. ASSUME NEW S, conn' = Closing(S) PROVE \A t \in Sock : conn'[t] = "closed" => conn[t] = "closed"
  BY <1>0, <1>4 DEF Closing
<1>5. ASSUME NEW s \in Sock, NEW a \in RoleHints \cup Pid, FirstMessage(s, a) PROVE RemovalPending'
  <2>1. \A t \in Sock : conn'[t] = "closed" => conn[t] = "closed"
    BY <1>0, <1>5 DEF FirstMessage
  <2>2. UNCHANGED <<rooms, clients, grace, late>>
    BY <1>5 DEF FirstMessage
  <2>3. QED
    BY <1>2, <2>1, <2>2
<1>6. ASSUME NEW s \in Sock, Loaded(s) PROVE RemovalPending'
  <2>1. rooms' \in Obj /\ rooms' > objs /\ UNCHANGED clients
    BY <1>0, <1>6 DEF Loaded
  <2>2. QED
    BY <2>1 DEF RemovalPending, Members
<1>7. ASSUME NEW s \in Sock, Inserted(s) \/ Updated(s) PROVE RemovalPending'
  BY <1>3, <1>7 DEF Inserted, Updated
<1>8. ASSUME NEW s \in Sock, Selected(s) PROVE RemovalPending'
  <2>1. \A o \in Obj : clients'[o] \subseteq clients[o]
    <3>1. \E S : clients' = [clients EXCEPT ![msg[s].obj] = @ \ S]
      BY <1>8 DEF Selected
    <3>2. QED
      BY <1>0, <3>1
  <2>2. \A t \in Sock : conn'[t] = "closed" => conn[t] = "closed"
    BY <1>4, <1>8 DEF Selected
  <2>3. UNCHANGED <<rooms, grace, late>>
    BY <1>8 DEF Selected
  <2>4. QED
    BY <1>2, <2>1, <2>2, <2>3
<1>9. ASSUME NEW s \in Sock, Close(s) PROVE RemovalPending'
  <2>1. /\ \A t \in Sock : conn'[t] = "closed" => t = s \/ conn[t] = "closed"
        /\ grace \subseteq grace' /\ (client[s] # None => s \in grace')
        /\ UNCHANGED <<rooms, clients, late>>
    BY <1>0, <1>9 DEF Close
  <2>2. \A o \in Obj : s \in clients[o] => client[s] # None
    BY DEF Members
  <2>3. QED
    BY <1>0, <2>1, <2>2 DEF RemovalPending
<1>10. ASSUME NEW s \in Sock, Leave(s) PROVE RemovalPending'
  <2>1. \A o \in Obj : clients'[o] \subseteq clients[o]
    <3>1. clients' = [clients EXCEPT ![rooms] = @ \ {s}] \/ clients' = clients
      BY <1>10 DEF Leave, RemoveClient
    <3>2. QED
      BY <1>0, <3>1
  <2>2. UNCHANGED <<rooms, conn, grace, late>>
    BY <1>10 DEF Leave
  <2>3. QED
    BY <1>2, <2>1, <2>2
<1>11. ASSUME NEW s \in Sock, GraceOver(s) PROVE RemovalPending'
  <2>1. /\ grace' = grace \ {s} /\ UNCHANGED <<rooms, conn, late>>
        /\ \/ clients' = [clients EXCEPT ![rooms] = @ \ {s}]
           \/ ~(rooms # NoObj /\ s \in clients[rooms]) /\ UNCHANGED clients
    BY <1>11 DEF GraceOver, RemoveClient
  <2>2. QED
    BY <1>0, <2>1 DEF RemovalPending
<1>12. ASSUME Restart PROVE RemovalPending'
  BY <1>12 DEF Restart, RemovalPending
<1>13. ASSUME NEW s \in Sock, Promote(s) PROVE RemovalPending'
  <2>1. UNCHANGED <<rooms, clients, conn, grace, late>> \/ Restart
    BY <1>13 DEF Promote
  <2>2. QED
    BY <1>2, <1>12, <2>1
<1>14. ASSUME NEW s \in Sock, RoomEnded(s) PROVE RemovalPending'
  BY <1>14 DEF RoomEnded, RemovalPending
<1>15. ASSUME NEW s \in Sock,
              \/ Routed(s) \/ Demote(s) \/ PartnerLeft(s) \/ HostTransferCmd(s)
              \/ Transferred(s) \/ EndRoomCmd(s) \/ AnswerLost(s)
       PROVE  RemovalPending'
  <2>1. UNCHANGED <<rooms, clients, conn, grace, late>>
    BY <1>15 DEF Routed, Demote, PartnerLeft, HostTransferCmd, Transferred, EndRoomCmd, AnswerLost
  <2>2. QED
    BY <1>2, <2>1
<1>16. CASE ApiEnd
  BY <1>2, <1>16 DEF ApiEnd
<1>17. QED
  BY <1>1, <1>5, <1>6, <1>7, <1>8, <1>9, <1>10, <1>11, <1>12, <1>13, <1>14, <1>15, <1>16
  DEF Next, Continue

\* No member of the live room whose socket has closed is forgotten: its removal is armed,
\* but for the sockets that were admitted only after they had closed (line 678).
THEOREM ClosedMembersPend == Spec => []RemovalPending
<1>1. Init => RemovalPending
  BY DEF Init, RemovalPending
<1>2. Shape /\ RemovalPending /\ [Next]_vars => RemovalPending'
  BY PendingStep
<1>3. QED
  BY <1>1, <1>2, ShapeAlways, PTL DEF Spec

\* A socket that is yet to be admitted.
Unborn(t) == conn[t] = "new" \/ msg[t].at \in Awaiting \cup {"rejected"}

\* Nobody knows, asks for or holds the participant id of such a socket; nothing waits for a
\* socket that was never opened; and a timer is armed once its socket has closed.
Fresh ==
  /\ \A t \in Sock : Unborn(t) =>
       /\ t \notin welcomed
       /\ \A s \in Sock : /\ client[s] # None => client[s].pid # t
                          /\ msg[s].at \in Awaiting => msg[s].ask # t
  /\ \A s \in Sock : conn[s] = "new" => msg[s].at = "idle"
  /\ \A s \in grace : conn[s] = "closed"

\* Every step keeps the participant ids fresh.
LEMMA FreshStep == ASSUME Shape, Fresh, [Next]_vars PROVE Fresh'
<1> USE SyncRoomAssumption DEF Shape
<1>0. /\ conn \in [Sock -> {"new", "open", "closing", "closed"}]
      /\ msg \in [Sock -> Msg]
      /\ client \in [Sock -> Client \cup {None}]
      /\ \A s \in Sock : msg[s] \in Msg
      /\ grace \subseteq Sock
      /\ "idle" \notin Awaiting /\ "done" \notin Awaiting /\ "refused" \notin Awaiting
  BY DEF TypeOK, Awaiting
<1> DEFINE
  \* No socket is unborn that was not, none is new again, and no removal is armed early.
  Ages == /\ \A t \in Sock : Unborn(t)' => Unborn(t)
          /\ \A t \in Sock : conn'[t] = "new" => conn[t] = "new" /\ msg'[t].at \in {"idle", msg[t].at}
          /\ \A t \in grace' : conn'[t] = "closed"
  \* No client object is given a participant id.
  SamePids == \A t \in Sock : client'[t] # None => client[t] # None /\ client'[t].pid = client[t].pid
  \* Nobody asks for a participant that is not known.
  SameAsks == \A t \in Sock : msg'[t].at \in Awaiting =>
                 \/ msg[t].at \in Awaiting /\ msg'[t].ask = msg[t].ask
                 \/ \A u \in Sock : Unborn(u) => msg'[t].ask # u
<1>1. CASE UNCHANGED vars
  BY <1>1 DEF vars, Fresh, Unborn
<1>2. ASSUME Ages, SamePids, SameAsks, welcomed' = welcomed PROVE Fresh'
  BY <1>2 DEF Fresh
<1>3. ASSUME NEW s \in Sock, NEW p, NEW r, NEW o, Admit(s, p, r, o), UNCHANGED <<conn, grace>>,
             msg[s].at \in Awaiting, p = s \/ p = msg[s].ask
      PROVE  Fresh'
  <2>1. /\ client' = [client EXCEPT ![s] = [pid |-> p, role |-> r]]
        /\ msg' = [msg EXCEPT ![s] = [IdleMsg EXCEPT !.at = "done"]]
        /\ welcomed' \subseteq welcomed \cup {p}
    BY <1>3 DEF Admit
  <2>2. /\ msg'[s].at = "done"
        /\ \A t \in Sock : t # s => msg'[t] = msg[t] /\ client'[t] = client[t]
        /\ client'[s].pid = p
        /\ conn[s] # "new"
    BY <1>0, <1>3, <2>1 DEF IdleMsg, Fresh
  <2>3. \A t \in Sock : Unborn(t)' => t # s /\ Unborn(t) /\ t # p
    BY <1>0, <1>3, <2>2 DEF Unborn, Fresh
  <2>4. QED
    BY <1>0, <1>3, <2>1, <2>2, <2>3 DEF Fresh
<1>4. ASSUME NEW s \in Sock, NEW a \in RoleHints \cup Pid, FirstMessage(s, a) PROVE Fresh'
  <2>1. PICK m : msg' = [msg EXCEPT ![s] = m] /\ (m.at \in Awaiting => m.ask = a)
    <3>1. CASE rooms # NoObj /\ Enter(s, a, rooms)
      <4>1. rooms \in 1..objs
        BY <3>1 DEF Members, TypeOK, Obj, NoObj
      <4>2. QED
        BY <3>1, <4>1, EnterWaits
    <3>2. CASE msg' = [msg EXCEPT ![s] = [IdleMsg EXCEPT !.at = "load", !.ask = a]]
      <4>1. [IdleMsg EXCEPT !.at = "load", !.ask = a].ask = a
        BY DEF IdleMsg
      <4>2. QED
        BY <3>2, <4>1
    <3>3. CASE msg' = [msg EXCEPT ![s] = [IdleMsg EXCEPT !.at = "done"]]
      <4>1. [IdleMsg EXCEPT !.at = "done"].at \notin Awaiting
        BY <1>0 DEF IdleMsg
      <4>2. QED
        BY <3>3, <4>1
    <3>4. QED
      BY <1>4, <3>1, <3>2, <3>3 DEF FirstMessage
  <2>2. /\ Unborn(s)
        /\ \E c \in {"open", "closing"} : conn' = [conn EXCEPT ![s] = c]
        /\ conn[s] \in {"new", "open"}
        /\ UNCHANGED <<client, grace, welcomed>>
    BY <1>4 DEF FirstMessage, Unborn
  <2>3. \A u \in Sock : Unborn(u) => a # u
    BY <1>4 DEF FirstMessage, Fresh, Pid
  <2>4. Ages
    BY <1>0, <2>1, <2>2 DEF Fresh, Unborn
  <2>5. SameAsks
    BY <1>0, <2>1, <2>3
  <2>6. QED
    BY <1>2, <2>2, <2>4, <2>5
<1>5. ASSUME NEW s \in Sock, NEW m, msg' = [msg EXCEPT ![s] = m],
             msg[s].at \in Awaiting, m.at \in Awaiting => m.ask = msg[s].ask,
             \A t \in Sock : conn'[t] = "new" => conn[t] = "new",
             \A t \in Sock : conn[t] = "closed" => conn'[t] = "closed",
             UNCHANGED <<client, grace, welcomed>>
      PROVE  Fresh'
  BY <1>0, <1>2, <1>5 DEF Fresh, Unborn
<1>6. ASSUME NEW s \in Sock, Loaded(s) PROVE Fresh'
  <2>1. [msg[s] EXCEPT !.at = "route", !.obj = objs'].ask = msg[s].ask
    BY <1>0 DEF Msg
  <2>2. msg[s].at \in Awaiting
    BY <1>6 DEF Loaded, Awaiting
  <2>3. PICK m : m = [msg[s] EXCEPT !.at = "route", !.obj = objs']
    OBVIOUS
  <2>4. msg' = [msg EXCEPT ![s] = m]
    BY <1>6, <2>3 DEF Loaded
  <2>5. UNCHANGED <<conn, client, grace, welcomed>>
    BY <1>6 DEF Loaded
  <2>6. QED
    BY <1>5, <2>1, <2>2, <2>3, <2>4, <2>5
<1>7. ASSUME NEW s \in Sock, Routed(s) PROVE Fresh'
  <2>1. msg[s].at \in Awaiting /\ msg[s].ask \in RoleHints \cup Pid /\ msg[s].obj \in 1..objs
    BY <1>0, <1>7 DEF Routed, Waits, Awaiting, Msg
  <2>2. PICK m : msg' = [msg EXCEPT ![s] = m] /\ (m.at \in Awaiting => m.ask = msg[s].ask)
    <3>1. PICK a \in RoleHints \cup Pid, o \in 1..objs : a = msg[s].ask /\ Enter(s, a, o)
      BY <1>7, <2>1 DEF Routed
    <3>2. TypeOK
      BY DEF Shape
    <3>3. \E m \in Msg :
           /\ msg' = [msg EXCEPT ![s] = m]
           /\ m.at \in Awaiting => m.ask = a /\ m.ask # None /\ m.obj \in 1..objs /\ m.at # "update"
           /\ m.at = "select" => m.ask \in Pid
      <4> HIDE SyncRoomAssumption DEF Shape
      <4>1. QED
        BY <3>1, <3>2, EnterWaits
    <3>4. QED
      BY <3>1, <3>3
  <2>3. QED
    BY <1>5, <1>7, <2>1, <2>2 DEF Routed
<1>8. ASSUME NEW s \in Sock, Inserted(s) \/ Updated(s) PROVE Fresh'
  BY <1>3, <1>8 DEF Inserted, Updated, Awaiting
<1>9. ASSUME NEW S, conn' = Closing(S)
      PROVE  \A t \in Sock : /\ conn'[t] = "new" => conn[t] = "new"
                             /\ conn[t] = "closed" => conn'[t] = "closed"
  BY <1>0, <1>9 DEF Closing
<1>10. ASSUME NEW s \in Sock, Selected(s) PROVE Fresh'
  <2>1. /\ msg[s].at = "select" /\ UNCHANGED <<client, grace, welcomed>>
        /\ \E S : conn' = Closing(S)
        /\ \/ msg' = [msg EXCEPT ![s] = [msg[s] EXCEPT !.at = "update"]]
           \/ msg' = [msg EXCEPT ![s] = [IdleMsg EXCEPT !.at = "refused"]]
    BY <1>10 DEF Selected
  <2>2. /\ [msg[s] EXCEPT !.at = "update"].ask = msg[s].ask
        /\ [IdleMsg EXCEPT !.at = "refused"].at \notin Awaiting
    BY <1>0 DEF Msg, IdleMsg
  <2>3. msg[s].at \in Awaiting
    BY <2>1 DEF Awaiting
  <2>4. QED
    BY <1>5, <1>9, <2>1, <2>2, <2>3
<1>11. ASSUME NEW s \in Sock, Close(s) PROVE Fresh'
  <2>1. /\ conn' = [conn EXCEPT ![s] = "closed"] /\ grace' \subseteq grace \cup {s}
        /\ UNCHANGED <<client, msg, welcomed>>
    BY <1>11 DEF Close
  <2>2. QED
    BY <1>0, <1>2, <2>1 DEF Fresh, Unborn
\* A step that leaves the messages, the sockets and every participant id alone.
<1>12. ASSUME SamePids, UNCHANGED <<conn, msg, welcomed>>, grace' \subseteq grace PROVE Fresh'
  BY <1>2, <1>12 DEF Fresh, Unborn
<1>13. ASSUME Restart PROVE Fresh'
  <2>1. \A t \in Sock : conn'[t] = "new" <=> conn[t] = "new"
    BY <1>0, <1>13 DEF Restart
  <2>2. \A t \in Sock : client'[t] = None /\ msg'[t].at = "idle"
    BY <1>13 DEF Restart, IdleMsg
  <2>3. grace' = {} /\ welcomed' = welcomed
    BY <1>13 DEF Restart
  <2>4. QED
    BY <1>0, <2>1, <2>2, <2>3 DEF Fresh, Unborn
<1>14. ASSUME NEW g \in Sock, NEW c, client[g] \in Client, c \in Client, c.pid = client[g].pid,
              client' = [client EXCEPT ![g] = c]
       PROVE  SamePids
  BY <1>0, <1>14
<1>15. ASSUME NEW s \in Sock, Promote(s) PROVE Fresh'
  <2>1. CASE Restart
    BY <1>13, <2>1
  <2>2. ASSUME NEW g \in GuestsIn(leaving[s].obj), client' = [client EXCEPT ![g].role = "host"],
               UNCHANGED <<conn, msg, welcomed, grace>>
        PROVE  Fresh'
    <3>1. leaving[s].obj \in Obj
      <4>1. leaving[s].at # "idle"
        BY <1>15 DEF Promote
      <4>2. leaving[s].obj \in 1..objs
        BY <4>1 DEF Waits
      <4>3. QED
        BY <4>2 DEF TypeOK, Obj
    <3>2. g \in Sock /\ client[g] \in Client
      BY <3>1 DEF GuestsIn, TypeOK, Members
    <3>3. [client[g] EXCEPT !.role = "host"] \in Client /\ [client[g] EXCEPT !.role = "host"].pid = client[g].pid
      BY <3>2 DEF Client, Role
    <3>4. QED
      BY <1>12, <1>14, <2>2, <3>2, <3>3
  <2>3. QED
    BY <1>15, <2>1, <2>2 DEF Promote
<1>16. ASSUME NEW s \in Sock, HostTransferCmd(s) PROVE Fresh'
  <2>1. PICK g \in GuestsIn(rooms) :
          client' = [client EXCEPT ![s].role = "guest", ![g].role = "host"]
    BY <1>16 DEF HostTransferCmd
  <2>2. g \in Sock /\ client[g] \in Client /\ client[s] \in Client
    BY <1>0, <1>16 DEF HostTransferCmd, Commands, GuestsIn, TypeOK, Members
  <2>3. \A t \in Sock : t \notin {s, g} => client'[t] = client[t]
    BY <1>0, <2>1, <2>2
  <2>4. client'[s].pid = client[s].pid /\ client'[g].pid = client[g].pid
    BY <1>0, <2>1, <2>2 DEF Client
  <2>5. SamePids
    BY <2>2, <2>3, <2>4
  <2>6. QED
    BY <1>12, <1>16, <2>5 DEF HostTransferCmd
<1>17. ASSUME NEW s \in Sock, Leave(s) \/ GraceOver(s) PROVE Fresh'
  BY <1>12, <1>17 DEF Leave, GraceOver
<1>18. ASSUME NEW s \in Sock, Demote(s) \/ PartnerLeft(s) \/ Transferred(s) \/ EndRoomCmd(s) PROVE Fresh'
  BY <1>12, <1>18 DEF Demote, PartnerLeft, Transferred, EndRoomCmd
<1>19. ASSUME NEW s \in Sock, RoomEnded(s) PROVE Fresh'
  <2>1. /\ \E S : conn' = Closing(S)
        /\ UNCHANGED <<client, msg, grace, welcomed>>
    BY <1>19 DEF RoomEnded
  <2>2. \A t \in Sock : /\ conn'[t] = "new" => conn[t] = "new"
                        /\ conn[t] = "closed" => conn'[t] = "closed"
    BY <1>9, <2>1
  <2>3. Ages
    BY <1>0, <2>1, <2>2 DEF Fresh, Unborn
  <2>4. QED
    BY <1>2, <2>1, <2>3
<1>20. ASSUME NEW s \in Sock, AnswerLost(s) PROVE Fresh'
  <2>1. CASE msg[s].at \in Awaiting /\ msg' = [msg EXCEPT ![s] = [IdleMsg EXCEPT !.at = "refused"]]
    <3>1. [IdleMsg EXCEPT !.at = "refused"].at \notin Awaiting
      BY <1>0 DEF IdleMsg
    <3>2. QED
      BY <1>5, <1>20, <2>1, <3>1 DEF AnswerLost
  <2>2. CASE UNCHANGED msg
    BY <1>12, <1>20, <2>2 DEF AnswerLost
  <2>3. QED
    BY <1>20, <2>1, <2>2 DEF AnswerLost
<1>21. CASE ApiEnd
  BY <1>12, <1>21 DEF ApiEnd
<1>22. QED
  BY <1>1, <1>4, <1>6, <1>7, <1>8, <1>10, <1>11, <1>13, <1>15, <1>16, <1>17, <1>18, <1>19,
     <1>20, <1>21 DEF Next, Continue

LEMMA FreshAlways == Spec => []Fresh
<1>1. Init => Fresh
  BY DEF Init, Fresh, IdleMsg, Awaiting
<1>2. Shape /\ Fresh /\ [Next]_vars => Fresh'
  BY FreshStep
<1>3. QED
  BY <1>1, <1>2, ShapeAlways, PTL DEF Spec

\* What a member loses its seat to.
Excused(s) ==
  \/ conn[s] = "closed"
  \/ Leave(s)
  \/ \E t \in Sock : msg[t].ask = client[s].pid /\ msg[t].at \in {"select", "update"}

LEMMA EvictionStep ==
  ASSUME Shape, Fresh, [Next]_vars, NEW s \in Sock,
         rooms # NoObj, rooms' = rooms, s \in clients[rooms] \ clients'[rooms]
  PROVE  Excused(s)
<1> USE DEF Shape
<1>0. rooms \in Obj /\ clients \in [Obj -> SUBSET Sock] /\ client[s] # None
  BY DEF TypeOK, Members
<1>1. clients' # clients
  OBVIOUS
<1>2. ASSUME NEW t \in Sock, Inserted(t) PROVE Excused(s)
  <2>1. clients' = [clients EXCEPT ![msg[t].obj] = (@ \ SocksOf(msg[t].obj, t)) \cup {t}]
    BY <1>2 DEF Inserted, Admit
  <2>2. client[s].pid = t
    BY <1>0, <2>1 DEF SocksOf
  <2>3. Unborn(t)
    BY <1>2 DEF Inserted, Unborn, Awaiting
  <2>4. QED
    BY <1>0, <2>2, <2>3 DEF Fresh
<1>3. ASSUME NEW t \in Sock, Selected(t) PROVE Excused(s)
  <2>1. clients' = [clients EXCEPT ![msg[t].obj] = @ \ SocksOf(msg[t].obj, msg[t].ask)]
    BY <1>3 DEF Selected
  <2>2. client[s].pid = msg[t].ask
    BY <1>0, <2>1 DEF SocksOf
  <2>3. QED
    BY <1>3, <2>2 DEF Selected, Excused
<1>4. ASSUME NEW t \in Sock, Updated(t) PROVE Excused(s)
  <2>1. clients' = [clients EXCEPT ![msg[t].obj] = (@ \ SocksOf(msg[t].obj, msg[t].ask)) \cup {t}]
    BY <1>4 DEF Updated, Admit
  <2>2. client[s].pid = msg[t].ask
    BY <1>0, <2>1 DEF SocksOf
  <2>3. QED
    BY <1>4, <2>2 DEF Updated, Excused
<1>5. ASSUME NEW t \in Sock, NEW how, RemoveClient(t, how) PROVE s = t
  <2>1. clients' = [clients EXCEPT ![rooms] = @ \ {t}] \/ clients' = clients
    BY <1>5 DEF RemoveClient
  <2>2. QED
    BY <1>0, <1>1, <2>1
<1>6. ASSUME NEW t \in Sock, Leave(t) PROVE Excused(s)
  BY <1>5, <1>6 DEF Leave, Excused
<1>7. ASSUME NEW t \in Sock, GraceOver(t) PROVE Excused(s)
  BY <1>5, <1>7 DEF GraceOver, Fresh, Excused
<1>8. ~Restart
  BY DEF Restart
<1>9. ASSUME NEW t \in Sock, NEW a, FirstMessage(t, a) PROVE FALSE
  BY <1>1, <1>9 DEF FirstMessage
<1>10. ASSUME NEW t \in Sock,
              \/ Loaded(t) \/ Routed(t) \/ Promote(t) \/ Demote(t) \/ PartnerLeft(t) \/ Transferred(t)
              \/ RoomEnded(t) \/ Close(t) \/ HostTransferCmd(t) \/ EndRoomCmd(t) \/ AnswerLost(t)
       PROVE  FALSE
  BY <1>1, <1>8, <1>10 DEF Loaded, Routed, Promote, Demote, PartnerLeft, Transferred, RoomEnded, Close,
     HostTransferCmd, EndRoomCmd, AnswerLost
<1>11. QED
  BY <1>1, <1>2, <1>3, <1>4, <1>6, <1>7, <1>8, <1>9, <1>10 DEF Next, Continue, ApiEnd, vars

\* While its room lives, nobody loses a seat in it but by its own leave, its own socket's
\* close, or a newer socket of the same participant (line 451).
THEOREM NobodyEvicted == Spec => NoEviction
<1>1. Shape /\ Fresh /\ [Next]_vars =>
        [\A s \in Sock :
           (rooms # NoObj /\ rooms' = rooms /\ s \in clients[rooms] \ clients'[rooms]) => Excused(s)]_vars
  BY EvictionStep
<1>2. QED
  BY <1>1, ShapeAlways, FreshAlways, PTL DEF Spec, NoEviction, Excused

\* A room that is ended and out of memory stays out: no late joiner, no continuation of an
\* old handler and no restart of the process puts it back (line 74).
LEMMA GoneStep == ASSUME Shape, Gone, [Next]_vars PROVE Gone'
<1> USE DEF Shape
<1>0. /\ msg \in [Sock -> Msg]
      /\ ended /\ rooms = NoObj /\ \A s \in Sock : msg[s].at # "load"
  BY DEF TypeOK, Gone
<1>1. CASE UNCHANGED <<ended, rooms, msg>>
  BY <1>1 DEF Gone
<1>2. ASSUME NEW s \in Sock, NEW m, msg' = [msg EXCEPT ![s] = m], m.at # "load", UNCHANGED <<ended, rooms>>
      PROVE  Gone'
  BY <1>0, <1>2 DEF Gone
<1>3. /\ [IdleMsg EXCEPT !.at = "done"].at # "load"
      /\ [IdleMsg EXCEPT !.at = "refused"].at # "load"
      /\ [IdleMsg EXCEPT !.at = "rejected"].at # "load"
      /\ IdleMsg.at # "load"
  BY DEF IdleMsg
<1>4. ASSUME NEW s \in Sock, NEW a, FirstMessage(s, a) PROVE Gone'
  <2>1. msg' = [msg EXCEPT ![s] = [IdleMsg EXCEPT !.at = "done"]] /\ UNCHANGED <<ended, rooms>>
    BY <1>0, <1>4 DEF FirstMessage, Loadable
  <2>2. QED
    BY <1>2, <1>3, <2>1
<1>5. ASSUME NEW s \in Sock, Routed(s) PROVE Gone'
  <2> DEFINE a == msg[s].ask
             o == msg[s].obj
  <2>1. CASE a \in RoleHints
    <3>1. \E r : \/ msg' = [msg EXCEPT ![s] = [at |-> "insert", ask |-> a, obj |-> o, role |-> r]]
                 \/ msg' = [msg EXCEPT ![s] = [IdleMsg EXCEPT !.at = "refused"]]
      BY <1>5, <2>1 DEF Routed, Enter, EnterJoin
    <3>2. QED
      BY <1>2, <1>3, <1>5, <3>1 DEF Routed
  <2>2. CASE a \notin RoleHints
    <3>1. \E r : \/ msg' = [msg EXCEPT ![s] = [at |-> "select", ask |-> a, obj |-> o, role |-> r]]
                 \/ msg' = [msg EXCEPT ![s] = [IdleMsg EXCEPT !.at = "rejected"]]
      BY <1>5, <2>2 DEF Routed, Enter, EnterReconnect
    <3>2. QED
      BY <1>2, <1>3, <1>5, <3>1 DEF Routed
  <2>3. QED
    BY <2>1, <2>2
<1>6. ASSUME NEW s \in Sock, Inserted(s) \/ Updated(s) PROVE Gone'
  BY <1>2, <1>3, <1>6 DEF Inserted, Updated, Admit
<1>7. ASSUME NEW s \in Sock, Selected(s) PROVE Gone'
  <2>1. /\ UNCHANGED <<ended, rooms>>
        /\ \/ msg' = [msg EXCEPT ![s] = [msg[s] EXCEPT !.at = "update"]]
           \/ msg' = [msg EXCEPT ![s] = [IdleMsg EXCEPT !.at = "refused"]]
    BY <1>7 DEF Selected
  <2>2. [msg[s] EXCEPT !.at = "update"].at # "load"
    BY <1>0 DEF Msg
  <2>3. QED
    BY <1>2, <1>3, <2>1, <2>2
<1>8. ASSUME Restart PROVE Gone'
  BY <1>0, <1>3, <1>8 DEF Restart, Gone
<1>9. ASSUME NEW s \in Sock, Promote(s) PROVE Gone'
  <2>1. UNCHANGED <<ended, rooms, msg>> \/ Restart
    BY <1>9 DEF Promote
  <2>2. QED
    BY <1>1, <1>8, <2>1
<1>10. ASSUME NEW s \in Sock, AnswerLost(s) PROVE Gone'
  <2>1. /\ UNCHANGED <<ended, rooms>>
        /\ msg' = msg \/ msg' = [msg EXCEPT ![s] = [IdleMsg EXCEPT !.at = "refused"]]
    BY <1>10 DEF AnswerLost
  <2>2. QED
    BY <1>1, <1>2, <1>3, <2>1
<1>11. ASSUME NEW s \in Sock, RoomEnded(s) PROVE Gone'
  BY <1>0, <1>1, <1>11 DEF RoomEnded
<1>12. ASSUME NEW s \in Sock,
              \/ Demote(s) \/ PartnerLeft(s) \/ Transferred(s) \/ Close(s) \/ Leave(s) \/ GraceOver(s)
       PROVE  Gone'
  BY <1>1, <1>12 DEF Demote, PartnerLeft, Transferred, Close, Leave, GraceOver
<1>13. \A s \in Sock : ~Loaded(s) /\ ~HostTransferCmd(s) /\ ~EndRoomCmd(s)
  BY <1>0 DEF Loaded, HostTransferCmd, EndRoomCmd, Commands
<1>14. ~ApiEnd
  BY <1>0 DEF ApiEnd
<1>15. CASE UNCHANGED vars
  BY <1>1, <1>15 DEF vars
<1>16. QED
  BY <1>4, <1>5, <1>6, <1>7, <1>8, <1>9, <1>10, <1>11, <1>12, <1>13, <1>14, <1>15 DEF Next, Continue

\* An ended room that has left memory never comes back (line 74).
THEOREM EndedStaysGone == Spec => NoResurrection
<1>1. Shape /\ [Next]_vars => [Gone => Gone']_vars
  BY GoneStep
<1>2. QED
  BY <1>1, ShapeAlways, PTL DEF Spec, NoResurrection

=============================================================================
