CONSTANTS
  Sock = {s1, s2}
  Seat = Seat
  SeatTaken = {TRUE, FALSE}
  Strangers = {x}
  None = None
  RoleHints = {"host", "guest"}
  DbFaults = TRUE
  MaxObj = 2
  MaxAwait = 4
SPECIFICATION FairSpec
INVARIANT TypeOK RemovalPending
PROPERTIES NoEviction SeatIsLock NoResurrection ClosedMemberGoes
