CONSTANTS
  A = a
  B = b
  Film = {f1}
  NoFilm = NoFilm
  Nobody = Nobody
  Saved = {"none"}
  MaxTries = 1
  MaxChan = 1
  MaxVisits = 3
SPECIFICATION Spec
INVARIANT TypeOK 
PROPERTY NoHeirOfAnEndedRoom SeatInherited
CHECK_DEADLOCK FALSE
