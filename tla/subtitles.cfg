CONSTANTS
  File = {a, b}
  Lobby = {a}
  Chunks = 2
  MaxChan = 2
  MaxTurns = 1
  Shared = TRUE
SPECIFICATION Spec
INVARIANTS WholeUnlessCut OffForBoth
PROPERTY Arrives
CHECK_DEADLOCK FALSE
