CONSTANTS
  Viewer = {h, g}
  Guest = {g}
  MaxSession = 3
SPECIFICATION Spec
INVARIANT TypeOK 
PROPERTY NoLateSession AllShut
CHECK_DEADLOCK FALSE
