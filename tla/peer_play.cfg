CONSTANTS
  H = h
  G = g
  End = 1
  HostSeq = {5}
  MaxCmds = 2
  MaxChan = 2
SPECIFICATION Spec
PROPERTY SettledTogether PauseForBoth
CHECK_DEADLOCK FALSE
