CONSTANTS
  Loader = {l1}
  Lead = 1
  Period = 2
  RawRates <- MCRates
  RawPos <- MCPos
  Null = Null
  DbFaults = TRUE
  MaxObj = 1
  MaxTime = 4
  MaxSeq = 3
SPECIFICATION Spec
INVARIANTS TypeOK SavedIsPast SavedInTime
PROPERTIES  SeqNeverBack
