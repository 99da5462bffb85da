CONSTANTS
  Worker = {w1, w2}
  Concurrency = 1
  MaxJob = 3
  MaxAttempts = 0
  MaxFaults = 0
  File = {f1, f2}
  Overlap = FALSE
SPECIFICATION PipelineSpec
VIEW View
SYMMETRY Symmetry
INVARIANT PurgeLeavesNothing
CHECK_DEADLOCK FALSE
