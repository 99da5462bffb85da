CONSTANTS
  Worker = {w1, w2}
  Concurrency = 1
  MaxJob = 3
  MaxAttempts = 0
  MaxFaults = 1
  File = {f1, f2}
  Overlap = FALSE
SPECIFICATION PipelineSpec
VIEW View
SYMMETRY Symmetry
INVARIANTS PipelineTypeOK  
 
CHECK_DEADLOCK FALSE
