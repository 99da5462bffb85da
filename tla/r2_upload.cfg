CONSTANTS
  MaxUploads = 1
  Parts = 3
  Worker = {k1, k2}
  MaxRange = 2
  MaxFaults = 2
SPECIFICATION Spec
INVARIANT TypeOK WholeParts ShownIsWhole
PROPERTY UploadEnds PlayedWhole
CHECK_DEADLOCK FALSE
