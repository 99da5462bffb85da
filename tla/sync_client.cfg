CONSTANTS
  Null = Null
  MaxSeq = 3
  MaxChan = 1
SPECIFICATION Spec
INVARIANTS Agrees VideoFollows
PROPERTY Comes
