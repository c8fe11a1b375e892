CONSTANTS
  Addr = {a1}
  Val = {0, 1}
  None = None
  R = 1
  W = 2
  READ_LAT = 2
  WRITE_LAT = 2
  Contents <- MCContents
  MaxEdges = 3
SPECIFICATION Spec
INVARIANTS TypeOK DataIsHistory ReadsAreHistory
PROPERTIES KeepsPromise
CHECK_DEADLOCK FALSE
