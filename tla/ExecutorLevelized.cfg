CONSTANTS
  in = in  a = a  b = b  c = c  r = r  A = A  B = B
  Wire = {in, a, b, c, r}
  Registered = {r}
  RegClock <- MCRegClock
  MaxVal = 1
  Value <- MCValue
  InitValue = 0
  None = None
  NoBody = NoBody
  Domain = {A, B}
  Body <- LevelizedBodies
  Apply <- MCApply
  External = {in}
  MaxTasks = 3
  MaxClk = 2
  Calls = {"tick", "poll"}
  Modes = {"Levelized"}
  PollOrders = {"Insertion"}
  OSCILLATION_THRESHOLD = 3
  MAX_DELTA_CYCLES = 6
SPECIFICATION Spec
INVARIANTS TypeOK ReadsSettled LockstepTicks
PROPERTIES DomainIsolation DeferredReadsAtOwnPreEdge RegisteredHeld
CHECK_DEADLOCK FALSE
