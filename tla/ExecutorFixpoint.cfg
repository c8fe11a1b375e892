CONSTANTS
  in = in  a = a  b = b  c = c  r = r  A = A  B = B
  Wire = {in, a, b, c, r}
  Registered = {r}
  RegClock <- MCRegClock
  MaxVal = 1
  Value <- MCValue
  InitValue = 0
  None = None
  NoBody = NoBody
  Domain = {A}
  Body <- FixpointBodies
  Apply <- MCApply
  External = {in}
  MaxTasks = 3
  MaxClk = 2
  Calls = {"tick", "advance"}
  Modes = {"Fixpoint", "Levelized"}
  PollOrders = {"Seeded"}
  OSCILLATION_THRESHOLD = 3
  MAX_DELTA_CYCLES = 6
SPECIFICATION FairSpec
INVARIANTS CombReadsSettled NoTickCompression NoDirtyLeft PlanCurrent PanicOnlyOnCycle
PROPERTIES SettleTerminates
CHECK_DEADLOCK FALSE
