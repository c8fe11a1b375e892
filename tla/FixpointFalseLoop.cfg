CONSTANTS
  in = in  a = a  b = b  c = c  r = r  A = A  B = B
  Wire = {in, a, b, c, r}
  Registered = {r}
  RegClock <- MCRegClock
  MaxVal = 1
  Value <- MCValue
  InitValue = 0
  None = None
  NoBody = NoBody
  Domain = {A}
  Body <- Fanout
  Apply <- MCApply
  External = {in}
  MaxTasks = 3
  MaxClk = 2
  Calls = {"tick"}
  Modes = {"Fixpoint"}
  PollOrders = {"Insertion"}
  OSCILLATION_THRESHOLD = 3
  MAX_DELTA_CYCLES = 6
SPECIFICATION Spec
INVARIANTS PanicOnlyOnCycle
CHECK_DEADLOCK FALSE
