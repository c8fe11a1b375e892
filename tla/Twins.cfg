CONSTANTS
  in = in  a = a  b = b  c = c  r = r  a2 = a2  b2 = b2  r2 = r2  A = A  B = B
  Wire = {in, a, b, r, a2, b2, r2}
  Registered = {r, r2}
  RegClock <- TwinRegClock
  MaxVal = 1
  Value <- MCValue
  InitValue = 0
  None = None
  NoBody = NoBody
  Domain = {A}
  Body <- TwinBodies
  OrderFree <- SafeTwinBodies
  twin <- MCtwin
  Apply <- MCApply
  External = {in}
  MaxTasks = 4
  MaxClk = 2
  Calls = {"tick"}
  Modes = {"Levelized", "Fixpoint"}
  PollOrders = {"Insertion"}
  OSCILLATION_THRESHOLD = 3
  MAX_DELTA_CYCLES = 6
SPECIFICATION Spec
CONSTRAINT TwinDesigns
INVARIANTS TwinsAgree
CHECK_DEADLOCK FALSE
