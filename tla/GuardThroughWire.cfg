CONSTANTS
  Word = 4
  Fuel = 60
  MaxCycles = 4
  Samples = {0, 1}
  Programs <- GuardThroughWire
SPECIFICATION Spec
INVARIANTS HardwareAgrees
CHECK_DEADLOCK FALSE
