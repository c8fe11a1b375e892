CONSTANTS
  Word = 4
  Fuel = 60
  MaxCycles = 4
  Samples = {0, 1}
  Programs <- ReadStageUndeclared
SPECIFICATION Spec
INVARIANTS EmittedLegal
CHECK_DEADLOCK FALSE
