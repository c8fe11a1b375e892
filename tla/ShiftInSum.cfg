SPECIFICATION Spec
CONSTANTS
    MaxWidth = 4
    DEFAULT_LIT_WIDTH = 6
    Operands <- Samples
    Programs <- ShiftInSum
INVARIANT HardwareCovered
CHECK_DEADLOCK FALSE
