SPECIFICATION Spec
CONSTANTS
    MaxWidth = 4
    DEFAULT_LIT_WIDTH = 6
    Operands <- Samples
    Programs <- Statements
INVARIANTS TypeOK HardwareCovered UnknownHasCause
CHECK_DEADLOCK FALSE
