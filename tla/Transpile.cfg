CONSTANTS
  Word = 4
  Fuel = 60
  MaxCycles = 4
  Samples = {0, 1}
  Programs <- Corpus
SPECIFICATION Spec
INVARIANTS
  TypeOK
  HardwareAgrees
  ExtractionAgrees
  AcceptedNeverStuck
  MemoryRequestsAgree
  EmittedLegal
  VerdictsHold
PROPERTIES
  HardwareRegOutsHold
CHECK_DEADLOCK FALSE
