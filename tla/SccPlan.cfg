CONSTANTS
  N = 4
  UNVISITED = UNVISITED
SPECIFICATION Spec
INVARIANTS TypeOK ReverseTopological LowlinkReachable StacksAgree PlanCorrect
PROPERTIES Terminates
CHECK_DEADLOCK FALSE
