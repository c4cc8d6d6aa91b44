SPECIFICATION Spec
CONSTANTS
  Builds <- MCBuilds
  MaxReach = 16
INVARIANTS TypeOK OperandsKept WholeInstructions NothingLeaks
CHECK_DEADLOCK FALSE
