SPECIFICATION ExperimentSpec
CONSTANTS
  NoArgv = NoArgv
  Runs = 2
  NumGroups = 2
  MaxLaunches = 5
  MaxFaults = 2
INVARIANTS
  AdoptIsEarned
  FailureIsReal
  EvidenceIsEnough
CHECK_DEADLOCK FALSE
