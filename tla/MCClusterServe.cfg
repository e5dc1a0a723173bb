\* Four nodes, every setting of the flags, two polls of each gate.
SPECIFICATION ClusterFairSpec
CONSTANTS
  N = 4
  MaxPolls = 2
CHECK_DEADLOCK FALSE
INVARIANTS
  ClusterTypeOK
  PreflightComesFirst
  StopsOnlyOnFailure
  RollbackMeetsEveryStart
  PassedRollbackLeavesNoRay
  SuccessIsEarned
PROPERTIES
  RunEnds
