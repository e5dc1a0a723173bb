\* A client that leaves before its stream has started takes a slot with it.
SPECIFICATION Spec
CONSTANTS
  Requests = {r1, r2, r3}
  MaxQueueSize = 1
  Kinds <- MCTwoKinds
  GenerationTimeout = TRUE
  EarlyDisconnect = TRUE
  MaxDrafts = 0
  MaxRestarts = 0
SYMMETRY MCSymmetry
CHECK_DEADLOCK FALSE
PROPERTIES
  RefusedOnlyWhenFull
