\* A backend that restarts after a generation, and one probe.
SPECIFICATION HealthFairSpec
CONSTANTS
  Probes = {health}
  Builds <- MCBuilds
  Deltas <- MCDeltas
  Drafting = TRUE
  MaxLives = 2
  MaxGenerations = 1
  MaxDrafts = 1
CHECK_DEADLOCK FALSE
PROPERTIES
  IdleMetricsDegrade
