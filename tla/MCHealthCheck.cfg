\* Two probes, two lives of the backend, one generation.
SPECIFICATION HealthFairSpec
CONSTANTS
  Probes = {health, readyz}
  Builds <- MCBuilds
  Deltas <- MCDeltas
  Drafting = TRUE
  MaxLives = 2
  MaxGenerations = 1
  MaxDrafts = 1
CHECK_DEADLOCK FALSE
PROPERTIES
  ReadyIsTrue
  NoFalseAlarm
  WarmingNeverReturns
  ProbesEnd
