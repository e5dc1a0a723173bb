SPECIFICATION BenchSpec
CONSTANTS
  NoCount = NoCount
  both = both
  echo = echo
  none = none
  Setups = {both, echo, none}
  Server <- MCServer
  Answers <- MCAnswers
  NumGroups = 2
  Runs = 2
  WarmupRuns = 1
  MaxLaunches = 2
  MaxFaults = 2
INVARIANTS
  ReadyIsWholeAnswer
  EndMatchesFile
PROPERTY
  ImplementsBenchRecord
CHECK_DEADLOCK FALSE
