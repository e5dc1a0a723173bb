SPECIFICATION AttestSpec
CONSTANTS
  NoValue = NoValue
  Pids = {p1, p2}
  Argvs <- MCArgvs
  Private = {"/home/m", "/home/n"}
  Profile <- MCProfile
  Versions = {1, 2}
  MinVersion = 2
  MaxStarts = 3
  MaxReports = 1
PROPERTIES
  StatusesAreTrue
  LaunchedIsAttested
CHECK_DEADLOCK FALSE
SYMMETRY MCPids
