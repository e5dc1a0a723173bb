\* A limit of two in a window of three ticks, over more than two windows.
SPECIFICATION BoundarySpec
CONSTANTS
  Keys <- MCKeys
  RpmLimit = 2
  Window = 3
  MaxTime = 7
  MaxAccepts = 5
  Conns = {c1, c2}
  Requests <- MCRequests
  HasApiKey = TRUE
SYMMETRY MCConns
CHECK_DEADLOCK FALSE
INVARIANTS
  WindowBound
  BucketIsWindow
  SpentOnce
PROPERTY
  RefusedForOwn
