CONSTANTS
  N = 2
  Active = {0}
  SendDepth = 4
  RecvDepth = 2
  SendBatch = 2
  RecvBatch = 2
  ShareCq = TRUE
  TwoSided = TRUE
  Reliable = FALSE
  RunInfinitely = FALSE
  Iters = 3
  Husky = TRUE
  Faults = TRUE

SPECIFICATION FairSpec
INVARIANT TypeOK
INVARIANT AtLeastIters
INVARIANT SendersMatch
PROPERTY ClientEnds

\* A client that is done stops, and so does a server that failed.
CHECK_DEADLOCK FALSE
