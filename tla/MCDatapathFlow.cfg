CONSTANTS
  N = 2
  Active = {0, 1}
  SendDepth = 4
  RecvDepth = 3
  SendBatch = 2
  RecvBatch = 2
  ShareCq = FALSE
  TwoSided = TRUE
  Reliable = TRUE
  RunInfinitely = TRUE
  Iters = 0
  Husky = FALSE
  Faults = FALSE

SPECIFICATION FairSpec
INVARIANT SendQueueFits
INVARIANT ReceiversMatch
PROPERTY NobodyStarves
PROPERTY ImplementsWindow

\* A client that is done stops, and so does a server that failed.
CHECK_DEADLOCK FALSE
