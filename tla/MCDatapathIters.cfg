CONSTANTS
  N = 2
  Active = {0, 1}
  SendDepth = 2
  RecvDepth = 3
  SendBatch = 2
  RecvBatch = 2
  ShareCq = FALSE
  TwoSided = TRUE
  Reliable = TRUE
  RunInfinitely = FALSE
  Iters = 2
  Husky = FALSE
  Faults = FALSE

SPECIFICATION Spec
INVARIANT EachQpSendsIters

\* A client that is done stops, and so does a server that failed.
CHECK_DEADLOCK FALSE
