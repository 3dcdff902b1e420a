CONSTANTS
  c1 = c1
  c2 = c2
  c3 = c3
  Clients = {c1, c2, c3}
  NumServers = 1
  Qps <- MCQps
  NumHosts = 1
  NumPerHost = 3
  BufNum = 2
  RecvDepth = 3
  RecvBatch = 2
  MaxConnRetry = 1
  ContinueOnFailure = FALSE
  Nobody = Nobody

SPECIFICATION Spec
INVARIANT TypeOK
INVARIANT SlotsExclusive
INVARIANT FirstBatchUndisturbed
INVARIANT SendersArePaired
INVARIANT PoolsOfThePeer
INVARIANT Lockstep
INVARIANT RunsComplete
PROPERTY PublishedForGood
PROPERTY ImplementsPairing
SYMMETRY OneQpClients

\* Every Connect and every AcceptHandler returns; the datapaths follow.
CHECK_DEADLOCK FALSE
