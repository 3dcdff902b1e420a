CONSTANTS
  c1 = c1
  c2 = c2
  c3 = c3
  Clients = {c1}
  NumServers = 2
  Qps <- MCQps
  NumHosts = 1
  NumPerHost = 2
  BufNum = 1
  RecvDepth = 2
  RecvBatch = 2
  MaxConnRetry = 2
  ContinueOnFailure = TRUE
  Nobody = Nobody

SPECIFICATION FairSpec
INVARIANT PoolsOfThePeer
PROPERTY ClientsSettle
PROPERTY HandlersReturn

\* Every Connect and every AcceptHandler returns; the datapaths follow.
CHECK_DEADLOCK FALSE
