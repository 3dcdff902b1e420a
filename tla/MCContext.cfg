CONSTANTS
  Settings <- MCSettings
  Handlers = {h1}
  Datapath = datapath

SPECIFICATION Spec
INVARIANT TypeOK
INVARIANT ReadyComplete
INVARIANT FaultsExplained
INVARIANT BuffersInTurn

\* A context whose Init failed, or that met a fault, stops.
CHECK_DEADLOCK FALSE
