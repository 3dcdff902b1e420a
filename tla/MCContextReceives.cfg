CONSTANTS
  Settings <- ReadmeOnly
  Handlers = {h1}
  Datapath = datapath

SPECIFICATION Spec
INVARIANT ReceivesAsAsked

\* A context whose Init failed, or that met a fault, stops.
CHECK_DEADLOCK FALSE
