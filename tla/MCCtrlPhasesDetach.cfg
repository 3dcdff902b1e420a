CONSTANTS
  Threads = {t1, t2, t3}
  Notify = TRUE
  Stale = 3
  Punctual = TRUE
  Faults = FALSE

SPECIFICATION Spec
INVARIANT NoReadAfterDetach

\* The test and the victim end.
CHECK_DEADLOCK FALSE
