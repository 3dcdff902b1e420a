CONSTANTS
  Threads = {t1, t2, t3}
  Notify = TRUE
  Stale = 3
  Punctual = TRUE
  Faults = TRUE

SPECIFICATION FairSpec
INVARIANT TypeOK
INVARIANT NoFreeWhileAllocating
INVARIANT MarksTrue
INVARIANT MarksComplete
PROPERTY BothFinish
PROPERTY ImplementsRounds

\* The test and the victim end.
CHECK_DEADLOCK FALSE
