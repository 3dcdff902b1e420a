CONSTANTS
  Bound <- MCBound
  Random <- MCRandom
  Card <- MCCard
  Iters = 2
  Strays = 1
  Faults = 1

SPECIFICATION FairSpec
INVARIANT TypeOK
 
PROPERTY FoundSound
PROPERTY SearchEnds

\* The search ends.
CHECK_DEADLOCK FALSE
