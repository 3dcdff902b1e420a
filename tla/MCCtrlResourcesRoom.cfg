CONSTANTS
  t1 = t1
  t2 = t2
  o1 = o1
  o2 = o2
  o3 = o3
  Threads = {t1, t2}
  Handles = {o1, o2, o3}
  None = None
  BatchCtrl = 2
  Kind = "context"
  NumPd = 2
  NumSendCq = 3
  NumBuffer = 1
  Faults = FALSE

SPECIFICATION Spec
INVARIANT RoomInMiddle

\* The threads return.
CHECK_DEADLOCK FALSE
