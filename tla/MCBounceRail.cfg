\* Two threads on a rail of two to three buffers, and one failed allocation.
CONSTANTS
  Threads = {t1, t2}
  Bufs = {b1, b2, b3, b4, b5}
  MinPosted = 2
  MaxPosted = 3
  MaxHeld = 2
  MaxFailures = 1
  None = None
SPECIFICATION FairSpec
INVARIANTS CountAgrees
PROPERTIES KeepsReceiving
CHECK_DEADLOCK FALSE
