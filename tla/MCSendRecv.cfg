CONSTANTS
  Conns = {c1, c2}
  Threads = {t1, t2}
  c1 = c1
  c2 = c2
  t1 = t1
  t2 = t2
  None = None
  MaxReq = 2
  Setups <- MCSetups
SPECIFICATION Spec
INVARIANTS RequestsCounted RequestsInOnePlace EndpointCounted ReceivedInOrder RestsWhenDone
CHECK_DEADLOCK FALSE
