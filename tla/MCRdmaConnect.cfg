\* Two connections between two devices, in the same direction or there and back.
CONSTANTS
  Conns = {c1, c2}
  Devices = {d1, d2}
  NumIds = 4
  OneThread = TRUE
  None = None
SPECIFICATION Spec
SYMMETRY Symmetry
INVARIANTS FindsItsComm PeersAgree IdsOwned EndpointCounted NothingLeftBehind
CHECK_DEADLOCK FALSE
