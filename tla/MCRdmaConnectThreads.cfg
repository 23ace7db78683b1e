\* Several threads on a device, and connections from two other devices.
CONSTANTS
  Conns = {c1, c2}
  Devices = {d1, d2, d3}
  NumIds = 4
  OneThread = FALSE
  None = None
SPECIFICATION Spec
SYMMETRY Symmetry
INVARIANTS EndpointKept
CHECK_DEADLOCK FALSE
