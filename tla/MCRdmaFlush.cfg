CONSTANTS
  MaxRequests = 2
  MaxOps = 3
  Setups <- MCSetups
SPECIFICATION Spec
INVARIANTS InflightCounted WaitsForSomething FlushedOnAllRails
CHECK_DEADLOCK FALSE
