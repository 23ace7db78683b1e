CONSTANTS
  NumRails = 2
  MinStripe = 2
  Align = 1
  MaxMsgs = 1
  MaxRequests = 2
  MsgbuffSize = 4
  EagerMax = 1
  SendSizes = {1}
  RecvSizes = {1}
  AnyOrder = FALSE
  MaxErrors = 0
  None = None
SPECIFICATION Spec
INVARIANTS RecvRaceIsNoError
CHECK_DEADLOCK FALSE
