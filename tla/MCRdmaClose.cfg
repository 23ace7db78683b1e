\* Up to two messages of every kind (empty, eager, longer than the receive buffer,
\* in two stripes), and one operation that completes in error.
CONSTANTS
  NumRails = 2
  MinStripe = 2
  Align = 1
  MaxMsgs = 2
  MaxRequests = 2
  MsgbuffSize = 4
  EagerMax = 1
  SendSizes = {0, 1, 3}
  RecvSizes = {1, 3}
  AnyOrder = TRUE
  MaxErrors = 1
  None = None
SPECIFICATION CloseSpec
INVARIANTS
  SizesAgree CompleteMeansOver PostedOnce
  NoFalseSuccess
  NothingAfterDestroy CountIsFinal
CHECK_DEADLOCK FALSE
