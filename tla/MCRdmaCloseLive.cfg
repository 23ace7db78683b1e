\* Twice as many messages as requests in flight, so that each side can be as far
\* ahead of the other as the message buffer has to allow for; no errors.
CONSTANTS
  NumRails = 2
  MinStripe = 2
  Align = 1
  MaxMsgs = 4
  MaxRequests = 2
  MsgbuffSize = 4
  EagerMax = 1
  SendSizes = {1}
  RecvSizes = {3}
  AnyOrder = FALSE
  MaxErrors = 0
  None = None
SPECIFICATION FairCloseSpec
INVARIANTS NoSurprise
PROPERTIES BothDestroyed
CHECK_DEADLOCK FALSE
