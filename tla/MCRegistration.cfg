CONSTANTS
  Threads = {"t1", "t2"}
  WordBits = 2
  ByteBits = 2
  PageSize = 2
  Increase = 2
  MaxEntries = 3
  NumHandles = 4
  MaxComms = 2
  Setups <- MCSetups
SPECIFICATION Spec
INVARIANTS RefCounted HandleOpen LookupComplete KeysOwned NothingLeft FreeListCounted
CHECK_DEADLOCK FALSE
