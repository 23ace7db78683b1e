CONSTANTS
    Threads = {t1, t2}
    None = None
    MaxNumRails = 4
    Setups <- MCSetups
SPECIFICATION Spec
INVARIANTS GroupsByLocality UsedIsOpen LeftAtExit AsDecided OneEndpointPerThread
CHECK_DEADLOCK FALSE
