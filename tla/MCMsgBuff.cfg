\* Two slots, sequence numbers of three bits: the numbers wrap twice.
CONSTANTS
    MaxInProgress = 2
    FieldSize = 8
    Elems = {e1, e2}
    Null = Null
    MaxLow = 17
SPECIFICATION Spec
INVARIANTS
    WindowInv
PROPERTIES
    LoopsAgree
    TrackerSpec
