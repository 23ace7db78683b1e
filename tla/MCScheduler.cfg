\* Four rails, stripes of at least 3 bytes aligned on 2: sizes up to 17 give
\* one, two and four stripes, short last stripes and empty ones.
CONSTANTS
    NumRails = 4
    MinStripe = 3
    Align = 2
    MaxSize = 17
    MaxUsed = 6
SPECIFICATION Spec
CHECK_DEADLOCK FALSE
INVARIANTS
    StripesCover
    Balanced
    LoopsAgree
