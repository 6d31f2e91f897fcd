SPECIFICATION FairSpec
CONSTANTS
    NumItems = 3
    Workers = {w1, w2}
    Walking = TRUE
INVARIANTS
    TypeOK
    CompleteOnSuccess
    CauseReported
    CleanEnd
PROPERTIES
    Returns
    LeakEndsWithParent
    Implements
