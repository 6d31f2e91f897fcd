SPECIFICATION FairSpec
CONSTANTS
    NumFiles = 3
    Wanted <- MCWanted
    PathOf <- MCPathOf
    PostFiles = {2, 3}
    Inputs <- MCInputs
INVARIANTS
    TypeOK
    StoredIsWhole
    CauseFirst
    NothingLeft
    HandlesBounded
    DetectedOS
PROPERTIES
    InspectReturns
