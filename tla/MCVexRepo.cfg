SPECIFICATION FairSpec
CONSTANTS
    NumLocations = 2
    WithETag = {1, 2}
    UpdateInterval = 1
    MaxTime = 5
    MaxVersion = 2
    MaxFaults = 2
INVARIANTS
    TypeOK
    ETagSound
    PresentUnlessFault
    FailureNeverResurrects
    
PROPERTIES
    UpdateEnds
