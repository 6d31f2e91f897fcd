SPECIFICATION Spec
CONSTANTS
    NumLocations = 1
    WithETag = {1}
    UpdateInterval = 0
    MaxTime = 4
    MaxVersion = 1
    MaxFaults = 1
INVARIANT UpdatedMeansPresent
