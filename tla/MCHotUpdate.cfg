SPECIFICATION FairSpec
CONSTANTS
    Requests = {r1, r2}
    SkipDBUpdate = FALSE
    Interval = 1
    MaxTime = 2
    MaxFailures = 2
INVARIANTS
    TypeOK
    OnlyRacersOverlap
    SnapshotReads
    SelfHealing
PROPERTIES
    ParkedResume
    AnnouncedSwaps
    ClosedReopens
