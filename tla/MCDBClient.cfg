SPECIFICATION FairSpec
CONSTANTS
    Procs = {p1}
    Nobody = nobody
    Repos = 2
    Interval = 2
    MaxTime = 5
INVARIANTS
    TypeOK
    AcceptedIsConsistent
    ReadyIsUsable
PROPERTIES
    RunEnds
