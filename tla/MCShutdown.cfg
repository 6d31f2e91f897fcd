SPECIFICATION Spec
CONSTANTS
    Requests = {r1}
    SkipDBUpdate = FALSE
    Interval = 1
    MaxTime = 2
    MaxFailures = 0
INVARIANT GracefulShutdown
