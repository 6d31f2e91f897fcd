SPECIFICATION Spec
CONSTANTS
    NumFiles = 3
    Wanted <- MCWanted
    PathOf <- MCPathOf
    PostFiles = {2, 3}
    Inputs <- MCInputs
INVARIANT FullestVersion
