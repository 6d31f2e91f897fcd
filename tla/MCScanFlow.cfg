SPECIFICATION PairSpec
CONSTANTS
    s1 = s1
    s2 = s2
    s3 = s3
    baseImage = baseImage
    appImage = appImage
    variant = variant
    repo = repo
    dir = dir
    sbom = sbom
    attested = attested
    l1 = l1
    l2 = l2
    c1 = c1
    f1 = f1
    Scans = {s1, s2}
    Targets = {baseImage, appImage, repo, dir, sbom, attested}
    Kind <- MCKind
    Otherwise <- MCOtherwise
    Blobs = {l1, l2, c1, f1}
    DiffIDs <- MCDiffIDs
    History <- MCHistory
    AlpineLayers = {l1}
    MaxTries = 2
    MaxFaults = 1
INVARIANTS TypeOK ReportsAreWhole MissingHasCause TemporaryBlobsGo
PROPERTY ScanEnds
CHECK_DEADLOCK FALSE
