SPECIFICATION Spec
CONSTANTS
    Layers = {1, 2, 3}
    NoLayer = 0
    Paths <- MCPaths
    Pkgs = {"x", "y"}
    Namespace <- MCNamespace
    Secrets <- MCSecrets
    Blobs <- MCBlobs
    Images <- MCImages
    Backend = "memory"
INVARIANTS
    OriginOfImage
