SPECIFICATION ReleaseSpec
CONSTANTS
    Parts = {"encode", "art", "deploy"}
    Width = 5
    Height = 4
    LastLine = 3
    Byte = 8
    Hex <- MCHex
    NoColor = "none"
    Names = {"a1", "a2", "b", "h1", "h2", "h3", "g", "g2"}
    Pictures <- MCPictures
    Editions <- MCEditions
    PictureOf <- MCPictureOf
    Backgrounds = 2
    ChunkSize = 2
    Slice = 2
    Digests <- MCDigests
    Descriptors = {d1, d2}
    MaxMinted = 1
    MaxAdditions = 2
    MaxRequests = 1
    Runs = {r1, r2}
    MaxTxs <- MCMaxTxs
    MaxFailed = 1
INVARIANTS
    PageDrawsTheToken
    MetadataAgrees
    SeedForetold
    DeployedAsPlanned
PROPERTY DrawnAsPainted
SYMMETRY Symmetry
CHECK_DEADLOCK FALSE
