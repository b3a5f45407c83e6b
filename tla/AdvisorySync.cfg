SPECIFICATION FairSpec
CONSTANTS
    p1 = p1
    p2 = p2
    d1 = d1
    d2 = d2
    d3 = d3
    i1 = i1
    i2 = i2
    Proc = {p1, p2}
    NoProc = NoProc
    Digest = {d1, d2, d3}
    Id = {i1, i2}
    NoId = NoId
    IdOf <- MCIdOf
    ExtOf <- MCExtOf
    Other = Other
    Irregular = Irregular
    MaxEntries = 1
    MaxDownloads = 3
    MaxFaults = 1
INVARIANT TypeOK
INVARIANT ManifestBacked
INVARIANT SuccessIsLatest
INVARIANT LeftoversBounded
PROPERTY Implements
CHECK_DEADLOCK FALSE
PROPERTY HolderReleases
