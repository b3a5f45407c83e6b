SPECIFICATION RunSpec
CONSTANTS
    k1 = k1
    k2 = k2
    s1 = s1
    Proc = {p1, p2}
    Key = {k1, k2}
    Slug = {s1}
    SlugOf <- MCSlugOf
    NoKey = NoKey
    Requests <- MCRequests
    MaxOps = 4
    MaxRuns = 2
    MaxFaults = 1
    MaxEvents = 1
SYMMETRY Symmetry
INVARIANT RunTypeOK
INVARIANT SavedStays
INVARIANT PartialIsExplained
INVARIANT OneSnapshot
INVARIANT SnapshotOfCommit
INVARIANT OutcomeTellsFiles
CHECK_DEADLOCK FALSE
