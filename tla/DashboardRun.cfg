SPECIFICATION FairSpec
CONSTANTS
    Proc = {p1}
    Release = Release
    Name = {Release}
    Entries <- MCMixed
    Workers = 1
    MaxCommit = 2
    MaxRuns = 3
    MaxFaults = 2
INVARIANT AnalysedIsResolved
INVARIANT RevisionHonoured
INVARIANT Heals
CHECK_DEADLOCK FALSE
PROPERTY RunEnds
