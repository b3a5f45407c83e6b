SPECIFICATION FairSpec
CONSTANTS
    Req = {r1, r2}
    Key = {k1}
    MaxRequests = 2
    MaxBumps = 1
    MaxFolderMoves = 2
PROPERTY RequestEnds
CHECK_DEADLOCK FALSE
