SPECIFICATION Spec
CONSTANTS
    Req = {r1, r2}
    Key = {k1}
    MaxRequests = 2
    MaxBumps = 0
    MaxFolderMoves = 2
PROPERTY NoStaleOverwrite
CHECK_DEADLOCK FALSE
