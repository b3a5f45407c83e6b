SPECIFICATION Spec
CONSTANTS
    Req = {r1, r2}
    Key = {k1, k2}
    MaxRequests = 3
    MaxBumps = 1
    MaxFolderMoves = 1
SYMMETRY Symmetry
INVARIANT OneLiveRun
INVARIANT NoLateResult
INVARIANT CancelSettles
PROPERTY RenderedIsCurrent
PROPERTY NoStaleOverwrite
CHECK_DEADLOCK FALSE
