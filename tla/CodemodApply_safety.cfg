SPECIFICATION Spec
CONSTANTS
    r1 = r1
    r2 = r2
    py = py
    js = js
    sub = sub
    use = use
    Run = {r1, r2}
    User = User
    NFiles = 2
    Line = {py, js, sub, use}
    Target <- MCTarget
    Unsafe <- MCUnsafe
    Deleted <- MCDeleted
    Rewrite <- MCRewrite
    Committed <- MCCommitted
    Contents <- MCContents
    NoFile = NoFile
    AllowDirty = {r2}
    MaxEdits = 1
    MaxFaults = 1
INVARIANT ExactEdit
INVARIANT Recoverable
INVARIANT NoStaleEdit
INVARIANT CleanRollback
INVARIANT Accounted
CHECK_DEADLOCK FALSE
