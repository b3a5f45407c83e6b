SPECIFICATION Spec
CONSTANTS
    Proc = {p1}
    Adapter = {js, rb}
    Hashed = {js}
    Value = {v1, v2}
    NoDigest = NoDigest
    NoPointer = NoPointer
    BadPointer = BadPointer
    EditsAtRest = TRUE
    MaxRuns = 2
    MaxEdits = 1
    MaxFaults = 0
PROPERTY HitIsCurrent
CHECK_DEADLOCK FALSE
