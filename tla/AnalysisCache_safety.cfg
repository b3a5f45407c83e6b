SPECIFICATION Spec
CONSTANTS
    Proc = {p1, p2}
    Adapter = {js, py}
    Hashed = {js, py}
    Value = {v1, v2}
    NoDigest = NoDigest
    NoPointer = NoPointer
    BadPointer = BadPointer
    EditsAtRest = TRUE
    MaxRuns = 3
    MaxEdits = 2
    MaxFaults = 1
SYMMETRY Symmetry
INVARIANT TypeOK
INVARIANT PointerBacked
PROPERTY HitIsCurrent
PROPERTY EntryStaysUsable
CHECK_DEADLOCK FALSE
