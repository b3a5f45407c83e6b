SPECIFICATION Spec
CONSTANTS
    f = f
    x = x
    p = p
    o = o
    Writer = {f, x, p, o}
    ModeOf <- MCModeOf
    None = None
    Old = Old
    Foreign = Foreign
    Torn = Torn
    MaxFaults = 2
INVARIANT TypeOK
INVARIANT TornIsExplained
INVARIANT TempsRemoved
PROPERTY Implements
CHECK_DEADLOCK FALSE
