SPECIFICATION FairSpec
CONSTANTS
    PR = {1, 2}
    MaxUser = 2
    MaxFaults = 1
INVARIANT Reconciled
PROPERTY ActsOnAudited
PROPERTY ArmsAlone
PROPERTY Advances
PROPERTY Rests
CHECK_DEADLOCK FALSE
