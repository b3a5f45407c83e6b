SPECIFICATION Spec
CONSTANTS
    PR = {1, 2}
    MaxUser = 3
    MaxFaults = 0
INVARIANT RemovedIsDisarmed
CHECK_DEADLOCK FALSE
