SPECIFICATION Spec
CONSTANTS
    c1 = c1
    c2 = c2
    Client = {c1, c2}
    MaxAttempts = 2
    MaxUpdates = 3
    MaxFaults = 2
PROPERTIES
    IsAtomic
CHECK_DEADLOCK FALSE
