SPECIFICATION FairSpec
CONSTANTS
    Clients = {c1}
    Keys = {k1, k2}
    Contents = {x}
    Recipients = {t1}
    MaxAttempts = 1
    MaxRows = 2
    MaxFaults = 0
    Backends = {"redis"}
    Env = {"complaint"}
CHECK_DEADLOCK FALSE
PROPERTIES
    ResultsAreApplied
