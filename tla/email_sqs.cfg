SPECIFICATION Spec
CONSTANTS
    Clients = {c1, c2}
    Keys = {k1, k2}
    Contents = {x}
    Recipients = {t1}
    MaxAttempts = 1
    MaxRows = 2
    MaxFaults = 1
    Backends = {"off", "sqs"}
    Env = {"slow", "outage"}
CHECK_DEADLOCK FALSE
INVARIANTS
    OneMailAtATime
    FailedMeansUnsent
