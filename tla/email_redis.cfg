SPECIFICATION FairSpec
CONSTANTS
    Clients = {c1}
    Keys = {k1, k2}
    Contents = {x}
    Recipients = {t1, t2}
    MaxAttempts = 2
    MaxRows = 1
    MaxFaults = 3
    Backends = {"redis"}
    Env = {"crash", "drop", "operator", "complaint", "slow", "outage", "purge"}
CHECK_DEADLOCK FALSE
INVARIANTS
    TypeOK
    AnswersTheRequest
PROPERTIES
    SentIsFinal
    Concluded
