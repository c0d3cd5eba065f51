SPECIFICATION FairSpec
CONSTANTS
    Reviewer = {r1}
    Monitor = monitor
    MaxExec = 4
    MaxAuto = 2
    AgentFailure = {"AGENT_RUNTIME_UNAVAILABLE", "NONE", "INSUFFICIENT_DATA", "PROCESSING_RULE_INVALID", "PRIVACY_THRESHOLD_NOT_MET"}
    ReviewFailure = {"FORMAT_INVALID"}
    Env = {"report"}
CHECK_DEADLOCK FALSE
INVARIANTS
    TypeOK
    ClosedTogether
    FailedStageIsSwept
    NoLimbo
PROPERTIES
    RunSettles
