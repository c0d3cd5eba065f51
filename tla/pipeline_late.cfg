SPECIFICATION Spec
CONSTANTS
    Reviewer = {r1}
    Monitor = monitor
    MaxExec = 3
    MaxAuto = 2
    AgentFailure = {"AGENT_RUNTIME_UNAVAILABLE"}
    ReviewFailure = {}
    Env = {"report", "late"}
CHECK_DEADLOCK FALSE
INVARIANTS
    CompletedByFinalApproval
