SPECIFICATION Spec
CONSTANTS
    Reviewer = {r1, r2}
    Monitor = monitor
    MaxExec = 3
    MaxAuto = 2
    AgentFailure = {"INSUFFICIENT_DATA"}
    ReviewFailure = {}
    Env = {"slow"}
CHECK_DEADLOCK FALSE
INVARIANTS
    SupersededIsDead
    ProcessesApprovedPlan
