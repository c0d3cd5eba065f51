SPECIFICATION Spec
CONSTANTS
    Reviewer = {r1}
    Monitor = monitor
    MaxExec = 3
    MaxAuto = 2
    AgentFailure = {}
    ReviewFailure = {}
    Env = {"admin", "crash"}
CHECK_DEADLOCK FALSE
INVARIANTS
    PlanWasApproved
