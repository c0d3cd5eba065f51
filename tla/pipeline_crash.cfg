SPECIFICATION Spec
CONSTANTS
    Reviewer = {r1}
    Monitor = monitor
    MaxExec = 5
    MaxAuto = 2
    AgentFailure = {"AGENT_RUNTIME_UNAVAILABLE", "INSUFFICIENT_DATA"}
    ReviewFailure = {"HUMAN_REJECTED"}
    Env = {"report", "crash", "schedule"}
CHECK_DEADLOCK FALSE
INVARIANTS
    ClaimIsExclusive
    WaitingHasResult
    CompletedByEveryGate
PROPERTIES
    ImplementsGates
    HumanGate
    ApprovedPlanIsCurrent
    SettledUntilDecided
