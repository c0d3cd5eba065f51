SPECIFICATION Spec
CONSTANTS
    Reviewer = {r1}
    Monitor = monitor
    MaxExec = 5
    MaxAuto = 2
    AgentFailure = {}
    ReviewFailure = {"HUMAN_REJECTED", "FORMAT_INVALID"}
    Env = {"report"}
CHECK_DEADLOCK FALSE
PROPERTIES
    HumanGate
