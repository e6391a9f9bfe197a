SPECIFICATION AgentSpec
CONSTANTS
    Clients = {c1, c2}
    Asked <- MCAsked
    Calls = {r1, r2}
    Interval = 2
    MaxRequests = 1
    Window = 2
    Deadline = 1
    MaxRetries = 2
    Threshold = 2
    Recovery = 1
    Fallbacks = {"disabled", "unset", "value", "function"}
CHECK_DEADLOCK FALSE
INVARIANTS AgentTypeOK PlanWellFormed EvidenceInPlanOrder SkippedTruthfully OneProbe SuccessExplained
PROPERTIES PlansEnd CallsAnswered
