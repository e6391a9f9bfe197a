SPECIFICATION PlanSpec
CONSTANTS
    Clients = {c1}
    Asked <- MCAllQuestions
CHECK_DEADLOCK FALSE
INVARIANTS PlannedRetrievalRuns
