CONSTANTS
    c1 = c1
    c2 = c2
    a1 = a1
    a3 = a3
    a2 = a2
    b1 = b1
    NoPlan = NoPlan
    Calls = {c1, c2}
    Plans <- MCPlans
    MaxIterations = 2
    MaxRetries = 2
SPECIFICATION AgentSpec
INVARIANTS
    RetriesBounded
    CancelStops
    OnePlan
PROPERTIES
    CompletedMeansAll
CHECK_DEADLOCK FALSE
