SPECIFICATION MCSpec
CONSTANTS
    Shapes <- MCShapes
    Proposals = {0, 1, 4}
    MaxConcurrency = 1
    MaxAgentCalls = 5
    MaxSchemaRepairs = 1
    MaxTransientRetries = 1
    None = None
    Drivers = {d1, d2}
    Bindings = {b1}
    Order <- MCOrder
    Answers <- MCAnswers
    PlanInputs <- MCPlanInputs
    Subjects = {x1}
    Invocations = {i1}
    Keys = {k1}
    Texts = {t1}
    MaxInterrupts = 2
    Reliable = {d1}
INVARIANTS
    JournalSound UsageExact EndsWhole
PROPERTIES
    FlowSpec RunSettles RunEnds
CHECK_DEADLOCK FALSE
