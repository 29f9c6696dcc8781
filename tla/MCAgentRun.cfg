SPECIFICATION FairSpec
CONSTANTS
    Workers = {w1, w2}
    Gateways = {g1}
    Program <- OneModelCall
    MaxModelCalls = 1
    MaxEvents = 5
    MaxClaims = 3
    MaxFaults = 1
    MaxReads = 1
INVARIANTS
    ProjectionIsPrefix
    BudgetKept
PROPERTIES
    AcceptedEventsStand
    CancellationWins
    RunEnds
CHECK_DEADLOCK FALSE
