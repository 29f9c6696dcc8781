SPECIFICATION FairSpec
CONSTANTS
    Processes = {p1, p2}
    Operators = {o1, o2}
    MaxFaults = 1
    Nobody = Nobody
INVARIANTS
    DestructionIsCommitted
PROPERTIES
    FinalizationCompletes
CHECK_DEADLOCK FALSE
