SPECIFICATION FairSpec
CONSTANTS
    Runners = {r1, r2}
    Services = {s1}
    MaxBackups = 2
    MaxDays = 1
    MaxFaults = 1
INVARIANTS
    MigratedIsRecoverable
    
PROPERTIES
    MigrationCompletes
CHECK_DEADLOCK FALSE
