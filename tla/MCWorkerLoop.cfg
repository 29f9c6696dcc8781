SPECIFICATION FairSpec
CONSTANTS
    MaxTenants = 3
    Broken = {1}
    RelayLimit = 2
    BatchSize = 1
    LeaseCycles = 2
    MaxRuns = 2
    MaxPoison = 1
    MaxFaults = 1
PROPERTIES
    RelayServesEveryTenant
    EveryTenantIsServed
