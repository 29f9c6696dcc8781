SPECIFICATION FairSpec
CONSTANTS
    Items = {i1, i2}
    Clients = {c1}
    MaxBackups = 1
    Targets = {t1}
    MaxDrops = 1
    MaxFaults = 2
    Worker = Worker
    NoOne = NoOne
INVARIANTS
    TypeOK
    CutIsCoherent
    

    
CHECK_DEADLOCK FALSE
