SPECIFICATION FairSpec
CONSTANTS
    x1 = x1
    x2 = x2
    Items = {a, l, t, x1, x2}
    Legacy = {l}
    Archive = {x1, x2}
    Supersedes <- ArchivedChain
    Tombstoned = {t}
    MaxRequests = 2
    Handlers = {h1}
    MaxFails = 1
    NoItem = NoItem
    LegacyWriter = LegacyWriter
INVARIANTS
    TypeOK
    ErasedIsGone
    AppliedIsProjected
    
PROPERTIES
    ErasureIsFinal
    ErasureCompletes
CHECK_DEADLOCK FALSE
