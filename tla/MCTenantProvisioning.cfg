SPECIFICATION FairSpec
CONSTANTS
    Workers = {w1, w2}
    Shells = {s1}
    Operators = {o1}
    Manifests = {m1, m2}
    MaxJobs = 1
    MaxEdits = 2
    MaxFaults = 1
    Nobody = Nobody
    NoManifest = NoManifest
INVARIANTS
    RecordedIsDone
    SucceededIsActive
PROPERTIES
    QueuedJobsEnd
CHECK_DEADLOCK FALSE
