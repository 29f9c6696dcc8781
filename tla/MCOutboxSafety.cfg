SPECIFICATION Spec
CONSTANTS
    Events = {e1, e2}
    Relays = {r1, r2}
    Handlers = {h1, h2}
    Msgs = {m1, m2, m3, m4}
    Consumers = 1
    RetryLimit = 1
    DeadLetterLimit = 20
    MaxScan = 2
    MaxFaults = 3
    MaxRedrives = 1
    NoEvent = NoEvent
    NoRelay = NoRelay
    NoMsg = NoMsg
SYMMETRY Symmetry
INVARIANTS
    TypeOK
    NoLostEvent
    Custody
    ClaimFence
PROPERTIES
    RemovalsAreSafe
    DeliverySpec
CHECK_DEADLOCK FALSE
