SPECIFICATION FairSpec
CONSTANTS
    Candidates = {c1}
    Admins = {ann}
    Curators = {bob}
    Agents = {bot}
    Operator = Operator
    Handlers = {h1}
    MaxFails = 2
    MaxMoves = 3
    Nobody = Nobody
    NoCandidate = NoCandidate
INVARIANTS
    OnlyApprovedIsShared
    DutiesSeparated
PROPERTIES
    DecisionsStand
    PublicationCompletes
CHECK_DEADLOCK FALSE
