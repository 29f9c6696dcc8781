SPECIFICATION Spec
CONSTANTS
    Clients = {http}
    User = user
    Agent = agent
    Tokens = {t1, t2, t3}
    Operators = {o1, o2, o3}
    None = None

    
    
    
PROPERTY LockedOutStaysOut
