SPECIFICATION AccessSpec
CONSTANTS
    Callers = {c1, c2, c3}
    Nobody = Nobody
    MaxCalls = 2
    Requests = {r1, r2}
SYMMETRY Symmetric
INVARIANTS
    AccessTypeOK
    OneIdentity
    AnswersProven
    

    
CHECK_DEADLOCK FALSE
