SPECIFICATION OperationsSpec
CONSTANTS
    Requests = {r1, r2}
    Accounts = {a1, a2}
    Ids = {s1, s2}
    BootWindow = 2
    SessionTTL = 3
    NoAccount = NoAccount
    NoRequest = NoRequest
    SetupToken = SetupToken
INVARIANTS
    
    
    
    InterruptionsHonoured
    WithinLimits
PROPERTIES
    AdminKept
    
CHECK_DEADLOCK FALSE
