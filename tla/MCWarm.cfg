SPECIFICATION Spec
CONSTANTS
    s1 = s1  c1 = c1  u1 = u1  r1 = r1  r2 = r2  p1 = p1
    Blank = blank  None = none
    Scope = {s1}  Class = {c1}  Caller = {u1}  Resource = {p1}
    ClassOf <- OneResource
    ScopesOf <- OneDevice
    Reader = {r1}  Writer = {w1}  Invalidator = {}  Warmer = {x1}
    MaxGen = 1  MaxUint64 = 7  MaxBumps = 2  MaxClock = 1
INVARIANT CacheInv
CHECK_DEADLOCK FALSE
