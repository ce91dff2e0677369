SPECIFICATION Spec
CONSTANTS
    s1 = s1  c1 = c1  u1 = u1  r1 = r1  r2 = r2  p1 = p1
    Blank = blank  None = none
    Scope = {s1}  Class = {c1}  Caller = {u1}  Resource = {p1}
    ClassOf <- OneResource
    ScopesOf <- OneDevice
    Reader = {r1, r2}  Writer = {}  Invalidator = {}  Warmer = {}
    MaxGen = 1  MaxUint64 = 7  MaxBumps = 2  MaxClock = 1
SYMMETRY ReaderSymmetry
INVARIANT RejectionSupersedes
CHECK_DEADLOCK FALSE
