SPECIFICATION CachesSpec
CONSTANTS
    small = small
    large = large
    None = None
    Size <- ContentSize
    MaxBody = 2
    VariantOverhead = 1
    BlobOverhead = 1
    MaxBytes = 9
    LowWatermark = 8
    ProtectedBytes = 4
    MaxReservations = 2
    MinFree = 1
    Disk = 13
    Batch = 1
    Variants = {k1, k2}
    Digests = {small, large}
    Ids = {r}
    Priorities = {0, 3}
    OldBytes = 0
    Transfers = {r1, r2}
    Requests = {q1, q2}
    Posters = {a1, a2}
    Bodies = {b1, b2}
    Callers = {c1, c2}
    Keys = {x1, x2}
SYMMETRY Symmetric
INVARIANTS
    CachesTypeOK
    BytesAccounted
    BudgetHolds
    RepliesMatch
PROPERTIES
    TierRespected
    KeepsPromise
    ServedAsShown
CHECK_DEADLOCK FALSE
