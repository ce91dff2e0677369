SPECIFICATION LibrarySpec
CONSTANTS
    Fingerprints = {f1, f2, f3}
    Resources = {r1}
    TTL = 2
    GrantMax = 2
    MaxDelay = 1
    MaxTime = 3
    Never = Never
    s1 = s1
    s2 = s2
    i1 = i1
    i2 = i2
    i3 = i3
    x = x
    y = y
    p1 = p1
    p2 = p2
    p3 = p3
    NoId = NoId
    c1 = c1
    c2 = c2
INVARIANTS
    LibraryTypeOK
    LeasesBounded
    InvalidationOwed
    DecisionsSound
PROPERTIES
    LiveLeasesSpared
    SyncReconciles
    RowsMirror
    PublishesWhatIsListed
    
CHECK_DEADLOCK FALSE
