SPECIFICATION FairSpec

CONSTANTS
    None = None
    s1 = s1
    s2 = s2
    p1 = p1
    p2 = p2
    p3 = p3
    k1 = k1
    k2 = k2
    Stores = {s1, s2}
    Callers = {p1, p2, p3}
    Home <- TwoAndOne
    Keys = {k1, k2}
    Ids = {1, 2}
    Advise <- OneEach
    Uses <- Crossing
    Querying = {p1, p2}
    PoolSize = 2
    Faults <- FaultsOfEach

INVARIANTS
    TypeOK
    GrantsAreHeld
    Exclusion
PROPERTIES
    LostStoresLockNothing
    KeepsService
    CallsReturn
