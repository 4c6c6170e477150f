SPECIFICATION Spec
CONSTANTS
    Orgs = {"old", "new"}
    Established = {"old"}
    Targets = {"new"}
    Providers = {"local", "neon"}
    Tasks = {"t1"}
    NoRow = NoRow
    NoConn = NoConn
    MAPPING_TTL = 1
    MAPPING_CACHE_MAX = 1
    PoolCap = 1
    PoolIdle = 0
    MaxTime = 1
    MaxOps = 2
    MaxRequests = 2
    MaxBusy = 2
    MaxFaults = 1
CHECK_DEADLOCK FALSE
INVARIANTS
    TypeOK
    ActiveIsComplete
    InactiveNotServed
    OffboardLeavesNothing
PROPERTIES
    ReconcileFinishes
