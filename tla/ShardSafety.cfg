SPECIFICATION Spec
CONSTANTS
    t1 = t1
    t2 = t2
    j1 = j1
    j2 = j2
    e1 = e1
    e2 = e2
    r1 = r1
    r2 = r2
    Tenants = {t1}
    Jobs = {j1}
    Seeds = {s1, s2, s3}
    Workers = {e1, r2}
    Remote = {r2}
    Minted = {}
    IdOf <- MCOwnIds
    TenantOf <- MCOneTenant
    BackendOf <- MCAllIos
    CapsOf <- MCAllCaps
    LaneCap = 1
    Outcomes = {"timeout"}
    Faults = {"mark", "drop", "crash", "panic"}
    MaxAttempts <- MCOneOnce
SYMMETRY SeedSymmetry
INVARIANTS
    TypeOK
    FinishedJobComplete
    OnlyClaimantCredited
    LaneCapSlack
PROPERTIES
    ImplementsLease
