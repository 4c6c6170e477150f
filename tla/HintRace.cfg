SPECIFICATION FairSpec
CONSTANTS
    t1 = t1
    t2 = t2
    j1 = j1
    j2 = j2
    e1 = e1
    e2 = e2
    r1 = r1
    r2 = r2
    Tenants = {t1}
    Jobs = {j1, j2}
    Seeds = {s1}
    Workers = {e1}
    Remote = {}
    Minted = {}
    IdOf <- MCOwnIds
    TenantOf <- MCOneTenant
    BackendOf <- MCMixed
    CapsOf <- MCAllCaps
    LaneCap = 1
    Outcomes = {"clean"}
    Faults = {}
    MaxAttempts <- MCNever
PROPERTIES
    PendingIsServed
