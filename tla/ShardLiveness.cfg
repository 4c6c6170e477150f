SPECIFICATION FairSpec
CONSTANTS
    t1 = t1
    t2 = t2
    j1 = j1
    j2 = j2
    e1 = e1
    e2 = e2
    r1 = r1
    r2 = r2
    Tenants = {t1}
    Jobs = {j1}
    Seeds = {s1, s2}
    Workers = {e1, r1}
    Remote = {r1}
    Minted = {r1}
    IdOf <- MCOwnIds
    TenantOf <- MCOneTenant
    BackendOf <- MCMixed
    CapsOf <- MCAllCaps
    LaneCap = 1
    Outcomes = {"timeout"}
    Faults = {"load", "crash", "panic"}
    MaxAttempts <- MCOneOnce
PROPERTIES
    StrandedRecovers
    CompleteJobsFinalize
    ServedOrUnhinted
