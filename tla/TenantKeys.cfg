SPECIFICATION Spec
CONSTANTS
    Orgs = {acme, zeta}
    AppLimit = 1
    MaxStarted = 5
    MaxOpen = 2
    MaxFaults = 1
SYMMETRY OrgSymmetry
CHECK_DEADLOCK FALSE
INVARIANT
    OnlyThisProjectsKeys
