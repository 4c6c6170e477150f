SPECIFICATION Spec
CONSTANTS
    Users = {"ann", "bob", "cyn"}
    InitialTeams <- MCInitialTeams
    Unregistered = {"cyn"}
    Devices = {"laptop"}
    NoInvite = NoInvite
    SeatLimit = 2
    MaxStarted = 3
    MaxOpen = 2
    MaxFaults = 1
CHECK_DEADLOCK FALSE
INVARIANTS
    TypeOK
    OwnerRemains
    ResetEndsSessions
    SingleUse
PROPERTIES
    SeatsNotOverbooked
