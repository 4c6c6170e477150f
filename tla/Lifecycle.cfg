SPECIFICATION Spec
CONSTANTS
    Builds = {"old", "new"}
    FirstBuild = "old"
    Tasks = {"task"}
    Posted = {"investigating", "fixed", "wontfix"}
    IsTester = {TRUE, FALSE}
    NoRow = NoRow
    Trackers = {old_repo, new_repo}
    NoTracker = NoTracker
    EnvTrackers = {NoTracker}
    NoBuild = NoBuild
    Retention = 0
    MaxTime = 1
    MaxBatches = 3
    MaxEdits = 2
    MaxIssues = 2
    MaxFaults = 1
    ResolveQuiet = 1
    MinPostFixTraffic = 1
SYMMETRY TrackerSymmetry
CHECK_DEADLOCK FALSE
INVARIANTS
    TicketOwed
    RegressedTicketIsOpen
PROPERTIES
    StatusChangesAreLogged
    WontfixStands
