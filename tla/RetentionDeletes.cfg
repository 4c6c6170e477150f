SPECIFICATION FairSpec
CONSTANTS
    Buckets = {1, 2}
    Builds = {"old", "new"}
    Locales = {"tr"}
    Batches = {"crash"}
    frames <- MCFrames
    deployment <- MCDeployment
    graphs <- MCGraphs
    Legacy <- TwoLegacy
    severity <- MCSeverity
    fixed_in_build <- MCFixed
    Triaged = {1}
    Pending = {}
    NoRow = NoRow
    NoBuild = NoBuild
    Hour = 2
    Day = 2
    Retention = 1
    RetryHorizon = 1
    K_ANON = 2
    MaxTime = 2
    MaxSends <- MCSends
    MaxInflight = 1
    ResolveQuiet = 1
    MinPostFixTraffic = 1
CHECK_DEADLOCK FALSE
PROPERTIES
    ExpiredErrorsGo
