SPECIFICATION Spec
CONSTANTS
    Buckets = {1, 2}
    Builds = {"old", "new"}
    Locales = {"tr"}
    Batches = {"recur", "stray", "clean"}
    frames <- MCFrames
    deployment <- MCDeployment
    graphs <- MCGraphs
    Legacy <- TwoLegacy
    severity <- MCSeverity
    fixed_in_build <- MCFixed
    Triaged = {1}
    Pending = {}
    NoRow = NoRow
    NoBuild = NoBuild
    Hour = 2
    Day = 2
    Retention = 1
    RetryHorizon = 1
    K_ANON = 2
    MaxTime = 3
    MaxSends <- MCSends
    MaxInflight = 2
    ResolveQuiet = 1
    MinPostFixTraffic = 1
CONSTRAINT NotCut
CHECK_DEADLOCK FALSE
INVARIANTS
    ReadModelsExact
    WindowsExact
    SurfacedAreGroups
    RegressedFirst
    
PROPERTIES
    OncePerHorizon
