SPECIFICATION Spec
CONSTANTS
    App = "app"
    Other = "other"
    Uploads = {u1, u2, u3}
    Files = {f1}
    Handlers = {h1, h2}
    Quota = 2
    Expired = {u1}
    Sample = {u1}
    Faults = {"put", "delete", "crash"}
SYMMETRY ArtifactSymmetry
CONSTRAINT Focus
CHECK_DEADLOCK FALSE
INVARIANTS
    TypeOK
    UsageExact
    DeletionIsRetryable
    DeclaredFilesIntact
PROPERTIES
    ApprovedProjectFixed
