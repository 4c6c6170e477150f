SPECIFICATION Spec
CONSTANTS
    Jobs = {1, 2, 3}
    SpecOf <- MCSpecOf
    Clock = {0, 30, 24600, 24660}
    SelfHosted = FALSE
    LaneCap = 2
INVARIANTS
    TypeOK
    OvertakingIsBounded
    HogYields
    RowOrderIsIrrelevant
CHECK_DEADLOCK FALSE
