SPECIFICATION Spec
CONSTANTS
    Totals = {0, 1, 4}
    FetchMaxs = {1, 3}
    Kinds <- AllKinds
    Sizes = {1, 2, 3}
    Asks <- AllAsks
    MayFail = TRUE
    Unknown = 2147483647
INVARIANTS CacheTruth
PROPERTIES ImplementsContract
CHECK_DEADLOCK FALSE
