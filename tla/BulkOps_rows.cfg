SPECIFICATION Spec
CONSTANTS
    Rows = 2
    Tuples = 3
    Lives <- AnyLive
    Ignores <- AnyIgnore
    Faults = {"unbound", "cancel"}
    MaxOps = 2
    MaxOthers = 1
CHECK_DEADLOCK FALSE
INVARIANTS SettingKept RowsOnce
PROPERTIES StatusTruth
