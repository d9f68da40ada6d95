SPECIFICATION Spec
CONSTANTS
    InitialRows = 1
    MaxRows = 3
    MaxTids = 5
    MaxSaves = 2
    MaxOthers = 1
    MaxLog = 2
    UpdatesAdded = FALSE
INVARIANTS KeysTrue KeysComplete
