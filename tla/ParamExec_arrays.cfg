SPECIFICATION Spec
CONSTANTS
    MaxRows = 3
    Params = 1
    BatchSizes = {2}
    UseServerSidePrepare = TRUE
    MaxExecs = 2
    MaxChunks = 2
    MaxCancels = 1
    Avoids <- Everything
INVARIANTS TypeOK StatusTruth OwnData
PROPERTIES ImplementsContract CallsReturn
