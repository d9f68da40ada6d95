SPECIFICATION Spec
CONSTANTS
    Databases <- MCDatabases
    Requests <- MCRequests
    FetchFaults <- AllFetchFaults
    Internal = {1, 2, 3, 4, 5}
INVARIANTS HandlesFreed AnswerTruth ErrorTold
PROPERTY CallsReturn
