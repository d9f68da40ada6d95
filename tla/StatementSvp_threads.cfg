SPECIFICATION Spec
CONSTANTS
    SvpNames <- TwoNames
    NoSvp = NoSvp
    MaxWrites = 2
    s1 = s1
    s2 = s2
    Stmts = {s1, s2}
    Dbc = Dbc
    NoOne = NoOne
    Internal = "_EXEC_SVP_"
    Ops <- DataOps
    ConnOps = {"commit", "rollback"}
    RollbackLevel = 2
    ReduceRoundtrip = TRUE
    Autocommits = {FALSE}
    Serialized = FALSE
    MayLose = FALSE
    MaxSvps = 3
INVARIANTS OneInFlight
PROPERTIES UndoesOwnOnly
