SPECIFICATION FairSpec
CONSTANTS
    SvpNames <- TwoNames
    NoSvp = NoSvp
    MaxWrites = 2
    s1 = s1
    s2 = s2
    Stmts = {s1, s2}
    Dbc = Dbc
    NoOne = NoOne
    Internal = "_EXEC_SVP_"
    Ops <- CursorOps
    ConnOps = {"commit", "rollback", "autocommit"}
    RollbackLevel = 2
    ReduceRoundtrip = FALSE
    Autocommits = {TRUE, FALSE}
    Serialized = TRUE
    MayLose = TRUE
    MaxSvps = 3
INVARIANTS AutocommitSettled
PROPERTIES NotPoisoned CommitTruth CallsReturn
