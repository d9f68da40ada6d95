SPECIFICATION Spec
CONSTANTS
    SvpNames <- TwoNames
    NoSvp = NoSvp
    MaxWrites = 3
    s1 = s1
    s2 = s2
    Stmts = {s1}
    Dbc = Dbc
    NoOne = NoOne
    Internal = "_EXEC_SVP_"
    Ops <- SerialOps
    ConnOps = {"commit", "rollback", "autocommit"}
    RollbackLevel = 2
    ReduceRoundtrip = TRUE
    Autocommits = {FALSE}
    Serialized = TRUE
    MayLose = TRUE
    MaxSvps = 3
INVARIANTS TypeOK OwnSavepointOnTop
PROPERTIES UserSavepointsSurvive EarlierWorkKept WriteReported ImplementsContract
