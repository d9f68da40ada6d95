SPECIFICATION Spec
CONSTANTS
    c1 = c1
    c2 = c2
    Conns = {c1, c2}
    Users = {c1}
    MaxSessions = 2
    Targets <- SharedTargets
    MayTell08 = TRUE
    CharSigned = TRUE
INVARIANTS HeldOnce
PROPERTIES NoNeedlessError FailoverTruth
