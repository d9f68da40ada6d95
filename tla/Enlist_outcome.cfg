SPECIFICATION Spec
CONSTANTS
    b1 = b1
    b2 = b2
    Branches = {b1, b2}
    None = None
    Other = Other
    Waits = TRUE
    Losses = {"vote", "abort"}
SYMMETRY BranchSymmetry
INVARIANTS OnlyOnCommit OutcomeTruth
CHECK_DEADLOCK FALSE
