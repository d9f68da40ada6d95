SPECIFICATION Spec
CONSTANTS
    Stmts = {s1, s2}
    Explicit = {d1}
    Programs <- AllPrograms
    MaxRecs = 2
    Lengths <- TwoRows
    Refined = {2}
    BufferSizes = {0, 2, 4}
SYMMETRY Symmetry
INVARIANTS BindingsTrue MemorySound OptionsAsAsked PiecesTrue
CHECK_DEADLOCK FALSE
