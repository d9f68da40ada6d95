--------------------------- MODULE MCDescriptors ---------------------------
(* Instances of Descriptors. *)
EXTENDS Descriptors

TwoRows == << <<3, 1>>, <<1, 2>> >>

Program(calls, binds, copies, reads, puts) ==
    [uses |-> calls,
     bounds |-> [calls |-> binds, copies |-> copies, reads |-> reads, puts |-> puts]]

AllPrograms ==
    {Program({"columns", "fields"}, 2, 0, 0, 0),
     Program({"params", "fields"}, 2, 0, 0, 0),
     Program({"columns", "explicit"}, 2, 2, 0, 0),
     Program({"columns", "explicit"}, 1, 3, 0, 0),
     Program({"params", "explicit"}, 1, 3, 0, 0),
     Program({"fields", "explicit"}, 1, 2, 0, 0),
     Program({"params", "executes"}, 2, 0, 0, 2),
     Program({"options", "executes"}, 3, 0, 0, 0),
     Program({"explicit", "executes", "reads"}, 0, 2, 1, 0),
     Program({"fields", "executes", "reads"}, 1, 0, 3, 0),
     Program({"columns", "executes", "reads"}, 1, 0, 4, 0),
     Program({"executes", "reads"}, 0, 0, 6, 0)}

Symmetry == Permutations(Stmts)
=============================================================================
