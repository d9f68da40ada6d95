--------------------------- MODULE MCStatementSvp ---------------------------
(***************************************************************************)
(* Small instances of StatementSvp: what the application does in each run. *)
(***************************************************************************)
EXTENDS ManagedUse

CONSTANTS s1, s2

Op(kinds, prots) == [kind : kinds, prot : prots]
Simple == {"simple"}
Both == {"simple", "ext"}

TwoNames == {"_EXEC_SVP_", "u"}

\* Statements of a manual transaction and the application's own savepoints.
SerialOps == Op({"write", "read"}, Both)
             \cup Op({"begin", "savepoint", "rollbackto", "release", "rollback", "commit", "local"}, Simple)

\* Statements on data only.
DataOps == Op({"write", "read"}, Both)

\* With calls that never reach the server.
LocalOps == DataOps \cup Op({"local"}, Simple)

\* With cursors, catalog functions, procedure calls and the application's own BEGIN.
CursorOps == LocalOps \cup Op({"ro", "call", "declare", "begin"}, Simple)
==============================================================================
