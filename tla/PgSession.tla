------------------------------ MODULE PgSession ------------------------------
(***************************************************************************)
(* The PostgreSQL session on the other end of libpq, as far as the code of *)
(* the driver observes it: the transaction status that PQtransactionStatus *)
(* reports, the stack of savepoints of the open transaction, the writes it *)
(* has made, and the writes that are durable.  The server is not part of   *)
(* the repository; this module models it from what connection.c, execute.c *)
(* and statement.c expect of the commands they send.                       *)
(*                                                                         *)
(* A session is a record                                                   *)
(*    st       "I" idle, "T" in a transaction, "E" in a failed one,        *)
(*             "X" gone                                                    *)
(*    work     the sequence of writes of the open transaction              *)
(*    svps     the sequence of its savepoints, the newest last; "mark" is  *)
(*             the number of writes made before the savepoint              *)
(*    durable  the set of committed writes                                 *)
(* A command is a record [c, sp, w]: what it is, the savepoint it names    *)
(* and the write it makes.                                                 *)
(***************************************************************************)
EXTENDS Naturals, Sequences, FiniteSets

CONSTANTS
    SvpNames,    \* the names a savepoint can have
    NoSvp,       \* the savepoint field of a command that names none
    MaxWrites    \* bound on the number of writes

ASSUME SessionAssumption == NoSvp \notin SvpNames /\ MaxWrites \in Nat

Writes == 1 .. MaxWrites
NoWrite == 0

Frame == [name : SvpNames, mark : Nat]

Session == [st : {"I", "T", "E", "X"}, work : Seq(Writes),
            svps : Seq(Frame), durable : SUBSET Writes]

CommandNames == {"BEGIN", "COMMIT", "ROLLBACK", "SAVEPOINT", "RELEASE",
                 "ROLLBACK TO", "WRITE", "READ", "CLOSE", "VACUUM"}

Command == {cmd \in [c : CommandNames, sp : SvpNames \cup {NoSvp}, w : Writes \cup {NoWrite}] :
               /\ cmd.c = "WRITE" => cmd.w \in Writes
               /\ cmd.c = "SAVEPOINT" => cmd.sp \in SvpNames}

Cmd(c) == [c |-> c, sp |-> NoSvp, w |-> NoWrite]
SvpCmd(c, n) == [c |-> c, sp |-> n, w |-> NoWrite]
WriteCmd(w) == [c |-> "WRITE", sp |-> NoSvp, w |-> w]

FreshSession(d) == [st |-> "I", work |-> << >>, svps |-> << >>, durable |-> d]

-----------------------------------------------------------------------------
(* The newest savepoint of a name, and the savepoints made before it.      *)

Places(s, n) == {i \in DOMAIN s.svps : s.svps[i].name = n}
IsNewest(s, n, i) == i \in Places(s, n) /\ \A j \in Places(s, n) : j <= i

-----------------------------------------------------------------------------
(* What a command can do.  Every outcome is the new session and the        *)
(* command tag of its answer; "ERROR" stands for PGRES_FATAL_ERROR.        *)

Answer(s, t) == [be |-> s, tag |-> t]

Failed(s) == Answer([s EXCEPT !.st = IF s.st = "I" THEN "I" ELSE "E"], "ERROR")

OnBegin(s) == {Answer([s EXCEPT !.st = "T"], "BEGIN")}

\* COMMIT of a failed transaction is answered ROLLBACK; the constraints that
\* are checked at COMMIT may refuse a transaction that wrote something.
OnCommit(s) ==
    CASE s.st = "I" -> {Answer(s, "COMMIT")}
      [] s.st = "E" -> {Answer(FreshSession(s.durable), "ROLLBACK")}
      [] OTHER ->
           {Answer(FreshSession(s.durable \cup {s.work[i] : i \in DOMAIN s.work}), "COMMIT")}
           \cup {o \in {Answer(FreshSession(s.durable), "ERROR")} : s.work # << >>}

OnRollback(s) == {Answer(FreshSession(s.durable), "ROLLBACK")}

OnSavepoint(s, n) ==
    {Answer([s EXCEPT !.svps = Append(@, [name |-> n, mark |-> Len(s.work)])], "SAVEPOINT")}

OnRelease(s, n) ==
    {Answer([s EXCEPT !.svps = SubSeq(@, 1, i - 1)], "RELEASE") :
        i \in {i \in Places(s, n) : IsNewest(s, n, i)}}

OnRollbackTo(s, n) ==
    {Answer([s EXCEPT !.st = "T", !.svps = SubSeq(@, 1, i),
                      !.work = SubSeq(@, 1, s.svps[i].mark)], "ROLLBACK") :
        i \in {i \in Places(s, n) : IsNewest(s, n, i)}}

\* A write outside a transaction commits by itself.
OnWrite(s, w) ==
    {Failed(s),
     Answer(IF s.st = "I" THEN [s EXCEPT !.durable = @ \cup {w}]
                          ELSE [s EXCEPT !.work = Append(@, w)], "WRITE")}

OnRead(s) == {Failed(s), Answer(s, "READ")}

OnVacuum(s) == IF s.st = "I" THEN {Failed(s), Answer(s, "VACUUM")} ELSE {Failed(s)}

\* A cursor lives in its transaction.
OnClose(s) == {Answer(s, "CLOSE")}

OrFailed(s, outcomes) == IF outcomes = {} THEN {Failed(s)} ELSE outcomes

Outcomes(s, cmd) ==
    CASE cmd.c = "COMMIT" -> OnCommit(s)
      [] cmd.c = "ROLLBACK" -> OnRollback(s)
      [] cmd.c = "ROLLBACK TO" /\ s.st # "I" -> OrFailed(s, OnRollbackTo(s, cmd.sp))
      [] cmd.c = "BEGIN" /\ s.st # "E" -> OnBegin(s)
      [] cmd.c = "SAVEPOINT" /\ s.st = "T" -> OnSavepoint(s, cmd.sp)
      [] cmd.c = "RELEASE" /\ s.st = "T" -> OrFailed(s, OnRelease(s, cmd.sp))
      [] cmd.c = "WRITE" /\ s.st # "E" -> OnWrite(s, cmd.w)
      [] cmd.c = "READ" /\ s.st # "E" -> OnRead(s)
      [] cmd.c = "CLOSE" /\ s.st = "T" -> OnClose(s)
      [] cmd.c = "VACUUM" /\ s.st # "E" -> OnVacuum(s)
      [] OTHER -> {Failed(s)}

\* The server rolls back what a lost client has not committed.
Gone(s) == [FreshSession(s.durable) EXCEPT !.st = "X"]
=============================================================================
