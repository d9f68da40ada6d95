---------------------------- MODULE StatementSvp ----------------------------
(***************************************************************************)
(* How the driver keeps a failing statement from taking the application's  *)
(* transaction with it: the transaction flags of ConnectionClass, the      *)
(* internal savepoint that SetStatementSvp makes before a statement and    *)
(* DiscardStatementSvp uses after it, the commands SC_execute and          *)
(* CC_send_query_append put on the wire, the command tags and errors they  *)
(* read back, SQLEndTran and SQL_ATTR_AUTOCOMMIT.                          *)
(*                                                                         *)
(* Several threads may call the driver, one per statement handle and one   *)
(* on the connection handle.  A call runs through program counters; the    *)
(* connection's critical section (ENTER_CONN_CS) is the variable cs.  What *)
(* a call sends waits in wire until the server answers it, one command at  *)
(* a time.                                                                 *)
(***************************************************************************)
EXTENDS PgSession, SequencesExt

CONSTANTS
    Stmts,          \* statement handles, each used by one thread at a time
    Dbc,            \* the thread that calls on the connection handle
    NoOne,          \* nobody owns the critical section
    Internal,       \* the name GetSvpName gives the internal savepoint
    Ops,            \* what the application does: a set of [kind, prot]
    ConnOps,        \* the calls made on the connection handle
    RollbackLevel,  \* rollback_on_error: 0 nop, 1 transaction, 2 statement
    ReduceRoundtrip,\* BIT_IGNORE_ROUND_TRIP_TIME is off
    Autocommits,    \* the values of SQL_ATTR_AUTOCOMMIT the application sets
    Serialized,     \* the application makes one call at a time
    MayLose,        \* the network may fail
    MaxSvps         \* bound on the savepoints the application nests

Kinds == {"write", "read", "declare", "call", "ro", "begin", "savepoint",
          "rollbackto", "release", "commit", "rollback", "special", "local"}

ASSUME CoreAssumption ==
    /\ Dbc \notin Stmts /\ NoOne \notin Stmts \cup {Dbc}
    /\ Internal \in SvpNames
    /\ Ops \subseteq [kind : Kinds, prot : {"simple", "ext"}]
    /\ ConnOps \subseteq {"commit", "rollback", "autocommit"}
    /\ RollbackLevel \in 0 .. 2
    /\ Autocommits \subseteq BOOLEAN /\ Autocommits # {}
    /\ {ReduceRoundtrip, Serialized, MayLose} \subseteq BOOLEAN
    /\ MaxSvps \in Nat
    \* A cursor that may not have survived a ROLLBACK TO is closed under a
    \* savepoint of its own, which this module leaves out.
    /\ ~ \E o1, o2 \in Ops : o1.kind = "declare" /\ o2.kind = "rollbackto"

VARIABLES
    conn,    \* the transaction state of the ConnectionClass
    be,      \* the server's session
    calls,   \* the API call each thread is in
    wire,    \* the commands of a call the server has not answered
    cs,      \* who owns the connection's critical section
    writes   \* how many writes the application has asked for

vars == <<conn, be, calls, wire, cs, writes>>

Threads == Stmts \cup {Dbc}

PcIdle == "idle"
\* A message of the call is on the wire, or its last answer just arrived.
PcWire == {"precommit", "begin", "svp", "main", "commit", "undo", "abort",
           "close", "endtran", "autocommit"}
Pcs == {PcIdle, "exec", "request", "ready", "post", "discard", "aborting",
        "sync", "end"} \cup PcWire

-----------------------------------------------------------------------------
(* Types.                                                                  *)

Conn == [autocommit : BOOLEAN, inTrans : BOOLEAN, manual : BOOLEAN,
         inError : BOOLEAN,                         \* transact_status
         accessed : BOOLEAN, rbpoint : BOOLEAN,     \* rbonerr
         svp : BOOLEAN,                             \* internal_svp
         op : {"none", "savepoint"},                \* internal_op
         optIn : BOOLEAN, optPrev : BOOLEAN,        \* SVPOPT_RDONLY of both
         up : BOOLEAN,                              \* pqconn is not NULL
         cursors : SUBSET Stmts]                    \* declare/fetch cursors

CallRec == [pc : Pcs, kind : Kinds \cup {"close", "autocommit"},
            prot : {"simple", "ext"}, cmd : Command,
            lock : BOOLEAN,      \* lock_CC_for_rb
            fail : BOOLEAN,      \* the last message was answered by an error
            err : BOOLEAN,       \* the call is going to return SQL_ERROR
            wasIn : BOOLEAN,     \* is_in_trans of SC_execute
            before : Session]    \* history: the session when the call began

Idle == [pc |-> PcIdle, kind |-> "local", prot |-> "simple",
         cmd |-> Cmd("READ"), lock |-> FALSE, fail |-> FALSE, err |-> FALSE,
         wasIn |-> FALSE, before |-> FreshSession({})]

\* Type invariant: the flags of ConnectionClass and the record of every call stay
\* in the values the code gives them, and so do the session and the wire.
TypeOK ==
    /\ conn \in Conn
    /\ be \in Session
    /\ calls \in [Threads -> CallRec]
    /\ wire \in [Threads -> Seq(Command)]
    /\ cs \in Threads \cup {NoOne}
    /\ writes \in 0 .. MaxWrites

-----------------------------------------------------------------------------
(* The driver's copy of the transaction state.                             *)

DoesAutocommit(c) == c.autocommit /\ ~c.manual
LovesVisibleTrans(c) == ~c.autocommit \/ c.manual

SvpInit(c) == [c EXCEPT !.svp = FALSE, !.op = "none", !.optIn = TRUE, !.optPrev = TRUE]
StartStmt(c) == [c EXCEPT !.accessed = FALSE, !.rbpoint = FALSE]
LeaveTrans(c) == IF c.inTrans
                 THEN [c EXCEPT !.inTrans = FALSE, !.inError = FALSE, !.manual = FALSE]
                 ELSE c

\* CC_on_commit, and CC_on_abort with NO_TRANS: cursors are closed too.
OnTransEnd(c) == [StartStmt(SvpInit(LeaveTrans(c))) EXCEPT !.cursors = {}]
OnDead(c) == [OnTransEnd(c) EXCEPT !.up = FALSE]

UpdateTransactionStatus(c, st) ==
    CASE ~c.up -> c
      [] c.up /\ st = "I" -> IF c.inTrans THEN OnTransEnd(c) ELSE c
      [] c.up /\ st = "T" -> [c EXCEPT !.inTrans = TRUE, !.inError = FALSE]
      [] OTHER -> [c EXCEPT !.inTrans = TRUE, !.inError = TRUE]

HandleError(c) == IF c.inTrans THEN [c EXCEPT !.inError = TRUE] ELSE c

\* Mutant: the application's SAVEPOINT does not hide the internal one.
HandleTag_KeepsSvp(c, tag) ==
    CASE tag = "BEGIN" -> [c EXCEPT !.inTrans = TRUE]
      [] tag = "SAVEPOINT" /\ c.op = "savepoint" ->
           [c EXCEPT !.svp = TRUE, !.rbpoint = TRUE, !.op = "none"]
      [] tag = "ROLLBACK" -> [c EXCEPT !.inError = TRUE, !.svp = FALSE,
                                       !.optPrev = FALSE, !.optIn = TRUE]
      [] tag = "RELEASE" -> [c EXCEPT !.svp = FALSE]
      [] OTHER -> c

HandleTag(c, tag) ==
    CASE tag = "BEGIN" -> [c EXCEPT !.inTrans = TRUE]
      [] tag = "SAVEPOINT" ->
           IF c.op = "savepoint"
           THEN [c EXCEPT !.svp = TRUE, !.rbpoint = TRUE, !.op = "none"]
           ELSE [c EXCEPT !.svp = FALSE]
      [] tag = "ROLLBACK" -> [c EXCEPT !.inError = TRUE, !.svp = FALSE,
                                       !.optPrev = FALSE, !.optIn = TRUE]
      [] tag = "RELEASE" -> [c EXCEPT !.svp = FALSE]
      [] OTHER -> c

-----------------------------------------------------------------------------
(* Statement types.                                                        *)

TransKinds == {"savepoint", "rollbackto", "release", "commit", "rollback"}
SelectKinds == {"read", "declare", "call"}

\* The command a call of a kind sends; a write has an identity of its own.
BodyOf(k) ==
    CASE k \in {"write", "call"} -> {WriteCmd(w) : w \in {writes + 1} \cap Writes}
      [] k = "begin" -> {Cmd("BEGIN")}
      [] k = "commit" -> {Cmd("COMMIT")}
      [] k = "rollback" -> {Cmd("ROLLBACK")}
      [] k = "savepoint" -> {SvpCmd("SAVEPOINT", n) :
                                n \in {n \in SvpNames \ {Internal} : Len(be.svps) < MaxSvps}}
      [] k = "release" -> {SvpCmd("RELEASE", n) : n \in SvpNames \ {Internal}}
      [] k = "rollbackto" -> {SvpCmd("ROLLBACK TO", n) : n \in SvpNames \ {Internal}}
      [] k = "special" -> {Cmd("VACUUM")}
      [] OTHER -> {Cmd("READ")}

\* Mutants: the name is not filled in; a failed statement's savepoint is released.
SavepointCmds_NoName == <<SvpCmd("SAVEPOINT", NoSvp)>>
UndoCmds_Release == <<SvpCmd("RELEASE", Internal)>>

\* GenerateSvpCommand
SavepointCmds == (IF conn.svp THEN <<SvpCmd("RELEASE", Internal)>> ELSE << >>)
                 \o <<SvpCmd("SAVEPOINT", Internal)>>
UndoCmds == <<SvpCmd("ROLLBACK TO", Internal)>>

-----------------------------------------------------------------------------
(* Helpers of the actions.                                                 *)

AtRest == \A t \in Threads : calls[t].pc = PcIdle
MayCall(t) == calls[t].pc = PcIdle /\ (Serialized => AtRest)

FreeFor(t) == cs \in {NoOne, t}

\* CC_send_query_append reads command tags and copies the transaction status
\* when it returns; libpq_bind_and_exec and CC_internal_rollback do not.
Queried(t) == /\ calls[t].pc # "undo"
              /\ ~(calls[t].pc = "main" /\ calls[t].prot = "ext")

Answered(t, pc) == calls[t].pc = pc /\ wire[t] = << >>

\* LIBPQ_update_transaction_status: libpq says ACTIVE while another thread's
\* message is in flight, and then nothing is copied.
StatusCopied(t) ==
    IF \A other \in Threads \ {t} : wire[other] = << >>
    THEN UpdateTransactionStatus(conn, be.st) ELSE conn

Send(t, pc, cmds) ==
    /\ wire' = [wire EXCEPT ![t] = cmds]
    /\ calls' = [calls EXCEPT ![t].pc = pc, ![t].fail = FALSE]

GoTo(t, pc) == calls' = [calls EXCEPT ![t].pc = pc]

\* Mutant: lock_CC_for_rb is forgotten.
LeaveCs_Always(t) == cs' = NoOne

\* LEAVE_CONN_CS of the function that entered it; lock_CC_for_rb keeps a count.
LeaveCs(t) == cs' = IF calls[t].lock THEN t ELSE NoOne

-----------------------------------------------------------------------------
(* A call on a statement handle, from its entry in odbcapi.c.              *)

\* An operation that runs a command.  A statement with an open cursor can
\* only be fetched from.
Call(s) ==
    /\ MayCall(s) /\ conn.up
    /\ \E o \in Ops : \E cmd \in BodyOf(o.kind) :
         /\ s \in conn.cursors => o.kind \in {"ro", "local"}
         /\ \E e \in (IF o.kind = "local" THEN BOOLEAN ELSE {FALSE}) :
              calls' = [calls EXCEPT ![s] =
                 [Idle EXCEPT !.pc = IF o.kind = "local" THEN "discard" ELSE "exec",
                              !.kind = o.kind, !.prot = o.prot, !.cmd = cmd,
                              !.err = e, !.before = be]]
         /\ writes' = IF cmd.w = NoWrite THEN writes ELSE cmd.w
    /\ UNCHANGED <<conn, be, wire, cs>>

\* SC_execute on a connection that is down.
Down(s) ==
    /\ calls[s].pc \in {"exec", "request", "ready"} /\ ~conn.up
    /\ FreeFor(s) /\ cs' = s
    /\ calls' = [calls EXCEPT ![s].pc = "post", ![s].err = TRUE]
    /\ UNCHANGED <<conn, be, wire, writes>>

\* BEGIN in a transaction the driver began by itself: CC_commit first.
CommitsFirst(s) == /\ calls[s].kind = "begin"
                   /\ conn.inTrans /\ DoesAutocommit(conn)

PreCommit(s) ==
    /\ calls[s].pc = "exec" /\ conn.up /\ FreeFor(s)
    /\ CommitsFirst(s)
    /\ cs' = s
    /\ Send(s, "precommit", <<Cmd("COMMIT")>>)
    /\ UNCHANGED <<conn, be, writes>>

PreCommitDone(s) ==
    /\ Answered(s, "precommit")
    /\ conn' = StatusCopied(s)
    /\ GoTo(s, "exec")
    /\ UNCHANGED <<be, wire, cs, writes>>

IssueBegin(s) ==
    /\ calls[s].kind \notin {"special", "ro"}
    /\ ~conn.inTrans
    /\ DoesAutocommit(conn) => calls[s].kind = "declare"

\* CC_begin before a statement of the extended protocol.
BeginFirst(s) ==
    /\ calls[s].pc = "exec" /\ calls[s].prot = "ext" /\ conn.up /\ FreeFor(s)
    /\ IssueBegin(s)
    /\ cs' = s
    /\ Send(s, "begin", <<Cmd("BEGIN")>>)
    /\ UNCHANGED <<conn, be, writes>>

BeginDone(s) ==
    /\ Answered(s, "begin")
    /\ conn' = StatusCopied(s)
    /\ GoTo(s, "request")
    /\ UNCHANGED <<be, wire, cs, writes>>

\* SetStatementSvp is called before the statement is sent: consider_rollback
\* of CC_send_query_append, RequestStart of libpq_bind_and_exec.
ConsidersSvp(s) ==
    /\ ~conn.rbpoint
    /\ \/ calls[s].prot = "ext"
       \/ IssueBegin(s)
       \/ conn.inTrans /\ ~conn.inError
       \/ calls[s].kind = "begin"

\* Beyond its early return for a transaction in error.
EntersSvp(s) == ConsidersSvp(s) /\ ~conn.inError

\* Mutant: no savepoint is made once there is one.
NeedsSvp_Once(s) ==
    /\ EntersSvp(s)
    /\ calls[s].kind \notin TransKinds \cup {"special"}
    /\ ~conn.optPrev /\ ~conn.svp
    /\ RollbackLevel = 2 /\ conn.inTrans

NeedsSvp(s) ==
    /\ EntersSvp(s)
    /\ calls[s].kind \notin TransKinds \cup {"special"}
    /\ ~conn.optPrev
    /\ RollbackLevel = 2 /\ conn.inTrans

ReadOnly(s) == calls[s].kind = "ro"

\* The savepoint has a round trip of its own.
DirectSavepoint(s) ==
    /\ calls[s].pc \in {"exec", "request"} /\ conn.up /\ FreeFor(s)
    /\ ~CommitsFirst(s)
    /\ calls[s].prot = "ext" => calls[s].pc = "request" \/ ~IssueBegin(s)
    /\ NeedsSvp(s) /\ (calls[s].prot = "ext" \/ ~ReduceRoundtrip)
    /\ cs' = s
    /\ conn' = [conn EXCEPT !.op = "savepoint", !.optIn = @ /\ ReadOnly(s)]
    /\ wire' = [wire EXCEPT ![s] = SavepointCmds]
    /\ calls' = [calls EXCEPT ![s].pc = "svp", ![s].lock = TRUE, ![s].fail = FALSE,
                              ![s].wasIn = calls[s].pc = "exec"]
    /\ UNCHANGED <<be, writes>>

SavepointMade(s) ==
    /\ Answered(s, "svp")
    /\ conn' = [StatusCopied(s) EXCEPT !.op = "none", !.accessed = TRUE]
    /\ IF calls[s].fail
       THEN calls' = [calls EXCEPT ![s].err = TRUE,
                      ![s].pc = IF calls[s].prot = "ext" THEN "discard" ELSE "post"]
       ELSE GoTo(s, "ready")
    /\ UNCHANGED <<be, wire, cs, writes>>

\* The statement itself, with what CC_send_query_append prepends to it.
SendMain(s) ==
    LET direct == calls[s].pc = "ready"
        enters == ~direct /\ EntersSvp(s)
        prepend == ~direct /\ NeedsSvp(s)
        begin == calls[s].prot = "simple" /\ ~direct /\ IssueBegin(s)
    IN  /\ calls[s].pc \in {"exec", "request", "ready"} /\ conn.up /\ FreeFor(s)
        /\ ~direct => ~CommitsFirst(s)
        /\ calls[s].pc = "exec" /\ calls[s].prot = "ext" => ~IssueBegin(s)
        /\ prepend => calls[s].prot = "simple" /\ ReduceRoundtrip
        /\ cs' = s
        /\ conn' = IF ~enters THEN conn
                   ELSE [conn EXCEPT !.optIn = @ /\ ReadOnly(s),
                           !.accessed = @ \/ calls[s].kind \notin TransKinds \cup {"special"},
                           !.op = IF prepend THEN "savepoint" ELSE @]
        /\ wire' = [wire EXCEPT ![s] =
                      (IF begin THEN <<Cmd("BEGIN")>> ELSE << >>)
                      \o (IF prepend THEN SavepointCmds ELSE << >>)
                      \o <<calls[s].cmd>>]
        /\ calls' = [calls EXCEPT ![s].pc = "main", ![s].fail = FALSE,
                       ![s].lock = @ \/ enters,
                       ![s].wasIn = IF calls[s].pc = "exec" THEN conn.inTrans ELSE @]
        /\ UNCHANGED <<be, writes>>

MainDone(s) ==
    /\ Answered(s, "main")
    /\ conn' = LET c == IF Queried(s) \/ calls[s].fail THEN StatusCopied(s) ELSE conn
               IN  IF calls[s].kind = "declare" /\ ~calls[s].fail
                   THEN [c EXCEPT !.cursors = @ \cup {s}] ELSE c
    /\ calls' = [calls EXCEPT ![s].pc = "post", ![s].err = calls[s].fail]
    /\ UNCHANGED <<be, wire, cs, writes>>

\* Mutant: autocommit off commits too.
CommitsAfter_Always(s) ==
    /\ calls[s].kind \notin SelectKinds \cup {"ro"}
    /\ conn.inTrans /\ calls[s].wasIn

\* "Even in case of autocommit, started transactions must be committed": a
\* statement that is no select commits the transaction a cursor began.
CommitsAfter(s) ==
    /\ calls[s].kind \notin SelectKinds \cup {"ro"}
    /\ conn.inTrans /\ calls[s].wasIn /\ DoesAutocommit(conn)

PostCommit(s) ==
    /\ calls[s].pc = "post" /\ CommitsAfter(s)
    /\ Send(s, "commit", <<Cmd("COMMIT")>>)
    /\ UNCHANGED <<conn, be, cs, writes>>

\* The result of CC_commit is not looked at.
PostCommitDone(s) ==
    /\ Answered(s, "commit")
    /\ conn' = StatusCopied(s)
    /\ GoTo(s, "discard")
    /\ LeaveCs(s)
    /\ UNCHANGED <<be, wire, writes>>

\* The transaction of a BEGIN, or of the first statement with autocommit off,
\* is a manual one.  The output parameters of a procedure call are converted
\* after the call succeeded, and the conversion can fail.
Post(s) ==
    /\ calls[s].pc = "post" /\ ~CommitsAfter(s)
    /\ conn' = [conn EXCEPT !.manual = @ \/ /\ calls[s].kind \notin SelectKinds \cup {"ro"}
                                            /\ conn.inTrans /\ ~calls[s].wasIn]
    /\ \E e \in (IF calls[s].kind = "call" THEN BOOLEAN ELSE {FALSE}) :
         calls' = [calls EXCEPT ![s].pc = "discard", ![s].err = @ \/ e]
    /\ LeaveCs(s)
    /\ UNCHANGED <<be, wire, writes>>

-----------------------------------------------------------------------------
(* DiscardStatementSvp, at the end of the call.                            *)

\* Mutants: success is undone too; level 1 or 2 undo nothing.
Engaged_Success(s) == conn.accessed /\ conn.inTrans /\ RollbackLevel > 0
Engaged_Level3(s) == conn.accessed /\ conn.inTrans /\ calls[s].err /\ RollbackLevel > 2

\* Something is to be undone: the driver sent something in this transaction,
\* the call failed and the level asks for it.
Engaged(s) == conn.accessed /\ conn.inTrans /\ calls[s].err /\ RollbackLevel > 0
HasRbPoint == conn.rbpoint /\ conn.svp

\* CC_internal_rollback returns at once when the transaction is not in error.
Discard(s) ==
    /\ calls[s].pc = "discard"
    /\ ~Engaged(s) \/ (HasRbPoint /\ ~conn.inError)
    /\ GoTo(s, "end")
    /\ UNCHANGED <<conn, be, wire, cs, writes>>

\* ROLLBACK TO the internal savepoint; PQexec, without the critical section.
Undo(s) ==
    /\ calls[s].pc = "discard"
    /\ Engaged(s) /\ HasRbPoint /\ conn.inError
    /\ Send(s, "undo", UndoCmds)
    /\ UNCHANGED <<conn, be, cs, writes>>

\* Mutant: tries again until the copy of the status says it worked, and never copies.
UndoDone_Again(s) ==
    /\ Answered(s, "undo")
    /\ GoTo(s, "discard")
    /\ UNCHANGED <<conn, be, wire, cs, writes>>

UndoDone(s) ==
    /\ Answered(s, "undo")
    /\ conn' = StatusCopied(s)
    /\ GoTo(s, "end")
    /\ UNCHANGED <<be, wire, cs, writes>>

\* CC_abort, which waits for the critical section.
DecideAbort(s) ==
    /\ calls[s].pc = "discard"
    /\ Engaged(s) /\ ~HasRbPoint
    /\ GoTo(s, "aborting")
    /\ UNCHANGED <<conn, be, wire, cs, writes>>

Abort(s) ==
    /\ calls[s].pc = "aborting" /\ FreeFor(s)
    /\ IF conn.up
       THEN cs' = s /\ Send(s, "abort", <<Cmd("ROLLBACK")>>)
       ELSE GoTo(s, "end") /\ UNCHANGED <<cs, wire>>
    /\ UNCHANGED <<conn, be, writes>>

AbortDone(s) ==
    /\ Answered(s, "abort")
    /\ GoTo(s, "sync")
    /\ LeaveCs(s)
    /\ UNCHANGED <<conn, be, wire, writes>>

\* CC_send_query_append copies the status after it left the critical section.
Sync(s) ==
    /\ calls[s].pc = "sync"
    /\ conn' = StatusCopied(s)
    /\ IF calls[s].kind = "close"
       THEN calls' = [calls EXCEPT ![s] = Idle]
       ELSE GoTo(s, "end")
    /\ UNCHANGED <<be, wire, cs, writes>>

\* The cleanup of DiscardStatementSvp and the return to the application.
EndCall(s) ==
    /\ calls[s].pc = "end"
    /\ conn' = LET c == IF ~calls[s].err /\ conn.accessed
                        THEN [conn EXCEPT !.optPrev = conn.optIn, !.optIn = TRUE]
                        ELSE conn
               IN  StartStmt(c)
    /\ calls' = [calls EXCEPT ![s] = Idle]
    /\ cs' = IF calls[s].lock THEN NoOne ELSE cs
    /\ UNCHANGED <<be, wire, writes>>

-----------------------------------------------------------------------------
(* SQLFreeStmt(SQL_CLOSE) on an open cursor: QR_close.                      *)

Close(s) ==
    /\ MayCall(s) /\ s \in conn.cursors /\ cs = NoOne
    /\ conn' = [conn EXCEPT !.cursors = @ \ {s}]
    /\ IF conn.inError
       THEN UNCHANGED <<calls, wire, cs>>
       ELSE /\ cs' = s
            /\ wire' = [wire EXCEPT ![s] = <<Cmd("CLOSE")>> \o
                         IF conn.inTrans /\ DoesAutocommit(conn) /\ conn.cursors = {s}
                         THEN <<Cmd("COMMIT")>> ELSE << >>]
            /\ calls' = [calls EXCEPT ![s] = [Idle EXCEPT !.pc = "close", !.kind = "close",
                                                !.before = be]]
    /\ UNCHANGED <<be, writes>>

CloseDone(s) ==
    /\ Answered(s, "close")
    /\ GoTo(s, "sync")
    /\ LeaveCs(s)
    /\ UNCHANGED <<conn, be, wire, writes>>

-----------------------------------------------------------------------------
(* Calls on the connection handle; they hold its critical section.         *)

\* SQLEndTran; nothing is sent outside a transaction or in autocommit mode.
EndTran(k) ==
    /\ MayCall(Dbc) /\ cs = NoOne /\ conn.up
    /\ k \in {"commit", "rollback"} \cap ConnOps
    /\ LovesVisibleTrans(conn) /\ conn.inTrans
    /\ cs' = Dbc
    /\ wire' = [wire EXCEPT ![Dbc] = <<Cmd(IF k = "commit" THEN "COMMIT" ELSE "ROLLBACK")>>]
    /\ calls' = [calls EXCEPT ![Dbc] = [Idle EXCEPT !.pc = "endtran", !.kind = k,
                                          !.cmd = Head(wire'[Dbc]), !.before = be]]
    /\ UNCHANGED <<conn, be, writes>>

EndTranDone ==
    /\ Answered(Dbc, "endtran")
    /\ conn' = IF calls[Dbc].fail THEN OnTransEnd(StatusCopied(Dbc)) ELSE StatusCopied(Dbc)
    /\ calls' = [calls EXCEPT ![Dbc] = Idle]
    /\ cs' = NoOne
    /\ UNCHANGED <<be, wire, writes>>

\* Mutant: switches autocommit without committing.
SetAutocommit_NoCommit ==
    /\ MayCall(Dbc) /\ cs = NoOne /\ conn.up /\ "autocommit" \in ConnOps
    /\ (~conn.autocommit) \in Autocommits
    /\ conn' = [conn EXCEPT !.autocommit = ~@]
    /\ UNCHANGED <<be, calls, wire, cs, writes>>

\* CC_set_autocommit, with the CC_commit whose result it does not look at.
SetAutocommit ==
    /\ MayCall(Dbc) /\ cs = NoOne /\ conn.up /\ "autocommit" \in ConnOps
    /\ (~conn.autocommit) \in Autocommits
    /\ IF conn.inTrans
       THEN /\ cs' = Dbc
            /\ wire' = [wire EXCEPT ![Dbc] = <<Cmd("COMMIT")>>]
            /\ calls' = [calls EXCEPT ![Dbc] = [Idle EXCEPT !.pc = "autocommit",
                           !.kind = "autocommit", !.before = be]]
            /\ UNCHANGED conn
       ELSE /\ conn' = [conn EXCEPT !.autocommit = ~@]
            /\ UNCHANGED <<calls, wire, cs>>
    /\ UNCHANGED <<be, writes>>

SetAutocommitDone ==
    /\ Answered(Dbc, "autocommit")
    /\ conn' = [StatusCopied(Dbc) EXCEPT !.autocommit = ~@]
    /\ calls' = [calls EXCEPT ![Dbc] = Idle]
    /\ cs' = NoOne
    /\ UNCHANGED <<be, wire, writes>>

-----------------------------------------------------------------------------
(* The server and the network.                                             *)

\* The answer to the next command of a message.  After an error the rest of
\* the message is not executed.
Reply(t) ==
    /\ wire[t] # << >> /\ be.st # "X"
    /\ \E o \in Outcomes(be, Head(wire[t])) :
         /\ be' = o.be
         /\ IF o.tag = "ERROR"
            THEN /\ wire' = [wire EXCEPT ![t] = << >>]
                 /\ calls' = [calls EXCEPT ![t].fail = TRUE]
                 /\ conn' = HandleError(conn)
            ELSE /\ wire' = [wire EXCEPT ![t] = Tail(@)]
                 /\ conn' = IF Queried(t) THEN HandleTag(conn, o.tag) ELSE conn
                 /\ UNCHANGED calls
    /\ UNCHANGED <<cs, writes>>

\* The connection breaks before the answer; the command may have run.
Lose(t) ==
    /\ MayLose /\ wire[t] # << >> /\ be.st # "X"
    /\ \E last \in {be} \cup {o.be : o \in Outcomes(be, Head(wire[t]))} : be' = Gone(last)
    /\ wire' = [x \in Threads |-> << >>]
    /\ calls' = [x \in Threads |->
                   IF wire[x] = << >> THEN calls[x] ELSE [calls[x] EXCEPT !.fail = TRUE]]
    /\ conn' = OnDead(conn)
    /\ UNCHANGED <<cs, writes>>

\* The next call on a lost connection fails over to a new one and returns
\* SQL_ERROR (SC_connection_lost_check); the flags stay as they are.
Reconnect(s) ==
    /\ MayCall(s) /\ ~conn.up
    /\ conn' = [conn EXCEPT !.up = TRUE]
    /\ be' = FreshSession(be.durable)
    /\ UNCHANGED <<calls, wire, cs, writes>>

-----------------------------------------------------------------------------
Init ==
    /\ conn \in {[autocommit |-> a, inTrans |-> FALSE, manual |-> FALSE, inError |-> FALSE,
                  accessed |-> FALSE, rbpoint |-> FALSE, svp |-> FALSE, op |-> "none",
                  optIn |-> TRUE, optPrev |-> TRUE, up |-> TRUE, cursors |-> {}] :
                    a \in Autocommits}
    /\ be = FreshSession({})
    /\ calls = [t \in Threads |-> Idle]
    /\ wire = [t \in Threads |-> << >>]
    /\ cs = NoOne
    /\ writes = 0

\* What the driver does once it has been called.
Progress(s) ==
    \/ Down(s) \/ PreCommit(s) \/ PreCommitDone(s) \/ BeginFirst(s) \/ BeginDone(s)
    \/ DirectSavepoint(s) \/ SavepointMade(s) \/ SendMain(s) \/ MainDone(s)
    \/ PostCommit(s) \/ PostCommitDone(s) \/ Post(s)
    \/ Discard(s) \/ Undo(s) \/ UndoDone(s)
    \/ DecideAbort(s) \/ Abort(s) \/ AbortDone(s) \/ Sync(s) \/ EndCall(s)
    \/ CloseDone(s)

DbcProgress == EndTranDone \/ SetAutocommitDone

Next ==
    \/ \E s \in Stmts : Call(s) \/ Close(s) \/ Reconnect(s) \/ Progress(s)
    \/ \E k \in {"commit", "rollback"} : EndTran(k)
    \/ SetAutocommit \/ DbcProgress
    \/ \E t \in Threads : Reply(t) \/ Lose(t)

Spec == Init /\ [][Next]_vars

\* A thread inside the driver runs on, and the server answers what it is sent.
Fairness ==
    /\ \A s \in Stmts : WF_vars(Progress(s))
    /\ WF_vars(DbcProgress)
    /\ \A t \in Threads : WF_vars(Reply(t) \/ Lose(t))

FairSpec == Spec /\ Fairness

-----------------------------------------------------------------------------
(* Properties.                                                             *)

DataKinds == {"write", "read", "declare", "call", "ro", "special"}

\* The savepoints the application made, oldest first: the k-th is the one with k of its
\* savepoints up to it.
OwnPlaces(b) == {i \in DOMAIN b.svps : b.svps[i].name # Internal}
UpTo(b, i) == Cardinality({j \in OwnPlaces(b) : j <= i})
UserSvps(b) == [k \in 1 .. Cardinality(OwnPlaces(b)) |->
                  b.svps[CHOOSE i \in OwnPlaces(b) : UpTo(b, i) = k]]

\* While the driver believes in its internal savepoint (internal_svp), that
\* savepoint is the newest one of the transaction: a RELEASE or ROLLBACK TO of
\* it reaches nothing of the application's (comment in CC_send_query_append on
\* the two risks of releasing an internal savepoint).
OwnSavepointOnTop ==
    conn.svp /\ be.st \in {"T", "E"} =>
        be.svps # << >> /\ Last(be.svps).name = Internal

\* No command the driver adds by itself (RELEASE, SAVEPOINT, ROLLBACK TO of the
\* internal savepoint) removes a savepoint of the application.
UserSavepointsSurvive ==
    [][\A t \in Threads :
         wire[t] # << >> /\ wire'[t] # wire[t] /\ Head(wire[t]).sp = Internal /\ conn'.up
            => UserSvps(be') = UserSvps(be)]_vars

Returns(t) == calls[t].pc # PcIdle /\ calls'[t].pc = PcIdle

\* A statement that works on data returns SQL_ERROR in a transaction that was
\* sound when it was called.
FailsInTrans(s) == /\ Returns(s) /\ calls[s].err /\ conn'.up
                   /\ calls[s].kind \in DataKinds /\ calls[s].before.st = "T"

\* Level 2: a statement that returns SQL_ERROR undoes its own work and no other
\* (SetStatementSvp before it, DiscardStatementSvp after it).
EarlierWorkKept ==
    [][\A s \in Stmts : FailsInTrans(s) => be'.work = calls[s].before.work]_vars

\* Level 2, with any interleaving of threads: what DiscardStatementSvp sends for
\* a call takes back the writes of that call only.
UndoesOwnOnly ==
    [][\A s \in Stmts :
         /\ calls[s].pc \in {"undo", "abort"} /\ wire'[s] # wire[s] /\ conn'.up
         => Range(be.work) \ Range(be'.work) \subseteq {calls[s].cmd.w}]_vars

\* Levels 1 and 2: a statement that works on data never leaves a transaction
\* that was sound in the failed state, in which every later statement fails:
\* DiscardStatementSvp has undone it before the call returns.
NotPoisoned ==
    [][\A s \in Stmts :
         /\ Returns(s) /\ calls[s].kind \in DataKinds /\ calls[s].before.st # "E"
         => be'.st # "E"]_vars

\* A write that is reported as done is part of the open transaction or durable,
\* and one reported as failed is neither: SC_execute with everything it sends
\* around the statement.
WriteReported ==
    [][\A s \in Stmts :
         /\ Returns(s) /\ calls[s].kind = "write" /\ conn'.up
         => LET w == calls[s].cmd.w
                kept == w \in be'.durable \/ w \in Range(be'.work)
            IN  kept <=> ~calls[s].err]_vars

\* SQLEndTran(SQL_COMMIT) that returns SQL_SUCCESS committed what the
\* transaction held when it was called.
CommitTruth ==
    [][Returns(Dbc) /\ calls[Dbc].kind = "commit" /\ ~calls[Dbc].fail
         => Range(calls[Dbc].before.work) \subseteq be'.durable]_vars

\* In autocommit mode the driver leaves no transaction of its own open: one
\* that is open was begun by the application or serves an open cursor
\* (CC_set_autocommit, QR_close and the CC_commit after a statement).
AutocommitSettled ==
    AtRest /\ conn.up /\ DoesAutocommit(conn) /\ conn.cursors = {} => be.st = "I"

\* Two messages are never in flight at the same time on one connection:
\* ENTER_CONN_CS keeps PQsendQuery and the PQexec of CC_internal_rollback apart.
OneInFlight ==
    \A t, u \in Threads : wire[t] # << >> /\ wire[u] # << >> => t = u

(***************************************************************************)
(* The application's view of the session: while a call runs, the session   *)
(* it began with; never the internal savepoint.  With autocommit off and   *)
(* level 2 the driver implements TransactionContract on it.                *)
(***************************************************************************)
Seen(b) == [b EXCEPT !.svps = UserSvps(b)]
Running == {t \in Threads : calls[t].pc # PcIdle /\ calls[t].kind # "close"}
Runner == CHOOSE t \in Running : TRUE
SeenSession == IF Running = {} THEN Seen(be) ELSE Seen(calls[Runner].before)
SeenCall ==
    IF Running = {} THEN [busy |-> FALSE, cmd |-> Cmd("READ"), failed |-> FALSE]
    ELSE [busy |-> TRUE, cmd |-> calls[Runner].cmd,
          failed |-> calls[Runner].err \/ (Runner = Dbc /\ calls[Runner].fail)]

Contract == INSTANCE TransactionContract
                WITH SvpNames <- SvpNames \ {Internal},
                     session <- SeenSession, call <- SeenCall
ImplementsContract == Contract!Spec

\* Every call returns: no thread waits for ever for the critical section that
\* SetStatementSvp entered for the length of another call (lock_CC_for_rb).
CallsReturn == \A t \in Threads : calls[t].pc # PcIdle ~> calls[t].pc = PcIdle
=============================================================================
