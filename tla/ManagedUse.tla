----------------------------- MODULE ManagedUse ------------------------------
(***************************************************************************)
(* The use of the driver for which level Statement(2) keeps what it        *)
(* promises, and the invariant behind that: what the driver knows of the   *)
(* session at every point of a call.                                       *)
(***************************************************************************)
EXTENDS StatementSvp
-----------------------------------------------------------------------------
(* What the application is: one call at a time, autocommit off, level 2,   *)
(* statements that work on data by either protocol and transaction         *)
(* commands by the simple one.                                             *)

ManagedKinds == {"write", "read", "begin", "savepoint", "rollbackto", "release", "commit",
                 "rollback", "local"}

Managed ==
    /\ Serialized /\ RollbackLevel = 2 /\ Autocommits = {FALSE}
    /\ \A o \in Ops : /\ o.kind \in ManagedKinds
                      /\ o.prot = "ext" => o.kind \in {"write", "read"}

IsData(kind) == kind \in {"write", "read", "local"}

\* The kinds SetStatementSvp makes a savepoint for.
Guards == {"write", "read", "begin"}

\* A call and what it began with.
Shape(k) ==
    /\ k.kind \in ManagedKinds
    /\ k.prot = "ext" => k.kind \in {"write", "read"}
    /\ k.kind \in {"read", "local"} => k.cmd = Cmd("READ")
    /\ k.kind = "write" => k.cmd.w \in Writes /\ k.cmd = WriteCmd(k.cmd.w)
    /\ k.kind = "begin" => k.cmd = Cmd("BEGIN")
    /\ k.kind = "commit" => k.cmd = Cmd("COMMIT")
    /\ k.kind = "rollback" => k.cmd = Cmd("ROLLBACK")
    /\ k.kind \in {"savepoint", "release", "rollbackto"} => k.cmd.sp \in SvpNames \ {Internal}
    /\ k.kind = "savepoint" => k.cmd = SvpCmd("SAVEPOINT", k.cmd.sp)
    /\ k.kind = "release" => k.cmd = SvpCmd("RELEASE", k.cmd.sp)
    /\ k.kind = "rollbackto" => k.cmd = SvpCmd("ROLLBACK TO", k.cmd.sp)
    /\ k.before.st # "X"
    /\ k.before.st = "I" => k.before.work = << >> /\ k.before.svps = << >>

-----------------------------------------------------------------------------
(* What a session x is to the session b that a call began with.            *)

Live(x) == x.st \in {"T", "E"}
BegunBy(b) == IF b.st = "I" THEN [b EXCEPT !.st = "T"] ELSE b

Unchanged(b, x) == x.work = b.work /\ x.durable = b.durable /\ UserSvps(x) = UserSvps(b)
Same(b, x) == Unchanged(b, x) /\ x.st = b.st
Clean(b, x) == Unchanged(b, x) /\ x.st = IF b.st = "I" THEN "T" ELSE b.st

OkEffect(b, cmd, x) ==
    \E o \in Outcomes(BegunBy(Seen(b)), cmd) : o.tag # "ERROR" /\ Seen(x) = o.be
ErrEffect(b, cmd, x) ==
    \E o \in Outcomes(BegunBy(Seen(b)), cmd) : o.tag = "ERROR" /\ Seen(x) = o.be
Emptied(b, x) == b.work = << >> /\ x = FreshSession(b.durable)
LostEffect(b, cmd, x) ==
    \E d \in {b.durable} \cup {d \in {b.durable \cup {b.work[i] : i \in DOMAIN b.work}} :
                                  cmd.c = "COMMIT"} :
       x = Gone(FreshSession(d))

DoneEffect(k, x) == OkEffect(k.before, k.cmd, x) \/ (k.kind = "local" /\ Same(k.before, x))
FailEffect(k, x) ==
    \/ IsData(k.kind) /\ (Same(k.before, x) \/ Emptied(k.before, x))
    \/ ~IsData(k.kind) /\ ErrEffect(k.before, k.cmd, x)
    \/ LostEffect(k.before, k.cmd, x)

-----------------------------------------------------------------------------
(* What the driver knows of the session.                                   *)

TopOwn(x) == x.svps # << >> /\ x.svps[Len(x.svps)].name = Internal
TopNow(x) == TopOwn(x) /\ x.svps[Len(x.svps)].mark = Len(x.work)

\* SVPOPT_RDONLY of the statements before tells that there is work to protect.
KnowsWork(c, x) == x.work # << >> => ~c.optPrev

Ground(c, x) ==
    /\ ~c.autocommit /\ c.cursors = {}
    /\ c.up <=> x.st # "X"
    /\ ~Live(x) => x.work = << >> /\ x.svps = << >>
    /\ c.svp /\ Live(x) => TopOwn(x)

Settled(c, x) ==
    /\ c.inTrans <=> Live(x)
    /\ c.inError <=> x.st = "E"
    /\ c.op = "none" /\ (c.svp => c.inTrans)
    /\ ~c.inTrans => c.optPrev /\ ~c.rbpoint
Untouched(c) == ~c.accessed /\ ~c.rbpoint
Calm(c, x) == Settled(c, x) /\ Untouched(c) /\ KnowsWork(c, x)
Dead(k, c, x) == Settled(c, x) /\ x.st = "X" /\ LostEffect(k.before, k.cmd, x)

\* The statement is protected, or there is nothing to protect.
Armed(c) == c.accessed /\ ~c.optIn
Guarded(k, c, x) == Armed(c) /\ c.rbpoint /\ c.svp /\ TopNow(x) /\ k.before.st = "T"
Bare(k, c, x) == Armed(c) /\ ~c.rbpoint /\ k.before.work = << >>

\* The command of the call is the next that the server executes.
Sent(k, c, x) ==
    /\ k.kind # "local" /\ Clean(k.before, x)
    /\ c.inTrans /\ (c.inError <=> x.st = "E") /\ c.op = "none" /\ KnowsWork(c, x)
    /\ IF k.kind \in Guards /\ x.st = "T"
       THEN Guarded(k, c, x) \/ Bare(k, c, x)
       ELSE Untouched(c)

\* A failed transaction that DiscardStatementSvp has to see to.
Undoable(k, c, x) ==
    /\ Settled(c, x) /\ x.st = "E" /\ IsData(k.kind) /\ KnowsWork(c, x)
    /\ x.durable = k.before.durable
    /\ \/ Guarded(k, c, x) /\ Unchanged(k.before, x)
       \/ Bare(k, c, x)

FailState(k, c, x) ==
    \/ Dead(k, c, x)
    \/ Undoable(k, c, x)
    \/ Settled(c, x) /\ ~c.accessed /\ FailEffect(k, x) /\ KnowsWork(c, x)

DoneState(k, c, x) ==
    /\ DoneEffect(k, x) /\ Settled(c, x) /\ (~c.inTrans => ~c.accessed)
    /\ x.work # << >> => IF c.accessed THEN ~c.optIn ELSE ~c.optPrev

-----------------------------------------------------------------------------
(* A call at each of its program counters, with the message w on the wire. *)

Release == SvpCmd("RELEASE", Internal)
Savepoint == SvpCmd("SAVEPOINT", Internal)

AtExec(k, w, c, x) == w = << >> /\ Calm(c, x) /\ x = k.before /\ ~k.err /\ k.kind # "local"

\* The transaction of the extended protocol has begun, or the connection broke.
Begins(k, c, x) == Calm(c, x) /\ c.optPrev /\ Clean(k.before, x) /\ x.st = "T"
AtRequest(k, w, c, x) ==
    /\ w = << >> /\ k.prot = "ext" /\ k.before.st = "I" /\ ~k.err
    /\ Begins(k, c, x) \/ Dead(k, c, x)
AtBegin(k, w, c, x) ==
    \/ /\ w = <<Cmd("BEGIN")>> /\ k.prot = "ext" /\ ~k.err
       /\ Calm(c, x) /\ x = k.before /\ x.st = "I"
    \/ AtRequest(k, w, c, x)

\* The internal savepoint is being made.
Protecting(k, c, x) ==
    /\ k.kind \in Guards /\ k.before.st = "T" /\ Same(k.before, x)
    /\ c.inTrans /\ ~c.inError /\ ~c.optIn /\ KnowsWork(c, x)
SvpWire(k, w, c, x) ==
    \/ w = <<Release, Savepoint>> /\ c.op = "savepoint" /\ ~c.rbpoint /\ c.svp
    \/ w = <<Savepoint>> /\ c.op = "savepoint" /\ ~c.rbpoint
    \/ w = << >> /\ c.op = "none" /\ c.rbpoint /\ c.svp /\ TopNow(x)
AtSvp(k, w, c, x) ==
    /\ k.kind \in Guards /\ ~k.err
    /\ \/ ~k.fail /\ Protecting(k, c, x) /\ SvpWire(k, w, c, x)
       \/ k.fail /\ w = << >> /\ Dead(k, c, x)
AtReady(k, w, c, x) ==
    w = << >> /\ ~k.err /\ k.kind \in Guards /\ Sent(k, c, x) /\ Guarded(k, c, x) /\ x.st = "T"

\* CC_send_query_append puts BEGIN, or the internal savepoint, before the command.
AfterBegin(k, w, c, x) ==
    /\ w = <<Cmd("BEGIN"), k.cmd>> /\ x = k.before /\ x.st = "I" /\ k.kind # "local"
    /\ ~c.inTrans /\ ~c.inError /\ c.op = "none" /\ ~c.svp /\ ~c.rbpoint
    /\ IF k.kind \in Guards THEN Armed(c) ELSE ~c.accessed
AfterSvp(k, w, c, x) ==
    /\ Protecting(k, c, x) /\ c.accessed /\ c.op = "savepoint" /\ ~c.rbpoint
    /\ \/ w = <<Release, Savepoint, k.cmd>> /\ c.svp
       \/ w = <<Savepoint, k.cmd>>
AfterMain(k, c, x) ==
    IF k.prot = "simple" \/ k.fail THEN UpdateTransactionStatus(c, x.st) ELSE c
AtMain(k, w, c, x) ==
    /\ ~k.err
    /\ \/ ~k.fail /\ w = <<k.cmd>> /\ Sent(k, c, x)
       \/ ~k.fail /\ k.prot = "simple" /\ (AfterBegin(k, w, c, x) \/ AfterSvp(k, w, c, x))
       \/ ~k.fail /\ w = << >> /\ DoneState(k, AfterMain(k, c, x), x)
       \/ k.fail /\ w = << >> /\ FailState(k, AfterMain(k, c, x), x)

AtDiscard(k, w, c, x) == w = << >> /\ IF k.err THEN FailState(k, c, x) ELSE DoneState(k, c, x)

\* The failed statement has been rolled back to its savepoint.
Undone(k, c, x) ==
    /\ x.st = "T" /\ IsData(k.kind) /\ Same(k.before, x) /\ c.inTrans
    /\ c.op = "none" /\ KnowsWork(c, x)
AtUndo(k, w, c, x) ==
    /\ k.err
    /\ \/ w = UndoCmds /\ Undoable(k, c, x) /\ Guarded(k, c, x)
       \/ w = << >> /\ (Dead(k, c, x) \/ Undone(k, c, x))

AtAborting(k, w, c, x) == k.err /\ w = << >> /\ Undoable(k, c, x) /\ Bare(k, c, x)

\* The transaction is gone, without any work of the application's.
GaveUp(k, c, x) == Dead(k, c, x) \/ (IsData(k.kind) /\ Emptied(k.before, x) /\ c.inTrans)
AtAbort(k, w, c, x) ==
    /\ k.err
    /\ \/ w = <<Cmd("ROLLBACK")>> /\ Undoable(k, c, x) /\ Bare(k, c, x)
       \/ w = << >> /\ GaveUp(k, c, x)
AtSync(k, w, c, x) == k.err /\ w = << >> /\ GaveUp(k, c, x)

AtEnd(k, w, c, x) ==
    w = << >> /\ IF k.err THEN Settled(c, x) /\ FailEffect(k, x) /\ KnowsWork(c, x)
                          ELSE DoneState(k, c, x)

AtEndTran(k, w, c, x) ==
    /\ k.kind \in {"commit", "rollback"} /\ ~k.err
    /\ \/ ~k.fail /\ w = <<k.cmd>> /\ Sent(k, c, x)
       \/ ~k.fail /\ w = << >> /\ OkEffect(k.before, k.cmd, x) /\ x.st = "I" /\ c.inTrans
       \/ /\ k.fail /\ w = << >>
          /\ Dead(k, c, x) \/ (ErrEffect(k.before, k.cmd, x) /\ x.st = "I" /\ c.inTrans)

MidPcs == {"exec", "begin", "request", "svp", "ready", "main", "post", "discard", "undo",
           "aborting", "abort", "sync", "end", "endtran"}

Stage(k, w, c, x) ==
    /\ k.pc \in MidPcs
    /\ k.pc = "exec" => AtExec(k, w, c, x)
    /\ k.pc = "begin" => AtBegin(k, w, c, x)
    /\ k.pc = "request" => AtRequest(k, w, c, x)
    /\ k.pc = "svp" => AtSvp(k, w, c, x)
    /\ k.pc = "ready" => AtReady(k, w, c, x)
    /\ k.pc = "main" => AtMain(k, w, c, x)
    /\ k.pc \in {"post", "discard"} => AtDiscard(k, w, c, x)
    /\ k.pc = "undo" => AtUndo(k, w, c, x)
    /\ k.pc = "aborting" => AtAborting(k, w, c, x)
    /\ k.pc = "abort" => AtAbort(k, w, c, x)
    /\ k.pc = "sync" => AtSync(k, w, c, x)
    /\ k.pc = "end" => AtEnd(k, w, c, x)
    /\ k.pc = "endtran" => AtEndTran(k, w, c, x)

Mid(t, k, w, c, x) ==
    IF k.pc = PcIdle THEN w = << >>
    ELSE Shape(k) /\ Stage(k, w, c, x) /\ ((t = Dbc) <=> (k.pc = "endtran"))

SerialInv ==
    /\ Ground(conn, be)
    /\ AtRest => Calm(conn, be)
    /\ \A t, u \in Threads : calls[t].pc # PcIdle /\ calls[u].pc # PcIdle => t = u
    /\ \A t \in Threads : Mid(t, calls[t], wire[t], conn, be)

-----------------------------------------------------------------------------
(* The numbers of the writes.                                              *)

\* The writes a session holds are among the first n the application asked for.
Within(x, n) == x.durable \subseteq 1 .. n /\ \A i \in DOMAIN x.work : x.work[i] \in 1 .. n
Lacks(x, w) == w \notin x.durable /\ \A i \in DOMAIN x.work : x.work[i] # w

\* A write is a new one to the session its call began with.
NumberInv ==
    /\ Within(be, writes)
    /\ \A t \in Threads : calls[t].pc # PcIdle /\ calls[t].kind = "write" =>
          calls[t].cmd.w \in 1 .. writes /\ Lacks(calls[t].before, calls[t].cmd.w)

\* The driver, the session and the call that runs agree at every point of that
\* call: the flags of the connection (transact_status, internal_svp, opt_previous)
\* tell the truth about the session where the code relies on them, the statement is
\* protected by a savepoint or has nothing to protect, and a write is new to the
\* session its call began with.
ManagedInv == SerialInv /\ NumberInv
==============================================================================
