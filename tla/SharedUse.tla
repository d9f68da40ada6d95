------------------------------ MODULE SharedUse ------------------------------
(***************************************************************************)
(* The use of one connection by several threads at a time for which level  *)
(* 2 keeps their calls apart: statements on data and SQLEndTran, with      *)
(* autocommit off, on a connection that does not break; and the invariant  *)
(* behind it.  lock_CC_for_rb makes the critical section last from the     *)
(* first message of a call to its return, so that one call is inside.      *)
(***************************************************************************)
EXTENDS CursorUse

DataOnly == {"write", "read"}

OnThreads ==
    /\ RollbackLevel = 2 /\ Autocommits = {FALSE} /\ ~MayLose
    /\ \A o \in Ops : o.kind \in DataOnly

-----------------------------------------------------------------------------
(* The session x behind the connection c.                                  *)

Open(x) == x.st = "T"

\* What holds even while an answer is still to be looked at.
Basis(c, x) ==
    /\ Coherent(c, x) /\ x.st # "X" /\ (x.st = "I" => x.work = << >>)
    /\ ~c.autocommit /\ c.cursors = {}

\* The newest savepoint is the driver's and marks all the work.
TopMarks(x) ==
    /\ x.svps # << >> /\ x.svps[Len(x.svps)].name = Internal
    /\ x.svps[Len(x.svps)].mark = Len(x.work)

\* SVPOPT_RDONLY of the statement before does not hide that there is work.
Remembers(c, x) == x.work # << >> => ~c.optPrev

Sound(c, x) == Aware(c, x) /\ x.st # "E" /\ Remembers(c, x)

\* Nothing of a statement is left in the flags.
Quiet(c, x) == Sound(c, x) /\ Clear(c)

\* What can be undone by itself, and what is alone in its transaction.
Saved(c, x) == c.rbpoint /\ c.svp /\ TopMarks(x) /\ ~c.optPrev
First(c, x) == ~c.rbpoint /\ x.work = << >>
Kept(c, x) == Saved(c, x) \/ First(c, x)

-----------------------------------------------------------------------------
(* The call k inside the critical section, with the message w on the wire. *)

Locked(k, c) == k.lock /\ c.accessed /\ ~c.optIn

ThenBegin(w, c, x) ==
    /\ Clear(c)
    /\ \/ w = <<Cmd("BEGIN")>> /\ Aware(c, x) /\ x.st = "I"
       \/ w = << >> /\ Aware(c, x) /\ Open(x) /\ x.work = << >>

Savepoints(w, c) ==
    /\ c.op = "savepoint" /\ ~c.optPrev
    /\ \/ w = <<SvpCmd("RELEASE", Internal), SvpCmd("SAVEPOINT", Internal)>> /\ c.svp
       \/ w = <<SvpCmd("SAVEPOINT", Internal)>>

ThenSvp(k, w, c, x) ==
    /\ k.lock /\ ~c.optIn /\ ~k.fail /\ Aware(c, x) /\ Open(x)
    /\ Savepoints(w, c) \/ (w = << >> /\ Saved(c, x))

ThenReady(k, w, c, x) ==
    w = << >> /\ Locked(k, c) /\ Aware(c, x) /\ Open(x) /\ Saved(c, x)

ThenMain(k, w, c, x) ==
    /\ Locked(k, c) /\ Aware(c, x)
    /\ \/ /\ ~k.fail /\ k.prot = "simple"
          /\ \/ w = <<Cmd("BEGIN"), k.cmd>> /\ x.st = "I" /\ First(c, x)
             \/ /\ Open(x) /\ c.op = "savepoint" /\ ~c.optPrev
                /\ \/ w = <<SvpCmd("RELEASE", Internal), SvpCmd("SAVEPOINT", Internal),
                            k.cmd>> /\ c.svp
                   \/ w = <<SvpCmd("SAVEPOINT", Internal), k.cmd>>
       \/ ~k.fail /\ w = <<k.cmd>> /\ Open(x) /\ Kept(c, x)
       \/ ~k.fail /\ w = << >> /\ Open(x)
       \/ k.fail /\ w = << >> /\ x.st = "E" /\ Kept(c, x)

\* The statement was executed; if it failed, so did the transaction.
ThenDone(k, w, c, x) ==
    /\ w = << >> /\ Locked(k, c) /\ Aware(c, x)
    /\ IF k.err THEN x.st = "E" /\ Kept(c, x) ELSE Open(x)

ThenUndo(k, w, c, x) ==
    /\ k.lock /\ k.err /\ Saved(c, x) /\ c.inTrans
    /\ \/ w = UndoCmds /\ x.st = "E"
       \/ w = << >> /\ Open(x)

ThenAbort(k, w, c, x) ==
    /\ k.lock /\ k.err /\ c.inTrans
    /\ \/ w = <<Cmd("ROLLBACK")>> /\ x.st = "E" /\ x.work = << >>
       \/ w = << >> /\ x.st = "I"

ThenEnd(k, w, c, x) ==
    /\ w = << >> /\ k.lock /\ Aware(c, x) /\ x.st # "E"
    /\ IF k.err THEN Remembers(c, x) ELSE c.accessed /\ ~c.optIn

ThenEndTran(w, c, x) ==
    /\ Clear(c) /\ c.inTrans
    /\ \/ w \in {<<Cmd("COMMIT")>>, <<Cmd("ROLLBACK")>>} /\ Open(x)
       \/ w = << >> /\ x.st = "I"

Inner == {"begin", "request", "svp", "ready", "main", "post", "discard", "undo",
          "aborting", "abort", "sync", "end"}

Stage(k, w, c, x) ==
    /\ k.pc \in {"begin", "request", "svp", "ready", "main"} => ~k.err
    /\ k.pc = "begin" => k.prot = "ext" /\ ThenBegin(w, c, x)
    /\ k.pc = "request" => k.prot = "ext" /\ w = << >> /\ Quiet(c, x) /\ Open(x)
    /\ k.pc = "svp" => ThenSvp(k, w, c, x)
    /\ k.pc = "ready" => ThenReady(k, w, c, x)
    /\ k.pc = "main" => ThenMain(k, w, c, x)
    /\ k.pc \in {"post", "discard"} => ThenDone(k, w, c, x)
    /\ k.pc = "undo" => ThenUndo(k, w, c, x)
    /\ k.pc = "aborting" =>
         w = << >> /\ k.lock /\ k.err /\ c.inTrans /\ x.st = "E" /\ x.work = << >>
    /\ k.pc = "abort" => ThenAbort(k, w, c, x)
    /\ k.pc = "sync" => w = << >> /\ k.lock /\ k.err /\ c.inTrans /\ x.st = "I"
    /\ k.pc = "end" => ThenEnd(k, w, c, x)
    /\ k.pc = "endtran" => ThenEndTran(w, c, x)

Asked(k) ==
    /\ k.kind \in DataOnly
    /\ k.cmd.c = IF k.kind = "write" THEN "WRITE" ELSE "READ"

\* A call waits for the critical section or is in it.
Turn(t, k, w, inside) ==
    /\ IF k.pc \in {PcIdle, "exec"} THEN w = << >> /\ ~k.err /\ ~k.lock ELSE inside
    /\ inside => k.pc \in IF t = Dbc THEN {"endtran"} ELSE Inner
    /\ t # Dbc /\ k.pc # PcIdle => Asked(k)

SharedInv ==
    /\ Basis(conn, be)
    /\ \A t \in Threads : Turn(t, calls[t], wire[t], cs = t)
    /\ cs = NoOne => Quiet(conn, be)
    /\ \A t \in Threads : cs = t => Stage(calls[t], wire[t], conn, be)

\* More than UndoesOwnOnly says: what DiscardStatementSvp sends takes back nothing.
UndoLosesNothing ==
    [][\A s \in Stmts :
         calls[s].pc \in {"undo", "abort"} /\ wire'[s] # wire[s] => be'.work = be.work]_vars
=============================================================================
