------------------------------ MODULE CursorUse ------------------------------
(***************************************************************************)
(* The use of the driver for which it leaves nothing of its own behind in  *)
(* the session, with declare/fetch cursors and autocommit switched on and  *)
(* off, and the invariant behind that.                                     *)
(***************************************************************************)
EXTENDS StatementSvp
-----------------------------------------------------------------------------
(* What the application is: one call at a time, level 1 or 2, statements   *)
(* on data, BEGIN, and calls that never reach the server.  Only writes and *)
(* plain reads go by the extended protocol.                                *)

CursorKinds == {"write", "read", "declare", "call", "ro", "begin", "local"}

OnCursors ==
    /\ Serialized /\ RollbackLevel # 0
    /\ \A o \in Ops : /\ o.kind \in CursorKinds
                      /\ o.prot = "ext" => o.kind \in {"write", "read"}

-----------------------------------------------------------------------------
(* The connection c and the session x.                                     *)

InBlock(x) == x.st \in {"T", "E"}
Marked(x) == Places(x, Internal) # {}

\* What holds even while an answer is still to be looked at.
Coherent(c, x) ==
    /\ c.up <=> x.st # "X"
    /\ c.inTrans => c.up
    /\ c.manual \/ c.inError \/ c.svp => c.inTrans
    /\ c.svp /\ InBlock(x) => Marked(x)

\* transact_status is the session's.
Aware(c, x) == (c.inTrans <=> InBlock(x)) /\ (c.inError <=> x.st = "E")

\* The transaction serves the application or an open cursor.
Served(c) == c.inTrans /\ DoesAutocommit(c) => c.cursors # {}

\* The statement before left nothing in rbonerr.
Clear(c) == ~c.accessed /\ ~c.rbpoint

Restful(c, x) == Aware(c, x) /\ x.st # "E" /\ Served(c) /\ Clear(c)

\* The transaction is over, or the session is; or it goes on.
Over(x) == x.st \in {"I", "X"}
GoesOn(c, x) == x.st = "T" /\ c.inTrans /\ Served(c)

-----------------------------------------------------------------------------
(* The call k, with the message w on the wire.                             *)

Body(k) ==
    /\ k.kind \in CursorKinds
    /\ k.prot = "ext" => k.kind \in {"write", "read"}
    /\ k.cmd.c = IF k.kind \in {"write", "call"} THEN "WRITE"
                 ELSE IF k.kind = "begin" THEN "BEGIN" ELSE "READ"

Ends(cmds, w, c, x) == (w = cmds /\ c.inTrans) \/ (w = << >> /\ Over(x))
AtCommit(w, c, x) == Ends(<<Cmd("COMMIT")>>, w, c, x)

InBegin(k, w, c, x) ==
    /\ k.prot = "ext" /\ ~k.err /\ Aware(c, x) /\ Clear(c) /\ ~DoesAutocommit(c)
    /\ \/ w = <<Cmd("BEGIN")>> /\ x.st = "I"
       \/ w = << >> /\ x.st \in {"T", "X"}

InRequest(k, w, c, x) ==
    /\ w = << >> /\ k.prot = "ext" /\ ~k.err
    /\ Aware(c, x) /\ Clear(c) /\ ~DoesAutocommit(c) /\ x.st \in {"T", "X"}

SavepointSent(w, c) ==
    \/ w = <<SvpCmd("RELEASE", Internal), SvpCmd("SAVEPOINT", Internal)>> /\ c.svp
    \/ w = <<SvpCmd("SAVEPOINT", Internal)>>

InSvp(k, w, c, x) ==
    /\ ~k.err /\ Aware(c, x) /\ Served(c)
    /\ \/ ~k.fail /\ x.st = "T" /\ (SavepointSent(w, c) \/ w = << >>)
       \/ k.fail /\ x.st = "X" /\ w = << >>

InReady(k, w, c, x) ==
    /\ w = << >> /\ ~k.err /\ Aware(c, x) /\ Served(c) /\ c.accessed /\ x.st = "T"

\* A transaction that is not served is a cursor's that was not opened yet, without
\* a savepoint to go back to, or that of a BEGIN, which Post makes a manual one.
Dues(k, c) ==
    \/ Served(c)
    \/ k.kind = "declare" /\ ~c.rbpoint
    \/ k.kind = "begin" /\ ~k.wasIn

MainBegin(k, w, c, x) ==
    /\ w = <<Cmd("BEGIN"), k.cmd>> /\ x.st = "I" /\ c.accessed /\ ~c.rbpoint
    /\ DoesAutocommit(c) => k.kind = "declare"
MainSvp(k, w, c, x) ==
    /\ x.st = "T" /\ c.accessed /\ Served(c)
    /\ \/ w = <<SvpCmd("RELEASE", Internal), SvpCmd("SAVEPOINT", Internal), k.cmd>> /\ c.svp
       \/ w = <<SvpCmd("SAVEPOINT", Internal), k.cmd>>
MainCmd(k, w, c, x) ==
    /\ w = <<k.cmd>> /\ (x.st = "T" => c.accessed)
    /\ x.st = "I" /\ k.kind = "begin" => ~k.wasIn
    /\ x.st = "T" \/ (x.st = "I" /\ k.kind # "declare")
    /\ Served(c) \/ (k.kind = "declare" /\ ~c.rbpoint)
MainAnswered(k, w, c, x) ==
    /\ w = << >> /\ Dues(k, c)
    /\ x.st = "T" \/ (x.st = "I" /\ k.kind # "declare")

\* A failed transaction has a statement that will undo it.
Blamed(c, x) ==
    /\ x.st = "E" => c.accessed
    /\ Served(c) \/ (x.st = "E" /\ ~c.rbpoint)

InMain(k, w, c, x) ==
    /\ ~k.err /\ Aware(c, x)
    /\ \/ k.fail /\ w = << >> /\ Blamed(c, x)
       \/ /\ ~k.fail
          /\ \/ k.prot = "simple" /\ (MainBegin(k, w, c, x) \/ MainSvp(k, w, c, x))
             \/ MainCmd(k, w, c, x) \/ MainAnswered(k, w, c, x)

InPost(k, w, c, x) ==
    /\ w = << >> /\ Aware(c, x)
    /\ IF k.err THEN Blamed(c, x)
       ELSE x.st # "E" /\ (Served(c) \/ (k.kind = "begin" /\ ~k.wasIn))

InDiscard(k, w, c, x) ==
    /\ w = << >> /\ Aware(c, x)
    /\ IF k.err THEN Blamed(c, x) ELSE x.st # "E" /\ Served(c)

InUndo(k, w, c, x) ==
    /\ k.err
    /\ \/ w = UndoCmds /\ Aware(c, x) /\ x.st = "E" /\ c.svp /\ Served(c)
       \/ w = << >> /\ (x.st = "X" \/ GoesOn(c, x))

InSync(k, w, c, x) ==
    /\ w = << >>
    /\ IF k.kind = "close" THEN Clear(c) /\ (Over(x) \/ GoesOn(c, x)) ELSE Over(x)

InEnd(k, w, c, x) == w = << >> /\ Aware(c, x) /\ x.st # "E" /\ Served(c)

InClose(k, w, c, x) ==
    /\ k.kind = "close" /\ Clear(c)
    /\ \/ w = <<Cmd("CLOSE")>> /\ Aware(c, x) /\ x.st # "E" /\ Served(c)
       \/ w = <<Cmd("CLOSE"), Cmd("COMMIT")>> /\ x.st = "T" /\ c.inTrans
       \/ w = <<Cmd("COMMIT")>> /\ c.inTrans
       \/ w = << >> /\ (Over(x) \/ GoesOn(c, x))

\* SQLEndTran knows what it commits.
InEndTran(k, w, c, x) ==
    /\ Clear(c)
    /\ \/ /\ w = <<k.cmd>> /\ x = k.before /\ x.st = "T" /\ c.inTrans
          /\ k.cmd = Cmd(IF k.kind = "commit" THEN "COMMIT" ELSE "ROLLBACK")
       \/ /\ w = << >> /\ Over(x)
          /\ k.kind = "commit" /\ ~k.fail =>
               \A i \in DOMAIN k.before.work : k.before.work[i] \in x.durable

StmtPcs == {"exec", "precommit", "begin", "request", "svp", "ready", "main", "post", "commit",
            "discard", "undo", "aborting", "abort", "sync", "end", "close"}

Place(k, w, c, x) ==
    /\ k.pc = "exec" => w = << >> /\ ~k.err /\ Restful(c, x)
    /\ k.pc = "precommit" => ~k.err /\ Clear(c) /\ AtCommit(w, c, x)
    /\ k.pc = "begin" => InBegin(k, w, c, x)
    /\ k.pc = "request" => InRequest(k, w, c, x)
    /\ k.pc = "svp" => InSvp(k, w, c, x)
    /\ k.pc = "ready" => InReady(k, w, c, x)
    /\ k.pc = "main" => InMain(k, w, c, x)
    /\ k.pc = "post" => InPost(k, w, c, x)
    /\ k.pc = "commit" => AtCommit(w, c, x)
    /\ k.pc = "discard" => InDiscard(k, w, c, x)
    /\ k.pc = "undo" => InUndo(k, w, c, x)
    /\ k.pc = "aborting" => w = << >> /\ c.inTrans
    /\ k.pc = "abort" => Ends(<<Cmd("ROLLBACK")>>, w, c, x)
    /\ k.pc = "sync" => InSync(k, w, c, x)
    /\ k.pc = "end" => InEnd(k, w, c, x)
    /\ k.pc = "close" => InClose(k, w, c, x)
    /\ k.pc = "endtran" => InEndTran(k, w, c, x)
    /\ k.pc = "autocommit" => k.kind = "autocommit" /\ Clear(c) /\ AtCommit(w, c, x)

Course(t, k, w, c, x) ==
    IF k.pc = PcIdle THEN w = << >>
    ELSE /\ IF t = Dbc THEN k.pc \in {"endtran", "autocommit"}
                       ELSE k.pc \in StmtPcs /\ (Body(k) \/ k.kind = "close")
         /\ k.kind = "close" => k.pc \in {"close", "sync"}
         /\ Place(k, w, c, x)

\* The driver and the session agree at every point of the call that runs, and
\* when none runs, no transaction is failed and none is open that nobody asked for.
CursorInv ==
    /\ Coherent(conn, be)
    /\ AtRest => Restful(conn, be)
    /\ \A t, u \in Threads : calls[t].pc # PcIdle /\ calls[u].pc # PcIdle => t = u
    /\ \A t \in Threads : Course(t, calls[t], wire[t], conn, be)
=============================================================================
