------------------------- MODULE StatementSvp_uses -------------------------
(***************************************************************************)
(* Theorems about StatementSvp in two uses of the driver.  With cursors    *)
(* and autocommit, one call at a time: the driver leaves no transaction of *)
(* its own open and no failed one behind, and SQLEndTran tells the truth   *)
(* about COMMIT.  With several threads at level 2: no two messages are in  *)
(* flight, and what undoes a failed statement takes back nothing else.     *)
(***************************************************************************)
EXTENDS SharedUse, StatementSvp_proofs

-----------------------------------------------------------------------------
(* What the flags of the connection become.                                *)

Stats == {"I", "T", "E", "X"}

\* The end of a transaction, as CC_on_commit and CC_on_abort see it.
LEMMA EndedFlags ==
    ASSUME NEW c \in Conn, c.manual \/ c.inError => c.inTrans
    PROVE  LET d == OnTransEnd(c)
           IN  /\ d \in Conn /\ d.autocommit = c.autocommit /\ d.up = c.up
               /\ ~d.inTrans /\ ~d.inError /\ ~d.manual /\ ~d.svp /\ Clear(d)
  <1> DEFINE l == LeaveTrans(c)
             i == SvpInit(l)
             e == StartStmt(i)
             d == [e EXCEPT !.cursors = {}]
  <1>1. /\ l \in Conn /\ l.autocommit = c.autocommit /\ l.up = c.up
        /\ ~l.inTrans /\ ~l.inError /\ ~l.manual
    BY ZenonT(40) DEF LeaveTrans, Conn
  <1> HIDE DEF l
  <1>2. /\ i \in Conn /\ i.autocommit = l.autocommit /\ i.up = l.up /\ i.inTrans = l.inTrans
        /\ i.inError = l.inError /\ i.manual = l.manual /\ ~i.svp
    BY <1>1 DEF SvpInit, Conn
  <1> HIDE DEF i
  <1>3. /\ e \in Conn /\ e.autocommit = i.autocommit /\ e.up = i.up /\ e.inTrans = i.inTrans
        /\ e.inError = i.inError /\ e.manual = i.manual /\ e.svp = i.svp
        /\ ~e.accessed /\ ~e.rbpoint
    BY <1>2 DEF StartStmt, Conn
  <1> HIDE DEF e
  <1>4. /\ d \in Conn /\ d.autocommit = e.autocommit /\ d.up = e.up /\ d.inTrans = e.inTrans
        /\ d.inError = e.inError /\ d.manual = e.manual /\ d.svp = e.svp
        /\ d.accessed = e.accessed /\ d.rbpoint = e.rbpoint
    BY <1>3 DEF Conn
  <1>5. d = OnTransEnd(c)
    BY DEF OnTransEnd, e, i, l
  <1> HIDE DEF d
  <1> QED BY ZenonT(40), <1>1, <1>2, <1>3, <1>4, <1>5 DEF Clear

\* The connection is gone.
LEMMA DeadFlags ==
    ASSUME NEW c \in Conn, NEW x, Coherent(c, x), NEW y, y.st = "X"
    PROVE  LET d == OnDead(c)
           IN  /\ d \in Conn /\ Coherent(d, y) /\ Aware(d, y) /\ Clear(d) /\ Served(d)
               /\ d.autocommit = c.autocommit
  <1> DEFINE e == OnTransEnd(c)
             d == [e EXCEPT !.up = FALSE]
  <1>1. e \in Conn /\ e.autocommit = c.autocommit /\ ~e.inTrans /\ ~e.inError /\ ~e.manual /\ ~e.svp /\ Clear(e)
    BY EndedFlags DEF Coherent
  <1>2. d = OnDead(c)
    BY DEF OnDead
  <1> HIDE DEF e
  <1>3. /\ d \in Conn /\ ~d.inTrans /\ ~d.inError /\ ~d.manual /\ ~d.svp /\ Clear(d) /\ ~d.up
        /\ d.autocommit = c.autocommit
    BY <1>1 DEF Conn, Clear
  <1> HIDE DEF d
  <1> QED BY <1>2, <1>3 DEF Coherent, Aware, InBlock, Served

\* Flags that differ in transact_status and, when a transaction is over, in all that
\* belongs to it.
SameTrans(d, c) ==
    /\ d.manual = c.manual /\ d.svp = c.svp /\ d.accessed = c.accessed
    /\ d.rbpoint = c.rbpoint /\ d.cursors = c.cursors

\* The status copied is the session's (LIBPQ_update_transaction_status).
LEMMA CopiedFlags ==
    ASSUME NEW c \in Conn, NEW x, x.st \in Stats, Coherent(c, x)
    PROVE  LET d == UpdateTransactionStatus(c, x.st)
           IN  /\ d \in Conn /\ Coherent(d, x) /\ Aware(d, x)
               /\ d.autocommit = c.autocommit /\ d.up = c.up
               /\ Clear(c) => Clear(d)
               /\ InBlock(x) => SameTrans(d, c)
               /\ ~InBlock(x) => Served(d)
               /\ Aware(c, x) => d.inTrans = c.inTrans /\ SameTrans(d, c)
  <1> DEFINE d == UpdateTransactionStatus(c, x.st)
  <1>1. CASE x.st = "X"
    <2>1. d = c /\ ~c.inTrans
      BY <1>1 DEF UpdateTransactionStatus, Coherent
    <2> QED BY <1>1, <2>1 DEF Coherent, Aware, InBlock, Served, SameTrans
  <1>2. CASE x.st = "I" /\ c.inTrans
    <2>1. d = OnTransEnd(c)
      BY <1>2 DEF UpdateTransactionStatus, Coherent
    <2>2. /\ d \in Conn /\ d.autocommit = c.autocommit /\ d.up = c.up
          /\ ~d.inTrans /\ ~d.inError /\ ~d.manual /\ ~d.svp /\ Clear(d)
      BY <2>1, EndedFlags DEF Coherent
    <2> HIDE DEF d
    <2> QED BY <1>2, <2>2 DEF Coherent, Aware, InBlock, Served, d
  <1>3. CASE x.st = "I" /\ ~c.inTrans
    <2>1. d = c
      BY <1>3 DEF UpdateTransactionStatus, Coherent
    <2> QED BY <1>3, <2>1 DEF Coherent, Aware, InBlock, Served, SameTrans
  <1>4. CASE x.st \in {"T", "E"}
    <2>1. d = [c EXCEPT !.inTrans = TRUE, !.inError = (x.st = "E")]
      BY <1>4 DEF UpdateTransactionStatus, Coherent
    <2>2. /\ d \in Conn /\ d.inTrans /\ (d.inError <=> x.st = "E") /\ d.up = c.up
          /\ d.autocommit = c.autocommit /\ SameTrans(d, c)
      BY <2>1 DEF Conn, SameTrans
    <2> HIDE DEF d
    <2> QED BY <1>4, <2>2 DEF Coherent, Aware, InBlock, Clear, SameTrans, d
  <1> QED BY <1>1, <1>2, <1>3, <1>4 DEF Stats

\* What the command tags do (CC_send_query_append).
LEMMA TagFlags ==
    ASSUME NEW c \in Conn, NEW tag
    PROVE  LET d == HandleTag(c, tag)
           IN  /\ d \in Conn /\ d.autocommit = c.autocommit /\ d.up = c.up
               /\ d.accessed = c.accessed /\ d.cursors = c.cursors /\ d.manual = c.manual
               /\ tag = "BEGIN" => /\ d.inTrans /\ d.inError = c.inError
                                   /\ d.rbpoint = c.rbpoint /\ d.svp = c.svp
               /\ tag = "SAVEPOINT" => d.inTrans = c.inTrans /\ d.inError = c.inError
               /\ tag = "RELEASE" => /\ d.inTrans = c.inTrans /\ d.inError = c.inError
                                     /\ d.rbpoint = c.rbpoint /\ ~d.svp
               /\ tag = "ROLLBACK" => /\ d.inTrans = c.inTrans /\ d.inError /\ ~d.svp
                                      /\ d.rbpoint = c.rbpoint
               /\ tag \in {"WRITE", "READ", "COMMIT", "CLOSE"} => d = c
  <1>1. CASE tag = "BEGIN"
    BY <1>1 DEF HandleTag, Conn
  <1>2. CASE tag = "SAVEPOINT" /\ c.op = "savepoint"
    BY <1>2 DEF HandleTag, Conn
  <1>3. CASE tag = "SAVEPOINT" /\ c.op # "savepoint"
    BY <1>3 DEF HandleTag, Conn
  <1>4. CASE tag = "ROLLBACK"
    BY <1>4 DEF HandleTag, Conn
  <1>5. CASE tag = "RELEASE"
    BY <1>5 DEF HandleTag, Conn
  <1>6. CASE tag \notin {"BEGIN", "SAVEPOINT", "ROLLBACK", "RELEASE"}
    BY <1>6 DEF HandleTag
  <1> QED BY <1>1, <1>2, <1>3, <1>4, <1>5, <1>6

\* What an error does (handle_pgres_error).
LEMMA ErrorFlags ==
    ASSUME NEW c \in Conn
    PROVE  LET d == HandleError(c)
           IN  /\ d \in Conn /\ d.inTrans = c.inTrans
               /\ d.inError = (c.inTrans \/ c.inError)
               /\ d.autocommit = c.autocommit /\ d.up = c.up /\ SameTrans(d, c)
  BY ZenonT(40) DEF HandleError, Conn, SameTrans

-----------------------------------------------------------------------------
(* What the server does with the commands.                                 *)

\* An error leaves the savepoints and fails the transaction.
LEMMA FailedSession ==
    ASSUME NEW x \in Session
    PROVE  /\ Failed(x).tag = "ERROR" /\ Failed(x).be.svps = x.svps
           /\ Failed(x).be.st = IF x.st = "I" THEN "I" ELSE "E"
  BY AnswerFields DEF Failed, Session

\* The command of a statement, or BEGIN.
LEMMA BodyOutcome ==
    ASSUME NEW x \in Session, x.st \in {"I", "T"}, NEW cmd,
           cmd.c \in {"WRITE", "READ", "BEGIN"}, NEW o \in Outcomes(x, cmd)
    PROVE  /\ o.be.svps = x.svps
           /\ \/ /\ cmd.c # "BEGIN" /\ o.tag = "ERROR"
                 /\ o.be.st = IF x.st = "I" THEN "I" ELSE "E"
              \/ cmd.c # "BEGIN" /\ o.tag = cmd.c /\ o.be.st = x.st
              \/ cmd.c = "BEGIN" /\ o.tag = "BEGIN" /\ o.be.st = "T"
  <1>1. CASE cmd.c = "WRITE"
    <2> DEFINE y == [x EXCEPT !.durable = @ \cup {cmd.w}]
               z == [x EXCEPT !.work = Append(@, cmd.w)]
    <2>1. o = Failed(x) \/ o = Answer(y, "WRITE") \/ o = Answer(z, "WRITE")
      BY <1>1 DEF Outcomes, OnWrite
    <2>2. y.svps = x.svps /\ y.st = x.st /\ z.svps = x.svps /\ z.st = x.st
      BY DEF Session
    <2> HIDE DEF y, z
    <2> QED BY <1>1, <2>1, <2>2, AnswerFields, FailedSession
  <1>2. CASE cmd.c = "READ"
    <2>1. o = Failed(x) \/ o = Answer(x, "READ")
      BY <1>2 DEF Outcomes, OnRead
    <2> QED BY <1>2, <2>1, AnswerFields, FailedSession
  <1>3. CASE cmd.c = "BEGIN"
    <2> DEFINE y == [x EXCEPT !.st = "T"]
    <2>1. o = Answer(y, "BEGIN")
      BY <1>3 DEF Outcomes, OnBegin
    <2>2. y.svps = x.svps /\ y.st = "T"
      BY DEF Session
    <2> HIDE DEF y
    <2> QED BY <1>3, <2>1, <2>2, AnswerFields
  <1> QED BY <1>1, <1>2, <1>3

\* COMMIT and ROLLBACK end the transaction; COMMIT of a sound one keeps its work.
LEMMA EndOutcome ==
    ASSUME NEW x \in Session, NEW cmd, cmd.c \in {"COMMIT", "ROLLBACK"},
           NEW o \in Outcomes(x, cmd)
    PROVE  /\ o.be.st = "I" /\ o.tag \in {"COMMIT", "ROLLBACK", "ERROR"}
           /\ cmd.c = "COMMIT" /\ x.st = "T" /\ o.tag # "ERROR" =>
                \A i \in DOMAIN x.work : x.work[i] \in o.be.durable
  <1> DEFINE all == x.durable \cup {x.work[i] : i \in DOMAIN x.work}
  <1>1. CASE cmd.c = "COMMIT"
    <2>1. o \in OnCommit(x)
      BY <1>1 DEF Outcomes
    <2>2. CASE x.st = "I"
      BY <2>1, <2>2, AnswerFields DEF OnCommit
    <2>3. CASE x.st = "E"
      BY <2>1, <2>3, AnswerFields DEF OnCommit, FreshSession
    <2>4. CASE x.st \notin {"I", "E"}
      <3>1. o = Answer(FreshSession(all), "COMMIT") \/ o = Answer(FreshSession(x.durable), "ERROR")
        BY <2>1, <2>4 DEF OnCommit
      <3>2. FreshSession(all).durable = all /\ FreshSession(all).st = "I"
            /\ FreshSession(x.durable).st = "I"
        BY DEF FreshSession
      <3> QED BY <3>1, <3>2, AnswerFields
    <2> QED BY <2>2, <2>3, <2>4
  <1>2. CASE cmd.c = "ROLLBACK"
    <2>1. o = Answer(FreshSession(x.durable), "ROLLBACK")
      BY <1>2 DEF Outcomes, OnRollback
    <2> QED BY <1>2, <2>1, AnswerFields DEF FreshSession
  <1> QED BY <1>1, <1>2

\* CLOSE of a cursor.
LEMMA CloseOutcome ==
    ASSUME NEW x \in Session, x.st \in {"I", "T"}, NEW o \in Outcomes(x, Cmd("CLOSE"))
    PROVE  /\ x.st = "T" => o.tag = "CLOSE" /\ o.be = x
           /\ x.st = "I" => o.tag = "ERROR" /\ o.be.st = "I"
  <1>1. CASE x.st = "T"
    <2>1. o = Answer(x, "CLOSE")
      BY <1>1 DEF Outcomes, OnClose, Cmd
    <2> QED BY <1>1, <2>1, AnswerFields
  <1>2. CASE x.st = "I"
    <2>1. o = Failed(x)
      BY <1>2 DEF Outcomes, Cmd
    <2> QED BY <1>2, <2>1, FailedSession
  <1> QED BY <1>1, <1>2

\* RELEASE of an internal savepoint finds one,
LEMMA ReleaseMarked ==
    ASSUME NEW x \in Session, x.st = "T", Marked(x),
           NEW o \in Outcomes(x, SvpCmd("RELEASE", Internal))
    PROVE  o.tag = "RELEASE" /\ o.be.st = "T"
  <1>1. Outcomes(x, SvpCmd("RELEASE", Internal)) = OrFailed(x, OnRelease(x, Internal))
    BY DEF Outcomes, SvpCmd
  <1>2. OnRelease(x, Internal) # {}
    BY NewestExists DEF OnRelease, Marked
  <1>3. o \in OnRelease(x, Internal)
    BY <1>1, <1>2 DEF OrFailed
  <1>4. PICK i : o = Answer([x EXCEPT !.svps = SubSeq(@, 1, i - 1)], "RELEASE")
    BY <1>3 DEF OnRelease
  <1>5. [x EXCEPT !.svps = SubSeq(@, 1, i - 1)].st = "T"
    BY DEF Session
  <1> QED BY <1>4, <1>5, AnswerFields

\* SAVEPOINT makes one,
LEMMA SavepointMarks ==
    ASSUME NEW x \in Session, x.st = "T",
           NEW o \in Outcomes(x, SvpCmd("SAVEPOINT", Internal))
    PROVE  o.tag = "SAVEPOINT" /\ o.be.st = "T" /\ Marked(o.be)
  <1> DEFINE f == [name |-> Internal, mark |-> Len(x.work)]
  <1>1. o = Answer([x EXCEPT !.svps = Append(@, f)], "SAVEPOINT")
    BY DEF Outcomes, OnSavepoint, SvpCmd
  <1>2. x.svps \in Seq(Frame) /\ f \in Frame /\ f.name = Internal
    BY CoreAssumption DEF Session, Frame
  <1> HIDE DEF f
  <1>3. [x EXCEPT !.svps = Append(@, f)].st = "T"
        /\ [x EXCEPT !.svps = Append(@, f)].svps = Append(x.svps, f)
    BY DEF Session
  <1>4. o.tag = "SAVEPOINT" /\ o.be.st = "T" /\ o.be.svps = Append(x.svps, f)
    BY <1>1, <1>3, AnswerFields
  <1>5. Len(x.svps) + 1 \in Places(o.be, Internal)
    BY <1>2, <1>4 DEF Places
  <1> QED BY <1>4, <1>5 DEF Marked

\* The last place of a beginning.
LEMMA LastOfCut ==
    ASSUME NEW q \in Seq(Frame), NEW i \in DOMAIN q
    PROVE  i \in DOMAIN SubSeq(q, 1, i) /\ SubSeq(q, 1, i)[i] = q[i]
  <1>0. DOMAIN q = 1 .. Len(q) /\ Len(q) \in Nat
    OBVIOUS
  <1>1. Len(q) \in Nat /\ i \in Nat /\ 1 <= i /\ i <= Len(q)
    BY <1>0
  <1>2. Len(SubSeq(q, 1, i)) = i /\ \A j \in 1 .. i : SubSeq(q, 1, i)[j] = q[j]
    BY <1>1
  <1> QED BY <1>1, <1>2

\* and ROLLBACK TO leads back to it.
LEMMA UndoMarked ==
    ASSUME NEW x \in Session, x.st = "E", Marked(x),
           NEW o \in Outcomes(x, SvpCmd("ROLLBACK TO", Internal))
    PROVE  o.tag = "ROLLBACK" /\ o.be.st = "T" /\ Marked(o.be)
  <1>1. Outcomes(x, SvpCmd("ROLLBACK TO", Internal)) = OrFailed(x, OnRollbackTo(x, Internal))
    BY DEF Outcomes, SvpCmd
  <1>2. OnRollbackTo(x, Internal) # {}
    BY NewestExists DEF OnRollbackTo, Marked
  <1>3. o \in OnRollbackTo(x, Internal)
    BY <1>1, <1>2 DEF OrFailed
  <1> DEFINE y(i) == [x EXCEPT !.st = "T", !.svps = SubSeq(@, 1, i),
                               !.work = SubSeq(@, 1, x.svps[i].mark)]
  <1>4. PICK i \in Places(x, Internal) : o = Answer(y(i), "ROLLBACK")
    BY <1>3 DEF OnRollbackTo
  <1>5. y(i).st = "T" /\ y(i).svps = SubSeq(x.svps, 1, i)
    BY DEF Session
  <1> HIDE DEF y
  <1>6. o.tag = "ROLLBACK" /\ o.be.st = "T" /\ o.be.svps = SubSeq(x.svps, 1, i)
    BY ZenonT(40), <1>4, <1>5, AnswerFields
  <1>7. x.svps \in Seq(Frame)
    BY DEF Session
  <1>8. i \in Places(o.be, Internal)
    <2>1. i \in DOMAIN x.svps /\ x.svps[i].name = Internal
      BY <1>4 DEF Places
    <2>2. i \in DOMAIN o.be.svps /\ o.be.svps[i] = x.svps[i]
      BY <1>6, <1>7, <2>1, LastOfCut
    <2> QED BY <2>1, <2>2 DEF Places
  <1> QED BY <1>6, <1>8 DEF Marked

-----------------------------------------------------------------------------
(* The call that runs.                                                     *)

\* What a call asked for.
Asks(K, k) == K.kind = k.kind /\ K.cmd = k.cmd /\ K.before = k.before /\ K.prot = k.prot

\* One call runs, and what it may rely on.
LEMMA Alone ==
    ASSUME TypeInv, CursorInv, NEW t \in Threads, calls[t].pc # PcIdle
    PROVE  /\ Course(t, calls[t], wire[t], conn, be)
           /\ \A u \in Threads \ {t} : calls[u].pc = PcIdle /\ wire[u] = << >>
           /\ StatusCopied(t) = UpdateTransactionStatus(conn, be.st)
           /\ Coherent(conn, be) /\ conn \in Conn /\ be \in Session /\ be.st \in Stats
           /\ calls[t] \in CallRec /\ TypeOK
  <1>1. \A u \in Threads \ {t} : calls[u].pc = PcIdle
    BY DEF CursorInv
  <1>2. \A u \in Threads \ {t} : wire[u] = << >>
    BY <1>1 DEF CursorInv, Course
  <1>3. be.st \in Stats
    BY DEF TypeInv, TypeOK, Session, Stats
  <1> QED BY <1>1, <1>2, <1>3 DEF StatusCopied, CursorInv, TypeInv, TypeOK

\* Where it is, by its program counter.
LEMMA At ==
    ASSUME TypeInv, CursorInv, NEW s \in Stmts, calls[s].pc # PcIdle
    PROVE  LET k == calls[s]
               w == wire[s]
           IN  /\ s \in Threads /\ k.pc \in StmtPcs /\ (Body(k) \/ k.kind = "close")
               /\ k.kind = "close" => k.pc \in {"close", "sync"}
               /\ Place(k, w, conn, be)
               /\ \A u \in Threads \ {s} : calls[u].pc = PcIdle /\ wire[u] = << >>
               /\ StatusCopied(s) = UpdateTransactionStatus(conn, be.st)
               /\ Coherent(conn, be) /\ conn \in Conn /\ be \in Session /\ be.st \in Stats
               /\ k \in CallRec /\ TypeOK
  <1>1. s \in Threads /\ s # Dbc
    BY CoreAssumption DEF Threads
  <1> QED BY <1>1, Alone DEF Course

LEMMA PlaceAt ==
    ASSUME NEW k, NEW w, NEW c, NEW x, Place(k, w, c, x)
    PROVE  /\ k.pc = "exec" => w = << >> /\ ~k.err /\ Restful(c, x)
           /\ k.pc = "precommit" => ~k.err /\ Clear(c) /\ AtCommit(w, c, x)
           /\ k.pc = "begin" => InBegin(k, w, c, x)
           /\ k.pc = "request" => InRequest(k, w, c, x)
           /\ k.pc = "svp" => InSvp(k, w, c, x)
           /\ k.pc = "ready" => InReady(k, w, c, x)
           /\ k.pc = "main" => InMain(k, w, c, x)
           /\ k.pc = "post" => InPost(k, w, c, x)
           /\ k.pc = "commit" => AtCommit(w, c, x)
           /\ k.pc = "discard" => InDiscard(k, w, c, x)
           /\ k.pc = "undo" => InUndo(k, w, c, x)
           /\ k.pc = "aborting" => w = << >> /\ c.inTrans
           /\ k.pc = "abort" => Ends(<<Cmd("ROLLBACK")>>, w, c, x)
           /\ k.pc = "sync" => InSync(k, w, c, x)
           /\ k.pc = "end" => InEnd(k, w, c, x)
           /\ k.pc = "close" => InClose(k, w, c, x)
           /\ k.pc = "endtran" => InEndTran(k, w, c, x)
           /\ k.pc = "autocommit" => k.kind = "autocommit" /\ Clear(c) /\ AtCommit(w, c, x)
  BY DEF Place

LEMMA PlaceBy ==
    ASSUME NEW k, NEW w, NEW c, NEW x,
           \/ k.pc = "exec" /\ w = << >> /\ ~k.err /\ Restful(c, x)
           \/ k.pc = "precommit" /\ ~k.err /\ Clear(c) /\ AtCommit(w, c, x)
           \/ k.pc = "begin" /\ InBegin(k, w, c, x)
           \/ k.pc = "request" /\ InRequest(k, w, c, x)
           \/ k.pc = "svp" /\ InSvp(k, w, c, x)
           \/ k.pc = "ready" /\ InReady(k, w, c, x)
           \/ k.pc = "main" /\ InMain(k, w, c, x)
           \/ k.pc = "post" /\ InPost(k, w, c, x)
           \/ k.pc = "commit" /\ AtCommit(w, c, x)
           \/ k.pc = "discard" /\ InDiscard(k, w, c, x)
           \/ k.pc = "undo" /\ InUndo(k, w, c, x)
           \/ k.pc = "aborting" /\ w = << >> /\ c.inTrans
           \/ k.pc = "abort" /\ Ends(<<Cmd("ROLLBACK")>>, w, c, x)
           \/ k.pc = "sync" /\ InSync(k, w, c, x)
           \/ k.pc = "end" /\ InEnd(k, w, c, x)
           \/ k.pc = "close" /\ InClose(k, w, c, x)
    PROVE  Place(k, w, c, x) /\ k.pc \in StmtPcs /\ k.pc # PcIdle
  BY DEF Place, StmtPcs, PcIdle

\* A step of the call on t that leaves the other threads alone,
LEMMA OneStep ==
    ASSUME TypeInv, CursorInv, NEW t \in Threads,
           \A u \in Threads \ {t} : calls[u].pc = PcIdle /\ wire[u] = << >>,
           \A u \in Threads \ {t} : calls'[u] = calls[u] /\ wire'[u] = wire[u],
           Coherent(conn', be'), Course(t, calls'[t], wire'[t], conn', be'),
           calls'[t].pc = PcIdle => Restful(conn', be')
    PROVE  CursorInv'
  <1>1. \A u \in Threads : Course(u, calls'[u], wire'[u], conn', be')
    <2>1. \A u \in Threads \ {t} : Course(u, calls'[u], wire'[u], conn', be')
      BY DEF Course
    <2> QED BY <2>1
  <1>2. \A u, v \in Threads : calls'[u].pc # PcIdle /\ calls'[v].pc # PcIdle => u = v
    OBVIOUS
  <1>3. (\A u \in Threads : calls'[u].pc = PcIdle) => Restful(conn', be')
    OBVIOUS
  <1> QED BY <1>1, <1>2, <1>3 DEF CursorInv, AtRest

\* which takes it to another place,
LEMMA Advance ==
    ASSUME TypeInv, CursorInv, NEW s \in Stmts, calls[s].pc # PcIdle,
           \A u \in Threads \ {s} : calls'[u] = calls[u] /\ wire'[u] = wire[u],
           Asks(calls'[s], calls[s]), Coherent(conn', be'),
           calls[s].kind = "close" => calls'[s].pc \in {"close", "sync"},
           calls'[s].pc \in StmtPcs, calls'[s].pc # PcIdle,
           Place(calls'[s], wire'[s], conn', be')
    PROVE  CursorInv'
  <1>1. s \in Threads /\ s # Dbc
    BY CoreAssumption DEF Threads
  <1>2. (Body(calls[s]) \/ calls[s].kind = "close")
        /\ \A u \in Threads \ {s} : calls[u].pc = PcIdle /\ wire[u] = << >>
    BY At
  <1>3. Body(calls'[s]) \/ calls'[s].kind = "close"
    BY <1>2 DEF Body, Asks
  <1>4. Course(s, calls'[s], wire'[s], conn', be')
    BY <1>1, <1>3 DEF Course, Asks
  <1> QED BY <1>1, <1>2, <1>4, OneStep

\* or ends it.
LEMMA Return ==
    ASSUME TypeInv, CursorInv, NEW t \in Threads, calls[t].pc # PcIdle,
           calls' = [calls EXCEPT ![t] = Idle], wire' = wire, wire[t] = << >>,
           Coherent(conn', be'), Restful(conn', be')
    PROVE  CursorInv'
  <1>1. \A u \in Threads \ {t} : calls[u].pc = PcIdle /\ wire[u] = << >>
    BY Alone
  <1>2. calls'[t].pc = PcIdle /\ \A u \in Threads \ {t} : calls'[u] = calls[u]
    BY DEF TypeInv, TypeOK, Idle
  <1>3. Course(t, calls'[t], wire'[t], conn', be')
    BY <1>2 DEF Course
  <1> QED BY <1>1, <1>2, <1>3, OneStep

\* What GoTo does with the calls,
LEMMA Goes ==
    ASSUME TypeOK, NEW s \in Threads, NEW pc, GoTo(s, pc)
    PROVE  /\ LET K == calls'[s]
              IN  /\ K.pc = pc /\ Asks(K, calls[s]) /\ K.err = calls[s].err
                  /\ K.fail = calls[s].fail /\ K.wasIn = calls[s].wasIn
           /\ \A u \in Threads \ {s} : calls'[u] = calls[u]
  BY DEF GoTo, TypeOK, CallRec, Asks

\* and Send with calls and wire.
LEMMA Sends ==
    ASSUME TypeOK, NEW s \in Threads, NEW pc, NEW cmds, Send(s, pc, cmds)
    PROVE  /\ LET K == calls'[s]
              IN  /\ K.pc = pc /\ Asks(K, calls[s]) /\ K.err = calls[s].err /\ ~K.fail
                  /\ K.wasIn = calls[s].wasIn
           /\ wire'[s] = cmds
           /\ \A u \in Threads \ {s} : calls'[u] = calls[u] /\ wire'[u] = wire[u]
  BY DEF Send, TypeOK, CallRec, Asks


\* Flags that differ in rbonerr only, or in what belongs to the savepoint to be made.
Alike(d, c) ==
    /\ d.autocommit = c.autocommit /\ d.inTrans = c.inTrans /\ d.manual = c.manual
    /\ d.inError = c.inError /\ d.svp = c.svp /\ d.up = c.up /\ d.cursors = c.cursors

LEMMA AlikeSame ==
    ASSUME NEW c, NEW d, Alike(d, c), NEW x
    PROVE  /\ Coherent(c, x) => Coherent(d, x)
           /\ Aware(c, x) => Aware(d, x)
           /\ Served(c) => Served(d)
           /\ DoesAutocommit(d) = DoesAutocommit(c)
  BY DEF Alike, Coherent, Aware, Served, DoesAutocommit

-----------------------------------------------------------------------------
(* What happens before the statement is sent.                              *)

\* Down: the connection is gone.
LEMMA StepDown ==
    ASSUME TypeInv, CursorInv, NEW s \in Stmts, Down(s)
    PROVE  CursorInv'
  <1> DEFINE k == calls[s]
             K == calls'[s]
  <1>1. k.pc \in {"exec", "request", "ready"} /\ ~conn.up /\ conn' = conn /\ be' = be /\ wire' = wire
    BY DEF Down
  <1>2. k.pc # PcIdle
    BY <1>1 DEF PcIdle
  <1>3. /\ Place(k, wire[s], conn, be) /\ (k.kind = "close" => k.pc \in {"close", "sync"})
        /\ Coherent(conn, be) /\ s \in Threads /\ TypeOK
    BY <1>2, At
  <1>4. /\ K.pc = "post" /\ Asks(K, k) /\ K.err
        /\ \A u \in Threads \ {s} : calls'[u] = calls[u]
    BY <1>3 DEF Down, TypeOK, CallRec, Asks
  <1> HIDE DEF K
  <1>5. wire[s] = << >> /\ Aware(conn, be) /\ Served(conn) /\ be.st # "E"
    <2>1. be.st = "X"
      BY <1>1, <1>3 DEF Coherent
    <2>2. CASE k.pc = "exec"
      BY <1>3, <2>1, <2>2, PlaceAt DEF Restful
    <2>3. CASE k.pc = "request"
      BY <1>3, <2>1, <2>3, PlaceAt DEF InRequest, Served
    <2>4. CASE k.pc = "ready"
      BY <1>3, <2>1, <2>4, PlaceAt DEF InReady
    <2> QED BY <1>1, <2>2, <2>3, <2>4
  <1>6. InPost(K, wire'[s], conn', be')
    BY <1>1, <1>4, <1>5 DEF InPost, Blamed
  <1>7. Place(K, wire'[s], conn', be') /\ K.pc \in StmtPcs /\ K.pc # PcIdle
    BY <1>4, <1>6, PlaceBy
  <1> QED BY <1>1, <1>2, <1>3, <1>4, <1>7, Advance DEF K

\* PreCommit: CC_commit before a BEGIN.
LEMMA StepPreCommit ==
    ASSUME TypeInv, CursorInv, NEW s \in Stmts, PreCommit(s)
    PROVE  CursorInv'
  <1> DEFINE k == calls[s]
             K == calls'[s]
  <1>1. /\ k.pc = "exec" /\ conn' = conn /\ be' = be /\ CommitsFirst(s)
        /\ Send(s, "precommit", <<Cmd("COMMIT")>>)
    BY DEF PreCommit
  <1>2. k.pc # PcIdle
    BY <1>1 DEF PcIdle
  <1>3. /\ Place(k, wire[s], conn, be) /\ (k.kind = "close" => k.pc \in {"close", "sync"})
        /\ Coherent(conn, be) /\ s \in Threads /\ TypeOK
    BY <1>2, At
  <1>4. ~k.err /\ Clear(conn)
    BY <1>1, <1>3, PlaceAt DEF Restful
  <1>5. /\ K.pc = "precommit" /\ Asks(K, k) /\ K.err = k.err /\ wire'[s] = <<Cmd("COMMIT")>>
        /\ \A u \in Threads \ {s} : calls'[u] = calls[u] /\ wire'[u] = wire[u]
    BY <1>1, <1>3, Sends
  <1> HIDE DEF K
  <1>6. AtCommit(wire'[s], conn', be')
    BY <1>1, <1>5 DEF AtCommit, Ends, CommitsFirst
  <1>7. Place(K, wire'[s], conn', be') /\ K.pc \in StmtPcs /\ K.pc # PcIdle
    BY <1>1, <1>4, <1>5, <1>6, PlaceBy
  <1> QED BY <1>1, <1>2, <1>3, <1>5, <1>7, Advance DEF K

\* PreCommitDone: and its answer.
LEMMA StepPreCommitDone ==
    ASSUME TypeInv, CursorInv, NEW s \in Stmts, PreCommitDone(s)
    PROVE  CursorInv'
  <1> DEFINE k == calls[s]
             K == calls'[s]
             c == conn'
  <1>1. /\ k.pc = "precommit" /\ wire[s] = << >> /\ conn' = StatusCopied(s) /\ be' = be
        /\ wire' = wire /\ GoTo(s, "exec")
    BY DEF PreCommitDone, Answered
  <1>2. k.pc # PcIdle
    BY <1>1 DEF PcIdle
  <1>3. /\ Place(k, wire[s], conn, be) /\ (k.kind = "close" => k.pc \in {"close", "sync"})
        /\ Coherent(conn, be) /\ s \in Threads /\ TypeOK
        /\ conn \in Conn /\ be.st \in Stats
        /\ StatusCopied(s) = UpdateTransactionStatus(conn, be.st)
    BY <1>2, At
  <1>4. ~k.err /\ Clear(conn) /\ AtCommit(wire[s], conn, be)
    BY <1>1, <1>3, PlaceAt
  <1>5. Over(be)
    BY <1>1, <1>4 DEF AtCommit, Ends
  <1>6. K.pc = "exec" /\ Asks(K, k) /\ K.err = k.err /\ \A u \in Threads \ {s} : calls'[u] = calls[u]
    BY <1>1, <1>3, Goes
  <1>7. Coherent(c, be) /\ Aware(c, be) /\ Clear(c) /\ (~InBlock(be) => Served(c))
    BY <1>1, <1>3, <1>4, CopiedFlags
  <1> HIDE DEF K, c
  <1>8. Restful(c, be)
    BY <1>5, <1>7 DEF Restful, Over, InBlock
  <1>9. Place(K, wire'[s], c, be) /\ K.pc \in StmtPcs /\ K.pc # PcIdle
    BY <1>1, <1>4, <1>6, <1>8, PlaceBy
  <1> QED BY <1>1, <1>2, <1>3, <1>6, <1>7, <1>9, Advance DEF K, c

\* BeginFirst: BEGIN before a statement of the extended protocol.
LEMMA StepBeginFirst ==
    ASSUME TypeInv, CursorInv, NEW s \in Stmts, BeginFirst(s)
    PROVE  CursorInv'
  <1> DEFINE k == calls[s]
             K == calls'[s]
  <1>1. /\ k.pc = "exec" /\ conn' = conn /\ be' = be /\ IssueBegin(s) /\ k.prot = "ext"
        /\ conn.up /\ Send(s, "begin", <<Cmd("BEGIN")>>)
    BY DEF BeginFirst
  <1>2. k.pc # PcIdle
    BY <1>1 DEF PcIdle
  <1>3. /\ Place(k, wire[s], conn, be) /\ (k.kind = "close" => k.pc \in {"close", "sync"})
        /\ Coherent(conn, be) /\ s \in Threads /\ TypeOK /\ (Body(k) \/ k.kind = "close")
        /\ be.st \in Stats
    BY <1>2, At
  <1>4. ~k.err /\ Restful(conn, be)
    BY <1>1, <1>3, PlaceAt
  <1>5. /\ K.pc = "begin" /\ Asks(K, k) /\ K.err = k.err /\ wire'[s] = <<Cmd("BEGIN")>>
        /\ \A u \in Threads \ {s} : calls'[u] = calls[u] /\ wire'[u] = wire[u]
    BY <1>1, <1>3, Sends
  <1> HIDE DEF K
  <1>6. ~DoesAutocommit(conn)
    BY <1>1, <1>3 DEF Body, IssueBegin
  <1>7. be.st = "I"
    BY <1>1, <1>3, <1>4 DEF IssueBegin, Restful, Aware, InBlock, Coherent, Stats
  <1>8. InBegin(K, wire'[s], conn', be')
    BY <1>1, <1>4, <1>5, <1>6, <1>7 DEF InBegin, Restful, Asks
  <1>9. Place(K, wire'[s], conn', be') /\ K.pc \in StmtPcs /\ K.pc # PcIdle
    BY <1>5, <1>8, PlaceBy
  <1> QED BY <1>1, <1>2, <1>3, <1>5, <1>9, Advance DEF K

\* BeginDone: and its answer.
LEMMA StepBeginDone ==
    ASSUME TypeInv, CursorInv, NEW s \in Stmts, BeginDone(s)
    PROVE  CursorInv'
  <1> DEFINE k == calls[s]
             K == calls'[s]
             c == conn'
  <1>1. /\ k.pc = "begin" /\ wire[s] = << >> /\ conn' = StatusCopied(s) /\ be' = be
        /\ wire' = wire /\ GoTo(s, "request")
    BY DEF BeginDone, Answered
  <1>2. k.pc # PcIdle
    BY <1>1 DEF PcIdle
  <1>3. /\ Place(k, wire[s], conn, be) /\ (k.kind = "close" => k.pc \in {"close", "sync"})
        /\ Coherent(conn, be) /\ s \in Threads /\ TypeOK
        /\ conn \in Conn /\ be.st \in Stats
        /\ StatusCopied(s) = UpdateTransactionStatus(conn, be.st)
    BY <1>2, At
  <1>4. InBegin(k, wire[s], conn, be)
    BY <1>1, <1>3, PlaceAt
  <1>5. /\ K.pc = "request" /\ Asks(K, k) /\ K.err = k.err
        /\ \A u \in Threads \ {s} : calls'[u] = calls[u]
    BY <1>1, <1>3, Goes
  <1>6. /\ Coherent(c, be) /\ Aware(c, be) /\ Clear(c) /\ SameTrans(c, conn)
        /\ c.autocommit = conn.autocommit
    BY <1>1, <1>3, <1>4, CopiedFlags DEF InBegin
  <1> HIDE DEF K, c
  <1>7. InRequest(K, wire'[s], c, be)
    BY <1>1, <1>4, <1>5, <1>6 DEF InBegin, InRequest, Asks, SameTrans, DoesAutocommit
  <1>8. Place(K, wire'[s], c, be) /\ K.pc \in StmtPcs /\ K.pc # PcIdle
    BY <1>5, <1>7, PlaceBy
  <1> QED BY <1>1, <1>2, <1>3, <1>5, <1>6, <1>8, Advance DEF K, c

\* DirectSavepoint: the savepoint is sent.
LEMMA StepDirectSavepoint ==
    ASSUME TypeInv, CursorInv, NEW s \in Stmts, DirectSavepoint(s)
    PROVE  CursorInv'
  <1> DEFINE k == calls[s]
             K == calls'[s]
             c == conn'
  <1>1. /\ k.pc \in {"exec", "request"} /\ be' = be /\ NeedsSvp(s)
        /\ wire'[s] = SavepointCmds
        /\ \A u \in Threads \ {s} : calls'[u] = calls[u] /\ wire'[u] = wire[u]
    BY DEF DirectSavepoint, TypeInv, TypeOK, Threads
  <1>2. k.pc # PcIdle
    BY <1>1 DEF PcIdle
  <1>3. /\ Place(k, wire[s], conn, be) /\ (k.kind = "close" => k.pc \in {"close", "sync"})
        /\ Coherent(conn, be) /\ s \in Threads /\ TypeOK /\ conn \in Conn
    BY <1>2, At
  <1>4. K.pc = "svp" /\ Asks(K, k) /\ K.err = k.err /\ ~K.fail
    BY ZenonT(40), <1>3 DEF DirectSavepoint, TypeOK, CallRec, Asks
  <1>5. Alike(c, conn)
    <2>1. c = [conn EXCEPT !.op = "savepoint", !.optIn = conn.optIn /\ ReadOnly(s)]
      BY DEF DirectSavepoint
    <2> QED BY <1>3, <2>1 DEF Conn, Alike
  <1> HIDE DEF K, c
  <1>6. ~k.err /\ Aware(conn, be) /\ Served(conn)
    <2>1. CASE k.pc = "exec"
      BY <1>3, <2>1, PlaceAt DEF Restful
    <2>2. CASE k.pc = "request"
      BY <1>3, <2>2, PlaceAt DEF InRequest, Served
    <2> QED BY <1>1, <2>1, <2>2
  <1>7. be.st = "T"
    BY <1>1, <1>6 DEF NeedsSvp, EntersSvp, Aware, InBlock
  <1>8. SavepointSent(wire'[s], c)
    <2>1. SavepointCmds = IF conn.svp THEN <<SvpCmd("RELEASE", Internal), SvpCmd("SAVEPOINT", Internal)>>
                                      ELSE <<SvpCmd("SAVEPOINT", Internal)>>
      BY Joined DEF SavepointCmds
    <2> QED BY <1>1, <1>5, <2>1 DEF SavepointSent, Alike
  <1>9. InSvp(K, wire'[s], c, be)
    BY <1>4, <1>5, <1>6, <1>7, <1>8, AlikeSame DEF InSvp
  <1>10. Place(K, wire'[s], c, be) /\ K.pc \in StmtPcs /\ K.pc # PcIdle
    BY <1>4, <1>9, PlaceBy
  <1> QED BY <1>1, <1>2, <1>3, <1>4, <1>5, <1>10, AlikeSame, Advance DEF K, c

\* SavepointMade: and its answer.
LEMMA StepSavepointMade ==
    ASSUME TypeInv, CursorInv, NEW s \in Stmts, SavepointMade(s)
    PROVE  CursorInv'
  <1> DEFINE k == calls[s]
             K == calls'[s]
             d == StatusCopied(s)
             c == conn'
  <1>1. k.pc = "svp" /\ wire[s] = << >> /\ be' = be /\ wire' = wire
    BY DEF SavepointMade, Answered
  <1>2. k.pc # PcIdle
    BY <1>1 DEF PcIdle
  <1>3. /\ Place(k, wire[s], conn, be) /\ (k.kind = "close" => k.pc \in {"close", "sync"})
        /\ Coherent(conn, be) /\ s \in Threads /\ TypeOK
        /\ conn \in Conn /\ be.st \in Stats
        /\ StatusCopied(s) = UpdateTransactionStatus(conn, be.st)
    BY <1>2, At
  <1>4. /\ ~k.err /\ Aware(conn, be) /\ Served(conn)
        /\ be.st = IF k.fail THEN "X" ELSE "T"
    <2>1. InSvp(k, wire[s], conn, be)
      BY <1>1, <1>3, PlaceAt
    <2>2. \A a, b, e : <<a, b>> # << >> /\ <<e>> # << >>
      OBVIOUS
    <2> QED BY <1>1, <2>1, <2>2 DEF InSvp, SavepointSent
  <1>5. /\ d \in Conn /\ Coherent(d, be) /\ Aware(d, be) /\ SameTrans(d, conn)
        /\ d.autocommit = conn.autocommit /\ d.inTrans = conn.inTrans
    BY <1>3, <1>4, CopiedFlags
  <1>6. c = [d EXCEPT !.op = "none", !.accessed = TRUE]
    BY DEF SavepointMade
  <1> HIDE DEF d
  <1>7. Alike(c, d) /\ c.accessed
    BY <1>5, <1>6 DEF Conn, Alike
  <1>8. /\ k.fail => Asks(K, k) /\ K.err /\ K.pc \in {"discard", "post"}
        /\ ~k.fail => Asks(K, k) /\ K.err = k.err /\ K.pc = "ready"
        /\ \A u \in Threads \ {s} : calls'[u] = calls[u]
    <2>1. CASE k.fail
      <3>1. calls' = [calls EXCEPT ![s].err = TRUE,
                        ![s].pc = IF calls[s].prot = "ext" THEN "discard" ELSE "post"]
        BY <2>1 DEF SavepointMade
      <3> QED BY <1>3, <2>1, <3>1 DEF TypeOK, CallRec, Asks
    <2>2. CASE ~k.fail
      <3>1. GoTo(s, "ready")
        BY <2>2 DEF SavepointMade
      <3> QED BY <1>3, <2>2, <3>1, Goes
    <2> QED BY <2>1, <2>2
  <1> HIDE DEF K, c
  <1>9. Coherent(c, be) /\ Aware(c, be) /\ Served(c)
    <2>1. Served(d)
      BY <1>4, <1>5 DEF Served, SameTrans, DoesAutocommit
    <2> QED BY <1>5, <1>7, <2>1, AlikeSame
  <1>10. Place(K, wire'[s], c, be) /\ K.pc \in StmtPcs /\ K.pc # PcIdle
    <2>1. CASE k.fail
      <3>1. InPost(K, wire'[s], c, be) /\ InDiscard(K, wire'[s], c, be)
        BY <1>1, <1>4, <1>8, <1>9, <2>1 DEF InPost, InDiscard, Blamed
      <3> QED BY <1>8, <2>1, <3>1, PlaceBy
    <2>2. CASE ~k.fail
      <3>1. InReady(K, wire'[s], c, be)
        BY <1>1, <1>4, <1>7, <1>8, <1>9, <2>2 DEF InReady
      <3> QED BY <1>8, <2>2, <3>1, PlaceBy
    <2> QED BY <2>1, <2>2
  <1> QED BY <1>1, <1>2, <1>3, <1>8, <1>9, <1>10, Advance DEF K, c


-----------------------------------------------------------------------------
(* The statement is sent.                                                  *)

\* What SendMain does with the call and with the flags,
LEMMA SendCall ==
    ASSUME TypeInv, CursorInv, NEW s \in Stmts, SendMain(s)
    PROVE  LET k == calls[s]
               K == calls'[s]
               c == conn'
               enters == k.pc # "ready" /\ EntersSvp(s)
           IN  /\ k.pc \in {"exec", "request", "ready"} /\ conn.up /\ be' = be
               /\ Place(k, wire[s], conn, be) /\ Body(k) /\ k.pc # PcIdle
               /\ K.pc = "main" /\ Asks(K, k) /\ K.err = k.err /\ ~K.fail
               /\ k.pc = "exec" => K.wasIn = conn.inTrans
               /\ Alike(c, conn) /\ c.rbpoint = conn.rbpoint
               /\ conn.accessed \/ enters => c.accessed
               /\ \A u \in Threads \ {s} : calls'[u] = calls[u] /\ wire'[u] = wire[u]
  <1> DEFINE k == calls[s]
             K == calls'[s]
             c == conn'
             enters == k.pc # "ready" /\ EntersSvp(s)
  <1>1. k.pc \in {"exec", "request", "ready"} /\ conn.up /\ be' = be
    BY DEF SendMain
  <1>2. k.pc # PcIdle
    BY <1>1 DEF PcIdle
  <1>3. /\ Place(k, wire[s], conn, be) /\ Body(k) /\ s \in Threads /\ TypeOK /\ conn \in Conn
        /\ k \in CallRec
    BY <1>1, <1>2, At
  <1>4. calls' = [calls EXCEPT ![s].pc = "main", ![s].fail = FALSE,
                       ![s].lock = @ \/ enters,
                       ![s].wasIn = IF calls[s].pc = "exec" THEN conn.inTrans ELSE @]
    BY DEF SendMain
  <1>5. /\ K.pc = "main" /\ Asks(K, k) /\ K.err = k.err /\ ~K.fail
        /\ k.pc = "exec" => K.wasIn = conn.inTrans
        /\ \A u \in Threads \ {s} : calls'[u] = calls[u]
    <2>1. K = [k EXCEPT !.pc = "main", !.fail = FALSE, !.lock = @ \/ enters,
                        !.wasIn = IF k.pc = "exec" THEN conn.inTrans ELSE @]
          /\ \A u \in Threads \ {s} : calls'[u] = calls[u]
      BY <1>3, <1>4 DEF TypeOK
    <2> HIDE DEF K, enters
    <2> QED BY <1>3, <2>1 DEF CallRec, Asks
  <1>6. \A u \in Threads \ {s} : wire'[u] = wire[u]
    BY <1>3 DEF SendMain, TypeOK
  <1>7. /\ Alike(c, conn) /\ c.rbpoint = conn.rbpoint /\ (conn.accessed \/ enters => c.accessed)
    <2>1. CASE ~enters
      <3>1. c = conn
        BY <2>1 DEF SendMain
      <3> QED BY <2>1, <3>1 DEF Alike
    <2>2. CASE enters
      <3> DEFINE o == IF NeedsSvp(s) THEN "savepoint" ELSE conn.op
                 i == conn.optIn /\ ReadOnly(s)
                 a == conn.accessed \/ k.kind \notin TransKinds \cup {"special"}
      <3>1. c = [conn EXCEPT !.optIn = i, !.accessed = a, !.op = o]
        BY <2>2 DEF SendMain
      <3>2. a = TRUE
        BY <1>3 DEF Body, CursorKinds, TransKinds
      <3> HIDE DEF o, i, a
      <3> QED BY <1>3, <3>1, <3>2 DEF Conn, Alike
    <2> QED BY <2>1, <2>2
  <1> QED BY <1>1, <1>2, <1>3, <1>5, <1>6, <1>7

\* and what it sends.
LEMMA SendWire ==
    ASSUME NEW s \in Stmts, TypeOK, SendMain(s)
    PROVE  LET k == calls[s]
               enters == k.pc # "ready"
               begin == k.prot = "simple" /\ enters /\ IssueBegin(s)
               prepend == enters /\ NeedsSvp(s)
           IN  /\ prepend => ~begin /\ k.prot = "simple"
               /\ begin => wire'[s] = <<Cmd("BEGIN"), k.cmd>>
               /\ ~begin /\ ~prepend => wire'[s] = <<k.cmd>>
               /\ prepend => wire'[s] =
                    IF conn.svp
                    THEN <<SvpCmd("RELEASE", Internal), SvpCmd("SAVEPOINT", Internal), k.cmd>>
                    ELSE <<SvpCmd("SAVEPOINT", Internal), k.cmd>>
  <1> DEFINE k == calls[s]
             enters == k.pc # "ready"
             begin == k.prot = "simple" /\ enters /\ IssueBegin(s)
             prepend == enters /\ NeedsSvp(s)
             a == SvpCmd("RELEASE", Internal)
             b == SvpCmd("SAVEPOINT", Internal)
  <1>1. wire'[s] = (IF begin THEN <<Cmd("BEGIN")>> ELSE << >>)
                   \o (IF prepend THEN SavepointCmds ELSE << >>) \o <<k.cmd>>
    <2>1. s \in DOMAIN wire
      BY DEF TypeOK, Threads
    <2> QED BY <2>1 DEF SendMain
  <1>2. prepend => ~begin /\ k.prot = "simple"
    BY DEF SendMain, NeedsSvp, IssueBegin
  <1>3. SavepointCmds = IF conn.svp THEN <<a, b>> ELSE <<b>>
    BY Joined DEF SavepointCmds
  <1> HIDE DEF a, b
  <1>4. CASE begin
    BY <1>1, <1>2, <1>4, Joined
  <1>5. CASE ~begin /\ ~prepend
    BY <1>1, <1>5, Joined
  <1>6. CASE prepend
    <2>1. wire'[s] = SavepointCmds \o <<k.cmd>>
      <3>1. << >> \o SavepointCmds = SavepointCmds
        BY <1>3, Joined
      <3> QED BY <1>1, <1>2, <1>6, <3>1
    <2>2. <<a, b>> \o <<k.cmd>> = <<a, b, k.cmd>> /\ <<b>> \o <<k.cmd>> = <<b, k.cmd>>
      BY Joined
    <2>3. wire'[s] = IF conn.svp THEN <<a, b, k.cmd>> ELSE <<b, k.cmd>>
      BY <1>3, <2>1, <2>2
    <2> QED BY <1>2, <1>6, <2>3 DEF a, b
  <1> QED BY <1>2, <1>4, <1>5, <1>6

\* Where it is sent from: the driver knows the session.
LEMMA SendFrom ==
    ASSUME TypeInv, CursorInv, NEW s \in Stmts, SendMain(s)
    PROVE  LET k == calls[s]
           IN  /\ ~k.err /\ Aware(conn, be) /\ Served(conn) /\ be.st \in {"I", "T"}
               /\ k.pc = "ready" => conn.accessed /\ be.st = "T"
               /\ k.pc = "request" => be.st = "T" /\ k.prot = "ext" /\ Clear(conn)
               /\ k.pc = "exec" => Clear(conn)
  <1> DEFINE k == calls[s]
  <1>1. k.pc \in {"exec", "request", "ready"} /\ conn.up /\ Place(k, wire[s], conn, be)
        /\ k.pc # PcIdle
    BY SendCall
  <1>2. be.st # "X" /\ be.st \in Stats
    BY <1>1, At DEF Coherent
  <1>3. CASE k.pc = "exec"
    BY <1>1, <1>2, <1>3, PlaceAt DEF Restful, Stats
  <1>4. CASE k.pc = "request"
    BY <1>1, <1>2, <1>4, PlaceAt DEF InRequest, Served
  <1>5. CASE k.pc = "ready"
    BY <1>1, <1>5, PlaceAt DEF InReady
  <1> QED BY <1>1, <1>3, <1>4, <1>5

\* SendMain: the message, by what it begins with.
LEMMA StepSendMain ==
    ASSUME TypeInv, CursorInv, NEW s \in Stmts, SendMain(s)
    PROVE  CursorInv'
  <1> DEFINE k == calls[s]
             K == calls'[s]
             c == conn'
             w == wire'[s]
  <1>1. /\ k.pc \in {"exec", "request", "ready"} /\ conn.up /\ be' = be
        /\ Body(k) /\ k.pc # PcIdle
        /\ K.pc = "main" /\ Asks(K, k) /\ K.err = k.err /\ ~K.fail
        /\ k.pc = "exec" => K.wasIn = conn.inTrans
        /\ Alike(c, conn) /\ c.rbpoint = conn.rbpoint
        /\ conn.accessed \/ (k.pc # "ready" /\ EntersSvp(s)) => c.accessed
        /\ \A u \in Threads \ {s} : calls'[u] = calls[u] /\ wire'[u] = wire[u]
    BY SendCall
  <1>2. /\ ~k.err /\ Aware(conn, be) /\ Served(conn) /\ be.st \in {"I", "T"}
        /\ k.pc = "ready" => conn.accessed /\ be.st = "T"
        /\ k.pc = "request" => be.st = "T" /\ k.prot = "ext" /\ Clear(conn)
        /\ k.pc = "exec" => Clear(conn)
    BY SendFrom
  <1>3. TypeOK /\ Coherent(conn, be) /\ k \in CallRec /\ (k.kind = "close" => k.pc \in {"close", "sync"})
    BY <1>1, At
  <1>4. /\ conn.inTrans <=> be.st = "T"
        /\ ~conn.inError
    BY <1>2 DEF Aware, InBlock
  <1>5. SendMain(s)
    OBVIOUS
  <1>6. Coherent(c, be) /\ Aware(c, be) /\ Served(c) /\ DoesAutocommit(c) = DoesAutocommit(conn)
    BY <1>1, <1>2, <1>3, AlikeSame
  <1>7. be.st = "T" => c.accessed
    <2>1. k.pc # "ready" /\ be.st = "T" => EntersSvp(s)
      BY <1>1, <1>2, <1>4 DEF EntersSvp, ConsidersSvp, Clear
    <2> QED BY <1>1, <1>2, <2>1
  <1> HIDE DEF K, c
  <1>8. ~(k.prot = "simple" /\ k.pc # "ready" /\ IssueBegin(s)) /\ ~(k.pc # "ready" /\ NeedsSvp(s))
           => MainCmd(K, w, c, be)
    <2> SUFFICES ASSUME ~(k.prot = "simple" /\ k.pc # "ready" /\ IssueBegin(s)),
                        ~(k.pc # "ready" /\ NeedsSvp(s))
                 PROVE  MainCmd(K, w, c, be)
      OBVIOUS
    <2>1. w = <<k.cmd>> /\ K.cmd = k.cmd /\ K.kind = k.kind
      BY <1>1, <1>3, SendWire DEF Asks
    <2>2. be.st = "I" => k.pc = "exec" /\ k.kind # "declare" /\ ~K.wasIn
      <3> SUFFICES ASSUME be.st = "I" PROVE k.pc = "exec" /\ k.kind # "declare" /\ ~K.wasIn
        OBVIOUS
      <3>1. k.pc = "exec" /\ ~conn.inTrans
        BY <1>1, <1>2, <1>4
      <3>2. k.prot = "simple" => ~IssueBegin(s)
        BY <3>1
      <3>3. k.prot # "simple" => k.prot = "ext"
        BY <1>3 DEF CallRec
      <3>4. k.kind # "declare"
        BY <1>1, <3>1, <3>2, <3>3 DEF IssueBegin, Body
      <3> QED BY <1>1, <3>1, <3>4
    <2> QED BY <1>2, <1>6, <1>7, <2>1, <2>2 DEF MainCmd
  <1>9. k.prot = "simple" /\ k.pc # "ready" /\ IssueBegin(s) => MainBegin(K, w, c, be)
    <2> SUFFICES ASSUME k.prot = "simple", k.pc # "ready", IssueBegin(s) PROVE MainBegin(K, w, c, be)
      OBVIOUS
    <2>1. w = <<Cmd("BEGIN"), k.cmd>> /\ K.cmd = k.cmd /\ K.kind = k.kind
      BY <1>1, <1>3, SendWire DEF Asks
    <2>2. be.st = "I" /\ (DoesAutocommit(conn) => k.kind = "declare")
      BY <1>2, <1>4 DEF IssueBegin
    <2>3. Clear(conn)
      BY <1>1, <1>2
    <2>4. c.accessed /\ ~c.rbpoint
      BY <1>1, <1>4, <2>3 DEF EntersSvp, ConsidersSvp, Clear
    <2> QED BY <1>6, <2>1, <2>2, <2>4 DEF MainBegin
  <1>10. k.pc # "ready" /\ NeedsSvp(s) => K.prot = "simple" /\ MainSvp(K, w, c, be)
    <2> SUFFICES ASSUME k.pc # "ready", NeedsSvp(s) PROVE K.prot = "simple" /\ MainSvp(K, w, c, be)
      OBVIOUS
    <2>1. /\ w = IF conn.svp
                 THEN <<SvpCmd("RELEASE", Internal), SvpCmd("SAVEPOINT", Internal), k.cmd>>
                 ELSE <<SvpCmd("SAVEPOINT", Internal), k.cmd>>
          /\ k.prot = "simple" /\ K.cmd = k.cmd /\ K.prot = k.prot
      BY <1>1, <1>3, SendWire DEF Asks
    <2>2. be.st = "T"
      BY <1>4 DEF NeedsSvp
    <2> QED BY <1>1, <1>6, <1>7, <2>1, <2>2 DEF MainSvp, Alike
  <1>11. InMain(K, w, c, be)
    <2>1. K.prot = k.prot
      BY <1>1 DEF Asks
    <2> QED BY <1>1, <1>2, <1>6, <1>8, <1>9, <1>10, <2>1 DEF InMain
  <1> HIDE DEF w
  <1>12. Place(K, w, c, be) /\ K.pc \in StmtPcs /\ K.pc # PcIdle
    BY <1>1, <1>11, PlaceBy
  <1>13. calls[s].kind # "close"
    BY <1>1, <1>3
  <1> QED BY <1>1, <1>6, <1>12, <1>13, Advance DEF K, c, w


-----------------------------------------------------------------------------
(* The statement is answered.                                              *)

\* A status copied where it is known.
LEMMA CopiedAware ==
    ASSUME NEW c \in Conn, NEW x, x.st \in Stats, Coherent(c, x), Aware(c, x)
    PROVE  LET d == UpdateTransactionStatus(c, x.st)
           IN  /\ d \in Conn /\ Alike(d, c) /\ d.accessed = c.accessed /\ d.rbpoint = c.rbpoint
               /\ Coherent(d, x) /\ Aware(d, x)
  <1> DEFINE d == UpdateTransactionStatus(c, x.st)
  <1>1. /\ d \in Conn /\ Coherent(d, x) /\ Aware(d, x) /\ d.autocommit = c.autocommit
        /\ d.up = c.up /\ d.inTrans = c.inTrans /\ SameTrans(d, c)
    BY CopiedFlags
  <1> HIDE DEF d
  <1>2. d.inError \in BOOLEAN /\ c.inError \in BOOLEAN
    BY <1>1 DEF Conn
  <1>3. d.inError = c.inError
    BY <1>1, <1>2 DEF Aware
  <1> QED BY <1>1, <1>3 DEF Alike, SameTrans, d

\* MainDone: the cursor of a declare is open.
LEMMA StepMainDone ==
    ASSUME TypeInv, CursorInv, NEW s \in Stmts, MainDone(s)
    PROVE  CursorInv'
  <1> DEFINE k == calls[s]
             K == calls'[s]
             d == IF Queried(s) \/ k.fail THEN StatusCopied(s) ELSE conn
             c == conn'
  <1>1. k.pc = "main" /\ wire[s] = << >> /\ be' = be /\ wire' = wire
    BY DEF MainDone, Answered
  <1>2. k.pc # PcIdle
    BY <1>1 DEF PcIdle
  <1>3. /\ Place(k, wire[s], conn, be) /\ (k.kind = "close" => k.pc \in {"close", "sync"})
        /\ Coherent(conn, be) /\ s \in Threads /\ TypeOK
        /\ conn \in Conn /\ be.st \in Stats
        /\ StatusCopied(s) = UpdateTransactionStatus(conn, be.st)
    BY <1>2, At
  <1>4. /\ ~k.err /\ Aware(conn, be)
        /\ k.fail => Blamed(conn, be)
        /\ ~k.fail => Dues(k, conn) /\ be.st # "E"
    <2>1. InMain(k, wire[s], conn, be)
      BY <1>1, <1>3, PlaceAt
    <2>2. \A a, b, e : <<a, b, e>> # << >> /\ <<a, b>> # << >> /\ <<a>> # << >>
      OBVIOUS
    <2>3. wire[s] # <<k.cmd>> /\ ~MainBegin(k, wire[s], conn, be) /\ ~MainSvp(k, wire[s], conn, be)
      BY <1>1, <2>2 DEF MainBegin, MainSvp
    <2> QED BY <2>1, <2>3 DEF InMain, MainCmd, MainAnswered
  <1>5. /\ K.pc = "post" /\ Asks(K, k) /\ K.err = k.fail /\ K.wasIn = k.wasIn
        /\ \A u \in Threads \ {s} : calls'[u] = calls[u]
    BY <1>3 DEF MainDone, TypeOK, CallRec, Asks
  <1>6. /\ d \in Conn /\ Alike(d, conn) /\ d.accessed = conn.accessed /\ d.rbpoint = conn.rbpoint
        /\ Coherent(d, be) /\ Aware(d, be)
    BY <1>3, <1>4, CopiedAware DEF Alike
  <1>7. c = IF k.kind = "declare" /\ ~k.fail THEN [d EXCEPT !.cursors = @ \cup {s}] ELSE d
    BY DEF MainDone
  <1> HIDE DEF K, d, c
  <1>8. /\ Coherent(c, be) /\ Aware(c, be) /\ (Served(conn) => Served(c))
        /\ c.accessed = conn.accessed /\ c.rbpoint = conn.rbpoint
        /\ k.kind = "declare" /\ ~k.fail => Served(c)
    <2>1. CASE k.kind = "declare" /\ ~k.fail
      <3>1. /\ c.autocommit = d.autocommit /\ c.inTrans = d.inTrans /\ c.manual = d.manual
            /\ c.inError = d.inError /\ c.svp = d.svp /\ c.up = d.up /\ c.cursors # {}
            /\ c.accessed = d.accessed /\ c.rbpoint = d.rbpoint
        BY <1>6, <1>7, <2>1 DEF Conn
      <3> QED BY <1>6, <3>1 DEF Coherent, Aware, Served
    <2>2. CASE ~(k.kind = "declare" /\ ~k.fail)
      <3>1. c = d
        BY <1>7, <2>2
      <3> QED BY <1>6, <2>2, <3>1, AlikeSame
    <2> QED BY <2>1, <2>2
  <1>9. InPost(K, wire'[s], c, be)
    <2>1. CASE k.fail
      <3>1. Blamed(c, be)
        BY <1>4, <1>8, <2>1 DEF Blamed
      <3> QED BY <1>1, <1>5, <1>8, <2>1, <3>1 DEF InPost
    <2>2. CASE ~k.fail
      BY <1>1, <1>4, <1>5, <1>8, <2>2 DEF InPost, Dues, Asks
    <2> QED BY <2>1, <2>2
  <1>10. Place(K, wire'[s], c, be) /\ K.pc \in StmtPcs /\ K.pc # PcIdle
    BY <1>5, <1>9, PlaceBy
  <1> QED BY <1>1, <1>2, <1>3, <1>5, <1>8, <1>10, Advance DEF K, c

\* PostCommit: the transaction of a cursor is committed with the statement.
LEMMA StepPostCommit ==
    ASSUME TypeInv, CursorInv, NEW s \in Stmts, PostCommit(s)
    PROVE  CursorInv'
  <1> DEFINE k == calls[s]
             K == calls'[s]
  <1>1. /\ k.pc = "post" /\ conn' = conn /\ be' = be /\ CommitsAfter(s)
        /\ Send(s, "commit", <<Cmd("COMMIT")>>)
    BY DEF PostCommit
  <1>2. k.pc # PcIdle
    BY <1>1 DEF PcIdle
  <1>3. /\ Coherent(conn, be) /\ s \in Threads /\ TypeOK
        /\ k.kind = "close" => k.pc \in {"close", "sync"}
    BY <1>2, At
  <1>4. /\ K.pc = "commit" /\ Asks(K, k) /\ wire'[s] = <<Cmd("COMMIT")>>
        /\ \A u \in Threads \ {s} : calls'[u] = calls[u] /\ wire'[u] = wire[u]
    BY <1>1, <1>3, Sends
  <1> HIDE DEF K
  <1>5. AtCommit(wire'[s], conn', be')
    BY <1>1, <1>4 DEF AtCommit, Ends, CommitsAfter
  <1>6. Place(K, wire'[s], conn', be') /\ K.pc \in StmtPcs /\ K.pc # PcIdle
    BY <1>4, <1>5, PlaceBy
  <1> QED BY <1>1, <1>2, <1>3, <1>4, <1>6, Advance DEF K

\* PostCommitDone: whatever the answer is, the transaction is over.
LEMMA StepPostCommitDone ==
    ASSUME TypeInv, CursorInv, NEW s \in Stmts, PostCommitDone(s)
    PROVE  CursorInv'
  <1> DEFINE k == calls[s]
             K == calls'[s]
             c == conn'
  <1>1. /\ k.pc = "commit" /\ wire[s] = << >> /\ conn' = StatusCopied(s) /\ be' = be
        /\ wire' = wire /\ GoTo(s, "discard")
    BY DEF PostCommitDone, Answered
  <1>2. k.pc # PcIdle
    BY <1>1 DEF PcIdle
  <1>3. /\ Place(k, wire[s], conn, be) /\ (k.kind = "close" => k.pc \in {"close", "sync"})
        /\ Coherent(conn, be) /\ s \in Threads /\ TypeOK
        /\ conn \in Conn /\ be.st \in Stats
        /\ StatusCopied(s) = UpdateTransactionStatus(conn, be.st)
    BY <1>2, At
  <1>4. Over(be)
    <2>1. AtCommit(wire[s], conn, be)
      BY <1>1, <1>3, PlaceAt
    <2> QED BY <1>1, <2>1 DEF AtCommit, Ends
  <1>5. K.pc = "discard" /\ Asks(K, k) /\ \A u \in Threads \ {s} : calls'[u] = calls[u]
    BY <1>1, <1>3, Goes
  <1>6. Coherent(c, be) /\ Aware(c, be) /\ (~InBlock(be) => Served(c))
    BY <1>1, <1>3, CopiedFlags
  <1> HIDE DEF K, c
  <1>7. InDiscard(K, wire'[s], c, be)
    BY <1>1, <1>4, <1>6 DEF InDiscard, Blamed, Over, InBlock
  <1>8. Place(K, wire'[s], c, be) /\ K.pc \in StmtPcs /\ K.pc # PcIdle
    BY <1>5, <1>7, PlaceBy
  <1> QED BY <1>1, <1>2, <1>3, <1>5, <1>6, <1>8, Advance DEF K, c

\* Post: the transaction of a BEGIN is a manual one from here on.
LEMMA StepPost ==
    ASSUME TypeInv, CursorInv, NEW s \in Stmts, Post(s)
    PROVE  CursorInv'
  <1> DEFINE k == calls[s]
             K == calls'[s]
             m == k.kind \notin SelectKinds \cup {"ro"} /\ conn.inTrans /\ ~k.wasIn
             c == conn'
  <1>1. k.pc = "post" /\ be' = be /\ wire' = wire /\ c = [conn EXCEPT !.manual = @ \/ m]
    BY DEF Post
  <1>2. k.pc # PcIdle
    BY <1>1 DEF PcIdle
  <1>3. /\ Place(k, wire[s], conn, be) /\ (k.kind = "close" => k.pc \in {"close", "sync"})
        /\ Coherent(conn, be) /\ s \in Threads /\ TypeOK /\ conn \in Conn
    BY <1>2, At
  <1>4. InPost(k, wire[s], conn, be)
    BY <1>1, <1>3, PlaceAt
  <1>5. /\ K.pc = "discard" /\ Asks(K, k) /\ (k.err => K.err)
        /\ K.err => k.err \/ k.kind = "call"
        /\ \A u \in Threads \ {s} : calls'[u] = calls[u]
    <2>1. PICK e \in (IF k.kind = "call" THEN BOOLEAN ELSE {FALSE}) :
            calls' = [calls EXCEPT ![s].pc = "discard", ![s].err = @ \/ e]
      BY DEF Post
    <2> QED BY <1>3, <2>1 DEF TypeOK, CallRec, Asks
  <1>6. /\ c.autocommit = conn.autocommit /\ c.inTrans = conn.inTrans
        /\ c.manual = (conn.manual \/ m)
        /\ c.inError = conn.inError /\ c.svp = conn.svp /\ c.up = conn.up
        /\ c.cursors = conn.cursors /\ c.accessed = conn.accessed /\ c.rbpoint = conn.rbpoint
    <2> HIDE DEF m
    <2> QED BY <1>1, <1>3 DEF Conn
  <1> HIDE DEF K, c
  <1>7. Coherent(c, be) /\ Aware(c, be) /\ (Served(conn) => Served(c))
    BY <1>3, <1>4, <1>6 DEF Coherent, Aware, Served, DoesAutocommit, InPost
  <1>8. ~k.err => be.st # "E" /\ Served(c)
    <2>1. k.kind = "begin" /\ ~k.wasIn => Served(c)
      BY <1>6 DEF SelectKinds, Served, DoesAutocommit
    <2> QED BY <1>4, <1>7, <2>1 DEF InPost
  <1>9. InDiscard(K, wire'[s], c, be)
    <2>1. CASE k.err
      <3>1. Blamed(c, be)
        BY <1>4, <1>6, <1>7, <2>1 DEF InPost, Blamed
      <3> QED BY <1>1, <1>4, <1>5, <1>7, <2>1, <3>1 DEF InPost, InDiscard
    <2>2. CASE ~k.err
      BY <1>1, <1>4, <1>7, <1>8, <2>2 DEF InPost, InDiscard, Blamed
    <2> QED BY <2>1, <2>2
  <1>10. Place(K, wire'[s], c, be) /\ K.pc \in StmtPcs /\ K.pc # PcIdle
    BY <1>5, <1>9, PlaceBy
  <1> QED BY <1>1, <1>2, <1>3, <1>5, <1>7, <1>10, Advance DEF K, c


-----------------------------------------------------------------------------
(* DiscardStatementSvp.                                                    *)

\* A failed transaction of a call that fails is undone.
LEMMA FailedEngages ==
    ASSUME OnCursors, TypeInv, CursorInv, NEW s \in Stmts, calls[s].pc = "discard", be.st = "E"
    PROVE  Engaged(s) /\ conn.inError
  <1>1. calls[s].pc # PcIdle
    BY DEF PcIdle
  <1>2. InDiscard(calls[s], wire[s], conn, be)
    BY <1>1, At, PlaceAt
  <1>3. RollbackLevel > 0
    BY CoreAssumption DEF OnCursors
  <1>4. calls[s].err /\ conn.accessed /\ conn.inTrans /\ conn.inError
    BY <1>2 DEF InDiscard, Blamed, Aware, InBlock
  <1> QED BY <1>3, <1>4 DEF Engaged

\* Discard: there is nothing to undo.
LEMMA StepDiscard ==
    ASSUME OnCursors, TypeInv, CursorInv, NEW s \in Stmts, Discard(s)
    PROVE  CursorInv'
  <1> DEFINE k == calls[s]
             K == calls'[s]
  <1>1. /\ k.pc = "discard" /\ conn' = conn /\ be' = be /\ wire' = wire /\ GoTo(s, "end")
        /\ ~Engaged(s) \/ (HasRbPoint /\ ~conn.inError)
    BY DEF Discard
  <1>2. k.pc # PcIdle
    BY <1>1 DEF PcIdle
  <1>3. /\ Place(k, wire[s], conn, be) /\ (k.kind = "close" => k.pc \in {"close", "sync"})
        /\ Coherent(conn, be) /\ s \in Threads /\ TypeOK
    BY <1>2, At
  <1>4. be.st # "E"
    BY <1>1, FailedEngages
  <1>5. K.pc = "end" /\ Asks(K, k) /\ \A u \in Threads \ {s} : calls'[u] = calls[u]
    BY <1>1, <1>3, Goes
  <1> HIDE DEF K
  <1>6. InEnd(K, wire'[s], conn', be')
    <2>1. InDiscard(k, wire[s], conn, be)
      BY <1>1, <1>3, PlaceAt
    <2> QED BY <1>1, <1>4, <2>1 DEF InDiscard, InEnd, Blamed
  <1>7. Place(K, wire'[s], conn', be') /\ K.pc \in StmtPcs /\ K.pc # PcIdle
    BY <1>5, <1>6, PlaceBy
  <1> QED BY <1>1, <1>2, <1>3, <1>5, <1>7, Advance DEF K

\* Undo: ROLLBACK TO the internal savepoint is sent.
LEMMA StepUndo ==
    ASSUME TypeInv, CursorInv, NEW s \in Stmts, Undo(s)
    PROVE  CursorInv'
  <1> DEFINE k == calls[s]
             K == calls'[s]
  <1>1. /\ k.pc = "discard" /\ conn' = conn /\ be' = be /\ Send(s, "undo", UndoCmds)
        /\ Engaged(s) /\ HasRbPoint /\ conn.inError
    BY DEF Undo
  <1>2. k.pc # PcIdle
    BY <1>1 DEF PcIdle
  <1>3. /\ Place(k, wire[s], conn, be) /\ (k.kind = "close" => k.pc \in {"close", "sync"})
        /\ Coherent(conn, be) /\ s \in Threads /\ TypeOK
    BY <1>2, At
  <1>4. /\ K.pc = "undo" /\ Asks(K, k) /\ K.err = k.err /\ wire'[s] = UndoCmds
        /\ \A u \in Threads \ {s} : calls'[u] = calls[u] /\ wire'[u] = wire[u]
    BY <1>1, <1>3, Sends
  <1> HIDE DEF K
  <1>5. InUndo(K, wire'[s], conn', be')
    <2>1. InDiscard(k, wire[s], conn, be)
      BY <1>1, <1>3, PlaceAt
    <2>2. k.err /\ conn.svp /\ conn.rbpoint
      BY <1>1 DEF Engaged, HasRbPoint
    <2> QED BY <1>1, <1>4, <2>1, <2>2 DEF InDiscard, InUndo, Blamed, Aware
  <1>6. Place(K, wire'[s], conn', be') /\ K.pc \in StmtPcs /\ K.pc # PcIdle
    BY <1>4, <1>5, PlaceBy
  <1> QED BY <1>1, <1>2, <1>3, <1>4, <1>6, Advance DEF K

\* UndoDone: and answered.
LEMMA StepUndoDone ==
    ASSUME TypeInv, CursorInv, NEW s \in Stmts, UndoDone(s)
    PROVE  CursorInv'
  <1> DEFINE k == calls[s]
             K == calls'[s]
             c == conn'
  <1>1. /\ k.pc = "undo" /\ wire[s] = << >> /\ conn' = StatusCopied(s) /\ be' = be
        /\ wire' = wire /\ GoTo(s, "end")
    BY DEF UndoDone, Answered
  <1>2. k.pc # PcIdle
    BY <1>1 DEF PcIdle
  <1>3. /\ Place(k, wire[s], conn, be) /\ (k.kind = "close" => k.pc \in {"close", "sync"})
        /\ Coherent(conn, be) /\ s \in Threads /\ TypeOK
        /\ conn \in Conn /\ be.st \in Stats
        /\ StatusCopied(s) = UpdateTransactionStatus(conn, be.st)
    BY <1>2, At
  <1>4. be.st = "X" \/ GoesOn(conn, be)
    <2>1. InUndo(k, wire[s], conn, be)
      BY <1>1, <1>3, PlaceAt
    <2>2. UndoCmds # << >>
      BY DEF UndoCmds
    <2> QED BY <1>1, <2>1, <2>2 DEF InUndo
  <1>5. K.pc = "end" /\ Asks(K, k) /\ \A u \in Threads \ {s} : calls'[u] = calls[u]
    BY <1>1, <1>3, Goes
  <1>6. /\ Coherent(c, be) /\ Aware(c, be) /\ (~InBlock(be) => Served(c))
        /\ c.autocommit = conn.autocommit /\ (InBlock(be) => SameTrans(c, conn))
    BY <1>1, <1>3, CopiedFlags
  <1> HIDE DEF K, c
  <1>7. be.st # "E" /\ Served(c)
    BY <1>4, <1>6 DEF GoesOn, InBlock, Served, DoesAutocommit, SameTrans
  <1>8. InEnd(K, wire'[s], c, be)
    BY <1>1, <1>6, <1>7 DEF InEnd
  <1>9. Place(K, wire'[s], c, be) /\ K.pc \in StmtPcs /\ K.pc # PcIdle
    BY <1>5, <1>8, PlaceBy
  <1> QED BY <1>1, <1>2, <1>3, <1>5, <1>6, <1>9, Advance DEF K, c

\* DecideAbort: without a savepoint the transaction is to be rolled back.
LEMMA StepDecideAbort ==
    ASSUME TypeInv, CursorInv, NEW s \in Stmts, DecideAbort(s)
    PROVE  CursorInv'
  <1> DEFINE k == calls[s]
             K == calls'[s]
  <1>1. /\ k.pc = "discard" /\ conn' = conn /\ be' = be /\ wire' = wire /\ GoTo(s, "aborting")
        /\ Engaged(s)
    BY DEF DecideAbort
  <1>2. k.pc # PcIdle
    BY <1>1 DEF PcIdle
  <1>3. /\ Place(k, wire[s], conn, be) /\ (k.kind = "close" => k.pc \in {"close", "sync"})
        /\ Coherent(conn, be) /\ s \in Threads /\ TypeOK
    BY <1>2, At
  <1>4. K.pc = "aborting" /\ Asks(K, k) /\ \A u \in Threads \ {s} : calls'[u] = calls[u]
    BY <1>1, <1>3, Goes
  <1> HIDE DEF K
  <1>5. wire'[s] = << >> /\ conn'.inTrans
    BY <1>1, <1>3, PlaceAt DEF InDiscard, Engaged
  <1>6. Place(K, wire'[s], conn', be') /\ K.pc \in StmtPcs /\ K.pc # PcIdle
    BY <1>4, <1>5, PlaceBy
  <1> QED BY <1>1, <1>2, <1>3, <1>4, <1>6, Advance DEF K

\* Abort: ROLLBACK is sent.
LEMMA StepAbort ==
    ASSUME TypeInv, CursorInv, NEW s \in Stmts, Abort(s)
    PROVE  CursorInv'
  <1> DEFINE k == calls[s]
             K == calls'[s]
  <1>1. k.pc = "aborting" /\ conn' = conn /\ be' = be
    BY DEF Abort
  <1>2. k.pc # PcIdle
    BY <1>1 DEF PcIdle
  <1>3. /\ Place(k, wire[s], conn, be) /\ (k.kind = "close" => k.pc \in {"close", "sync"})
        /\ Coherent(conn, be) /\ s \in Threads /\ TypeOK
    BY <1>2, At
  <1>4. conn.inTrans /\ conn.up
    BY <1>1, <1>3, PlaceAt DEF Coherent
  <1>5. Send(s, "abort", <<Cmd("ROLLBACK")>>)
    BY <1>4 DEF Abort
  <1>6. /\ K.pc = "abort" /\ Asks(K, k) /\ wire'[s] = <<Cmd("ROLLBACK")>>
        /\ \A u \in Threads \ {s} : calls'[u] = calls[u] /\ wire'[u] = wire[u]
    BY <1>3, <1>5, Sends
  <1> HIDE DEF K
  <1>7. Ends(<<Cmd("ROLLBACK")>>, wire'[s], conn', be')
    BY <1>1, <1>4, <1>6 DEF Ends
  <1>8. Place(K, wire'[s], conn', be') /\ K.pc \in StmtPcs /\ K.pc # PcIdle
    BY <1>6, <1>7, PlaceBy
  <1> QED BY <1>1, <1>2, <1>3, <1>6, <1>8, Advance DEF K

\* AbortDone: and answered; the transaction is over.
LEMMA StepAbortDone ==
    ASSUME TypeInv, CursorInv, NEW s \in Stmts, AbortDone(s)
    PROVE  CursorInv'
  <1> DEFINE k == calls[s]
             K == calls'[s]
  <1>1. /\ k.pc = "abort" /\ wire[s] = << >> /\ conn' = conn /\ be' = be
        /\ wire' = wire /\ GoTo(s, "sync")
    BY DEF AbortDone, Answered
  <1>2. k.pc # PcIdle
    BY <1>1 DEF PcIdle
  <1>3. /\ Place(k, wire[s], conn, be) /\ (k.kind = "close" => k.pc \in {"close", "sync"})
        /\ Coherent(conn, be) /\ s \in Threads /\ TypeOK
    BY <1>2, At
  <1>4. Over(be)
    <2>1. Ends(<<Cmd("ROLLBACK")>>, wire[s], conn, be)
      BY <1>1, <1>3, PlaceAt
    <2> QED BY <1>1, <2>1 DEF Ends
  <1>5. K.pc = "sync" /\ Asks(K, k) /\ \A u \in Threads \ {s} : calls'[u] = calls[u]
    BY <1>1, <1>3, Goes
  <1> HIDE DEF K
  <1>6. InSync(K, wire'[s], conn', be')
    BY <1>1, <1>3, <1>4, <1>5 DEF InSync, Asks
  <1>7. Place(K, wire'[s], conn', be') /\ K.pc \in StmtPcs /\ K.pc # PcIdle
    BY <1>5, <1>6, PlaceBy
  <1> QED BY <1>1, <1>2, <1>3, <1>5, <1>7, Advance DEF K

\* Sync: the status is copied.
LEMMA StepSync ==
    ASSUME TypeInv, CursorInv, NEW s \in Stmts, Sync(s)
    PROVE  CursorInv'
  <1> DEFINE k == calls[s]
             K == calls'[s]
             c == conn'
  <1>1. k.pc = "sync" /\ conn' = StatusCopied(s) /\ be' = be /\ wire' = wire
    BY DEF Sync
  <1>2. k.pc # PcIdle
    BY <1>1 DEF PcIdle
  <1>3. /\ Place(k, wire[s], conn, be) /\ (k.kind = "close" => k.pc \in {"close", "sync"})
        /\ Coherent(conn, be) /\ s \in Threads /\ TypeOK
        /\ conn \in Conn /\ be.st \in Stats
        /\ StatusCopied(s) = UpdateTransactionStatus(conn, be.st)
    BY <1>2, At
  <1>4. InSync(k, wire[s], conn, be)
    BY <1>1, <1>3, PlaceAt
  <1>5. /\ Coherent(c, be) /\ Aware(c, be) /\ (~InBlock(be) => Served(c))
        /\ c.autocommit = conn.autocommit /\ (InBlock(be) => SameTrans(c, conn))
        /\ Clear(conn) => Clear(c)
    BY <1>1, <1>3, CopiedFlags
  <1> HIDE DEF c
  <1>6. be.st # "E" /\ Served(c)
    BY <1>4, <1>5 DEF InSync, Over, GoesOn, InBlock, Served, DoesAutocommit, SameTrans
  <1>7. CASE k.kind = "close"
    <2>1. calls' = [calls EXCEPT ![s] = Idle]
      BY <1>7 DEF Sync
    <2>2. Restful(c, be) /\ wire[s] = << >>
      BY <1>4, <1>5, <1>6, <1>7 DEF Restful, InSync
    <2> QED BY <1>1, <1>2, <1>3, <1>5, <2>1, <2>2, Return DEF c
  <1>8. CASE k.kind # "close"
    <2>1. GoTo(s, "end")
      BY <1>8 DEF Sync
    <2>2. K.pc = "end" /\ Asks(K, k) /\ \A u \in Threads \ {s} : calls'[u] = calls[u]
      BY <1>3, <2>1, Goes
    <2> HIDE DEF K
    <2>3. InEnd(K, wire'[s], c, be)
      BY <1>1, <1>4, <1>5, <1>6 DEF InEnd, InSync
    <2>4. Place(K, wire'[s], c, be) /\ K.pc \in StmtPcs /\ K.pc # PcIdle
      BY <2>2, <2>3, PlaceBy
    <2> QED BY <1>1, <1>2, <1>5, <1>8, <2>2, <2>4, Advance DEF K, c
  <1> QED BY <1>7, <1>8

\* EndCall: the call returns.
LEMMA StepEndCall ==
    ASSUME TypeInv, CursorInv, NEW s \in Stmts, EndCall(s)
    PROVE  CursorInv'
  <1> DEFINE k == calls[s]
             d == IF ~k.err /\ conn.accessed
                  THEN [conn EXCEPT !.optPrev = conn.optIn, !.optIn = TRUE] ELSE conn
             c == conn'
  <1>1. /\ k.pc = "end" /\ conn' = StartStmt(d) /\ be' = be /\ wire' = wire
        /\ calls' = [calls EXCEPT ![s] = Idle]
    BY DEF EndCall
  <1>2. k.pc # PcIdle
    BY <1>1 DEF PcIdle
  <1>3. Place(k, wire[s], conn, be) /\ Coherent(conn, be) /\ s \in Threads /\ conn \in Conn
    BY <1>2, At
  <1>4. InEnd(k, wire[s], conn, be)
    BY <1>1, <1>3, PlaceAt
  <1>5. d \in Conn /\ Alike(d, conn)
    BY ZenonT(40), <1>3 DEF Conn, Alike
  <1> HIDE DEF d
  <1>6. Alike(c, d) /\ Clear(c)
    BY <1>1, <1>5 DEF StartStmt, Conn, Alike, Clear
  <1> HIDE DEF c
  <1>7. Coherent(c, be) /\ Restful(c, be)
    BY <1>3, <1>4, <1>5, <1>6, AlikeSame DEF InEnd, Restful
  <1> QED BY <1>1, <1>2, <1>3, <1>4, <1>7, Return DEF c, InEnd

-----------------------------------------------------------------------------
(* The other calls.                                                         *)

\* CloseDone: a cursor has been closed.
LEMMA StepCloseDone ==
    ASSUME TypeInv, CursorInv, NEW s \in Stmts, CloseDone(s)
    PROVE  CursorInv'
  <1> DEFINE k == calls[s]
             K == calls'[s]
  <1>1. /\ k.pc = "close" /\ wire[s] = << >> /\ conn' = conn /\ be' = be
        /\ wire' = wire /\ GoTo(s, "sync")
    BY DEF CloseDone, Answered
  <1>2. k.pc # PcIdle
    BY <1>1 DEF PcIdle
  <1>3. Place(k, wire[s], conn, be) /\ Coherent(conn, be) /\ s \in Threads /\ TypeOK
    BY <1>2, At
  <1>4. k.kind = "close" /\ Clear(conn) /\ (Over(be) \/ GoesOn(conn, be))
    <2>1. InClose(k, wire[s], conn, be)
      BY <1>1, <1>3, PlaceAt
    <2>2. \A a, b : <<a>> # << >> /\ <<a, b>> # << >>
      OBVIOUS
    <2> QED BY <1>1, <2>1, <2>2 DEF InClose
  <1>5. K.pc = "sync" /\ Asks(K, k) /\ \A u \in Threads \ {s} : calls'[u] = calls[u]
    BY <1>1, <1>3, Goes
  <1> HIDE DEF K
  <1>6. InSync(K, wire'[s], conn', be')
    BY <1>1, <1>4, <1>5 DEF InSync, Asks
  <1>7. Place(K, wire'[s], conn', be') /\ K.pc \in StmtPcs /\ K.pc # PcIdle
    BY <1>5, <1>6, PlaceBy
  <1> QED BY <1>1, <1>2, <1>3, <1>5, <1>7, Advance DEF K


\* A call begins when none runs.
LEMMA Resting ==
    ASSUME OnCursors, TypeInv, CursorInv, NEW t \in Threads, MayCall(t)
    PROVE  /\ \A u \in Threads : calls[u].pc = PcIdle /\ wire[u] = << >>
           /\ Restful(conn, be) /\ Coherent(conn, be) /\ conn \in Conn /\ be \in Session
           /\ be.st \in Stats /\ TypeOK
  <1>1. AtRest
    BY DEF MayCall, OnCursors
  <1>2. \A u \in Threads : calls[u].pc = PcIdle /\ wire[u] = << >>
    BY <1>1 DEF AtRest, CursorInv, Course
  <1> QED BY <1>1, <1>2 DEF CursorInv, TypeInv, TypeOK, Session, Stats

\* Call: a statement is to be executed.
LEMMA StepCall ==
    ASSUME OnCursors, TypeInv, CursorInv, NEW s \in Stmts, Call(s)
    PROVE  CursorInv'
  <1>1. s \in Threads /\ s # Dbc
    BY CoreAssumption DEF Threads
  <1>2. /\ \A u \in Threads : calls[u].pc = PcIdle /\ wire[u] = << >>
        /\ Restful(conn, be) /\ Coherent(conn, be) /\ TypeOK
    BY <1>1, Resting DEF Call
  <1>3. PICK o \in Ops : \E cmd \in BodyOf(o.kind) :
           \E e \in (IF o.kind = "local" THEN BOOLEAN ELSE {FALSE}) :
              calls' = [calls EXCEPT ![s] =
                 [Idle EXCEPT !.pc = IF o.kind = "local" THEN "discard" ELSE "exec",
                              !.kind = o.kind, !.prot = o.prot, !.cmd = cmd,
                              !.err = e, !.before = be]]
    BY DEF Call
  <1>4. PICK cmd \in BodyOf(o.kind) : \E e \in (IF o.kind = "local" THEN BOOLEAN ELSE {FALSE}) :
              calls' = [calls EXCEPT ![s] =
                 [Idle EXCEPT !.pc = IF o.kind = "local" THEN "discard" ELSE "exec",
                              !.kind = o.kind, !.prot = o.prot, !.cmd = cmd,
                              !.err = e, !.before = be]]
    BY <1>3
  <1>5. PICK e \in (IF o.kind = "local" THEN BOOLEAN ELSE {FALSE}) :
              calls' = [calls EXCEPT ![s] =
                 [Idle EXCEPT !.pc = IF o.kind = "local" THEN "discard" ELSE "exec",
                              !.kind = o.kind, !.prot = o.prot, !.cmd = cmd,
                              !.err = e, !.before = be]]
    BY <1>4
  <1> DEFINE K == [Idle EXCEPT !.pc = IF o.kind = "local" THEN "discard" ELSE "exec",
                              !.kind = o.kind, !.prot = o.prot, !.cmd = cmd,
                              !.err = e, !.before = be]
  <1>6. /\ K.pc = (IF o.kind = "local" THEN "discard" ELSE "exec")
        /\ K.kind = o.kind /\ K.prot = o.prot /\ K.cmd = cmd /\ K.err = e
    BY DEF Idle
  <1>7. conn' = conn /\ be' = be /\ wire' = wire
    BY DEF Call
  <1>8. calls'[s] = K /\ \A u \in Threads \ {s} : calls'[u] = calls[u]
    BY <1>1, <1>2, <1>5 DEF TypeOK
  <1> HIDE DEF K
  <1>9. o.kind \in CursorKinds /\ (o.prot = "ext" => o.kind \in {"write", "read"})
    BY DEF OnCursors
  <1>10. cmd.c = IF o.kind \in {"write", "call"} THEN "WRITE"
                 ELSE IF o.kind = "begin" THEN "BEGIN" ELSE "READ"
    <2>1. CASE o.kind \in {"write", "call"}
      <3>1. PICK w \in Writes : cmd = WriteCmd(w)
        BY <1>4, <2>1 DEF BodyOf
      <3> QED BY <2>1, <3>1 DEF WriteCmd
    <2>2. CASE o.kind = "begin"
      BY <1>4, <2>2 DEF BodyOf, Cmd
    <2>3. CASE o.kind \in {"read", "declare", "ro", "local"}
      <3>1. cmd = Cmd("READ")
        BY <1>4, <2>3 DEF BodyOf
      <3> QED BY <2>3, <3>1 DEF Cmd
    <2> QED BY <1>9, <2>1, <2>2, <2>3 DEF CursorKinds
  <1>11. Body(K) /\ K.kind # "close"
    BY <1>6, <1>9, <1>10 DEF Body, CursorKinds
  <1>12. Place(K, << >>, conn, be) /\ K.pc \in StmtPcs /\ K.pc # PcIdle
    <2>1. CASE o.kind = "local"
      <3>1. InDiscard(K, << >>, conn, be)
        BY <1>2 DEF InDiscard, Blamed, Restful
      <3> QED BY <1>6, <2>1, <3>1, PlaceBy
    <2>2. CASE o.kind # "local"
      BY <1>2, <1>6, <2>2, PlaceBy
    <2> QED BY <2>1, <2>2
  <1>13. Course(s, K, << >>, conn, be)
    BY <1>1, <1>11, <1>12 DEF Course
  <1> QED BY <1>1, <1>2, <1>7, <1>8, <1>12, <1>13, OneStep

\* Close: SQL_CLOSE of an open cursor.
LEMMA StepClose ==
    ASSUME OnCursors, TypeInv, CursorInv, NEW s \in Stmts, Close(s)
    PROVE  CursorInv'
  <1> DEFINE K == [Idle EXCEPT !.pc = "close", !.kind = "close", !.before = be]
             c == conn'
             ends == conn.inTrans /\ DoesAutocommit(conn) /\ conn.cursors = {s}
  <1>1. s \in Threads /\ s # Dbc
    BY CoreAssumption DEF Threads
  <1>2. /\ \A u \in Threads : calls[u].pc = PcIdle /\ wire[u] = << >>
        /\ Restful(conn, be) /\ Coherent(conn, be) /\ TypeOK /\ conn \in Conn
    BY <1>1, Resting DEF Close
  <1>3. ~conn.inError
    BY <1>2 DEF Restful, Aware
  <1>4. /\ s \in conn.cursors /\ c = [conn EXCEPT !.cursors = @ \ {s}] /\ be' = be
        /\ wire' = [wire EXCEPT ![s] = <<Cmd("CLOSE")>> \o
                      IF ends THEN <<Cmd("COMMIT")>> ELSE << >>]
        /\ calls' = [calls EXCEPT ![s] = K]
    BY <1>3 DEF Close
  <1>5. K.pc = "close" /\ K.kind = "close"
    BY DEF Idle
  <1> HIDE DEF K
  <1>6. /\ calls'[s] = K
        /\ wire'[s] = IF ends THEN <<Cmd("CLOSE"), Cmd("COMMIT")>> ELSE <<Cmd("CLOSE")>>
        /\ \A u \in Threads \ {s} : calls'[u] = calls[u] /\ wire'[u] = wire[u]
    <2>1. wire'[s] = <<Cmd("CLOSE")>> \o IF ends THEN <<Cmd("COMMIT")>> ELSE << >>
      BY <1>1, <1>2, <1>4 DEF TypeOK
    <2>2. wire'[s] = IF ends THEN <<Cmd("CLOSE"), Cmd("COMMIT")>> ELSE <<Cmd("CLOSE")>>
      BY <2>1, Joined
    <2> HIDE DEF ends
    <2> QED BY <1>1, <1>2, <1>4, <2>2 DEF TypeOK
  <1>7. /\ c.autocommit = conn.autocommit /\ c.inTrans = conn.inTrans /\ c.manual = conn.manual
        /\ c.inError = conn.inError /\ c.svp = conn.svp /\ c.up = conn.up
        /\ c.accessed = conn.accessed /\ c.rbpoint = conn.rbpoint
        /\ c.cursors = conn.cursors \ {s}
    BY <1>2, <1>4 DEF Conn
  <1> HIDE DEF c
  <1>8. Coherent(c, be) /\ Aware(c, be) /\ Clear(c) /\ be.st # "E"
    BY <1>2, <1>7 DEF Coherent, Restful, Aware, Clear
  <1>9. InClose(K, wire'[s], c, be)
    <2>1. CASE ends
      <3>1. be.st = "T" /\ c.inTrans
        BY <1>7, <1>8, <2>1 DEF Aware, InBlock
      <3> QED BY <1>5, <1>6, <1>8, <2>1, <3>1 DEF InClose
    <2>2. CASE ~ends
      <3>1. Served(c)
        BY <1>4, <1>7, <2>2 DEF Served, DoesAutocommit
      <3> HIDE DEF ends
      <3> QED BY <1>5, <1>6, <1>8, <2>2, <3>1 DEF InClose
    <2> QED BY <2>1, <2>2
  <1>10. Place(K, wire'[s], c, be) /\ K.pc \in StmtPcs /\ K.pc # PcIdle
    BY <1>5, <1>9, PlaceBy
  <1>11. Course(s, K, wire'[s], c, be)
    BY <1>1, <1>5, <1>10 DEF Course
  <1>12. be' = be
    BY <1>4
  <1> QED BY <1>1, <1>2, <1>6, <1>8, <1>10, <1>11, <1>12, OneStep DEF c

\* Reconnect: fail over to a new session.
LEMMA StepReconnect ==
    ASSUME OnCursors, TypeInv, CursorInv, NEW s \in Stmts, Reconnect(s)
    PROVE  CursorInv'
  <1> DEFINE c == conn'
             y == be'
  <1>1. s \in Threads
    BY DEF Threads
  <1>2. /\ \A u \in Threads : calls[u].pc = PcIdle /\ wire[u] = << >>
        /\ Restful(conn, be) /\ Coherent(conn, be) /\ conn \in Conn
    BY <1>1, Resting DEF Reconnect
  <1>3. ~conn.up /\ c = [conn EXCEPT !.up = TRUE] /\ calls' = calls /\ wire' = wire
        /\ y = FreshSession(be.durable)
    BY DEF Reconnect
  <1>4. y.st = "I"
    BY <1>3 DEF FreshSession
  <1>5. /\ c.autocommit = conn.autocommit /\ c.inTrans = conn.inTrans /\ c.manual = conn.manual
        /\ c.inError = conn.inError /\ c.svp = conn.svp /\ c.up
        /\ c.accessed = conn.accessed /\ c.rbpoint = conn.rbpoint /\ c.cursors = conn.cursors
    BY <1>2, <1>3 DEF Conn
  <1> HIDE DEF c, y
  <1>6. Coherent(c, y) /\ Restful(c, y)
    BY <1>2, <1>3, <1>4, <1>5 DEF Coherent, Restful, Aware, Served, Clear, InBlock
  <1>7. Course(s, calls'[s], wire'[s], c, y)
    BY <1>1, <1>2, <1>3 DEF Course
  <1> QED BY <1>1, <1>2, <1>3, <1>6, <1>7, OneStep DEF c, y

\* A call on the connection handle sends its command.
LEMMA StepEndTran ==
    ASSUME OnCursors, TypeInv, CursorInv, NEW kind, EndTran(kind)
    PROVE  CursorInv'
  <1> DEFINE cmd == Cmd(IF kind = "commit" THEN "COMMIT" ELSE "ROLLBACK")
             K == [Idle EXCEPT !.pc = "endtran", !.kind = kind,
                               !.cmd = Head(wire'[Dbc]), !.before = be]
  <1>1. Dbc \in Threads
    BY DEF Threads
  <1>2. /\ \A u \in Threads : calls[u].pc = PcIdle /\ wire[u] = << >>
        /\ Restful(conn, be) /\ Coherent(conn, be) /\ TypeOK
    BY <1>1, Resting DEF EndTran
  <1>3. /\ kind \in {"commit", "rollback"} /\ conn.inTrans /\ conn' = conn /\ be' = be
        /\ wire' = [wire EXCEPT ![Dbc] = <<cmd>>] /\ calls' = [calls EXCEPT ![Dbc] = K]
    BY DEF EndTran
  <1> HIDE DEF cmd
  <1>4. wire'[Dbc] = <<cmd>> /\ \A u \in Threads \ {Dbc} : wire'[u] = wire[u]
    BY <1>1, <1>2, <1>3 DEF TypeOK
  <1>5. K.pc = "endtran" /\ K.kind = kind /\ K.before = be /\ K.cmd = cmd
    BY <1>4, HeadTail DEF Idle
  <1> HIDE DEF K
  <1>6. calls'[Dbc] = K /\ \A u \in Threads \ {Dbc} : calls'[u] = calls[u]
    BY <1>1, <1>2, <1>3 DEF TypeOK
  <1>7. be.st = "T"
    BY <1>2, <1>3 DEF Restful, Aware, InBlock
  <1>8. InEndTran(K, wire'[Dbc], conn, be)
    BY <1>2, <1>3, <1>4, <1>5, <1>7 DEF InEndTran, Restful, cmd
  <1>9. Course(Dbc, K, wire'[Dbc], conn, be) /\ K.pc # PcIdle
    BY <1>3, <1>5, <1>8 DEF Course, Place, PcIdle
  <1> QED BY <1>1, <1>2, <1>3, <1>4, <1>6, <1>9, OneStep

\* A call on the connection handle and where it is.
LEMMA AtDbc ==
    ASSUME TypeInv, CursorInv, calls[Dbc].pc # PcIdle
    PROVE  LET k == calls[Dbc]
           IN  /\ Dbc \in Threads /\ k.pc \in {"endtran", "autocommit"}
               /\ k.pc = "endtran" => InEndTran(k, wire[Dbc], conn, be)
               /\ k.pc = "autocommit" => /\ k.kind = "autocommit"
                                      /\ Clear(conn) /\ AtCommit(wire[Dbc], conn, be)
  <1>1. Dbc \in Threads
    BY DEF Threads
  <1> QED BY <1>1, Alone, PlaceAt DEF Course

\* The transaction is over when SQLEndTran returns.
LEMMA StepEndTranDone ==
    ASSUME TypeInv, CursorInv, EndTranDone
    PROVE  CursorInv'
  <1> DEFINE k == calls[Dbc]
             d == StatusCopied(Dbc)
             c == conn'
  <1>1. /\ k.pc = "endtran" /\ wire[Dbc] = << >> /\ be' = be /\ wire' = wire
        /\ conn' = (IF k.fail THEN OnTransEnd(d) ELSE d)
        /\ calls' = [calls EXCEPT ![Dbc] = Idle]
    BY DEF EndTranDone, Answered
  <1>2. k.pc # PcIdle /\ Dbc \in Threads
    BY <1>1 DEF PcIdle, Threads
  <1>3. /\ Coherent(conn, be) /\ conn \in Conn /\ be.st \in Stats
        /\ StatusCopied(Dbc) = UpdateTransactionStatus(conn, be.st)
    BY <1>2, Alone
  <1>4. Clear(conn) /\ Over(be)
    <2>1. InEndTran(k, wire[Dbc], conn, be)
      BY <1>1, <1>2, AtDbc
    <2> QED BY <1>1, <2>1 DEF InEndTran
  <1>5. d \in Conn /\ Coherent(d, be) /\ Restful(d, be)
    BY <1>3, <1>4, CopiedFlags DEF Restful, Over, InBlock
  <1> HIDE DEF d
  <1>6. Coherent(c, be) /\ Restful(c, be)
    <2>1. CASE k.fail
      <3>1. c = OnTransEnd(d)
        BY <1>1, <2>1
      <3>2. /\ c.up = d.up /\ ~c.inTrans /\ ~c.inError /\ ~c.manual /\ ~c.svp /\ Clear(c)
        BY <1>5, <3>1, EndedFlags DEF Coherent
      <3> HIDE DEF c
      <3> QED BY <1>4, <1>5, <3>2 DEF Coherent, Restful, Aware, Served, Over, InBlock
    <2>2. CASE ~k.fail
      BY <1>1, <1>5, <2>2
    <2> QED BY <2>1, <2>2
  <1> HIDE DEF c
  <1> QED BY <1>1, <1>2, <1>6, Return DEF c

\* SQL_ATTR_AUTOCOMMIT commits first,
LEMMA StepSetAutocommit ==
    ASSUME OnCursors, TypeInv, CursorInv, SetAutocommit
    PROVE  CursorInv'
  <1> DEFINE K == [Idle EXCEPT !.pc = "autocommit", !.kind = "autocommit", !.before = be]
             c == conn'
  <1>1. Dbc \in Threads
    BY DEF Threads
  <1>2. /\ \A u \in Threads : calls[u].pc = PcIdle /\ wire[u] = << >>
        /\ Restful(conn, be) /\ Coherent(conn, be) /\ TypeOK /\ conn \in Conn
    BY <1>1, Resting DEF SetAutocommit
  <1>3. be' = be
    BY DEF SetAutocommit
  <1>4. CASE conn.inTrans
    <2>1. /\ wire' = [wire EXCEPT ![Dbc] = <<Cmd("COMMIT")>>]
          /\ calls' = [calls EXCEPT ![Dbc] = K] /\ conn' = conn
      BY <1>4 DEF SetAutocommit
    <2>2. K.pc = "autocommit" /\ K.kind = "autocommit"
      BY DEF Idle
    <2> HIDE DEF K
    <2>3. /\ calls'[Dbc] = K /\ wire'[Dbc] = <<Cmd("COMMIT")>>
          /\ \A u \in Threads \ {Dbc} : calls'[u] = calls[u] /\ wire'[u] = wire[u]
      BY <1>1, <1>2, <2>1 DEF TypeOK
    <2>4. Course(Dbc, K, wire'[Dbc], conn, be) /\ K.pc # PcIdle
      BY <1>2, <1>4, <2>2, <2>3 DEF Course, Place, PcIdle, AtCommit, Ends, Restful
    <2> QED BY <1>1, <1>2, <1>3, <2>1, <2>3, <2>4, OneStep
  <1>5. CASE ~conn.inTrans
    <2>1. c = [conn EXCEPT !.autocommit = ~@] /\ calls' = calls /\ wire' = wire
      BY <1>5 DEF SetAutocommit
    <2>2. /\ c.inTrans = conn.inTrans /\ c.manual = conn.manual
          /\ c.inError = conn.inError /\ c.svp = conn.svp /\ c.up = conn.up
          /\ c.accessed = conn.accessed /\ c.rbpoint = conn.rbpoint
      BY <1>2, <2>1 DEF Conn
    <2> HIDE DEF c
    <2>3. Coherent(c, be) /\ Restful(c, be)
      BY <1>2, <1>5, <2>2 DEF Coherent, Restful, Aware, Served, Clear
    <2>4. Course(Dbc, calls'[Dbc], wire'[Dbc], c, be)
      BY <1>1, <1>2, <2>1 DEF Course
    <2> QED BY <1>1, <1>2, <1>3, <2>1, <2>3, <2>4, OneStep DEF c
  <1> QED BY <1>4, <1>5

\* and then switches.
LEMMA StepSetAutocommitDone ==
    ASSUME TypeInv, CursorInv, SetAutocommitDone
    PROVE  CursorInv'
  <1> DEFINE k == calls[Dbc]
             d == StatusCopied(Dbc)
             c == conn'
  <1>1. /\ k.pc = "autocommit" /\ wire[Dbc] = << >> /\ be' = be /\ wire' = wire
        /\ conn' = [d EXCEPT !.autocommit = ~@]
        /\ calls' = [calls EXCEPT ![Dbc] = Idle]
    BY DEF SetAutocommitDone, Answered
  <1>2. k.pc # PcIdle /\ Dbc \in Threads
    BY <1>1 DEF PcIdle, Threads
  <1>3. /\ Coherent(conn, be) /\ conn \in Conn /\ be.st \in Stats
        /\ StatusCopied(Dbc) = UpdateTransactionStatus(conn, be.st)
    BY <1>2, Alone
  <1>4. Clear(conn) /\ Over(be)
    <2>1. Clear(conn) /\ AtCommit(wire[Dbc], conn, be)
      BY <1>1, <1>2, AtDbc
    <2> QED BY <1>1, <2>1 DEF AtCommit, Ends
  <1>5. d \in Conn /\ Coherent(d, be) /\ Aware(d, be) /\ Clear(d)
    BY <1>3, <1>4, CopiedFlags
  <1> HIDE DEF d
  <1>6. /\ c.inTrans = d.inTrans /\ c.manual = d.manual
        /\ c.inError = d.inError /\ c.svp = d.svp /\ c.up = d.up
        /\ c.accessed = d.accessed /\ c.rbpoint = d.rbpoint
    BY <1>1, <1>5 DEF Conn
  <1> HIDE DEF c
  <1>7. Coherent(c, be) /\ Restful(c, be)
    BY <1>4, <1>5, <1>6 DEF Coherent, Restful, Aware, Served, Clear, Over, InBlock
  <1> QED BY <1>1, <1>2, <1>7, Return DEF c


-----------------------------------------------------------------------------
(* The server answers.                                                     *)

\* An answer, with what it does to the call and the flags.
LEMMA Answers ==
    ASSUME TypeInv, CursorInv, NEW t \in Threads, Reply(t)
    PROVE  /\ calls[t].pc # PcIdle /\ wire[t] # << >> /\ be.st # "X"
           /\ \E o \in Outcomes(be, Head(wire[t])) :
                /\ be' = o.be
                /\ LET k == calls[t]
                       K == calls'[t]
                   IN  /\ K.pc = k.pc /\ Asks(K, k) /\ K.err = k.err /\ K.wasIn = k.wasIn
                       /\ o.tag = "ERROR" => K.fail /\ wire'[t] = << >> /\ conn' = HandleError(conn)
                       /\ o.tag # "ERROR" =>
                            /\ K.fail = k.fail /\ wire'[t] = Tail(wire[t])
                            /\ conn' = IF Queried(t) THEN HandleTag(conn, o.tag) ELSE conn
                /\ \A u \in Threads \ {t} : calls'[u] = calls[u] /\ wire'[u] = wire[u]
  <1>1. wire[t] # << >> /\ be.st # "X" /\ TypeOK
    BY DEF Reply, TypeInv
  <1>2. calls[t].pc # PcIdle
    BY <1>1 DEF CursorInv, Course
  <1>3. PICK o \in Outcomes(be, Head(wire[t])) :
         /\ be' = o.be
         /\ IF o.tag = "ERROR"
            THEN /\ wire' = [wire EXCEPT ![t] = << >>]
                 /\ calls' = [calls EXCEPT ![t].fail = TRUE]
                 /\ conn' = HandleError(conn)
            ELSE /\ wire' = [wire EXCEPT ![t] = Tail(@)]
                 /\ conn' = IF Queried(t) THEN HandleTag(conn, o.tag) ELSE conn
                 /\ UNCHANGED calls
    BY DEF Reply
  <1>4. CASE o.tag = "ERROR"
    <2>1. /\ wire' = [wire EXCEPT ![t] = << >>] /\ conn' = HandleError(conn)
          /\ calls' = [calls EXCEPT ![t].fail = TRUE]
      BY <1>3, <1>4
    <2>2. /\ calls'[t].pc = calls[t].pc /\ Asks(calls'[t], calls[t])
          /\ calls'[t].err = calls[t].err /\ calls'[t].fail /\ calls'[t].wasIn = calls[t].wasIn
          /\ \A u \in Threads \ {t} : calls'[u] = calls[u]
      BY <1>1, <2>1 DEF TypeOK, CallRec, Asks
    <2>3. wire'[t] = << >> /\ \A u \in Threads \ {t} : wire'[u] = wire[u]
      BY <1>1, <2>1 DEF TypeOK
    <2> QED BY <1>1, <1>2, <1>3, <1>4, <2>1, <2>2, <2>3
  <1>5. CASE o.tag # "ERROR"
    <2>1. /\ wire' = [wire EXCEPT ![t] = Tail(@)] /\ calls' = calls
          /\ conn' = IF Queried(t) THEN HandleTag(conn, o.tag) ELSE conn
      BY <1>3, <1>5
    <2>2. wire'[t] = Tail(wire[t]) /\ \A u \in Threads \ {t} : wire'[u] = wire[u]
      BY <1>1, <2>1 DEF TypeOK
    <2> QED BY <1>1, <1>2, <1>3, <1>5, <2>1, <2>2 DEF Asks
  <1> QED BY <1>4, <1>5

\* The answer to a COMMIT or ROLLBACK: the transaction is over.
LEMMA EndReply ==
    ASSUME TypeInv, CursorInv, NEW t \in Threads, Reply(t), NEW cmd, wire[t] = <<cmd>>,
           cmd.c \in {"COMMIT", "ROLLBACK"}, conn.inTrans, calls[t].pc \notin {"undo", "main"}
    PROVE  /\ Coherent(conn', be') /\ be'.st = "I" /\ wire'[t] = << >>
           /\ conn'.inTrans /\ (Clear(conn) => Clear(conn'))
           /\ cmd.c = "COMMIT" /\ be.st = "T" /\ ~calls'[t].fail =>
                \A i \in DOMAIN be.work : be.work[i] \in be'.durable
  <1> DEFINE c == conn'
             y == be'
  <1>1. /\ Coherent(conn, be) /\ conn \in Conn /\ be \in Session /\ be.st # "X"
    BY Answers, Alone
  <1>2. Head(wire[t]) = cmd /\ Tail(wire[t]) = << >>
    BY HeadTail
  <1>3. PICK o \in Outcomes(be, Head(wire[t])) :
          /\ y = o.be
          /\ o.tag = "ERROR" => calls'[t].fail /\ wire'[t] = << >> /\ c = HandleError(conn)
          /\ o.tag # "ERROR" => /\ wire'[t] = Tail(wire[t])
                                /\ c = IF Queried(t) THEN HandleTag(conn, o.tag) ELSE conn
    BY Answers
  <1>4. /\ y.st = "I" /\ o.tag \in {"COMMIT", "ROLLBACK", "ERROR"}
        /\ cmd.c = "COMMIT" /\ be.st = "T" /\ o.tag # "ERROR" =>
             \A i \in DOMAIN be.work : be.work[i] \in y.durable
    BY <1>1, <1>2, <1>3, EndOutcome
  <1>5. Queried(t)
    BY DEF Queried
  <1> HIDE DEF c, y
  <1>6. /\ c.up = conn.up /\ c.inTrans = conn.inTrans /\ c.accessed = conn.accessed
        /\ c.rbpoint = conn.rbpoint
    <2>1. CASE o.tag = "ERROR"
      <3>1. c = HandleError(conn)
        BY <1>3, <2>1
      <3> QED BY <1>1, <3>1, ErrorFlags DEF SameTrans
    <2>2. CASE o.tag \in {"COMMIT", "ROLLBACK"}
      <3>1. c = HandleTag(conn, o.tag)
        BY <1>3, <1>5, <2>2
      <3> QED BY <1>1, <2>2, <3>1, TagFlags
    <2> QED BY <1>4, <2>1, <2>2
  <1>7. Coherent(c, y)
    BY <1>1, <1>4, <1>6 DEF Coherent, InBlock
  <1>8. wire'[t] = << >>
    BY <1>2, <1>3
  <1> QED BY <1>3, <1>4, <1>6, <1>7, <1>8 DEF Clear, c, y

\* The answer to a BEGIN that begins a transaction.
LEMMA BeginReply ==
    ASSUME NEW c \in Conn, NEW x \in Session, Coherent(c, x), Aware(c, x), x.st = "I",
           NEW cmd, cmd.c = "BEGIN", NEW o \in Outcomes(x, cmd)
    PROVE  LET d == HandleTag(c, o.tag)
           IN  /\ o.tag = "BEGIN" /\ o.be.st = "T" /\ Coherent(d, o.be) /\ Aware(d, o.be)
               /\ d.accessed = c.accessed /\ d.rbpoint = c.rbpoint
               /\ DoesAutocommit(d) = DoesAutocommit(c)
  <1> DEFINE d == HandleTag(c, o.tag)
  <1>1. o.tag = "BEGIN" /\ o.be.st = "T"
    BY BodyOutcome
  <1>2. /\ d.autocommit = c.autocommit /\ d.up = c.up /\ d.accessed = c.accessed
        /\ d.manual = c.manual /\ d.inTrans /\ d.inError = c.inError
        /\ d.rbpoint = c.rbpoint /\ d.svp = c.svp
    BY <1>1, TagFlags
  <1> HIDE DEF d
  <1>3. ~c.inTrans /\ ~c.inError /\ ~c.svp /\ c.up
    BY DEF Coherent, Aware, InBlock
  <1> QED BY <1>1, <1>2, <1>3 DEF Coherent, Aware, InBlock, DoesAutocommit, d

\* The answers to the commands that make the internal savepoint.
LEMMA ProtectReply ==
    ASSUME NEW c \in Conn, NEW x \in Session, Coherent(c, x), Aware(c, x), Served(c), x.st = "T",
           NEW cmd,
           \/ cmd = SvpCmd("RELEASE", Internal) /\ c.svp
           \/ cmd = SvpCmd("SAVEPOINT", Internal),
           NEW o \in Outcomes(x, cmd)
    PROVE  LET d == HandleTag(c, o.tag)
           IN  /\ o.tag # "ERROR" /\ o.be.st = "T" /\ Coherent(d, o.be) /\ Aware(d, o.be)
               /\ Served(d) /\ d.accessed = c.accessed
  <1> DEFINE d == HandleTag(c, o.tag)
  <1>1. c.inTrans /\ c.up
    BY DEF Coherent, Aware, InBlock
  <1>2. CASE cmd = SvpCmd("RELEASE", Internal) /\ c.svp
    <2>1. Marked(x)
      BY <1>2 DEF Coherent, InBlock
    <2>2. o.tag = "RELEASE" /\ o.be.st = "T"
      BY <1>2, <2>1, ReleaseMarked
    <2>3. /\ d.autocommit = c.autocommit /\ d.up = c.up /\ d.accessed = c.accessed
          /\ d.cursors = c.cursors /\ d.manual = c.manual /\ d.inTrans = c.inTrans
          /\ d.inError = c.inError /\ ~d.svp
      BY <2>2, TagFlags
    <2> HIDE DEF d
    <2> QED BY <1>1, <2>2, <2>3 DEF Coherent, Aware, Served, InBlock, DoesAutocommit, d
  <1>3. CASE cmd = SvpCmd("SAVEPOINT", Internal)
    <2>1. o.tag = "SAVEPOINT" /\ o.be.st = "T" /\ Marked(o.be)
      BY <1>3, SavepointMarks
    <2>2. /\ d.autocommit = c.autocommit /\ d.up = c.up /\ d.accessed = c.accessed
          /\ d.cursors = c.cursors /\ d.manual = c.manual /\ d.inTrans = c.inTrans
          /\ d.inError = c.inError
      BY <2>1, TagFlags
    <2> HIDE DEF d
    <2> QED BY <1>1, <2>1, <2>2 DEF Coherent, Aware, Served, InBlock, DoesAutocommit, d
  <1> QED BY <1>2, <1>3

\* The answer to the BEGIN of the extended protocol,
LEMMA ReplyBegin ==
    ASSUME TypeInv, CursorInv, NEW s \in Stmts, Reply(s), calls[s].pc = "begin"
    PROVE  Coherent(conn', be') /\ InBegin(calls'[s], wire'[s], conn', be')
  <1> DEFINE k == calls[s]
             K == calls'[s]
             c == conn'
             y == be'
  <1>1. s \in Threads /\ wire[s] # << >> /\ k.pc # PcIdle /\ be.st # "X"
    BY Answers DEF Threads
  <1>2. Place(k, wire[s], conn, be) /\ Coherent(conn, be) /\ conn \in Conn /\ be \in Session
    BY <1>1, At
  <1>3. InBegin(k, wire[s], conn, be) /\ wire[s] = <<Cmd("BEGIN")>> /\ be.st = "I"
    BY <1>1, <1>2, PlaceAt DEF InBegin
  <1>4. Head(wire[s]) = Cmd("BEGIN") /\ Tail(wire[s]) = << >> /\ Cmd("BEGIN").c = "BEGIN"
    BY <1>3, HeadTail DEF Cmd
  <1>5. PICK o \in Outcomes(be, Head(wire[s])) :
          /\ y = o.be /\ Asks(K, k) /\ K.err = k.err
          /\ o.tag # "ERROR" => /\ wire'[s] = Tail(wire[s])
                                /\ c = IF Queried(s) THEN HandleTag(conn, o.tag) ELSE conn
    BY <1>1, Answers
  <1> DEFINE d == HandleTag(conn, o.tag)
  <1>6. /\ o.tag = "BEGIN" /\ y.st = "T" /\ Coherent(d, y) /\ Aware(d, y)
        /\ d.accessed = conn.accessed /\ d.rbpoint = conn.rbpoint
        /\ DoesAutocommit(d) = DoesAutocommit(conn)
    BY <1>2, <1>3, <1>4, <1>5, BeginReply DEF InBegin
  <1>7. c = d /\ wire'[s] = << >>
    BY <1>4, <1>5, <1>6 DEF Queried
  <1> HIDE DEF K, c, y, d
  <1> QED BY <1>3, <1>5, <1>6, <1>7 DEF InBegin, Asks, Clear, K, c, y

\* to the savepoint before a statement,
LEMMA ReplySvp ==
    ASSUME TypeInv, CursorInv, NEW s \in Stmts, Reply(s), calls[s].pc = "svp"
    PROVE  Coherent(conn', be') /\ InSvp(calls'[s], wire'[s], conn', be')
  <1> DEFINE k == calls[s]
             K == calls'[s]
             c == conn'
             y == be'
             a == SvpCmd("RELEASE", Internal)
             b == SvpCmd("SAVEPOINT", Internal)
  <1>1. s \in Threads /\ wire[s] # << >> /\ k.pc # PcIdle /\ be.st # "X"
    BY Answers DEF Threads
  <1>2. Place(k, wire[s], conn, be) /\ Coherent(conn, be) /\ conn \in Conn /\ be \in Session
    BY <1>1, At
  <1>3. /\ ~k.err /\ Aware(conn, be) /\ Served(conn) /\ ~k.fail /\ be.st = "T"
        /\ SavepointSent(wire[s], conn)
    BY <1>1, <1>2, PlaceAt DEF InSvp
  <1>4. PICK o \in Outcomes(be, Head(wire[s])) :
          /\ y = o.be /\ Asks(K, k) /\ K.err = k.err
          /\ o.tag # "ERROR" => /\ K.fail = k.fail /\ wire'[s] = Tail(wire[s])
                                /\ c = IF Queried(s) THEN HandleTag(conn, o.tag) ELSE conn
    BY <1>1, Answers
  <1>5. \/ wire[s] = <<a, b>> /\ conn.svp /\ Head(wire[s]) = a /\ Tail(wire[s]) = <<b>>
        \/ wire[s] = <<b>> /\ Head(wire[s]) = b /\ Tail(wire[s]) = << >>
    <2>1. (wire[s] = <<a, b>> /\ conn.svp) \/ wire[s] = <<b>>
      BY <1>3 DEF SavepointSent
    <2> HIDE DEF a, b
    <2>2. /\ Head(<<a, b>>) = a /\ Tail(<<a, b>>) = <<b>>
          /\ Head(<<b>>) = b /\ Tail(<<b>>) = << >>
      BY HeadTail
    <2> QED BY <2>1, <2>2
  <1>6. /\ o.tag # "ERROR" /\ y.st = "T" /\ Coherent(HandleTag(conn, o.tag), y)
        /\ Aware(HandleTag(conn, o.tag), y) /\ Served(HandleTag(conn, o.tag))
    BY <1>2, <1>3, <1>4, <1>5, ProtectReply
  <1>7. c = HandleTag(conn, o.tag) /\ wire'[s] \in {<<b>>, << >>}
    BY <1>4, <1>5, <1>6 DEF Queried
  <1> HIDE DEF K, c, y, a
  <1> QED BY <1>3, <1>4, <1>6, <1>7 DEF InSvp, SavepointSent, K, c, y

\* to ROLLBACK TO it,
LEMMA ReplyUndo ==
    ASSUME TypeInv, CursorInv, NEW s \in Stmts, Reply(s), calls[s].pc = "undo"
    PROVE  Coherent(conn', be') /\ InUndo(calls'[s], wire'[s], conn', be')
  <1> DEFINE k == calls[s]
             K == calls'[s]
             c == conn'
             y == be'
  <1>1. s \in Threads /\ wire[s] # << >> /\ k.pc # PcIdle /\ be.st # "X"
    BY Answers DEF Threads
  <1>2. Place(k, wire[s], conn, be) /\ Coherent(conn, be) /\ conn \in Conn /\ be \in Session
    BY <1>1, At
  <1>3. /\ k.err /\ wire[s] = UndoCmds /\ Aware(conn, be) /\ be.st = "E" /\ conn.svp /\ Served(conn)
    BY <1>1, <1>2, PlaceAt DEF InUndo
  <1>4. Head(wire[s]) = SvpCmd("ROLLBACK TO", Internal) /\ Tail(wire[s]) = << >>
    BY <1>3, HeadTail DEF UndoCmds
  <1>5. PICK o \in Outcomes(be, Head(wire[s])) :
          /\ y = o.be /\ K.err = k.err
          /\ o.tag # "ERROR" => /\ wire'[s] = Tail(wire[s])
                                /\ c = IF Queried(s) THEN HandleTag(conn, o.tag) ELSE conn
    BY <1>1, Answers
  <1>6. o.tag = "ROLLBACK" /\ y.st = "T" /\ Marked(y)
    <2>1. Marked(be)
      BY <1>2, <1>3 DEF Coherent, InBlock
    <2> QED BY <1>2, <1>3, <1>4, <1>5, <2>1, UndoMarked
  <1>7. c = conn /\ wire'[s] = << >>
    BY <1>4, <1>5, <1>6 DEF Queried
  <1> HIDE DEF K, c, y
  <1>8. conn.inTrans
    BY <1>3 DEF Aware, InBlock
  <1>9. Coherent(c, y) /\ GoesOn(c, y)
    BY <1>1, <1>2, <1>3, <1>6, <1>7, <1>8 DEF Coherent, GoesOn
  <1> QED BY <1>3, <1>5, <1>7, <1>9 DEF InUndo, K, c, y


\* to a BEGIN before a statement,
LEMMA ReplyMainBegin ==
    ASSUME TypeInv, CursorInv, NEW s \in Stmts, Reply(s), calls[s].pc = "main",
           ~calls[s].err, ~calls[s].fail, calls[s].prot = "simple", Aware(conn, be),
           MainBegin(calls[s], wire[s], conn, be)
    PROVE  Coherent(conn', be') /\ InMain(calls'[s], wire'[s], conn', be')
  <1> DEFINE k == calls[s]
             K == calls'[s]
             c == conn'
             y == be'
             b == Cmd("BEGIN")
  <1>1. s \in Threads /\ k.pc # PcIdle /\ b.c = "BEGIN"
    BY DEF Threads, PcIdle, Cmd
  <1>2. Coherent(conn, be) /\ conn \in Conn /\ be \in Session
    BY <1>1, At
  <1>3. /\ wire[s] = <<b, k.cmd>> /\ be.st = "I" /\ conn.accessed /\ ~conn.rbpoint
        /\ DoesAutocommit(conn) => k.kind = "declare"
    BY DEF MainBegin
  <1> HIDE DEF b
  <1>4. Head(wire[s]) = b /\ Tail(wire[s]) = <<k.cmd>>
    BY <1>3, HeadTail
  <1>5. PICK o \in Outcomes(be, Head(wire[s])) :
          /\ y = o.be /\ Asks(K, k) /\ K.err = k.err
          /\ o.tag # "ERROR" => /\ K.fail = k.fail /\ wire'[s] = Tail(wire[s])
                                /\ c = IF Queried(s) THEN HandleTag(conn, o.tag) ELSE conn
    BY <1>1, Answers
  <1> DEFINE d == HandleTag(conn, o.tag)
  <1>6. /\ o.tag = "BEGIN" /\ y.st = "T" /\ Coherent(d, y) /\ Aware(d, y)
        /\ d.accessed = conn.accessed /\ d.rbpoint = conn.rbpoint
        /\ DoesAutocommit(d) = DoesAutocommit(conn)
    <2>1. o \in Outcomes(be, b) /\ y = o.be
      BY <1>4, <1>5
    <2>2. /\ o.tag = "BEGIN" /\ o.be.st = "T" /\ Coherent(d, o.be) /\ Aware(d, o.be)
          /\ d.accessed = conn.accessed /\ d.rbpoint = conn.rbpoint
          /\ DoesAutocommit(d) = DoesAutocommit(conn)
      BY <1>1, <1>2, <1>3, <2>1, BeginReply
    <2> QED BY <2>1, <2>2
  <1>7. c = d /\ wire'[s] = <<k.cmd>>
    <2>1. Queried(s)
      BY DEF Queried
    <2> QED BY <1>4, <1>5, <1>6, <2>1
  <1> HIDE DEF K, c, y, d
  <1>8. MainCmd(K, wire'[s], c, y)
    BY <1>3, <1>5, <1>6, <1>7 DEF MainCmd, Served, Asks
  <1>9. ~K.err /\ ~K.fail
    BY <1>5, <1>6
  <1> QED BY <1>6, <1>7, <1>8, <1>9 DEF InMain, K, c, y

\* to a savepoint before a statement,
LEMMA ReplyMainSvp ==
    ASSUME TypeInv, CursorInv, NEW s \in Stmts, Reply(s), calls[s].pc = "main",
           ~calls[s].err, ~calls[s].fail, calls[s].prot = "simple", Aware(conn, be),
           MainSvp(calls[s], wire[s], conn, be)
    PROVE  Coherent(conn', be') /\ InMain(calls'[s], wire'[s], conn', be')
  <1> DEFINE k == calls[s]
             K == calls'[s]
             c == conn'
             y == be'
             a == SvpCmd("RELEASE", Internal)
             b == SvpCmd("SAVEPOINT", Internal)
  <1>1. s \in Threads /\ k.pc # PcIdle
    BY DEF Threads, PcIdle
  <1>2. Coherent(conn, be) /\ conn \in Conn /\ be \in Session
    BY <1>1, At
  <1>3. /\ be.st = "T" /\ conn.accessed /\ Served(conn)
        /\ (wire[s] = <<a, b, k.cmd>> /\ conn.svp) \/ wire[s] = <<b, k.cmd>>
    BY DEF MainSvp
  <1>4. PICK o \in Outcomes(be, Head(wire[s])) :
          /\ y = o.be /\ Asks(K, k) /\ K.err = k.err
          /\ o.tag # "ERROR" => /\ K.fail = k.fail /\ wire'[s] = Tail(wire[s])
                                /\ c = IF Queried(s) THEN HandleTag(conn, o.tag) ELSE conn
    BY <1>1, Answers
  <1>5. \/ conn.svp /\ Head(wire[s]) = a /\ Tail(wire[s]) = <<b, k.cmd>>
        \/ Head(wire[s]) = b /\ Tail(wire[s]) = <<k.cmd>>
    <2> HIDE DEF a, b
    <2>2. /\ Head(<<a, b, k.cmd>>) = a /\ Tail(<<a, b, k.cmd>>) = <<b, k.cmd>>
          /\ Head(<<b, k.cmd>>) = b /\ Tail(<<b, k.cmd>>) = <<k.cmd>>
      BY HeadTail
    <2> QED BY <1>3, <2>2
  <1> DEFINE d == HandleTag(conn, o.tag)
  <1>6. /\ o.tag # "ERROR" /\ y.st = "T" /\ Coherent(d, y) /\ Aware(d, y) /\ Served(d)
        /\ d.accessed = conn.accessed
    <2>1. y = o.be
      BY <1>4
    <2>2. \/ conn.svp /\ o \in Outcomes(be, a)
          \/ o \in Outcomes(be, b)
      BY <1>4, <1>5
    <2>3. /\ o.tag # "ERROR" /\ o.be.st = "T" /\ Coherent(d, o.be) /\ Aware(d, o.be)
          /\ Served(d) /\ d.accessed = conn.accessed
      BY <1>2, <1>3, <2>2, ProtectReply
    <2> QED BY <2>1, <2>3
  <1>7. c = d /\ wire'[s] \in {<<b, k.cmd>>, <<k.cmd>>}
    <2>1. Queried(s)
      BY DEF Queried
    <2> QED BY <1>4, <1>5, <1>6, <2>1
  <1> HIDE DEF K, c, y, d
  <1>8. MainSvp(K, wire'[s], c, y) \/ MainCmd(K, wire'[s], c, y)
    BY <1>3, <1>4, <1>6, <1>7 DEF MainSvp, MainCmd, Asks, b
  <1>9. ~K.err /\ ~K.fail /\ K.prot = "simple"
    BY <1>4, <1>6 DEF Asks
  <1> QED BY <1>6, <1>7, <1>8, <1>9 DEF InMain, K, c, y

\* The flags and the session after the command of a statement.
LEMMA CommandReply ==
    ASSUME NEW c \in Conn, NEW x \in Session, Coherent(c, x), Aware(c, x), x.st \in {"I", "T"},
           NEW cmd, cmd.c \in {"WRITE", "READ", "BEGIN"}, NEW o \in Outcomes(x, cmd), NEW q,
           q \in BOOLEAN, cmd.c = "BEGIN" => q
    PROVE  LET d == IF o.tag = "ERROR" THEN HandleError(c)
                    ELSE IF q THEN HandleTag(c, o.tag) ELSE c
           IN  /\ Coherent(d, o.be) /\ Aware(d, o.be)
               /\ d.accessed = c.accessed /\ d.rbpoint = c.rbpoint
               /\ x.st = "T" \/ o.be.st = "I" => (Served(c) => Served(d))
               /\ o.tag = "ERROR" => o.be.st = IF x.st = "I" THEN "I" ELSE "E"
               /\ o.tag # "ERROR" => o.be.st = IF cmd.c = "BEGIN" THEN "T" ELSE x.st
  <1> DEFINE d == IF o.tag = "ERROR" THEN HandleError(c)
                  ELSE IF q THEN HandleTag(c, o.tag) ELSE c
  <1>1. o.be.svps = x.svps
    BY BodyOutcome
  <1>2. CASE cmd.c # "BEGIN" /\ o.tag = "ERROR" /\ o.be.st = IF x.st = "I" THEN "I" ELSE "E"
    <2>1. /\ d.inTrans = c.inTrans /\ d.inError = (c.inTrans \/ c.inError)
          /\ d.autocommit = c.autocommit /\ d.up = c.up /\ d.manual = c.manual
          /\ d.svp = c.svp /\ d.accessed = c.accessed
          /\ d.rbpoint = c.rbpoint /\ d.cursors = c.cursors
      BY <1>2, ErrorFlags DEF SameTrans
    <2> HIDE DEF d
    <2>2. Marked(o.be) = Marked(x)
      BY <1>1 DEF Marked, Places
    <2> QED BY <1>2, <2>1, <2>2 DEF Coherent, Aware, Served, InBlock, DoesAutocommit, d
  <1>3. CASE cmd.c # "BEGIN" /\ o.tag = cmd.c /\ o.be.st = x.st
    <2>1. d = c
      BY <1>3, TagFlags
    <2>2. Marked(o.be) = Marked(x)
      BY <1>1 DEF Marked, Places
    <2> HIDE DEF d
    <2> QED BY <1>3, <2>1, <2>2 DEF Coherent, Aware, Served, InBlock, d
  <1>4. CASE cmd.c = "BEGIN" /\ o.tag = "BEGIN" /\ o.be.st = "T"
    <2>1. /\ d.autocommit = c.autocommit /\ d.up = c.up /\ d.accessed = c.accessed
          /\ d.cursors = c.cursors /\ d.manual = c.manual /\ d.inTrans
          /\ d.inError = c.inError /\ d.rbpoint = c.rbpoint /\ d.svp = c.svp
      BY <1>4, TagFlags
    <2>2. Marked(o.be) = Marked(x)
      BY <1>1 DEF Marked, Places
    <2> HIDE DEF d
    <2> QED BY <1>4, <2>1, <2>2 DEF Coherent, Aware, Served, InBlock, DoesAutocommit, d
  <1> QED BY <1>2, <1>3, <1>4, BodyOutcome

\* and to the statement.
LEMMA ReplyCommand ==
    ASSUME TypeInv, CursorInv, NEW s \in Stmts, Reply(s), calls[s].pc = "main",
           ~calls[s].err, ~calls[s].fail, Aware(conn, be),
           MainCmd(calls[s], wire[s], conn, be)
    PROVE  Coherent(conn', be') /\ InMain(calls'[s], wire'[s], conn', be')
  <1> DEFINE k == calls[s]
             K == calls'[s]
             c == conn'
             y == be'
  <1>1. s \in Threads /\ k.pc # PcIdle
    BY DEF Threads, PcIdle
  <1>2. /\ Coherent(conn, be) /\ conn \in Conn /\ be \in Session /\ k \in CallRec
        /\ Body(k) \/ k.kind = "close"
        /\ k.kind = "close" => k.pc \in {"close", "sync"}
    BY <1>1, At
  <1>3. /\ wire[s] = <<k.cmd>> /\ (be.st = "T" => conn.accessed)
        /\ be.st = "I" /\ k.kind = "begin" => ~k.wasIn
        /\ be.st = "T" \/ (be.st = "I" /\ k.kind # "declare")
        /\ Served(conn) \/ (k.kind = "declare" /\ ~conn.rbpoint)
    BY DEF MainCmd
  <1>4. Head(wire[s]) = k.cmd /\ Tail(wire[s]) = << >>
    BY <1>3, HeadTail
  <1>5. PICK o \in Outcomes(be, Head(wire[s])) :
          /\ y = o.be /\ Asks(K, k) /\ K.err = k.err /\ K.wasIn = k.wasIn
          /\ o.tag = "ERROR" => K.fail /\ wire'[s] = << >> /\ c = HandleError(conn)
          /\ o.tag # "ERROR" => /\ K.fail = k.fail /\ wire'[s] = Tail(wire[s])
                                /\ c = IF Queried(s) THEN HandleTag(conn, o.tag) ELSE conn
    BY <1>1, Answers
  <1>6. /\ k.cmd.c \in {"WRITE", "READ", "BEGIN"} /\ (k.cmd.c = "BEGIN" <=> k.kind = "begin")
        /\ k.cmd.c = "BEGIN" => Queried(s)
    BY <1>2 DEF Body, Queried, CursorKinds
  <1>7. /\ Coherent(c, y) /\ Aware(c, y)
        /\ c.accessed = conn.accessed /\ c.rbpoint = conn.rbpoint
        /\ be.st = "T" \/ y.st = "I" => (Served(conn) => Served(c))
        /\ o.tag = "ERROR" => y.st = IF be.st = "I" THEN "I" ELSE "E"
        /\ o.tag # "ERROR" => y.st = IF k.cmd.c = "BEGIN" THEN "T" ELSE be.st
    <2> DEFINE d == IF o.tag = "ERROR" THEN HandleError(conn)
                    ELSE IF Queried(s) THEN HandleTag(conn, o.tag) ELSE conn
    <2>1. Queried(s) \in BOOLEAN
      BY DEF Queried
    <2>2. /\ Coherent(d, o.be) /\ Aware(d, o.be)
          /\ d.accessed = conn.accessed /\ d.rbpoint = conn.rbpoint
          /\ be.st = "T" \/ o.be.st = "I" => (Served(conn) => Served(d))
          /\ o.tag = "ERROR" => o.be.st = IF be.st = "I" THEN "I" ELSE "E"
          /\ o.tag # "ERROR" => o.be.st = IF k.cmd.c = "BEGIN" THEN "T" ELSE be.st
      BY <1>2, <1>3, <1>4, <1>5, <1>6, <2>1, CommandReply
    <2>3. c = d
      BY <1>5
    <2> HIDE DEF c, d
    <2> QED BY <1>5, <2>2, <2>3
  <1>8. wire'[s] = << >>
    BY <1>4, <1>5
  <1> HIDE DEF K, c, y
  <1>9. CASE o.tag = "ERROR"
    <2>1. Blamed(c, y)
      BY <1>3, <1>7, <1>9 DEF Blamed
    <2>2. K.fail /\ ~K.err
      BY <1>5, <1>9
    <2> QED BY <1>7, <1>8, <2>1, <2>2 DEF InMain, K, c, y
  <1>10. CASE o.tag # "ERROR"
    <2>1. ~K.fail /\ ~K.err /\ K.kind = k.kind /\ K.wasIn = k.wasIn
      BY <1>5, <1>10 DEF Asks
    <2>2. Dues(K, c)
      BY <1>3, <1>6, <1>7, <1>10, <2>1 DEF Dues
    <2>3. y.st = "T" \/ (y.st = "I" /\ K.kind # "declare")
      BY <1>3, <1>7, <1>10, <2>1
    <2> QED BY <1>7, <1>8, <2>1, <2>2, <2>3 DEF InMain, MainAnswered, K, c, y
  <1> QED BY <1>9, <1>10

\* The answers to the CLOSE of a cursor.
LEMMA ReplyClose ==
    ASSUME TypeInv, CursorInv, NEW s \in Stmts, Reply(s), calls[s].pc = "close"
    PROVE  Coherent(conn', be') /\ InClose(calls'[s], wire'[s], conn', be')
  <1> DEFINE k == calls[s]
             K == calls'[s]
             c == conn'
             y == be'
             a == Cmd("CLOSE")
             b == Cmd("COMMIT")
  <1>1. s \in Threads /\ wire[s] # << >> /\ k.pc # PcIdle /\ be.st # "X"
    BY Answers DEF Threads
  <1>2. /\ Place(k, wire[s], conn, be) /\ Coherent(conn, be) /\ conn \in Conn /\ be \in Session
        /\ be.st \in Stats
    BY <1>1, At
  <1>3. InClose(k, wire[s], conn, be)
    BY <1>2, PlaceAt
  <1>4. PICK o \in Outcomes(be, Head(wire[s])) :
          /\ y = o.be /\ Asks(K, k)
          /\ o.tag = "ERROR" => wire'[s] = << >> /\ c = HandleError(conn)
          /\ o.tag # "ERROR" => /\ wire'[s] = Tail(wire[s])
                                /\ c = IF Queried(s) THEN HandleTag(conn, o.tag) ELSE conn
    BY <1>1, Answers
  <1>5. /\ Head(<<a>>) = a /\ Tail(<<a>>) = << >>
        /\ Head(<<a, b>>) = a /\ Tail(<<a, b>>) = <<b>>
    BY HeadTail
  <1>6. K.kind = "close" /\ Clear(conn)
    BY <1>3, <1>4 DEF InClose, Asks
  <1>7. CASE wire[s] = <<a>> /\ Aware(conn, be) /\ be.st # "E" /\ Served(conn)
    <2>1. CASE be.st = "T"
      <3>1. o.tag = "CLOSE" /\ y = be
        BY <1>2, <1>4, <1>5, <1>7, <2>1, CloseOutcome
      <3>2. c = conn /\ wire'[s] = << >>
        BY <1>2, <1>4, <1>5, <1>7, <3>1, TagFlags
      <3>3. GoesOn(conn, be)
        BY <1>7, <2>1 DEF GoesOn, Aware, InBlock
      <3> HIDE DEF K, c, y
      <3> QED BY <1>2, <1>6, <3>1, <3>2, <3>3 DEF InClose, K, c, y
    <2>2. CASE be.st = "I"
      <3>1. o.tag = "ERROR" /\ y.st = "I"
        BY <1>2, <1>4, <1>5, <1>7, <2>2, CloseOutcome
      <3>2. c = HandleError(conn) /\ wire'[s] = << >>
        BY <1>4, <3>1
      <3>3. ~conn.inTrans /\ ~conn.inError
        BY <1>7, <2>2 DEF Aware, InBlock
      <3>4. c = conn
        BY <3>2, <3>3 DEF HandleError
      <3> HIDE DEF K, c, y
      <3>5. Coherent(c, y) /\ Over(y)
        BY <1>2, <2>2, <3>1, <3>4 DEF Coherent, Over, InBlock
      <3> QED BY <1>6, <3>2, <3>4, <3>5 DEF InClose, K, c, y
    <2> QED BY <1>1, <1>2, <1>7, <2>1, <2>2 DEF Stats
  <1>8. CASE wire[s] = <<a, b>> /\ be.st = "T" /\ conn.inTrans
    <2>1. o.tag = "CLOSE" /\ y = be
      BY <1>2, <1>4, <1>5, <1>8, CloseOutcome
    <2>2. c = conn /\ wire'[s] = <<b>>
      BY <1>2, <1>4, <1>5, <1>8, <2>1, TagFlags
    <2> HIDE DEF K, c, y
    <2> QED BY <1>2, <1>6, <1>8, <2>1, <2>2 DEF InClose, K, c, y
  <1>9. CASE wire[s] = <<b>> /\ conn.inTrans
    <2>1. b.c = "COMMIT"
      BY DEF Cmd
    <2> HIDE DEF b
    <2>2. Coherent(c, y) /\ y.st = "I" /\ wire'[s] = << >> /\ Clear(c)
      BY <1>1, <1>6, <1>9, <2>1, EndReply
    <2> HIDE DEF K, c, y
    <2> QED BY <1>6, <2>2 DEF InClose, Over, K, c, y
  <1> QED BY <1>1, <1>3, <1>7, <1>8, <1>9 DEF InClose


\* Reply to a call on a statement handle.
LEMMA StepReply ==
    ASSUME TypeInv, CursorInv, NEW s \in Stmts, Reply(s)
    PROVE  CursorInv'
  <1> DEFINE k == calls[s]
             K == calls'[s]
             c == conn'
             y == be'
             w == wire[s]
  <1>1. /\ s \in Threads /\ w # << >> /\ k.pc # PcIdle /\ K.pc = k.pc /\ Asks(K, k)
        /\ K.err = k.err
        /\ \A u \in Threads \ {s} : calls'[u] = calls[u] /\ wire'[u] = wire[u]
    BY Answers DEF Threads
  <1>2. /\ Place(k, w, conn, be) /\ k.pc \in StmtPcs
        /\ k.kind = "close" => k.pc \in {"close", "sync"}
    BY <1>1, At
  <1>3. k.pc \in {"precommit", "begin", "svp", "main", "commit", "undo", "abort", "close"}
    BY <1>1, <1>2, PlaceAt
       DEF StmtPcs, InRequest, InReady, InPost, InDiscard, InSync, InEnd
  <1>4. Coherent(c, y) /\ Place(K, wire'[s], c, y)
    <2>1. CASE k.pc \in {"precommit", "commit", "abort"}
      <3>1. /\ k.pc # "abort" => w = <<Cmd("COMMIT")>> /\ conn.inTrans
            /\ k.pc = "abort" => w = <<Cmd("ROLLBACK")>> /\ conn.inTrans
            /\ k.pc = "precommit" => ~k.err /\ Clear(conn)
        BY <1>1, <1>2, <2>1, PlaceAt DEF AtCommit, Ends
      <3>2. Cmd("COMMIT").c = "COMMIT" /\ Cmd("ROLLBACK").c = "ROLLBACK"
        BY DEF Cmd
      <3>3. Coherent(c, y) /\ y.st = "I" /\ wire'[s] = << >> /\ (Clear(conn) => Clear(c))
        BY <1>1, <2>1, <3>1, <3>2, EndReply
      <3> HIDE DEF K, c, y
      <3>4. AtCommit(wire'[s], c, y) /\ Ends(<<Cmd("ROLLBACK")>>, wire'[s], c, y)
        BY <3>3 DEF AtCommit, Ends, Over
      <3> QED BY <1>1, <2>1, <3>1, <3>3, <3>4, PlaceBy
    <2>2. CASE k.pc = "main"
      <3>1. InMain(k, w, conn, be)
        BY <1>2, <2>2, PlaceAt
      <3>2. /\ ~k.err /\ ~k.fail /\ Aware(conn, be)
            /\ \/ k.prot = "simple" /\ MainBegin(k, w, conn, be)
               \/ k.prot = "simple" /\ MainSvp(k, w, conn, be)
               \/ MainCmd(k, w, conn, be)
        BY <1>1, <3>1 DEF InMain, MainAnswered
      <3>3. Coherent(c, y) /\ InMain(K, wire'[s], c, y)
        BY <2>2, <3>2, ReplyMainBegin, ReplyMainSvp, ReplyCommand
      <3> HIDE DEF K, c, y
      <3> QED BY <1>1, <2>2, <3>3, PlaceBy
    <2>3. CASE k.pc \in {"begin", "svp", "undo", "close"}
      <3>1. /\ Coherent(c, y)
            /\ k.pc = "begin" => InBegin(K, wire'[s], c, y)
            /\ k.pc = "svp" => InSvp(K, wire'[s], c, y)
            /\ k.pc = "undo" => InUndo(K, wire'[s], c, y)
            /\ k.pc = "close" => InClose(K, wire'[s], c, y)
        BY <2>3, ReplyBegin, ReplySvp, ReplyUndo, ReplyClose
      <3> HIDE DEF K, c, y
      <3> QED BY <1>1, <2>3, <3>1, PlaceBy
    <2> QED BY <1>3, <2>1, <2>2, <2>3
  <1> HIDE DEF K, c, y
  <1> QED BY <1>1, <1>2, <1>4, Advance DEF K, c, y

\* and to one on the connection handle.
LEMMA StepReplyDbc ==
    ASSUME TypeInv, CursorInv, Reply(Dbc)
    PROVE  CursorInv'
  <1> DEFINE k == calls[Dbc]
             K == calls'[Dbc]
             c == conn'
             y == be'
             w == wire[Dbc]
  <1>1. Dbc \in Threads
    BY DEF Threads
  <1>2. /\ w # << >> /\ k.pc # PcIdle /\ K.pc = k.pc /\ Asks(K, k)
        /\ \A u \in Threads \ {Dbc} : calls'[u] = calls[u] /\ wire'[u] = wire[u]
    BY <1>1, Answers
  <1>3. /\ k.pc \in {"endtran", "autocommit"} /\ k.kind # "close"
        /\ k.pc = "endtran" => InEndTran(k, w, conn, be)
        /\ k.pc = "autocommit" =>
             k.kind = "autocommit" /\ Clear(conn) /\ AtCommit(w, conn, be)
        /\ \A u \in Threads \ {Dbc} : calls[u].pc = PcIdle /\ wire[u] = << >>
    <2>1. k.kind = "close" => k.pc \in {"close", "sync"}
      BY <1>1, <1>2, Alone DEF Course
    <2> QED BY <1>1, <1>2, <2>1, AtDbc, Alone
  <1>4. Cmd("COMMIT").c = "COMMIT" /\ Cmd("ROLLBACK").c = "ROLLBACK"
    BY DEF Cmd
  <1>5. /\ Coherent(c, y) /\ wire'[Dbc] = << >>
        /\ K.pc = "endtran" => InEndTran(K, wire'[Dbc], c, y)
        /\ K.pc = "autocommit" =>
             K.kind = "autocommit" /\ Clear(c) /\ AtCommit(wire'[Dbc], c, y)
    <2>1. CASE k.pc = "endtran"
      <3>1. /\ Clear(conn) /\ w = <<k.cmd>> /\ be = k.before /\ be.st = "T" /\ conn.inTrans
            /\ k.cmd = Cmd(IF k.kind = "commit" THEN "COMMIT" ELSE "ROLLBACK")
        BY <1>2, <1>3, <2>1 DEF InEndTran
      <3>2. k.cmd.c = IF k.kind = "commit" THEN "COMMIT" ELSE "ROLLBACK"
        BY <1>4, <3>1
      <3>3. /\ Coherent(c, y) /\ y.st = "I" /\ wire'[Dbc] = << >> /\ Clear(c)
            /\ k.cmd.c = "COMMIT" /\ ~K.fail => \A i \in DOMAIN be.work : be.work[i] \in y.durable
        BY <1>1, <2>1, <3>1, <3>2, EndReply
      <3> HIDE DEF K, c, y
      <3>4. InEndTran(K, << >>, c, y)
        BY <1>2, <3>1, <3>2, <3>3 DEF InEndTran, Over, Asks
      <3> QED BY <1>2, <2>1, <3>3, <3>4
    <2>2. CASE k.pc = "autocommit"
      <3>1. w = <<Cmd("COMMIT")>> /\ conn.inTrans /\ Clear(conn)
        BY <1>2, <1>3, <2>2 DEF AtCommit, Ends
      <3>2. Coherent(c, y) /\ y.st = "I" /\ wire'[Dbc] = << >> /\ Clear(c)
        BY <1>1, <1>4, <2>2, <3>1, EndReply
      <3> HIDE DEF K, c, y
      <3> QED BY <1>2, <1>3, <2>2, <3>2 DEF AtCommit, Ends, Over, Asks
    <2> QED BY <1>3, <2>1, <2>2
  <1> HIDE DEF K, c, y
  <1>6. Course(Dbc, K, wire'[Dbc], c, y) /\ K.pc # PcIdle
    BY <1>2, <1>3, <1>5 DEF Course, Place, Asks
  <1> QED BY <1>1, <1>2, <1>3, <1>5, <1>6, OneStep DEF K, c, y

-----------------------------------------------------------------------------
(* The connection breaks.                                                   *)

LEMMA StepLose ==
    ASSUME TypeInv, CursorInv, NEW t \in Threads, Lose(t)
    PROVE  CursorInv'
  <1> DEFINE k == calls[t]
             K == calls'[t]
             c == conn'
             y == be'
  <1>1. wire[t] # << >> /\ TypeOK
    BY DEF Lose, TypeInv
  <1>2. k.pc # PcIdle
    BY <1>1 DEF CursorInv, Course
  <1>3. /\ Course(t, k, wire[t], conn, be) /\ k \in CallRec /\ conn \in Conn /\ Coherent(conn, be)
        /\ \A u \in Threads \ {t} : calls[u].pc = PcIdle /\ wire[u] = << >>
    BY <1>2, Alone
  <1>4. PICK last \in {be} \cup {o.be : o \in Outcomes(be, Head(wire[t]))} : y = Gone(last)
    BY DEF Lose
  <1>5. y.st = "X"
    <2>1. \A q : [FreshSession(q) EXCEPT !.st = "X"].st = "X"
      BY DEF FreshSession
    <2> QED BY <1>4, <2>1 DEF Gone
  <1>6. /\ wire' = [x \in Threads |-> << >>] /\ c = OnDead(conn)
        /\ calls' = [x \in Threads |->
                   IF wire[x] = << >> THEN calls[x] ELSE [calls[x] EXCEPT !.fail = TRUE]]
    BY DEF Lose
  <1>7. /\ wire'[t] = << >> /\ K = [k EXCEPT !.fail = TRUE]
        /\ \A u \in Threads \ {t} : calls'[u] = calls[u] /\ wire'[u] = wire[u]
    BY <1>1, <1>3, <1>6
  <1>8. K.pc = k.pc /\ Asks(K, k) /\ K.err = k.err /\ K.fail
    BY <1>3, <1>7 DEF CallRec, Asks
  <1>9. /\ Coherent(c, y) /\ Aware(c, y) /\ Clear(c) /\ Served(c)
        /\ c.autocommit = conn.autocommit
    BY <1>3, <1>5, <1>6, DeadFlags
  <1> HIDE DEF K, c, y
  <1>10. Over(y) /\ AtCommit(<< >>, c, y) /\ Ends(<<Cmd("ROLLBACK")>>, << >>, c, y)
    BY <1>5 DEF Over, AtCommit, Ends
  <1>11. Place(k, wire[t], conn, be)
    BY <1>2, <1>3 DEF Course
  <1>12. /\ k.pc \in {"precommit", "begin", "svp", "main", "commit", "undo", "abort", "close",
                      "endtran", "autocommit"}
         /\ k.kind = "close" => k.pc \in {"close", "sync"}
    <2>1. k.pc \in StmtPcs \cup {"endtran", "autocommit"}
      BY <1>2, <1>3 DEF Course
    <2> QED BY <1>1, <1>2, <1>3, <1>11, <2>1, PlaceAt
       DEF StmtPcs, InRequest, InReady, InPost, InDiscard, InSync, InEnd, Course
  <1>13. Place(K, << >>, c, y)
    <2>1. CASE k.pc = "begin"
      <3>1. InBegin(k, wire[t], conn, be) /\ wire[t] = <<Cmd("BEGIN")>> /\ be.st = "I"
        BY <1>1, <1>11, <2>1, PlaceAt DEF InBegin
      <3>2. ~conn.manual
        BY <1>3, <3>1 DEF InBegin, Coherent, Aware, InBlock
      <3>3. InBegin(K, << >>, c, y)
        BY <1>5, <1>8, <1>9, <3>1, <3>2 DEF InBegin, Asks, DoesAutocommit
      <3> QED BY <1>8, <2>1, <3>3, PlaceBy
    <2>2. CASE k.pc \in {"precommit", "svp", "main", "undo", "close"}
      <3>1. /\ k.pc \in {"precommit", "svp", "main"} => ~k.err
            /\ k.pc = "undo" => k.err
            /\ k.pc = "close" => k.kind = "close"
        BY <1>11, <2>2, PlaceAt DEF InSvp, InMain, InUndo, InClose
      <3>2. /\ k.pc = "svp" => InSvp(K, << >>, c, y)
            /\ k.pc = "main" => InMain(K, << >>, c, y)
            /\ k.pc = "undo" => InUndo(K, << >>, c, y)
            /\ k.pc = "close" => InClose(K, << >>, c, y)
        BY <1>5, <1>8, <1>9, <1>10, <3>1 DEF InSvp, InMain, Blamed, InUndo, InClose, Asks
      <3> QED BY <1>8, <1>9, <1>10, <2>2, <3>1, <3>2, PlaceBy
    <2>3. CASE k.pc \in {"commit", "abort"}
      BY <1>8, <1>10, <2>3, PlaceBy
    <2>4. CASE k.pc \in {"endtran", "autocommit"}
      <3>1. InEndTran(K, << >>, c, y)
        BY <1>8, <1>9, <1>10 DEF InEndTran
      <3>2. k.pc = "autocommit" => K.kind = "autocommit"
        BY <1>8, <1>11, PlaceAt DEF Asks
      <3> QED BY <1>8, <1>9, <1>10, <2>4, <3>1, <3>2 DEF Place
    <2> QED BY <1>12, <2>1, <2>2, <2>3, <2>4
  <1>14. Course(t, K, wire'[t], c, y) /\ K.pc # PcIdle
    <2>1. /\ IF t = Dbc THEN K.pc \in {"endtran", "autocommit"}
                        ELSE K.pc \in StmtPcs /\ (Body(K) \/ K.kind = "close")
          /\ K.kind = "close" => K.pc \in {"close", "sync"}
      BY <1>2, <1>3, <1>8 DEF Course, Body, Asks
    <2> QED BY <1>2, <1>7, <1>8, <1>13, <2>1 DEF Course
  <1> QED BY <1>3, <1>7, <1>9, <1>14, OneStep DEF K, c, y

-----------------------------------------------------------------------------
\* The invariant holds initially,
LEMMA CursorInit == Init => CursorInv
  <1> SUFFICES ASSUME Init PROVE CursorInv
    OBVIOUS
  <1>1. /\ ~conn.inTrans /\ ~conn.manual /\ ~conn.inError /\ ~conn.accessed
        /\ ~conn.rbpoint /\ ~conn.svp /\ conn.up
    BY DEF Init
  <1>2. be.st = "I"
    BY DEF Init, FreshSession
  <1>3. \A t \in Threads : calls[t].pc = PcIdle /\ wire[t] = << >>
    BY DEF Init, Idle
  <1>4. Coherent(conn, be) /\ Restful(conn, be)
    BY <1>1, <1>2 DEF Coherent, Restful, Aware, Served, Clear, InBlock
  <1> QED BY <1>3, <1>4 DEF CursorInv, Course

\* and every step keeps it.
LEMMA CursorStep ==
    ASSUME OnCursors, TypeInv, CursorInv, [Next]_vars
    PROVE  CursorInv'
  <1>1. CASE UNCHANGED vars
    BY <1>1 DEF vars, CursorInv, AtRest
  <1>2. ASSUME NEW s \in Stmts, Progress(s) PROVE CursorInv'
    BY <1>2, StepDown, StepPreCommit, StepPreCommitDone, StepBeginFirst, StepBeginDone,
       StepDirectSavepoint, StepSavepointMade, StepSendMain, StepMainDone, StepPostCommit,
       StepPostCommitDone, StepPost, StepDiscard, StepUndo, StepUndoDone, StepDecideAbort,
       StepAbort, StepAbortDone, StepSync, StepEndCall, StepCloseDone
       DEF Progress
  <1>3. ASSUME NEW s \in Stmts, Call(s) \/ Close(s) \/ Reconnect(s) PROVE CursorInv'
    BY <1>3, StepCall, StepClose, StepReconnect
  <1>4. ASSUME NEW t \in Threads, Reply(t) \/ Lose(t) PROVE CursorInv'
    BY <1>4, StepReply, StepReplyDbc, StepLose DEF Threads
  <1>5. CASE \/ \E k \in {"commit", "rollback"} : EndTran(k)
             \/ SetAutocommit \/ DbcProgress
    BY <1>5, StepEndTran, StepEndTranDone, StepSetAutocommit, StepSetAutocommitDone
       DEF DbcProgress
  <1> QED BY <1>1, <1>2, <1>3, <1>4, <1>5 DEF Next

-----------------------------------------------------------------------------
(* What the invariant means to the application.                            *)

\* A step inside a statement's call is that of a call that runs, and of no other.
LEMMA Others ==
    ASSUME TypeOK, NEW s \in Stmts, Progress(s)
    PROVE  calls[s].pc # PcIdle /\ \A u \in Threads \ {s} : calls'[u] = calls[u]
  <1> DEFINE Own == calls[s].pc # PcIdle /\ \A u \in Threads \ {s} : calls'[u] = calls[u]
  <1>1. calls \in [Threads -> CallRec] /\ s \in Threads
    BY DEF TypeOK, Threads
  <1>2. ASSUME Down(s) \/ PreCommit(s) \/ PreCommitDone(s) \/ BeginFirst(s) \/ BeginDone(s)
        PROVE Own
    BY <1>1, <1>2
       DEF Down, PreCommit, PreCommitDone, BeginFirst, BeginDone, Answered, GoTo, Send, PcIdle
  <1>3. ASSUME DirectSavepoint(s) \/ SavepointMade(s) PROVE Own
    BY <1>1, <1>3 DEF DirectSavepoint, SavepointMade, Answered, GoTo, PcIdle
  <1>4. ASSUME SendMain(s) PROVE Own
    BY <1>1, <1>4 DEF SendMain, PcIdle
  <1>5. ASSUME MainDone(s) PROVE Own
    BY <1>1, <1>5 DEF MainDone, Answered, PcIdle
  <1>6. ASSUME PostCommit(s) \/ PostCommitDone(s) \/ Post(s) PROVE Own
    BY <1>1, <1>6 DEF PostCommit, PostCommitDone, Post, Answered, GoTo, Send, PcIdle
  <1>7. ASSUME Discard(s) \/ Undo(s) \/ UndoDone(s) \/ DecideAbort(s) PROVE Own
    BY <1>1, <1>7 DEF Discard, Undo, UndoDone, DecideAbort, Answered, GoTo, Send, PcIdle
  <1>8. ASSUME Abort(s) \/ AbortDone(s) \/ Sync(s) PROVE Own
    BY <1>1, <1>8 DEF Abort, AbortDone, Sync, Answered, GoTo, Send, PcIdle
  <1>9. ASSUME EndCall(s) \/ CloseDone(s) PROVE Own
    BY <1>1, <1>9 DEF EndCall, CloseDone, Answered, GoTo, PcIdle
  <1> QED BY <1>2, <1>3, <1>4, <1>5, <1>6, <1>7, <1>8, <1>9 DEF Progress

\* While a call runs, no other begins.
LEMMA OthersIdle ==
    ASSUME OnCursors, TypeInv, CursorInv, Next, NEW t \in Threads, calls[t].pc # PcIdle
    PROVE  \A u \in Threads \ {t} : calls'[u].pc = PcIdle
  <1> DEFINE Only == \A u \in Threads \ {t} : calls'[u].pc = PcIdle
  <1>1. TypeOK /\ calls \in [Threads -> CallRec] /\ \A u \in Threads \ {t} : calls[u].pc = PcIdle
    BY Alone DEF TypeOK
  <1>2. \A u : ~MayCall(u)
    BY DEF MayCall, OnCursors, AtRest
  <1>3. ASSUME NEW s \in Stmts, Call(s) \/ Close(s) \/ Reconnect(s) PROVE Only
    BY <1>2, <1>3 DEF Call, Close, Reconnect
  <1>4. ASSUME NEW s \in Stmts, Progress(s) PROVE Only
    <2>1. s \in Threads /\ calls[s].pc # PcIdle /\ \A u \in Threads \ {s} : calls'[u] = calls[u]
      BY <1>1, <1>4, Others DEF Threads
    <2>2. s = t
      BY <1>1, <2>1
    <2> QED BY <1>1, <2>1, <2>2
  <1>5. CASE \/ \E k \in {"commit", "rollback"} : EndTran(k)
             \/ SetAutocommit
    BY <1>2, <1>5 DEF EndTran, SetAutocommit
  <1>6. CASE DbcProgress
    <2>1. calls' = [calls EXCEPT ![Dbc] = Idle]
      BY <1>6 DEF DbcProgress, EndTranDone, SetAutocommitDone
    <2> QED BY <1>1, <2>1 DEF Idle
  <1>7. ASSUME NEW u \in Threads, Reply(u) PROVE Only
    <2>1. calls' = [calls EXCEPT ![u].fail = TRUE] \/ calls' = calls
      BY <1>7 DEF Reply
    <2> QED BY <1>1, <2>1 DEF CallRec
  <1>8. ASSUME NEW u \in Threads, Lose(u) PROVE Only
    <2>1. calls' = [x \in Threads |->
                   IF wire[x] = << >> THEN calls[x] ELSE [calls[x] EXCEPT !.fail = TRUE]]
      BY <1>8 DEF Lose
    <2> QED BY <1>1, <2>1 DEF CallRec
  <1> QED BY <1>3, <1>4, <1>5, <1>6, <1>7, <1>8 DEF Next

\* When a call returns, the connection is at rest.
LEMMA ReturnsToRest ==
    ASSUME OnCursors, TypeInv, CursorInv, [Next]_vars, NEW t \in Threads, Returns(t)
    PROVE  Next /\ Restful(conn', be')
  <1>1. calls[t].pc # PcIdle /\ calls'[t].pc = PcIdle
    BY DEF Returns
  <1>2. Next
    BY <1>1 DEF vars
  <1>3. AtRest'
    BY <1>1, <1>2, OthersIdle DEF AtRest
  <1>4. CursorInv'
    BY CursorStep
  <1> QED BY <1>2, <1>3, <1>4 DEF CursorInv

\* At rest, in autocommit mode and without a cursor there is no transaction.
LEMMA Settled ==
    ASSUME TypeInv, CursorInv
    PROVE  AutocommitSettled
  <1> SUFFICES ASSUME AtRest, conn.up, DoesAutocommit(conn), conn.cursors = {}
               PROVE  be.st = "I"
    BY DEF AutocommitSettled
  <1>1. Restful(conn, be) /\ Coherent(conn, be)
    BY DEF CursorInv
  <1>2. be.st \in Stats
    BY DEF TypeInv, TypeOK, Session, Stats
  <1> QED BY <1>1, <1>2 DEF Restful, Coherent, Aware, Served, InBlock, Stats

\* In autocommit mode the driver leaves no transaction of its own open, whatever
\* cursors were opened and closed, statements failed and connections lost:
\* QR_close, CC_set_autocommit and the CC_commit after a statement see to it.
THEOREM AutocommitSettledAlways ==
    ASSUME OnCursors
    PROVE  Spec => []AutocommitSettled
  <1>1. TypeInv /\ CursorInv /\ [Next]_vars => CursorInv'
    BY CursorStep
  <1>2. TypeInv /\ CursorInv => AutocommitSettled
    BY Settled
  <1> QED BY <1>1, <1>2, CursorInit, TypeInit, TypeStep, PTL DEF Spec

\* At level 1 and 2 DiscardStatementSvp leaves no transaction failed that was
\* sound when the statement was called: with cursors, with autocommit on or off.
THEOREM NotPoisonedWithCursors ==
    ASSUME OnCursors
    PROVE  Spec => NotPoisoned
  <1> DEFINE Spared == \A s \in Stmts :
               /\ Returns(s) /\ calls[s].kind \in DataKinds /\ calls[s].before.st # "E"
               => be'.st # "E"
  <1>1. TypeInv /\ CursorInv /\ [Next]_vars => CursorInv'
    BY CursorStep
  <1>2. TypeInv /\ CursorInv /\ [Next]_vars => Spared
    BY ReturnsToRest DEF Threads, Restful
  <1>3. TypeInv /\ CursorInv /\ [Next]_vars => [Spared]_vars
    BY <1>2
  <1> HIDE DEF Spared
  <1>4. Spec => [][Spared]_vars
    BY <1>1, <1>3, CursorInit, TypeInit, TypeStep, PTL DEF Spec
  <1> QED BY <1>4 DEF NotPoisoned, Spared

\* SQLEndTran returns from EndTranDone, and what it says of COMMIT is so.
LEMMA CommitReturns ==
    ASSUME OnCursors, TypeInv, CursorInv, [Next]_vars, Returns(Dbc),
           calls[Dbc].kind = "commit", ~calls[Dbc].fail
    PROVE  Range(calls[Dbc].before.work) \subseteq be'.durable
  <1> DEFINE k == calls[Dbc]
  <1>1. Dbc \in Threads /\ k.pc # PcIdle /\ calls'[Dbc].pc = PcIdle
    BY DEF Threads, Returns
  <1>2. Next /\ TypeOK /\ calls \in [Threads -> CallRec]
    BY <1>1, ReturnsToRest DEF TypeInv, TypeOK
  <1>3. \A u : ~MayCall(u)
    BY <1>1 DEF MayCall, OnCursors, AtRest
  <1>4. \A s \in Stmts : ~Progress(s)
    BY <1>1, <1>2, Alone, Others, CoreAssumption DEF Threads
  <1>5. \A t \in Threads : ~Reply(t)
    <2> SUFFICES ASSUME NEW t \in Threads, Reply(t) PROVE FALSE
      OBVIOUS
    <2>1. calls' = [calls EXCEPT ![t].fail = TRUE] \/ calls' = calls
      BY DEF Reply
    <2> QED BY <1>1, <1>2, <2>1 DEF CallRec
  <1>6. \A t \in Threads : ~Lose(t)
    <2> SUFFICES ASSUME NEW t \in Threads, Lose(t) PROVE FALSE
      OBVIOUS
    <2>1. calls' = [x \in Threads |->
                   IF wire[x] = << >> THEN calls[x] ELSE [calls[x] EXCEPT !.fail = TRUE]]
      BY DEF Lose
    <2> QED BY <1>1, <1>2, <2>1 DEF CallRec
  <1>7. DbcProgress
    BY <1>2, <1>3, <1>4, <1>5, <1>6 DEF Next, Call, Close, Reconnect, EndTran, SetAutocommit
  <1>8. be' = be /\ wire[Dbc] = << >> /\ k.pc \in {"endtran", "autocommit"}
    BY <1>7 DEF DbcProgress, EndTranDone, SetAutocommitDone, Answered
  <1>9. InEndTran(k, wire[Dbc], conn, be)
    BY <1>1, <1>8, AtDbc
  <1>10. \A i \in DOMAIN k.before.work : k.before.work[i] \in be.durable
    <2>1. \A a : <<a>> # << >>
      OBVIOUS
    <2> QED BY <1>8, <1>9, <2>1 DEF InEndTran
  <1> QED BY <1>8, <1>10 DEF Range

\* When SQLEndTran reports a COMMIT as done, all the work of the transaction it
\* was called in is durable: CC_commit sends COMMIT to a transaction that is
\* sound and nothing else runs on the connection until it is answered.
THEOREM CommitTruthAlways ==
    ASSUME OnCursors
    PROVE  Spec => CommitTruth
  <1> DEFINE Told == Returns(Dbc) /\ calls[Dbc].kind = "commit" /\ ~calls[Dbc].fail
                     => Range(calls[Dbc].before.work) \subseteq be'.durable
  <1>1. TypeInv /\ CursorInv /\ [Next]_vars => CursorInv'
    BY CursorStep
  <1>2. TypeInv /\ CursorInv /\ [Next]_vars => [Told]_vars
    BY CommitReturns
  <1> HIDE DEF Told
  <1>3. Spec => [][Told]_vars
    BY <1>1, <1>2, CursorInit, TypeInit, TypeStep, PTL DEF Spec
  <1> QED BY <1>3 DEF CommitTruth, Told

-----------------------------------------------------------------------------
(* Several threads: what more the flags and the session keep.              *)

\* Within a transaction the copied status is all that changes,
LEMMA CopiedRest ==
    ASSUME NEW c \in Conn, NEW x, x.st \in Stats, Coherent(c, x), c.cursors = {}
    PROVE  LET d == UpdateTransactionStatus(c, x.st)
           IN  /\ d.cursors = {}
               /\ InBlock(x) => d.optIn = c.optIn /\ d.optPrev = c.optPrev
  <1> DEFINE d == UpdateTransactionStatus(c, x.st)
  <1>1. CASE ~c.up
    BY <1>1 DEF UpdateTransactionStatus, Coherent, InBlock
  <1>2. CASE c.up /\ x.st = "I"
    <2>1. d = c \/ d = OnTransEnd(c)
      BY <1>2 DEF UpdateTransactionStatus
    <2>2. OnTransEnd(c).cursors = {}
      <3> DEFINE e == StartStmt(SvpInit(LeaveTrans(c)))
      <3>1. e \in Conn
        BY ConnTypes
      <3> HIDE DEF e
      <3>2. [e EXCEPT !.cursors = {}].cursors = {}
        BY <3>1 DEF Conn
      <3> QED BY <3>2 DEF OnTransEnd, e
    <2> HIDE DEF d
    <2> QED BY <1>2, <2>1, <2>2 DEF InBlock, d
  <1>3. CASE c.up /\ x.st # "I"
    <2>1. \E b \in BOOLEAN : d = [c EXCEPT !.inTrans = TRUE, !.inError = b]
      BY <1>3 DEF UpdateTransactionStatus
    <2> HIDE DEF d
    <2>2. d.cursors = c.cursors /\ d.optIn = c.optIn /\ d.optPrev = c.optPrev
      BY <2>1 DEF Conn
    <2> QED BY <2>2 DEF d
  <1> QED BY <1>1, <1>2, <1>3

\* the answers to BEGIN, RELEASE and SAVEPOINT leave SVPOPT_RDONLY alone,
LEMMA TagRest ==
    ASSUME NEW c \in Conn, NEW tag \in {"BEGIN", "RELEASE", "SAVEPOINT"}
    PROVE  LET d == HandleTag(c, tag)
           IN  /\ d.optIn = c.optIn /\ d.optPrev = c.optPrev
               /\ tag # "SAVEPOINT" => d.op = c.op
               /\ tag = "SAVEPOINT" /\ c.op = "savepoint" => d.svp /\ d.rbpoint
  <1>1. CASE tag = "BEGIN"
    BY <1>1 DEF HandleTag, Conn
  <1>2. CASE tag = "SAVEPOINT" /\ c.op = "savepoint"
    BY <1>2 DEF HandleTag, Conn
  <1>3. CASE tag = "SAVEPOINT" /\ c.op # "savepoint"
    BY <1>3 DEF HandleTag, Conn
  <1>4. CASE tag = "RELEASE"
    BY <1>4 DEF HandleTag, Conn
  <1> QED BY <1>1, <1>2, <1>3, <1>4

\* and so does an error.
LEMMA ErrorRest ==
    ASSUME NEW c \in Conn
    PROVE  LET d == HandleError(c)
           IN  d.optIn = c.optIn /\ d.optPrev = c.optPrev /\ d.op = c.op
  BY DEF HandleError, Conn

\* What the driver adds to a message keeps the work, and its savepoint marks it all.
LEMMA FailedKeepsWork ==
    ASSUME NEW x \in Session
    PROVE  Failed(x).be.work = x.work
  BY AnswerFields DEF Failed, Session

LEMMA BeginKeepsWork ==
    ASSUME NEW x \in Session, x.st # "E", NEW o \in Outcomes(x, Cmd("BEGIN"))
    PROVE  o.be.work = x.work
  <1>1. o = Answer([x EXCEPT !.st = "T"], "BEGIN")
    BY DEF Outcomes, OnBegin, Cmd
  <1>2. [x EXCEPT !.st = "T"].work = x.work
    BY DEF Session
  <1> QED BY <1>1, <1>2, AnswerFields

LEMMA SavepointTops ==
    ASSUME NEW x \in Session, x.st = "T",
           NEW o \in Outcomes(x, SvpCmd("SAVEPOINT", Internal))
    PROVE  TopMarks(o.be)
  <1> DEFINE f == [name |-> Internal, mark |-> Len(x.work)]
             y == [x EXCEPT !.svps = Append(@, f)]
  <1>1. o = Answer(y, "SAVEPOINT")
    BY DEF Outcomes, OnSavepoint, SvpCmd
  <1>2. /\ x.svps \in Seq(Frame) /\ x.work \in Seq(Writes) /\ f \in Frame
        /\ f.name = Internal /\ f.mark = Len(x.work)
    BY CoreAssumption DEF Session, Frame
  <1> HIDE DEF f
  <1>3. y.work = x.work /\ y.svps = Append(x.svps, f)
    BY DEF Session
  <1> HIDE DEF y
  <1>4. /\ Append(x.svps, f) # << >> /\ Len(Append(x.svps, f)) = Len(x.svps) + 1
        /\ Append(x.svps, f)[Len(x.svps) + 1] = f
    BY <1>2
  <1> QED BY <1>1, <1>2, <1>3, <1>4, AnswerFields DEF TopMarks

\* A sequence that is not empty, and all of a sequence.
LEMMA LastPlace ==
    ASSUME NEW S, NEW q \in Seq(S), q # << >>
    PROVE  Len(q) \in Nat /\ Len(q) \in DOMAIN q /\ DOMAIN q = 1 .. Len(q)
  OBVIOUS

LEMMA WholeCut ==
    ASSUME NEW S, NEW q \in Seq(S)
    PROVE  SubSeq(q, 1, Len(q)) = q
  OBVIOUS

LEMMA Bounds ==
    ASSUME NEW n \in Nat, NEW i \in 1 .. n, n <= i
    PROVE  i = n
  OBVIOUS

\* ROLLBACK TO it takes nothing back.
LEMMA UndoKeepsWork ==
    ASSUME NEW x \in Session, TopMarks(x), x.st = "E",
           NEW o \in Outcomes(x, SvpCmd("ROLLBACK TO", Internal))
    PROVE  o.be.work = x.work /\ TopMarks(o.be)
  <1> DEFINE n == Len(x.svps)
             y(i) == [x EXCEPT !.st = "T", !.svps = SubSeq(@, 1, i),
                               !.work = SubSeq(@, 1, x.svps[i].mark)]
  <1>0. x.svps \in Seq(Frame) /\ x.work \in Seq(Writes) /\ x.svps # << >>
    BY DEF Session, TopMarks
  <1>1. n \in Nat /\ n \in DOMAIN x.svps /\ DOMAIN x.svps = 1 .. n
    BY <1>0, LastPlace
  <1>2. x.svps[n].name = Internal /\ x.svps[n].mark = Len(x.work)
    BY DEF TopMarks
  <1>3. \A i : y(i).svps = SubSeq(x.svps, 1, i) /\ y(i).work = SubSeq(x.work, 1, x.svps[i].mark)
    BY DEF Session
  <1>4. SubSeq(x.svps, 1, n) = x.svps /\ SubSeq(x.work, 1, Len(x.work)) = x.work
    BY <1>0, WholeCut
  <1>5. \A i : i \in Places(x, Internal) /\ IsNewest(x, Internal, i) => i = n
    <2> SUFFICES ASSUME NEW i, i \in Places(x, Internal), IsNewest(x, Internal, i) PROVE i = n
      OBVIOUS
    <2> HIDE DEF n, y
    <2>1. i \in 1 .. n /\ n \in Places(x, Internal)
      BY <1>1, <1>2 DEF Places
    <2>2. n <= i
      BY <2>1 DEF IsNewest
    <2> QED BY <1>1, <2>1, <2>2, Bounds
  <1>6. \E i \in Places(x, Internal) : IsNewest(x, Internal, i) /\ o = Answer(y(i), "ROLLBACK")
    <2>1. Places(x, Internal) # {}
      BY <1>1, <1>2 DEF Places
    <2>2. OnRollbackTo(x, Internal) # {}
      BY <2>1, NewestExists DEF OnRollbackTo
    <2> HIDE DEF n
    <2>3. Outcomes(x, SvpCmd("ROLLBACK TO", Internal)) = OrFailed(x, OnRollbackTo(x, Internal))
      <3> HIDE DEF y
      <3> QED BY DEF Outcomes, SvpCmd
    <2>4. o \in OnRollbackTo(x, Internal)
      BY <2>2, <2>3 DEF OrFailed
    <2> QED BY <2>4 DEF OnRollbackTo
  <1>7. o = Answer(y(n), "ROLLBACK")
    BY <1>5, <1>6
  <1> HIDE DEF y, n
  <1>8. o.be = y(n)
    BY <1>7, AnswerFields
  <1>9. o.be.svps = x.svps /\ o.be.work = x.work
    BY <1>2, <1>3, <1>4, <1>8
  <1> QED BY <1>9 DEF TopMarks

\* The end of a transaction leaves no work open.
LEMMA EndDropsWork ==
    ASSUME NEW x \in Session, x.st \in {"T", "E"}, NEW cmd, cmd.c \in {"COMMIT", "ROLLBACK"},
           NEW o \in Outcomes(x, cmd)
    PROVE  o.be.work = << >>
  <1>1. \A d : FreshSession(d).work = << >>
    BY DEF FreshSession
  <1>2. \E d, tag : o = Answer(FreshSession(d), tag)
    <2>1. CASE cmd.c = "COMMIT"
      <3>1. o \in OnCommit(x)
        BY <2>1 DEF Outcomes
      <3> QED BY <3>1 DEF OnCommit
    <2>2. CASE cmd.c = "ROLLBACK"
      <3>1. o \in OnRollback(x)
        BY <2>2 DEF Outcomes
      <3> QED BY <3>1 DEF OnRollback
    <2> QED BY <2>1, <2>2
  <1> QED BY <1>1, <1>2, AnswerFields

-----------------------------------------------------------------------------
(* Several threads: the call inside the critical section and the others.   *)

LEMMA StageAt ==
    ASSUME NEW k, NEW w, NEW c, NEW x, Stage(k, w, c, x)
    PROVE  /\ k.pc \in {"begin", "request", "svp", "ready", "main"} => ~k.err
           /\ k.pc = "begin" => k.prot = "ext" /\ ThenBegin(w, c, x)
           /\ k.pc = "request" => k.prot = "ext" /\ w = << >> /\ Quiet(c, x) /\ Open(x)
           /\ k.pc = "svp" => ThenSvp(k, w, c, x)
           /\ k.pc = "ready" => ThenReady(k, w, c, x)
           /\ k.pc = "main" => ThenMain(k, w, c, x)
           /\ k.pc \in {"post", "discard"} => ThenDone(k, w, c, x)
           /\ k.pc = "undo" => ThenUndo(k, w, c, x)
           /\ k.pc = "aborting" =>
                w = << >> /\ k.lock /\ k.err /\ c.inTrans /\ x.st = "E" /\ x.work = << >>
           /\ k.pc = "abort" => ThenAbort(k, w, c, x)
           /\ k.pc = "sync" => w = << >> /\ k.lock /\ k.err /\ c.inTrans /\ x.st = "I"
           /\ k.pc = "end" => ThenEnd(k, w, c, x)
           /\ k.pc = "endtran" => ThenEndTran(w, c, x)
  BY DEF Stage

LEMMA StageBy ==
    ASSUME NEW k, NEW w, NEW c, NEW x,
           \/ k.pc = "begin" /\ ~k.err /\ k.prot = "ext" /\ ThenBegin(w, c, x)
           \/ k.pc = "request" /\ ~k.err /\ k.prot = "ext" /\ w = << >> /\ Quiet(c, x) /\ Open(x)
           \/ k.pc = "svp" /\ ~k.err /\ ThenSvp(k, w, c, x)
           \/ k.pc = "ready" /\ ~k.err /\ ThenReady(k, w, c, x)
           \/ k.pc = "main" /\ ~k.err /\ ThenMain(k, w, c, x)
           \/ k.pc = "post" /\ ThenDone(k, w, c, x)
           \/ k.pc = "discard" /\ ThenDone(k, w, c, x)
           \/ k.pc = "undo" /\ ThenUndo(k, w, c, x)
           \/ /\ k.pc = "aborting"
              /\ w = << >> /\ k.lock /\ k.err /\ c.inTrans /\ x.st = "E" /\ x.work = << >>
           \/ k.pc = "abort" /\ ThenAbort(k, w, c, x)
           \/ k.pc = "sync" /\ w = << >> /\ k.lock /\ k.err /\ c.inTrans /\ x.st = "I"
           \/ k.pc = "end" /\ ThenEnd(k, w, c, x)
    PROVE  Stage(k, w, c, x) /\ k.pc \in Inner
  BY DEF Stage, Inner

\* A call past its entry is inside the critical section, and alone with the server.
LEMMA Inside ==
    ASSUME TypeInv, SharedInv, NEW t \in Threads, calls[t].pc \notin {PcIdle, "exec"}
    PROVE  /\ cs = t /\ calls[t].pc \in IF t = Dbc THEN {"endtran"} ELSE Inner
           /\ Stage(calls[t], wire[t], conn, be) /\ (t # Dbc => Asked(calls[t]))
           /\ \A u \in Threads \ {t} : wire[u] = << >>
           /\ StatusCopied(t) = UpdateTransactionStatus(conn, be.st)
           /\ Basis(conn, be) /\ Coherent(conn, be) /\ conn.cursors = {} /\ ~conn.autocommit
           /\ conn \in Conn /\ be \in Session /\ be.st \in Stats
           /\ calls[t] \in CallRec /\ TypeOK
  <1>1. \A u \in Threads : Turn(u, calls[u], wire[u], cs = u)
    BY DEF SharedInv
  <1>2. cs = t /\ Turn(t, calls[t], wire[t], TRUE)
    BY <1>1 DEF Turn
  <1>3. \A u \in Threads \ {t} : wire[u] = << >>
    BY <1>1, <1>2 DEF Turn
  <1>4. StatusCopied(t) = UpdateTransactionStatus(conn, be.st)
    BY <1>3 DEF StatusCopied
  <1>5. be.st \in Stats
    BY DEF TypeInv, TypeOK, Session, Stats
  <1>6. Stage(calls[t], wire[t], conn, be) /\ Basis(conn, be)
    BY <1>2 DEF SharedInv
  <1> QED BY <1>2, <1>3, <1>4, <1>5, <1>6 DEF Turn, Basis, TypeInv, TypeOK, PcIdle

\* A call that enters it finds everything quiet.
LEMMA Entering ==
    ASSUME TypeInv, SharedInv, NEW s \in Stmts, calls[s].pc = "exec", FreeFor(s)
    PROVE  /\ cs = NoOne /\ Quiet(conn, be) /\ ~calls[s].err /\ wire[s] = << >>
           /\ Asked(calls[s]) /\ s \in Threads
           /\ Basis(conn, be) /\ conn \in Conn /\ be \in Session /\ be.st \in Stats
           /\ calls[s] \in CallRec /\ TypeOK
  <1>1. s \in Threads /\ s # Dbc /\ "exec" # PcIdle /\ "exec" \notin Inner
    BY CoreAssumption DEF Threads, PcIdle, Inner
  <1>2. Turn(s, calls[s], wire[s], cs = s)
    BY <1>1 DEF SharedInv
  <1>3. cs # s
    BY <1>1, <1>2 DEF Turn
  <1>4. cs = NoOne
    BY <1>3 DEF FreeFor
  <1>5. be.st \in Stats
    BY DEF TypeInv, TypeOK, Session, Stats
  <1> QED BY <1>1, <1>2, <1>4, <1>5 DEF Turn, SharedInv, TypeInv, TypeOK

\* A step of the thread in the critical section, or of one that enters it,
LEMMA SharedMove ==
    ASSUME TypeInv, SharedInv, NEW t \in Threads, cs \in {NoOne, t},
           \A u \in Threads \ {t} : calls'[u] = calls[u] /\ wire'[u] = wire[u],
           Basis(conn', be'),
           Turn(t, calls'[t], wire'[t], cs' = t),
           \/ cs' = t /\ Stage(calls'[t], wire'[t], conn', be')
           \/ cs' = NoOne /\ Quiet(conn', be')
    PROVE  SharedInv'
  <1>1. \A u \in Threads : u # NoOne
    BY CoreAssumption DEF Threads
  <1>2. \A u \in Threads \ {t} : (cs' = u) = (cs = u)
    BY <1>1
  <1>3. \A u \in Threads \ {t} : Turn(u, calls'[u], wire'[u], cs' = u)
    <2> SUFFICES ASSUME NEW u \in Threads \ {t} PROVE Turn(u, calls'[u], wire'[u], cs' = u)
      OBVIOUS
    <2>1. Turn(u, calls[u], wire[u], cs = u)
      BY DEF SharedInv
    <2>2. cs # u /\ cs' # u
      BY <1>1, <1>2
    <2>3. Turn(u, calls[u], wire[u], FALSE)
      BY <2>1, <2>2 DEF Turn
    <2> QED BY <2>2, <2>3 DEF Turn
  <1>4. \A u \in Threads : Turn(u, calls'[u], wire'[u], cs' = u)
    BY <1>3
  <1>5. \A u \in Threads : cs' = u => Stage(calls'[u], wire'[u], conn', be')
    BY <1>1, <1>2
  <1>6. cs' = NoOne => Quiet(conn', be')
    BY <1>1
  <1> QED BY <1>4, <1>5, <1>6 DEF SharedInv

\* which takes its call to another stage,
LEMMA SharedAdvance ==
    ASSUME TypeInv, SharedInv, NEW s \in Stmts, cs \in {NoOne, s}, cs' = s,
           \A u \in Threads \ {s} : calls'[u] = calls[u] /\ wire'[u] = wire[u],
           Basis(conn', be'), Asked(calls[s]), Asks(calls'[s], calls[s]),
           calls'[s].pc \in Inner, Stage(calls'[s], wire'[s], conn', be')
    PROVE  SharedInv'
  <1>1. s \in Threads /\ s # Dbc /\ PcIdle \notin Inner /\ "exec" \notin Inner
    BY CoreAssumption DEF Threads, PcIdle, Inner
  <1>2. Asked(calls'[s])
    BY DEF Asked, Asks
  <1>3. Turn(s, calls'[s], wire'[s], cs' = s)
    BY <1>1, <1>2 DEF Turn
  <1> QED BY <1>1, <1>3, SharedMove

\* or ends it.
LEMMA SharedReturn ==
    ASSUME TypeInv, SharedInv, NEW t \in Threads, cs = t, cs' = NoOne,
           calls' = [calls EXCEPT ![t] = Idle], wire' = wire, wire[t] = << >>,
           Basis(conn', be'), Quiet(conn', be')
    PROVE  SharedInv'
  <1>1. calls'[t] = Idle /\ \A u \in Threads \ {t} : calls'[u] = calls[u]
    BY DEF TypeInv, TypeOK
  <1>2. t # NoOne
    BY CoreAssumption DEF Threads
  <1>3. Turn(t, calls'[t], wire'[t], cs' = t)
    BY <1>1, <1>2 DEF Turn, Idle
  <1> QED BY <1>1, <1>3, SharedMove

-----------------------------------------------------------------------------
(* Several threads: the steps of a statement's call.                       *)

LEMMA AlikeBasis ==
    ASSUME NEW c, NEW d, Alike(d, c), NEW x
    PROVE  /\ Basis(c, x) => Basis(d, x)
           /\ Aware(c, x) => Aware(d, x)
  BY AlikeSame DEF Alike, Basis

\* What the copied status does to the flags.
LEMMA CopiedBasis ==
    ASSUME NEW c \in Conn, NEW x, x.st \in Stats, Basis(c, x)
    PROVE  LET d == UpdateTransactionStatus(c, x.st)
           IN  /\ d \in Conn /\ Basis(d, x) /\ Aware(d, x) /\ (Clear(c) => Clear(d))
               /\ InBlock(x) => /\ SameTrans(d, c) /\ d.optIn = c.optIn
                                /\ d.optPrev = c.optPrev
  <1> DEFINE d == UpdateTransactionStatus(c, x.st)
  <1>1. /\ d \in Conn /\ Coherent(d, x) /\ Aware(d, x) /\ d.autocommit = c.autocommit
        /\ (Clear(c) => Clear(d)) /\ (InBlock(x) => SameTrans(d, c))
    BY CopiedFlags DEF Basis
  <1>2. d.cursors = {} /\ (InBlock(x) => d.optIn = c.optIn /\ d.optPrev = c.optPrev)
    BY CopiedRest DEF Basis
  <1> HIDE DEF d
  <1>3. Basis(d, x)
    BY <1>1, <1>2 DEF Basis
  <1> QED BY <1>1, <1>2, <1>3 DEF d

\* BeginFirst: BEGIN before a statement of the extended protocol.
LEMMA SharedBeginFirst ==
    ASSUME TypeInv, SharedInv, NEW s \in Stmts, BeginFirst(s)
    PROVE  SharedInv'
  <1> DEFINE k == calls[s]
             K == calls'[s]
  <1>1. /\ k.pc = "exec" /\ k.prot = "ext" /\ FreeFor(s) /\ ~conn.inTrans /\ cs' = s
        /\ Send(s, "begin", <<Cmd("BEGIN")>>) /\ conn' = conn /\ be' = be
    BY DEF BeginFirst, IssueBegin
  <1>2. /\ cs = NoOne /\ Quiet(conn, be) /\ ~k.err /\ Asked(k) /\ s \in Threads
        /\ Basis(conn, be) /\ be.st \in Stats /\ TypeOK
    BY <1>1, Entering
  <1>3. /\ K.pc = "begin" /\ Asks(K, k) /\ K.err = k.err /\ wire'[s] = <<Cmd("BEGIN")>>
        /\ \A u \in Threads \ {s} : calls'[u] = calls[u] /\ wire'[u] = wire[u]
    BY <1>1, <1>2, Sends
  <1> HIDE DEF K
  <1>4. be.st = "I" /\ Clear(conn) /\ Aware(conn, be)
    BY <1>1, <1>2 DEF Quiet, Sound, Aware, InBlock, Basis, Stats
  <1>5. ThenBegin(wire'[s], conn', be')
    BY <1>1, <1>3, <1>4 DEF ThenBegin
  <1>6. Stage(K, wire'[s], conn', be') /\ K.pc \in Inner
    BY <1>1, <1>2, <1>3, <1>5, StageBy DEF Asks
  <1> QED BY <1>1, <1>2, <1>3, <1>6, SharedAdvance DEF K

\* BeginDone: and its answer.
LEMMA SharedBeginDone ==
    ASSUME TypeInv, SharedInv, NEW s \in Stmts, BeginDone(s)
    PROVE  SharedInv'
  <1> DEFINE k == calls[s]
             K == calls'[s]
             d == conn'
  <1>1. /\ k.pc = "begin" /\ wire[s] = << >> /\ conn' = StatusCopied(s) /\ be' = be
        /\ wire' = wire /\ cs' = cs /\ GoTo(s, "request")
    BY DEF BeginDone, Answered
  <1>2. s \in Threads /\ s # Dbc /\ k.pc \notin {PcIdle, "exec"}
    BY <1>1, CoreAssumption DEF Threads, PcIdle
  <1>3. /\ cs = s /\ Stage(k, wire[s], conn, be) /\ Asked(k)
        /\ StatusCopied(s) = UpdateTransactionStatus(conn, be.st)
        /\ Basis(conn, be) /\ conn \in Conn /\ be.st \in Stats /\ TypeOK
    BY <1>2, Inside
  <1>4. ~k.err /\ k.prot = "ext" /\ ThenBegin(wire[s], conn, be)
    BY <1>1, <1>3, StageAt
  <1>5. Clear(conn) /\ Open(be) /\ be.work = << >>
    BY <1>1, <1>4 DEF ThenBegin
  <1>6. Basis(d, be) /\ Aware(d, be) /\ Clear(d)
    BY <1>1, <1>3, <1>5, CopiedBasis
  <1>7. /\ K.pc = "request" /\ Asks(K, k) /\ K.err = k.err
        /\ \A u \in Threads \ {s} : calls'[u] = calls[u] /\ wire'[u] = wire[u]
    BY <1>1, <1>2, <1>3, Goes
  <1> HIDE DEF K, d
  <1>8. Quiet(d, be)
    BY <1>5, <1>6 DEF Quiet, Sound, Remembers, Open
  <1>9. Stage(K, wire'[s], d, be) /\ K.pc \in Inner
    BY <1>1, <1>4, <1>5, <1>7, <1>8, StageBy DEF Asks
  <1> QED BY <1>1, <1>3, <1>6, <1>7, <1>9, SharedAdvance DEF K, d

\* A call that has sent nothing but BEGIN.
LEMMA Fresh ==
    ASSUME TypeInv, SharedInv, NEW s \in Stmts, calls[s].pc \in {"exec", "request"}, FreeFor(s)
    PROVE  /\ cs \in {NoOne, s} /\ Quiet(conn, be) /\ ~calls[s].err /\ Asked(calls[s])
           /\ s \in Threads /\ Basis(conn, be) /\ conn \in Conn /\ be \in Session
           /\ be.st \in Stats /\ calls[s] \in CallRec /\ TypeOK
           /\ calls[s].pc = "request" => calls[s].prot = "ext" /\ Open(be)
  <1>1. s \in Threads /\ s # Dbc
    BY CoreAssumption DEF Threads
  <1>2. CASE calls[s].pc = "exec"
    BY <1>2, Entering
  <1>3. CASE calls[s].pc = "request"
    <2>1. /\ cs = s /\ Stage(calls[s], wire[s], conn, be) /\ Asked(calls[s])
          /\ Basis(conn, be) /\ conn \in Conn /\ be \in Session /\ be.st \in Stats
          /\ calls[s] \in CallRec /\ TypeOK
      BY <1>1, <1>3, Inside DEF PcIdle
    <2> QED BY <1>1, <1>3, <2>1, StageAt
  <1> QED BY <1>2, <1>3

\* What an application asks is no savepoint command of its own.
LEMMA DataAsked ==
    ASSUME NEW k, Asked(k)
    PROVE  /\ k.kind \notin TransKinds \cup {"special", "ro", "declare", "begin", "call",
                                             "close", "local"}
           /\ k.cmd.c \in {"WRITE", "READ"}
  BY DEF Asked, DataOnly, TransKinds

\* DirectSavepoint: the savepoint has a message of its own.
LEMMA SharedDirectSavepoint ==
    ASSUME TypeInv, SharedInv, NEW s \in Stmts, DirectSavepoint(s)
    PROVE  SharedInv'
  <1> DEFINE k == calls[s]
             K == calls'[s]
             d == conn'
  <1>1. /\ k.pc \in {"exec", "request"} /\ FreeFor(s) /\ cs' = s /\ be' = be
        /\ d = [conn EXCEPT !.op = "savepoint", !.optIn = @ /\ ReadOnly(s)]
        /\ wire' = [wire EXCEPT ![s] = SavepointCmds]
        /\ calls' = [calls EXCEPT ![s].pc = "svp", ![s].lock = TRUE, ![s].fail = FALSE,
                                  ![s].wasIn = calls[s].pc = "exec"]
    BY DEF DirectSavepoint
  <1>2. ~conn.optPrev /\ conn.inTrans
    BY DEF DirectSavepoint, NeedsSvp
  <1>3. /\ cs \in {NoOne, s} /\ Quiet(conn, be) /\ ~k.err /\ Asked(k) /\ s \in Threads
        /\ Basis(conn, be) /\ conn \in Conn /\ k \in CallRec /\ TypeOK
    BY <1>1, Fresh
  <1>4. /\ K.pc = "svp" /\ Asks(K, k) /\ K.err = k.err /\ K.lock /\ ~K.fail
        /\ wire'[s] = SavepointCmds
        /\ \A u \in Threads \ {s} : calls'[u] = calls[u] /\ wire'[u] = wire[u]
    BY <1>1, <1>3 DEF TypeOK, CallRec, Asks
  <1>5. ~ReadOnly(s)
    BY <1>3, DataAsked DEF ReadOnly
  <1>6. Alike(d, conn) /\ d.op = "savepoint" /\ ~d.optIn /\ d.optPrev = conn.optPrev
    BY <1>1, <1>3, <1>5 DEF Conn, Alike
  <1> HIDE DEF K, d
  <1>7. Basis(d, be) /\ Aware(d, be) /\ Open(be)
    BY <1>2, <1>3, <1>6, AlikeBasis DEF Quiet, Sound, Aware, InBlock, Open
  <1>8. Savepoints(wire'[s], d)
    <2>1. << >> \o <<SvpCmd("SAVEPOINT", Internal)>> = <<SvpCmd("SAVEPOINT", Internal)>>
          /\ <<SvpCmd("RELEASE", Internal)>> \o <<SvpCmd("SAVEPOINT", Internal)>>
             = <<SvpCmd("RELEASE", Internal), SvpCmd("SAVEPOINT", Internal)>>
      BY Joined
    <2> QED BY <1>2, <1>4, <1>6, <2>1 DEF Savepoints, SavepointCmds, Alike
  <1>9. ThenSvp(K, wire'[s], d, be)
    BY <1>4, <1>6, <1>7, <1>8 DEF ThenSvp
  <1>10. Stage(K, wire'[s], d, be) /\ K.pc \in Inner
    BY <1>3, <1>4, <1>9, StageBy
  <1> QED BY <1>1, <1>3, <1>4, <1>7, <1>10, SharedAdvance DEF K, d

\* SavepointMade: and its answer.
LEMMA SharedSavepointMade ==
    ASSUME TypeInv, SharedInv, NEW s \in Stmts, SavepointMade(s)
    PROVE  SharedInv'
  <1> DEFINE k == calls[s]
             K == calls'[s]
             c == UpdateTransactionStatus(conn, be.st)
             d == conn'
  <1>1. k.pc = "svp" /\ wire[s] = << >> /\ be' = be /\ wire' = wire /\ cs' = cs
    BY DEF SavepointMade, Answered
  <1>2. s \in Threads /\ s # Dbc /\ k.pc \notin {PcIdle, "exec"}
    BY <1>1, CoreAssumption DEF Threads, PcIdle
  <1>3. /\ cs = s /\ Stage(k, wire[s], conn, be) /\ Asked(k) /\ StatusCopied(s) = c
        /\ Basis(conn, be) /\ conn \in Conn /\ be.st \in Stats /\ TypeOK
    BY <1>2, Inside
  <1>4. ~k.err /\ ThenSvp(k, wire[s], conn, be)
    BY <1>1, <1>3, StageAt
  <1>5. k.lock /\ ~conn.optIn /\ ~k.fail /\ Open(be) /\ Saved(conn, be)
    <2>1. \A a, b : <<a>> # << >> /\ <<a, b>> # << >>
      OBVIOUS
    <2> QED BY <1>1, <1>4, <2>1 DEF ThenSvp, Savepoints
  <1>6. /\ c \in Conn /\ Basis(c, be) /\ Aware(c, be)
        /\ SameTrans(c, conn) /\ c.optIn = conn.optIn /\ c.optPrev = conn.optPrev
    <2>1. InBlock(be)
      BY <1>5 DEF Open, InBlock
    <2> QED BY <1>3, <2>1, CopiedBasis
  <1>7. d = [c EXCEPT !.op = "none", !.accessed = TRUE] /\ GoTo(s, "ready")
    BY <1>3, <1>5 DEF SavepointMade
  <1> HIDE DEF c
  <1>8. /\ Alike(d, c) /\ d.rbpoint = c.rbpoint /\ d.accessed /\ d.optIn = c.optIn
        /\ d.optPrev = c.optPrev
    BY <1>6, <1>7 DEF Conn, Alike
  <1>9. /\ K.pc = "ready" /\ Asks(K, k) /\ K.err = k.err
        /\ \A u \in Threads \ {s} : calls'[u] = calls[u] /\ wire'[u] = wire[u]
    BY <1>1, <1>2, <1>3, <1>7, Goes
  <1>10. K.lock = k.lock
    BY <1>2, <1>3, <1>7 DEF GoTo, TypeOK, CallRec
  <1> HIDE DEF K, d
  <1>11. Basis(d, be) /\ Aware(d, be)
    BY <1>6, <1>8, AlikeBasis
  <1>12. ThenReady(K, wire'[s], d, be)
    BY <1>1, <1>5, <1>6, <1>8, <1>10, <1>11
       DEF ThenReady, Locked, Saved, SameTrans, Alike
  <1>13. Stage(K, wire'[s], d, be) /\ K.pc \in Inner
    BY <1>4, <1>9, <1>12, StageBy
  <1> QED BY <1>1, <1>3, <1>9, <1>11, <1>13, SharedAdvance DEF K, d

\* SendMain after a savepoint that had a message of its own,
LEMMA SharedSendReady ==
    ASSUME TypeInv, SharedInv, NEW s \in Stmts, SendMain(s), calls[s].pc = "ready"
    PROVE  SharedInv'
  <1> DEFINE k == calls[s]
             K == calls'[s]
  <1>1. s \in Threads /\ s # Dbc /\ k.pc \notin {PcIdle, "exec"}
    BY CoreAssumption DEF Threads, PcIdle
  <1>2. /\ cs = s /\ Stage(k, wire[s], conn, be) /\ Asked(k)
        /\ Basis(conn, be) /\ conn \in Conn /\ k \in CallRec /\ TypeOK
    BY <1>1, Inside
  <1>3. /\ cs' = s /\ conn' = conn /\ be' = be
        /\ wire' = [wire EXCEPT ![s] = (<< >> \o << >>) \o <<calls[s].cmd>>]
        /\ calls' = [calls EXCEPT ![s].pc = "main", ![s].fail = FALSE,
                       ![s].lock = calls[s].lock \/ FALSE,
                       ![s].wasIn = calls[s].wasIn]
    BY Zenon DEF SendMain
  <1>4. (<< >> \o << >>) \o <<k.cmd>> = <<k.cmd>>
    BY Joined
  <1>5. /\ K.pc = "main" /\ Asks(K, k) /\ K.err = k.err /\ K.lock = k.lock /\ ~K.fail
        /\ wire'[s] = <<k.cmd>>
        /\ \A u \in Threads \ {s} : calls'[u] = calls[u] /\ wire'[u] = wire[u]
    <2>1. /\ K = [k EXCEPT !.pc = "main", !.fail = FALSE, !.lock = k.lock, !.wasIn = k.wasIn]
          /\ wire'[s] = <<k.cmd>>
          /\ \A u \in Threads \ {s} : calls'[u] = calls[u] /\ wire'[u] = wire[u]
      BY <1>1, <1>2, <1>3, <1>4 DEF TypeOK, CallRec
    <2> HIDE DEF K
    <2> QED BY <1>2, <2>1 DEF CallRec, Asks
  <1> HIDE DEF K
  <1>6. ~k.err /\ ThenReady(k, wire[s], conn, be)
    BY <1>2, StageAt
  <1>7. ThenMain(K, wire'[s], conn', be')
    BY <1>3, <1>5, <1>6 DEF ThenReady, ThenMain, Locked, Kept, Asks
  <1>8. Stage(K, wire'[s], conn', be') /\ K.pc \in Inner
    BY <1>5, <1>6, <1>7, StageBy
  <1> QED BY <1>2, <1>3, <1>5, <1>8, SharedAdvance DEF K

\* and with what CC_send_query_append prepends to the statement.
LEMMA SharedSendFresh ==
    ASSUME OnThreads, TypeInv, SharedInv, NEW s \in Stmts, SendMain(s),
           calls[s].pc \in {"exec", "request"}
    PROVE  SharedInv'
  <1> DEFINE k == calls[s]
             K == calls'[s]
             d == conn'
             m == (IF k.prot = "simple" /\ IssueBegin(s) THEN <<Cmd("BEGIN")>> ELSE << >>)
                  \o (IF NeedsSvp(s) THEN SavepointCmds ELSE << >>) \o <<k.cmd>>
  <1>1. FreeFor(s) /\ k.pc # "ready"
    BY DEF SendMain
  <1>2. /\ cs \in {NoOne, s} /\ Quiet(conn, be) /\ ~k.err /\ Asked(k) /\ s \in Threads
        /\ Basis(conn, be) /\ conn \in Conn /\ be.st \in Stats /\ k \in CallRec /\ TypeOK
        /\ k.pc = "request" => k.prot = "ext" /\ Open(be)
    BY <1>1, Fresh
  <1>3. /\ Aware(conn, be) /\ be.st \in {"I", "T"} /\ Remembers(conn, be) /\ Clear(conn)
        /\ ~conn.autocommit /\ ~conn.inError /\ (conn.inTrans <=> Open(be))
        /\ (be.st = "I" => be.work = << >>)
    BY <1>2 DEF Quiet, Sound, Basis, Stats, Aware, InBlock, Open
  <1>4. IssueBegin(s) = ~conn.inTrans
    BY <1>2, <1>3, DataAsked DEF IssueBegin, DoesAutocommit
  <1>5. EntersSvp(s)
    BY <1>3, <1>4 DEF EntersSvp, ConsidersSvp, Clear
  <1>6. NeedsSvp(s) = (~conn.optPrev /\ conn.inTrans)
    BY <1>2, <1>5, DataAsked DEF NeedsSvp, OnThreads
  <1>7. ~ReadOnly(s) /\ k.kind \notin TransKinds \cup {"special"}
    BY <1>2, DataAsked DEF ReadOnly
  <1>8. /\ cs' = s /\ be' = be /\ wire' = [wire EXCEPT ![s] = m]
        /\ k.pc = "exec" /\ k.prot = "ext" => ~IssueBegin(s)
        /\ NeedsSvp(s) => k.prot = "simple"
    BY <1>1, ZenonT(40) DEF SendMain
  <1>9. /\ d = [conn EXCEPT !.optIn = conn.optIn /\ ReadOnly(s),
                 !.accessed = conn.accessed \/ k.kind \notin TransKinds \cup {"special"},
                 !.op = IF NeedsSvp(s) THEN "savepoint" ELSE conn.op]
        /\ calls' = [calls EXCEPT ![s].pc = "main", ![s].fail = FALSE,
                       ![s].lock = calls[s].lock \/ TRUE,
                       ![s].wasIn = IF k.pc = "exec" THEN conn.inTrans ELSE calls[s].wasIn]
    BY <1>1, <1>5, ZenonT(40) DEF SendMain
  <1>10. /\ Alike(d, conn) /\ ~d.optIn /\ d.accessed /\ d.optPrev = conn.optPrev
         /\ d.rbpoint = conn.rbpoint /\ (NeedsSvp(s) => d.op = "savepoint")
    BY <1>2, <1>7, <1>9 DEF Conn, Alike
  <1>11. /\ K.pc = "main" /\ Asks(K, k) /\ K.err = k.err /\ K.lock /\ ~K.fail
         /\ wire'[s] = m
         /\ \A u \in Threads \ {s} : calls'[u] = calls[u] /\ wire'[u] = wire[u]
    <2>1. /\ K = [k EXCEPT !.pc = "main", !.fail = FALSE, !.lock = TRUE,
                           !.wasIn = IF k.pc = "exec" THEN conn.inTrans ELSE k.wasIn]
          /\ \A u \in Threads \ {s} : calls'[u] = calls[u]
      BY <1>2, <1>9 DEF TypeOK, CallRec
    <2> HIDE DEF m
    <2>2. wire'[s] = m /\ \A u \in Threads \ {s} : wire'[u] = wire[u]
      BY <1>2, <1>8 DEF TypeOK
    <2> HIDE DEF K
    <2> QED BY <1>2, <2>1, <2>2 DEF CallRec, Asks
  <1> HIDE DEF K, d
  <1>12. Basis(d, be) /\ Aware(d, be)
    BY <1>2, <1>3, <1>10, AlikeBasis
  <1>13. ThenMain(K, wire'[s], d, be)
    <2>1. Locked(K, d)
      BY <1>10, <1>11 DEF Locked
    <2>2. CASE ~conn.inTrans
      <3>1. k.prot = "simple" /\ be.st = "I" /\ be.work = << >>
        BY <1>2, <1>3, <1>4, <1>8, <2>2 DEF CallRec, Open
      <3>2. m = (<<Cmd("BEGIN")>> \o << >>) \o <<k.cmd>>
        BY <1>4, <1>6, <2>2, <3>1
      <3>3. m = <<Cmd("BEGIN"), k.cmd>>
        BY <3>2, Joined
      <3>4. First(d, be)
        BY <1>3, <1>10, <3>1 DEF First, Clear
      <3> HIDE DEF m
      <3> QED BY <1>11, <1>12, <2>1, <3>1, <3>3, <3>4 DEF ThenMain, Asks
    <2>3. CASE conn.inTrans /\ ~conn.optPrev
      <3>1. NeedsSvp(s) /\ k.prot = "simple" /\ Open(be)
        BY <1>3, <1>6, <1>8, <2>3
      <3>2. m = (<< >> \o SavepointCmds) \o <<k.cmd>>
        BY <1>4, <2>3, <3>1
      <3> DEFINE r == SvpCmd("RELEASE", Internal)
                 v == SvpCmd("SAVEPOINT", Internal)
      <3>a. /\ << >> \o (<<r>> \o <<v>>) = <<r, v>> /\ << >> \o (<< >> \o <<v>>) = <<v>>
            /\ <<r, v>> \o <<k.cmd>> = <<r, v, k.cmd>> /\ <<v>> \o <<k.cmd>> = <<v, k.cmd>>
        BY Joined
      <3>b. \/ << >> \o SavepointCmds = <<r, v>> /\ conn.svp
            \/ << >> \o SavepointCmds = <<v>>
        BY <3>a DEF SavepointCmds
      <3>3. (m = <<r, v, k.cmd>> /\ conn.svp) \/ m = <<v, k.cmd>>
        BY <3>2, <3>a, <3>b
      <3> HIDE DEF m
      <3>4. d.op = "savepoint" /\ ~d.optPrev /\ d.svp = conn.svp
        BY <1>10, <2>3, <3>1 DEF Alike
      <3>5. K.prot = "simple" /\ K.cmd = k.cmd /\ wire'[s] = m /\ ~K.fail
        BY <1>11, <3>1 DEF Asks
      <3> QED BY <1>12, <2>1, <3>1, <3>3, <3>4, <3>5 DEF ThenMain
    <2>4. CASE conn.inTrans /\ conn.optPrev
      <3>1. ~NeedsSvp(s) /\ Open(be) /\ be.work = << >>
        BY <1>3, <1>6, <2>4 DEF Remembers
      <3>2. m = (<< >> \o << >>) \o <<k.cmd>>
        BY <1>4, <2>4, <3>1
      <3>3. m = <<k.cmd>>
        BY <3>2, Joined
      <3>4. Kept(d, be)
        BY <1>3, <1>10, <3>1 DEF Kept, First, Clear
      <3> HIDE DEF m
      <3> QED BY <1>11, <1>12, <2>1, <3>1, <3>3, <3>4 DEF ThenMain, Asks
    <2> QED BY <2>2, <2>3, <2>4
  <1>14. Stage(K, wire'[s], d, be) /\ K.pc \in Inner
    BY <1>2, <1>11, <1>13, StageBy
  <1> QED BY <1>2, <1>8, <1>11, <1>12, <1>14, SharedAdvance DEF K, d

\* MainDone: the statement was answered.
LEMMA SharedMainDone ==
    ASSUME TypeInv, SharedInv, NEW s \in Stmts, MainDone(s)
    PROVE  SharedInv'
  <1> DEFINE k == calls[s]
             K == calls'[s]
             d == conn'
             e == UpdateTransactionStatus(conn, be.st)
  <1>1. /\ k.pc = "main" /\ wire[s] = << >> /\ be' = be /\ wire' = wire /\ cs' = cs
        /\ calls' = [calls EXCEPT ![s].pc = "post", ![s].err = calls[s].fail]
    BY DEF MainDone, Answered
  <1>2. s \in Threads /\ s # Dbc /\ k.pc \notin {PcIdle, "exec"}
    BY <1>1, CoreAssumption DEF Threads, PcIdle
  <1>3. /\ cs = s /\ Stage(k, wire[s], conn, be) /\ Asked(k) /\ StatusCopied(s) = e
        /\ Basis(conn, be) /\ conn \in Conn /\ be.st \in Stats /\ k \in CallRec /\ TypeOK
    BY <1>2, Inside
  <1>4. /\ K.pc = "post" /\ Asks(K, k) /\ K.err = k.fail /\ K.lock = k.lock
        /\ \A u \in Threads \ {s} : calls'[u] = calls[u] /\ wire'[u] = wire[u]
    BY <1>1, <1>2, <1>3 DEF TypeOK, CallRec, Asks
  <1>5. /\ Locked(k, conn) /\ Aware(conn, be)
        /\ IF k.fail THEN be.st = "E" /\ Kept(conn, be) ELSE Open(be)
    <2>1. ThenMain(k, wire[s], conn, be)
      BY <1>1, <1>3, StageAt
    <2>2. \A a, b, c : <<a>> # << >> /\ <<a, b>> # << >> /\ <<a, b, c>> # << >>
      OBVIOUS
    <2> QED BY <1>1, <2>1, <2>2 DEF ThenMain
  <1>6. /\ Basis(e, be) /\ Aware(e, be) /\ SameTrans(e, conn)
        /\ e.optIn = conn.optIn /\ e.optPrev = conn.optPrev
    <2>1. InBlock(be)
      BY <1>5 DEF Open, InBlock
    <2> QED BY <1>3, <2>1, CopiedBasis
  <1>7. d = e \/ d = conn
    <2>1. k.kind # "declare"
      BY <1>3, DataAsked
    <2> QED BY <1>3, <2>1 DEF MainDone
  <1> HIDE DEF e
  <1>8. /\ Basis(d, be) /\ Aware(d, be) /\ SameTrans(d, conn)
        /\ d.optIn = conn.optIn /\ d.optPrev = conn.optPrev
    BY <1>3, <1>5, <1>6, <1>7 DEF SameTrans
  <1> HIDE DEF K, d
  <1>9. ThenDone(K, wire'[s], d, be)
    BY <1>1, <1>4, <1>5, <1>8 DEF ThenDone, Locked, Kept, Saved, First, SameTrans
  <1>10. Stage(K, wire'[s], d, be) /\ K.pc \in Inner
    BY <1>4, <1>9, StageBy
  <1> QED BY <1>1, <1>3, <1>4, <1>8, <1>10, SharedAdvance DEF K, d

\* Post: the end of SC_execute.
LEMMA SharedPost ==
    ASSUME TypeInv, SharedInv, NEW s \in Stmts, Post(s)
    PROVE  SharedInv'
  <1> DEFINE k == calls[s]
             K == calls'[s]
             d == conn'
  <1>1. /\ k.pc = "post" /\ be' = be /\ wire' = wire /\ LeaveCs(s)
        /\ d.manual => conn.manual \/ conn.inTrans
        /\ \E b : d = [conn EXCEPT !.manual = b]
    <2>1. /\ k.pc = "post" /\ be' = be /\ wire' = wire /\ LeaveCs(s)
          /\ d = [conn EXCEPT !.manual = @ \/ /\ calls[s].kind \notin SelectKinds \cup {"ro"}
                                              /\ conn.inTrans /\ ~calls[s].wasIn]
      BY DEF Post
    <2> QED BY <2>1 DEF TypeInv, TypeOK, Conn
  <1>2. s \in Threads /\ s # Dbc /\ k.pc \notin {PcIdle, "exec"}
    BY <1>1, CoreAssumption DEF Threads, PcIdle
  <1>3. /\ cs = s /\ Stage(k, wire[s], conn, be) /\ Asked(k)
        /\ Basis(conn, be) /\ conn \in Conn /\ k \in CallRec /\ TypeOK
    BY <1>2, Inside
  <1>4. calls' = [calls EXCEPT ![s].pc = "discard", ![s].err = @ \/ FALSE]
    BY <1>3, DataAsked DEF Post
  <1>5. /\ K.pc = "discard" /\ Asks(K, k) /\ K.err = k.err /\ K.lock = k.lock
        /\ \A u \in Threads \ {s} : calls'[u] = calls[u] /\ wire'[u] = wire[u]
    BY <1>1, <1>2, <1>3, <1>4 DEF TypeOK, CallRec, Asks
  <1>6. ThenDone(k, wire[s], conn, be)
    BY <1>1, <1>3, StageAt
  <1>7. cs' = s
    BY <1>1, <1>6 DEF ThenDone, Locked, LeaveCs
  <1>8. /\ d.autocommit = conn.autocommit /\ d.inTrans = conn.inTrans /\ d.inError = conn.inError
        /\ d.svp = conn.svp /\ d.up = conn.up /\ d.cursors = conn.cursors
        /\ d.accessed = conn.accessed /\ d.rbpoint = conn.rbpoint /\ d.optIn = conn.optIn
        /\ d.optPrev = conn.optPrev
    BY <1>1, <1>3 DEF Conn
  <1> HIDE DEF K, d
  <1>9. Basis(d, be) /\ (Aware(conn, be) => Aware(d, be))
    BY <1>1, <1>3, <1>8 DEF Basis, Coherent, Aware
  <1>10. ThenDone(K, wire'[s], d, be)
    BY <1>1, <1>5, <1>6, <1>8, <1>9 DEF ThenDone, Locked, Kept, Saved, First
  <1>11. Stage(K, wire'[s], d, be) /\ K.pc \in Inner
    BY <1>5, <1>10, StageBy
  <1> QED BY <1>1, <1>3, <1>5, <1>7, <1>9, <1>11, SharedAdvance DEF K, d

\* At the end of a call: a failed statement failed the transaction, and nothing else did.
LEMMA Discarding ==
    ASSUME OnThreads, TypeInv, SharedInv, NEW s \in Stmts, calls[s].pc = "discard"
    PROVE  /\ s \in Threads /\ cs = s /\ wire[s] = << >> /\ Asked(calls[s])
           /\ Basis(conn, be) /\ TypeOK /\ calls[s] \in CallRec
           /\ Locked(calls[s], conn) /\ Aware(conn, be)
           /\ IF calls[s].err THEN be.st = "E" /\ Kept(conn, be) /\ conn.inError ELSE Open(be)
           /\ Engaged(s) = calls[s].err
  <1>1. s \in Threads /\ s # Dbc /\ calls[s].pc \notin {PcIdle, "exec"}
    BY CoreAssumption DEF Threads, PcIdle
  <1>2. /\ cs = s /\ Stage(calls[s], wire[s], conn, be) /\ Asked(calls[s])
        /\ Basis(conn, be) /\ calls[s] \in CallRec /\ TypeOK
    BY <1>1, Inside
  <1>3. ThenDone(calls[s], wire[s], conn, be)
    BY <1>2, StageAt
  <1>4. /\ wire[s] = << >> /\ Locked(calls[s], conn) /\ Aware(conn, be)
        /\ IF calls[s].err THEN be.st = "E" /\ Kept(conn, be) /\ conn.inError ELSE Open(be)
    BY <1>3 DEF ThenDone, Aware
  <1>5. Engaged(s) = calls[s].err
    <2>1. conn.inTrans /\ conn.accessed /\ calls[s].err \in BOOLEAN
      BY <1>2, <1>4 DEF Aware, InBlock, Open, Locked, CallRec
    <2>2. RollbackLevel > 0
      BY DEF OnThreads
    <2> QED BY <2>1, <2>2 DEF Engaged
  <1> QED BY <1>1, <1>2, <1>4, <1>5

\* Discard: nothing to undo.
LEMMA SharedDiscard ==
    ASSUME OnThreads, TypeInv, SharedInv, NEW s \in Stmts, Discard(s)
    PROVE  SharedInv'
  <1> DEFINE k == calls[s]
             K == calls'[s]
  <1>1. /\ k.pc = "discard" /\ GoTo(s, "end") /\ conn' = conn /\ be' = be /\ wire' = wire /\ cs' = cs
        /\ ~Engaged(s) \/ ~conn.inError
    BY DEF Discard
  <1>2. /\ s \in Threads /\ cs = s /\ wire[s] = << >> /\ Asked(k) /\ Basis(conn, be) /\ TypeOK
        /\ Locked(k, conn) /\ Aware(conn, be) /\ ~k.err /\ Open(be) /\ k \in CallRec
    BY <1>1, Discarding
  <1>3. /\ K.pc = "end" /\ Asks(K, k) /\ K.err = k.err /\ K.lock = k.lock
        /\ \A u \in Threads \ {s} : calls'[u] = calls[u] /\ wire'[u] = wire[u]
    BY <1>1, <1>2 DEF GoTo, TypeOK, CallRec, Asks
  <1> HIDE DEF K
  <1>4. ThenEnd(K, wire'[s], conn', be')
    BY <1>1, <1>2, <1>3 DEF ThenEnd, Locked, Open
  <1>5. Stage(K, wire'[s], conn', be') /\ K.pc \in Inner
    BY <1>3, <1>4, StageBy
  <1> QED BY <1>1, <1>2, <1>3, <1>5, SharedAdvance DEF K

\* Undo: ROLLBACK TO the internal savepoint.
LEMMA SharedUndo ==
    ASSUME OnThreads, TypeInv, SharedInv, NEW s \in Stmts, Undo(s)
    PROVE  SharedInv'
  <1> DEFINE k == calls[s]
             K == calls'[s]
  <1>1. /\ k.pc = "discard" /\ Send(s, "undo", UndoCmds) /\ conn' = conn /\ be' = be /\ cs' = cs
        /\ Engaged(s) /\ HasRbPoint
    BY DEF Undo
  <1>2. /\ s \in Threads /\ cs = s /\ Asked(k) /\ Basis(conn, be) /\ TypeOK /\ k \in CallRec
        /\ Locked(k, conn) /\ Aware(conn, be) /\ k.err /\ be.st = "E" /\ Kept(conn, be)
    BY <1>1, Discarding
  <1>3. /\ K.pc = "undo" /\ Asks(K, k) /\ K.err = k.err /\ K.lock = k.lock
        /\ wire'[s] = UndoCmds
        /\ \A u \in Threads \ {s} : calls'[u] = calls[u] /\ wire'[u] = wire[u]
    BY <1>1, <1>2 DEF Send, TypeOK, CallRec, Asks
  <1> HIDE DEF K
  <1>4. Saved(conn, be) /\ conn.inTrans
    BY <1>1, <1>2 DEF HasRbPoint, Kept, First, Aware, InBlock
  <1>5. ThenUndo(K, wire'[s], conn', be')
    BY <1>1, <1>2, <1>3, <1>4 DEF ThenUndo, Locked
  <1>6. Stage(K, wire'[s], conn', be') /\ K.pc \in Inner
    BY <1>3, <1>5, StageBy
  <1> QED BY <1>1, <1>2, <1>3, <1>6, SharedAdvance DEF K

\* UndoDone: and its answer.
LEMMA SharedUndoDone ==
    ASSUME TypeInv, SharedInv, NEW s \in Stmts, UndoDone(s)
    PROVE  SharedInv'
  <1> DEFINE k == calls[s]
             K == calls'[s]
             d == conn'
  <1>1. /\ k.pc = "undo" /\ wire[s] = << >> /\ conn' = StatusCopied(s) /\ be' = be
        /\ wire' = wire /\ cs' = cs /\ GoTo(s, "end")
    BY DEF UndoDone, Answered
  <1>2. s \in Threads /\ s # Dbc /\ k.pc \notin {PcIdle, "exec"}
    BY <1>1, CoreAssumption DEF Threads, PcIdle
  <1>3. /\ cs = s /\ Stage(k, wire[s], conn, be) /\ Asked(k)
        /\ StatusCopied(s) = UpdateTransactionStatus(conn, be.st)
        /\ Basis(conn, be) /\ conn \in Conn /\ be.st \in Stats /\ TypeOK
    BY <1>2, Inside
  <1>4. k.lock /\ k.err /\ Saved(conn, be) /\ Open(be)
    <2>1. ThenUndo(k, wire[s], conn, be)
      BY <1>1, <1>3, StageAt
    <2>2. UndoCmds # << >>
      BY DEF UndoCmds
    <2> QED BY <1>1, <2>1, <2>2 DEF ThenUndo
  <1>5. Basis(d, be) /\ Aware(d, be) /\ d.optPrev = conn.optPrev
    BY <1>1, <1>3, <1>4, CopiedBasis DEF Open, InBlock
  <1>6. /\ K.pc = "end" /\ Asks(K, k) /\ K.err = k.err /\ K.lock = k.lock
        /\ \A u \in Threads \ {s} : calls'[u] = calls[u] /\ wire'[u] = wire[u]
    BY <1>1, <1>2, <1>3 DEF GoTo, TypeOK, CallRec, Asks
  <1> HIDE DEF K, d
  <1>7. ThenEnd(K, wire'[s], d, be)
    BY <1>1, <1>4, <1>5, <1>6 DEF ThenEnd, Remembers, Saved, Open
  <1>8. Stage(K, wire'[s], d, be) /\ K.pc \in Inner
    BY <1>6, <1>7, StageBy
  <1> QED BY <1>1, <1>3, <1>5, <1>6, <1>8, SharedAdvance DEF K, d

\* DecideAbort: a statement without a savepoint is alone in its transaction.
LEMMA SharedDecideAbort ==
    ASSUME OnThreads, TypeInv, SharedInv, NEW s \in Stmts, DecideAbort(s)
    PROVE  SharedInv'
  <1> DEFINE k == calls[s]
             K == calls'[s]
  <1>1. /\ k.pc = "discard" /\ GoTo(s, "aborting") /\ conn' = conn /\ be' = be /\ wire' = wire
        /\ cs' = cs /\ Engaged(s) /\ ~HasRbPoint
    BY DEF DecideAbort
  <1>2. /\ s \in Threads /\ cs = s /\ wire[s] = << >> /\ Asked(k) /\ Basis(conn, be) /\ TypeOK
        /\ Locked(k, conn) /\ Aware(conn, be) /\ k.err /\ be.st = "E" /\ Kept(conn, be)
    BY <1>1, Discarding
  <1>3. /\ K.pc = "aborting" /\ Asks(K, k) /\ K.err = k.err /\ K.lock = k.lock
        /\ \A u \in Threads \ {s} : calls'[u] = calls[u] /\ wire'[u] = wire[u]
    BY <1>1, <1>2 DEF GoTo, TypeOK, CallRec, Asks
  <1> HIDE DEF K
  <1>4. be.work = << >> /\ conn.inTrans
    BY <1>1, <1>2 DEF HasRbPoint, Kept, Saved, First, Aware, InBlock
  <1>5. Stage(K, wire'[s], conn', be') /\ K.pc \in Inner
    BY <1>1, <1>2, <1>3, <1>4, StageBy DEF Locked
  <1> QED BY <1>1, <1>2, <1>3, <1>5, SharedAdvance DEF K

\* Abort: ROLLBACK of a transaction that holds nothing else.
LEMMA SharedAbort ==
    ASSUME TypeInv, SharedInv, NEW s \in Stmts, Abort(s)
    PROVE  SharedInv'
  <1> DEFINE k == calls[s]
             K == calls'[s]
  <1>1. k.pc = "aborting" /\ conn' = conn /\ be' = be
    BY DEF Abort
  <1>2. s \in Threads /\ s # Dbc /\ k.pc \notin {PcIdle, "exec"}
    BY <1>1, CoreAssumption DEF Threads, PcIdle
  <1>3. /\ cs = s /\ Stage(k, wire[s], conn, be) /\ Asked(k)
        /\ Basis(conn, be) /\ k \in CallRec /\ TypeOK
    BY <1>2, Inside
  <1>4. k.lock /\ k.err /\ conn.inTrans /\ be.st = "E" /\ be.work = << >>
    BY <1>1, <1>3, StageAt
  <1>5. cs' = s /\ Send(s, "abort", <<Cmd("ROLLBACK")>>)
    BY <1>3 DEF Abort, Basis, Coherent
  <1>6. /\ K.pc = "abort" /\ Asks(K, k) /\ K.err = k.err /\ K.lock = k.lock
        /\ wire'[s] = <<Cmd("ROLLBACK")>>
        /\ \A u \in Threads \ {s} : calls'[u] = calls[u] /\ wire'[u] = wire[u]
    BY <1>2, <1>3, <1>5 DEF Send, TypeOK, CallRec, Asks
  <1> HIDE DEF K
  <1>7. ThenAbort(K, wire'[s], conn', be')
    BY <1>1, <1>4, <1>6 DEF ThenAbort
  <1>8. Stage(K, wire'[s], conn', be') /\ K.pc \in Inner
    BY <1>6, <1>7, StageBy
  <1> QED BY <1>1, <1>3, <1>5, <1>6, <1>8, SharedAdvance DEF K

\* AbortDone: and its answer.
LEMMA SharedAbortDone ==
    ASSUME TypeInv, SharedInv, NEW s \in Stmts, AbortDone(s)
    PROVE  SharedInv'
  <1> DEFINE k == calls[s]
             K == calls'[s]
  <1>1. /\ k.pc = "abort" /\ wire[s] = << >> /\ conn' = conn /\ be' = be
        /\ wire' = wire /\ LeaveCs(s) /\ GoTo(s, "sync")
    BY DEF AbortDone, Answered
  <1>2. s \in Threads /\ s # Dbc /\ k.pc \notin {PcIdle, "exec"}
    BY <1>1, CoreAssumption DEF Threads, PcIdle
  <1>3. /\ cs = s /\ Stage(k, wire[s], conn, be) /\ Asked(k)
        /\ Basis(conn, be) /\ k \in CallRec /\ TypeOK
    BY <1>2, Inside
  <1>4. k.lock /\ k.err /\ conn.inTrans /\ be.st = "I"
    <2>1. ThenAbort(k, wire[s], conn, be)
      BY <1>1, <1>3, StageAt
    <2>2. \A a : <<a>> # << >>
      OBVIOUS
    <2> QED BY <1>1, <2>1, <2>2 DEF ThenAbort
  <1>5. cs' = s
    BY <1>1, <1>4 DEF LeaveCs
  <1>6. /\ K.pc = "sync" /\ Asks(K, k) /\ K.err = k.err /\ K.lock = k.lock
        /\ \A u \in Threads \ {s} : calls'[u] = calls[u] /\ wire'[u] = wire[u]
    BY <1>1, <1>2, <1>3 DEF GoTo, TypeOK, CallRec, Asks
  <1> HIDE DEF K
  <1>7. Stage(K, wire'[s], conn', be') /\ K.pc \in Inner
    BY <1>1, <1>4, <1>6, StageBy
  <1> QED BY <1>1, <1>3, <1>5, <1>6, <1>7, SharedAdvance DEF K

\* Sync: the status after it.
LEMMA SharedSync ==
    ASSUME TypeInv, SharedInv, NEW s \in Stmts, Sync(s)
    PROVE  SharedInv'
  <1> DEFINE k == calls[s]
             K == calls'[s]
             d == conn'
  <1>1. /\ k.pc = "sync" /\ conn' = StatusCopied(s) /\ be' = be /\ wire' = wire /\ cs' = cs
    BY DEF Sync
  <1>2. s \in Threads /\ s # Dbc /\ k.pc \notin {PcIdle, "exec"}
    BY <1>1, CoreAssumption DEF Threads, PcIdle
  <1>3. /\ cs = s /\ Stage(k, wire[s], conn, be) /\ Asked(k)
        /\ StatusCopied(s) = UpdateTransactionStatus(conn, be.st)
        /\ Basis(conn, be) /\ conn \in Conn /\ be.st \in Stats /\ k \in CallRec /\ TypeOK
    BY <1>2, Inside
  <1>4. wire[s] = << >> /\ k.lock /\ k.err /\ be.st = "I"
    BY <1>1, <1>3, StageAt
  <1>5. Basis(d, be) /\ Aware(d, be)
    BY <1>1, <1>3, CopiedBasis
  <1>6. GoTo(s, "end")
    BY <1>3, DataAsked DEF Sync
  <1>7. /\ K.pc = "end" /\ Asks(K, k) /\ K.err = k.err /\ K.lock = k.lock
        /\ \A u \in Threads \ {s} : calls'[u] = calls[u] /\ wire'[u] = wire[u]
    BY <1>1, <1>2, <1>3, <1>6 DEF GoTo, TypeOK, CallRec, Asks
  <1> HIDE DEF K, d
  <1>8. ThenEnd(K, wire'[s], d, be)
    BY <1>1, <1>4, <1>5, <1>7 DEF ThenEnd, Remembers, Basis
  <1>9. Stage(K, wire'[s], d, be) /\ K.pc \in Inner
    BY <1>7, <1>8, StageBy
  <1> QED BY <1>1, <1>3, <1>5, <1>7, <1>9, SharedAdvance DEF K, d

\* EndCall: the statement returns and leaves the critical section.
LEMMA SharedEndCall ==
    ASSUME TypeInv, SharedInv, NEW s \in Stmts, EndCall(s)
    PROVE  SharedInv'
  <1> DEFINE k == calls[s]
             c == IF ~k.err /\ conn.accessed
                  THEN [conn EXCEPT !.optPrev = conn.optIn, !.optIn = TRUE] ELSE conn
             d == conn'
  <1>1. /\ k.pc = "end" /\ d = StartStmt(c) /\ be' = be /\ wire' = wire
        /\ calls' = [calls EXCEPT ![s] = Idle] /\ cs' = IF k.lock THEN NoOne ELSE cs
    BY DEF EndCall
  <1>2. s \in Threads /\ s # Dbc /\ k.pc \notin {PcIdle, "exec"}
    BY <1>1, CoreAssumption DEF Threads, PcIdle
  <1>3. /\ cs = s /\ Stage(k, wire[s], conn, be)
        /\ Basis(conn, be) /\ conn \in Conn
    BY <1>2, Inside
  <1>4. /\ wire[s] = << >> /\ k.lock /\ Aware(conn, be) /\ be.st # "E"
        /\ IF k.err THEN Remembers(conn, be) ELSE conn.accessed /\ ~conn.optIn
    BY <1>1, <1>3, StageAt DEF ThenEnd
  <1>5. c \in Conn /\ Alike(c, conn) /\ Remembers(c, be)
    <2>1. CASE k.err
      BY <1>3, <1>4, <2>1 DEF Alike
    <2>2. CASE ~k.err
      <3>1. c = [conn EXCEPT !.optPrev = conn.optIn, !.optIn = TRUE]
        BY <1>4, <2>2
      <3> HIDE DEF c
      <3> QED BY <1>3, <1>4, <2>2, <3>1 DEF Conn, Alike, Remembers
    <2> QED BY <2>1, <2>2
  <1> HIDE DEF c
  <1>6. Alike(d, c) /\ Clear(d) /\ d.optPrev = c.optPrev
    BY <1>1, <1>5 DEF StartStmt, Conn, Alike, Clear
  <1>7. Basis(d, be) /\ Aware(d, be)
    BY <1>3, <1>4, <1>5, <1>6, AlikeBasis
  <1> HIDE DEF d
  <1>8. Quiet(d, be)
    BY <1>4, <1>5, <1>6, <1>7 DEF Quiet, Sound, Remembers
  <1> QED BY <1>1, <1>2, <1>3, <1>4, <1>7, <1>8, SharedReturn DEF d

\* EndTran: COMMIT or ROLLBACK on the connection handle.
LEMMA SharedEndTran ==
    ASSUME TypeInv, SharedInv, NEW k, EndTran(k)
    PROVE  SharedInv'
  <1> DEFINE K == calls'[Dbc]
             m == <<Cmd(IF k = "commit" THEN "COMMIT" ELSE "ROLLBACK")>>
  <1>1. /\ cs = NoOne /\ conn.inTrans /\ cs' = Dbc /\ conn' = conn /\ be' = be
        /\ wire' = [wire EXCEPT ![Dbc] = m]
        /\ \E b, c : calls' = [calls EXCEPT ![Dbc] = [Idle EXCEPT !.pc = "endtran", !.kind = k,
                                                        !.cmd = c, !.before = b]]
    BY DEF EndTran
  <1>2. Dbc \in Threads /\ TypeOK
    BY DEF Threads, TypeInv
  <1>3. /\ K.pc = "endtran" /\ wire'[Dbc] = m
        /\ \A u \in Threads \ {Dbc} : calls'[u] = calls[u] /\ wire'[u] = wire[u]
    <2>1. PICK b, c : calls' = [calls EXCEPT ![Dbc] = [Idle EXCEPT !.pc = "endtran", !.kind = k,
                                                         !.cmd = c, !.before = b]]
      BY <1>1
    <2>2. [Idle EXCEPT !.pc = "endtran", !.kind = k, !.cmd = c, !.before = b].pc = "endtran"
      BY DEF Idle
    <2> HIDE DEF m
    <2> QED BY <1>1, <1>2, <2>1, <2>2 DEF TypeOK
  <1> HIDE DEF K
  <1>4. Basis(conn, be) /\ Quiet(conn, be)
    BY <1>1 DEF SharedInv
  <1>5. Clear(conn) /\ Open(be)
    BY <1>1, <1>4 DEF Quiet, Sound, Aware, InBlock, Open
  <1>6. ThenEndTran(wire'[Dbc], conn', be')
    BY <1>1, <1>3, <1>5 DEF ThenEndTran
  <1>7. Stage(K, wire'[Dbc], conn', be')
    BY <1>3, <1>6 DEF Stage
  <1>8. Turn(Dbc, K, wire'[Dbc], cs' = Dbc)
    BY <1>1, <1>3 DEF Turn, PcIdle
  <1> QED BY <1>1, <1>2, <1>3, <1>4, <1>7, <1>8, SharedMove DEF K

\* EndTranDone: and its answer.
LEMMA SharedEndTranDone ==
    ASSUME TypeInv, SharedInv, EndTranDone
    PROVE  SharedInv'
  <1> DEFINE k == calls[Dbc]
             c == UpdateTransactionStatus(conn, be.st)
             d == conn'
  <1>1. /\ k.pc = "endtran" /\ wire[Dbc] = << >> /\ be' = be /\ wire' = wire /\ cs' = NoOne
        /\ d = (IF k.fail THEN OnTransEnd(StatusCopied(Dbc)) ELSE StatusCopied(Dbc))
        /\ calls' = [calls EXCEPT ![Dbc] = Idle]
    BY DEF EndTranDone, Answered
  <1>2. Dbc \in Threads /\ k.pc \notin {PcIdle, "exec"}
    BY <1>1 DEF Threads, PcIdle
  <1>3. /\ cs = Dbc /\ Stage(k, wire[Dbc], conn, be) /\ StatusCopied(Dbc) = c
        /\ Basis(conn, be) /\ conn \in Conn /\ be.st \in Stats
    BY <1>2, Inside
  <1>4. Clear(conn) /\ be.st = "I"
    <2>1. ThenEndTran(wire[Dbc], conn, be)
      BY <1>1, <1>3, StageAt
    <2>2. \A a : <<a>> # << >>
      OBVIOUS
    <2> QED BY <1>1, <2>1, <2>2 DEF ThenEndTran
  <1>5. c \in Conn /\ Basis(c, be) /\ Aware(c, be) /\ Clear(c)
    BY <1>3, <1>4, CopiedBasis
  <1> HIDE DEF c
  <1>6. LET e == OnTransEnd(c) IN Basis(e, be) /\ Aware(e, be) /\ Clear(e)
    <2> DEFINE e == OnTransEnd(c)
    <2>1. /\ e.autocommit = c.autocommit /\ e.up = c.up
          /\ ~e.inTrans /\ ~e.inError /\ ~e.manual /\ ~e.svp /\ Clear(e)
      BY <1>5, EndedFlags DEF Basis, Coherent
    <2>2. e.cursors = {}
      <3> DEFINE f == StartStmt(SvpInit(LeaveTrans(c)))
      <3>1. f \in Conn
        BY <1>5, ConnTypes
      <3> HIDE DEF f
      <3>2. [f EXCEPT !.cursors = {}].cursors = {}
        BY <3>1 DEF Conn
      <3> QED BY <3>2 DEF OnTransEnd, f
    <2> HIDE DEF e
    <2>3. Basis(e, be) /\ Aware(e, be) /\ Clear(e)
      BY <1>4, <1>5, <2>1, <2>2 DEF Basis, Coherent, Aware, InBlock
    <2> QED BY <2>3 DEF e
  <1>7. Basis(d, be) /\ Aware(d, be) /\ Clear(d)
    BY <1>1, <1>3, <1>5, <1>6
  <1> HIDE DEF d
  <1>8. Quiet(d, be)
    BY <1>4, <1>7 DEF Quiet, Sound, Remembers, Basis
  <1> QED BY <1>1, <1>2, <1>3, <1>7, <1>8, SharedReturn DEF d

\* Call: a statement begins, while another may be inside the critical section.
LEMMA SharedCall ==
    ASSUME OnThreads, TypeInv, SharedInv, NEW s \in Stmts, Call(s)
    PROVE  SharedInv'
  <1> DEFINE K == calls'[s]
  <1>1. /\ calls[s].pc = PcIdle /\ conn' = conn /\ be' = be /\ wire' = wire /\ cs' = cs
    BY DEF Call, MayCall
  <1>2. s \in Threads /\ s # Dbc /\ s # NoOne
    BY CoreAssumption DEF Threads
  <1>o. PICK o \in Ops : \E cmd \in BodyOf(o.kind) :
            \E e \in (IF o.kind = "local" THEN BOOLEAN ELSE {FALSE}) :
              calls' = [calls EXCEPT ![s] =
                 [Idle EXCEPT !.pc = IF o.kind = "local" THEN "discard" ELSE "exec",
                              !.kind = o.kind, !.prot = o.prot, !.cmd = cmd,
                              !.err = e, !.before = be]]
    BY DEF Call
  <1>3. PICK cmd \in BodyOf(o.kind) :
          calls' = [calls EXCEPT ![s] =
                 [Idle EXCEPT !.pc = "exec", !.kind = o.kind, !.prot = o.prot, !.cmd = cmd,
                              !.err = FALSE, !.before = be]]
    <2>1. o.kind # "local"
      BY DEF OnThreads, DataOnly
    <2> QED BY <1>o, <2>1
  <1>4. o.kind \in DataOnly /\ cmd.c = IF o.kind = "write" THEN "WRITE" ELSE "READ"
    <2>1. o.kind \in DataOnly
      BY DEF OnThreads
    <2>2. /\ BodyOf("write") = {WriteCmd(w) : w \in {writes + 1} \cap Writes}
          /\ BodyOf("read") = {Cmd("READ")}
      BY DEF BodyOf
    <2>3. o.kind = "write" => cmd.c = "WRITE"
      <3>1. \A w : WriteCmd(w).c = "WRITE"
        BY DEF WriteCmd
      <3> QED BY <2>2, <3>1
    <2>4. o.kind = "read" => cmd.c = "READ"
      <3>1. Cmd("READ").c = "READ"
        BY DEF Cmd
      <3> QED BY <2>2, <3>1
    <2> QED BY <2>1, <2>3, <2>4 DEF DataOnly
  <1>5. /\ K.pc = "exec" /\ K.kind = o.kind /\ K.cmd = cmd /\ ~K.err /\ ~K.lock
        /\ \A u \in Threads \ {s} : calls'[u] = calls[u]
    <2>1. /\ K = [Idle EXCEPT !.pc = "exec", !.kind = o.kind, !.prot = o.prot, !.cmd = cmd,
                              !.err = FALSE, !.before = be]
          /\ \A u \in Threads \ {s} : calls'[u] = calls[u]
      BY <1>2, <1>3 DEF TypeInv, TypeOK
    <2> HIDE DEF K
    <2> QED BY <2>1 DEF Idle
  <1> HIDE DEF K
  <1>6. /\ \A u \in Threads : Turn(u, calls[u], wire[u], cs = u)
        /\ Basis(conn, be) /\ (cs = NoOne => Quiet(conn, be))
        /\ \A u \in Threads : cs = u => Stage(calls[u], wire[u], conn, be)
    BY DEF SharedInv
  <1>7. cs # s /\ wire[s] = << >>
    <2>1. PcIdle \notin Inner
      BY DEF PcIdle, Inner
    <2> QED BY <1>1, <1>2, <1>6, <2>1 DEF Turn
  <1>8. Asked(K)
    BY <1>4, <1>5 DEF Asked
  <1>9. Turn(s, K, wire[s], FALSE)
    BY <1>2, <1>5, <1>7, <1>8 DEF Turn
  <1>10. \A u \in Threads : Turn(u, calls'[u], wire'[u], cs' = u)
    BY <1>1, <1>5, <1>6, <1>7, <1>9 DEF K
  <1>11. \A u \in Threads : cs' = u => Stage(calls'[u], wire'[u], conn', be')
    BY <1>1, <1>5, <1>6, <1>7
  <1> QED BY <1>1, <1>6, <1>10, <1>11 DEF SharedInv

\* What does not happen without cursors, with autocommit off on a connection that is up.
LEMMA SharedNever ==
    ASSUME OnThreads, TypeInv, SharedInv, NEW s \in Stmts
    PROVE  /\ ~Down(s) /\ ~PreCommit(s) /\ ~PreCommitDone(s) /\ ~PostCommit(s)
           /\ ~PostCommitDone(s) /\ ~CloseDone(s) /\ ~Close(s) /\ ~Reconnect(s)
           /\ ~SetAutocommit /\ ~SetAutocommitDone /\ \A t : ~Lose(t)
  <1>1. conn.up /\ conn.cursors = {} /\ ~conn.autocommit /\ conn \in Conn
    BY DEF SharedInv, Basis, Coherent, TypeInv, TypeOK
  <1>2. s \in Threads /\ s # Dbc /\ Dbc \in Threads
    BY CoreAssumption DEF Threads
  <1>3. ~Down(s) /\ ~Close(s) /\ ~Reconnect(s) /\ \A t : ~Lose(t)
    BY <1>1 DEF Down, Close, Reconnect, Lose, OnThreads
  <1>4. ~SetAutocommit
    BY <1>1 DEF SetAutocommit, OnThreads
  <1>5. calls[s].pc \notin {"precommit", "commit", "close"}
    BY <1>2, Inside DEF PcIdle, Inner
  <1>6. calls[Dbc].pc # "autocommit"
    BY <1>2, Inside DEF PcIdle
  <1>7. ~PreCommit(s) /\ ~PostCommit(s)
    BY <1>1 DEF PreCommit, PostCommit, CommitsFirst, CommitsAfter, DoesAutocommit
  <1> QED BY <1>3, <1>4, <1>5, <1>6, <1>7
     DEF PreCommitDone, PostCommitDone, CloseDone, SetAutocommitDone, Answered

-----------------------------------------------------------------------------
(* Several threads: the server's answers.                                  *)

\* An answer changes the call it is for and no other.
LEMMA ReplyShape ==
    ASSUME TypeInv, SharedInv, NEW t \in Threads, Reply(t)
    PROVE  LET k == calls[t]
               K == calls'[t]
           IN  /\ k.pc \notin {PcIdle, "exec"} /\ cs' = cs
               /\ \A u \in Threads \ {t} : calls'[u] = calls[u] /\ wire'[u] = wire[u]
               /\ Asks(K, k) /\ K.pc = k.pc /\ K.err = k.err /\ K.lock = k.lock
               /\ \E o \in Outcomes(be, Head(wire[t])) :
                    /\ be' = o.be
                    /\ IF o.tag = "ERROR"
                       THEN wire'[t] = << >> /\ K.fail /\ conn' = HandleError(conn)
                       ELSE /\ wire'[t] = Tail(wire[t]) /\ K = k
                            /\ conn' = IF Queried(t) THEN HandleTag(conn, o.tag) ELSE conn
  <1> DEFINE k == calls[t]
             K == calls'[t]
  <1>1. /\ calls \in [Threads -> CallRec] /\ wire \in [Threads -> Seq(Command)] /\ k \in CallRec
        /\ wire[t] # << >> /\ cs' = cs
    BY DEF TypeInv, TypeOK, Reply
  <1>2. k.pc \notin {PcIdle, "exec"}
    <2>1. Turn(t, k, wire[t], cs = t)
      BY DEF SharedInv
    <2> QED BY <1>1, <2>1 DEF Turn
  <1>3. PICK o \in Outcomes(be, Head(wire[t])) :
         /\ be' = o.be
         /\ IF o.tag = "ERROR"
            THEN /\ wire' = [wire EXCEPT ![t] = << >>]
                 /\ calls' = [calls EXCEPT ![t].fail = TRUE]
                 /\ conn' = HandleError(conn)
            ELSE /\ wire' = [wire EXCEPT ![t] = Tail(wire[t])]
                 /\ conn' = IF Queried(t) THEN HandleTag(conn, o.tag) ELSE conn
                 /\ calls' = calls
    BY DEF Reply
  <1>4. CASE o.tag = "ERROR"
    <2>1. /\ K = [k EXCEPT !.fail = TRUE] /\ wire'[t] = << >>
          /\ \A u \in Threads \ {t} : calls'[u] = calls[u] /\ wire'[u] = wire[u]
      BY <1>1, <1>3, <1>4
    <2>2. Asks(K, k) /\ K.pc = k.pc /\ K.err = k.err /\ K.lock = k.lock /\ K.fail
      BY <1>1, <2>1 DEF CallRec, Asks
    <2> HIDE DEF K
    <2> QED BY <1>1, <1>2, <1>3, <1>4, <2>1, <2>2 DEF K
  <1>5. CASE o.tag # "ERROR"
    <2>1. /\ K = k /\ wire'[t] = Tail(wire[t])
          /\ \A u \in Threads \ {t} : calls'[u] = calls[u] /\ wire'[u] = wire[u]
      BY <1>1, <1>3, <1>5
    <2> HIDE DEF K
    <2> QED BY <1>1, <1>2, <1>3, <1>5, <2>1 DEF Asks, K
  <1> QED BY <1>4, <1>5

\* BEGIN opens a transaction,
LEMMA AfterBegin ==
    ASSUME NEW c \in Conn, NEW x \in Session, Basis(c, x), Aware(c, x), x.st = "I",
           NEW o \in Outcomes(x, Cmd("BEGIN"))
    PROVE  LET d == HandleTag(c, o.tag)
           IN  /\ o.tag # "ERROR" /\ Basis(d, o.be) /\ Aware(d, o.be)
               /\ Open(o.be) /\ o.be.work = << >>
               /\ d.rbpoint = c.rbpoint /\ d.accessed = c.accessed /\ d.optIn = c.optIn
  <1> DEFINE d == HandleTag(c, o.tag)
  <1>1. Cmd("BEGIN").c = "BEGIN"
    BY DEF Cmd
  <1>2. o.tag = "BEGIN" /\ o.be.st = "T" /\ o.be.work = x.work
    BY <1>1, BodyOutcome, BeginKeepsWork
  <1>3. /\ d.autocommit = c.autocommit /\ d.up = c.up /\ d.accessed = c.accessed
        /\ d.cursors = c.cursors /\ d.manual = c.manual /\ d.inTrans /\ d.inError = c.inError
        /\ d.rbpoint = c.rbpoint /\ d.svp = c.svp /\ d.optIn = c.optIn
    BY <1>2, TagFlags, TagRest
  <1> HIDE DEF d
  <1>4. ~c.inTrans /\ ~c.inError /\ ~c.svp /\ ~c.manual /\ c.up /\ x.work = << >>
    BY DEF Basis, Coherent, Aware, InBlock
  <1>5. Basis(d, o.be) /\ Aware(d, o.be) /\ Open(o.be)
    BY <1>2, <1>3, <1>4 DEF Basis, Coherent, Aware, InBlock, Open
  <1> QED BY <1>2, <1>3, <1>4, <1>5 DEF d

\* RELEASE drops the internal savepoint,
LEMMA AfterRelease ==
    ASSUME NEW c \in Conn, NEW x \in Session, Basis(c, x), Aware(c, x), Open(x), c.svp,
           NEW o \in Outcomes(x, SvpCmd("RELEASE", Internal))
    PROVE  LET d == HandleTag(c, o.tag)
           IN  /\ o.tag # "ERROR" /\ Basis(d, o.be) /\ Aware(d, o.be) /\ Open(o.be)
               /\ d.op = c.op /\ d.accessed = c.accessed /\ d.optIn = c.optIn
               /\ d.optPrev = c.optPrev
  <1> DEFINE d == HandleTag(c, o.tag)
  <1>1. Marked(x) /\ x.st = "T" /\ c.up /\ c.inTrans /\ ~c.inError
    BY DEF Basis, Coherent, InBlock, Aware, Open
  <1>2. o.tag = "RELEASE" /\ o.be.st = "T"
    BY <1>1, ReleaseMarked
  <1>3. /\ d.autocommit = c.autocommit /\ d.up = c.up /\ d.accessed = c.accessed
        /\ d.cursors = c.cursors /\ d.manual = c.manual /\ d.inTrans = c.inTrans
        /\ d.inError = c.inError /\ ~d.svp /\ d.optIn = c.optIn /\ d.optPrev = c.optPrev
        /\ d.op = c.op
    BY <1>2, TagFlags, TagRest
  <1> HIDE DEF d
  <1>4. Basis(d, o.be) /\ Aware(d, o.be) /\ Open(o.be)
    BY <1>1, <1>2, <1>3 DEF Basis, Coherent, Aware, InBlock, Open
  <1> QED BY <1>2, <1>3, <1>4 DEF d

\* SAVEPOINT makes one that marks all the work,
LEMMA AfterSavepoint ==
    ASSUME NEW c \in Conn, NEW x \in Session, Basis(c, x), Aware(c, x), Open(x),
           c.op = "savepoint", ~c.optPrev,
           NEW o \in Outcomes(x, SvpCmd("SAVEPOINT", Internal))
    PROVE  LET d == HandleTag(c, o.tag)
           IN  /\ o.tag # "ERROR" /\ Basis(d, o.be) /\ Aware(d, o.be) /\ Open(o.be)
               /\ Saved(d, o.be) /\ d.accessed = c.accessed /\ d.optIn = c.optIn
  <1> DEFINE d == HandleTag(c, o.tag)
  <1>1. x.st = "T" /\ c.up /\ c.inTrans /\ ~c.inError
    BY DEF Basis, Coherent, InBlock, Aware, Open
  <1>2. o.tag = "SAVEPOINT" /\ o.be.st = "T" /\ Marked(o.be) /\ TopMarks(o.be)
    BY <1>1, SavepointMarks, SavepointTops
  <1>3. /\ d.autocommit = c.autocommit /\ d.up = c.up /\ d.accessed = c.accessed
        /\ d.cursors = c.cursors /\ d.manual = c.manual /\ d.inTrans = c.inTrans
        /\ d.inError = c.inError /\ d.svp /\ d.rbpoint /\ d.optIn = c.optIn
        /\ d.optPrev = c.optPrev
    <2>1. /\ d.autocommit = c.autocommit /\ d.up = c.up /\ d.accessed = c.accessed
          /\ d.cursors = c.cursors /\ d.manual = c.manual /\ d.inTrans = c.inTrans
          /\ d.inError = c.inError
      BY <1>2, TagFlags
    <2>2. d.svp /\ d.rbpoint /\ d.optIn = c.optIn /\ d.optPrev = c.optPrev
      BY <1>2, TagRest
    <2> QED BY <2>1, <2>2
  <1> HIDE DEF d
  <1>4. Basis(d, o.be) /\ Aware(d, o.be) /\ Open(o.be) /\ Saved(d, o.be)
    BY <1>1, <1>2, <1>3 DEF Basis, Coherent, Aware, InBlock, Open, Saved
  <1> QED BY <1>2, <1>3, <1>4 DEF d

\* and a statement fails the transaction with all it holds, or goes on with it.
LEMMA AfterBody ==
    ASSUME NEW c \in Conn, NEW x \in Session, Basis(c, x), Aware(c, x), Open(x),
           NEW cmd, cmd.c \in {"WRITE", "READ"}, NEW o \in Outcomes(x, cmd)
    PROVE  IF o.tag = "ERROR"
           THEN LET d == HandleError(c)
                IN  /\ Basis(d, o.be) /\ Aware(d, o.be) /\ o.be.st = "E"
                    /\ Kept(c, x) => Kept(d, o.be)
                    /\ d.accessed = c.accessed /\ d.optIn = c.optIn
           ELSE HandleTag(c, o.tag) = c /\ Basis(c, o.be) /\ Aware(c, o.be) /\ Open(o.be)
  <1>1. x.st = "T" /\ c.up /\ c.inTrans /\ ~c.inError /\ (c.svp => Marked(x))
    BY DEF Basis, Coherent, InBlock, Aware, Open
  <1>2. /\ o.be.svps = x.svps
        /\ \/ o.tag = "ERROR" /\ o.be.st = "E"
           \/ o.tag = cmd.c /\ o.be.st = "T"
    BY <1>1, BodyOutcome
  <1>3. CASE o.tag = "ERROR"
    <2> DEFINE d == HandleError(c)
    <2>1. /\ d.inTrans /\ d.inError /\ d.autocommit = c.autocommit /\ d.up = c.up
          /\ SameTrans(d, c) /\ d.optIn = c.optIn /\ d.optPrev = c.optPrev
      BY <1>1, ErrorFlags, ErrorRest
    <2>2. o.be.work = x.work
      <3>1. o = Failed(x)
        <4>1. CASE cmd.c = "WRITE"
          <5>1. o \in OnWrite(x, cmd.w)
            BY <1>1, <4>1 DEF Outcomes
          <5>2. \A b : Answer(b, "WRITE").tag # "ERROR"
            BY AnswerFields
          <5> QED BY <1>3, <5>1, <5>2 DEF OnWrite
        <4>2. CASE cmd.c = "READ"
          <5>1. o \in OnRead(x)
            BY <1>1, <4>2 DEF Outcomes
          <5>2. Answer(x, "READ").tag # "ERROR"
            BY AnswerFields
          <5> QED BY <1>3, <5>1, <5>2 DEF OnRead
        <4> QED BY <4>1, <4>2
      <3> QED BY <3>1, FailedKeepsWork
    <2> HIDE DEF d
    <2>3. o.be.st = "E"
      BY <1>2, <1>3
    <2>4. Marked(o.be) = Marked(x)
      BY <1>2 DEF Marked, Places
    <2>5. Basis(d, o.be) /\ Aware(d, o.be)
      BY <1>1, <2>1, <2>3, <2>4 DEF Basis, Coherent, Aware, InBlock, SameTrans
    <2>6. Kept(c, x) => Kept(d, o.be)
      BY <1>2, <2>1, <2>2 DEF Kept, Saved, First, TopMarks, SameTrans
    <2> QED BY <1>3, <2>1, <2>3, <2>5, <2>6 DEF SameTrans, d
  <1>4. CASE o.tag # "ERROR"
    <2>1. o.tag \in {"WRITE", "READ"} /\ o.be.st = "T"
      BY <1>2, <1>4
    <2>2. HandleTag(c, o.tag) = c
      BY <2>1, TagFlags
    <2>3. Marked(o.be) = Marked(x)
      BY <1>2 DEF Marked, Places
    <2>4. Basis(c, o.be) /\ Aware(c, o.be) /\ Open(o.be)
      BY <1>1, <2>1, <2>3 DEF Basis, Coherent, Aware, InBlock, Open
    <2> QED BY <1>4, <2>2, <2>4
  <1> QED BY <1>3, <1>4

\* ROLLBACK TO the savepoint that marks all the work opens the transaction again,
LEMMA AfterUndo ==
    ASSUME NEW c \in Conn, NEW x \in Session, Basis(c, x), x.st = "E", Saved(c, x), c.inTrans,
           NEW o \in Outcomes(x, SvpCmd("ROLLBACK TO", Internal))
    PROVE  /\ o.tag # "ERROR" /\ Basis(c, o.be) /\ Open(o.be) /\ Saved(c, o.be)
           /\ o.be.work = x.work
  <1>1. Marked(x) /\ TopMarks(x) /\ c.up
    BY DEF Basis, Coherent, InBlock, Saved
  <1>2. o.tag = "ROLLBACK" /\ o.be.st = "T" /\ Marked(o.be)
    BY <1>1, UndoMarked
  <1>3. o.be.work = x.work /\ TopMarks(o.be)
    BY <1>1, UndoKeepsWork
  <1> QED BY <1>1, <1>2, <1>3 DEF Basis, Coherent, InBlock, Saved, Open

\* and COMMIT or ROLLBACK ends it.
LEMMA AfterEnd ==
    ASSUME NEW c \in Conn, NEW x \in Session, Basis(c, x), x.st \in {"T", "E"}, c.inTrans,
           NEW cmd, cmd.c \in {"COMMIT", "ROLLBACK"}, NEW o \in Outcomes(x, cmd)
    PROVE  LET d == IF o.tag = "ERROR" THEN HandleError(c) ELSE HandleTag(c, o.tag)
           IN  /\ Basis(d, o.be) /\ d.inTrans /\ o.be.st = "I" /\ o.be.work = << >>
               /\ Clear(c) => Clear(d)
  <1> DEFINE d == IF o.tag = "ERROR" THEN HandleError(c) ELSE HandleTag(c, o.tag)
  <1>1. /\ o.be.st = "I" /\ o.tag \in {"COMMIT", "ROLLBACK", "ERROR"} /\ o.be.work = << >>
        /\ c.up
    BY EndOutcome, EndDropsWork DEF Basis, Coherent
  <1>2. /\ d.inTrans /\ d.up = c.up /\ d.autocommit = c.autocommit /\ d.cursors = c.cursors
        /\ d.accessed = c.accessed /\ d.rbpoint = c.rbpoint
    <2>1. CASE o.tag = "ERROR"
      <3>1. d = HandleError(c)
        BY <2>1
      <3> HIDE DEF d
      <3> QED BY <3>1, ErrorFlags DEF SameTrans
    <2>2. CASE o.tag = "ROLLBACK"
      <3>1. d = HandleTag(c, "ROLLBACK")
        BY <2>2
      <3> HIDE DEF d
      <3> QED BY <3>1, TagFlags
    <2>3. CASE o.tag = "COMMIT"
      <3>1. d = c
        BY <2>3, TagFlags
      <3> HIDE DEF d
      <3> QED BY <3>1
    <2> QED BY <1>1, <2>1, <2>2, <2>3
  <1> HIDE DEF d
  <1>3. Basis(d, o.be)
    BY <1>1, <1>2 DEF Basis, Coherent, InBlock
  <1>4. Clear(c) => Clear(d)
    BY <1>2 DEF Clear
  <1> QED BY <1>1, <1>2, <1>3, <1>4 DEF d

\* What an answer to a statement's call does, once its stage is known.
LEMMA ReplyAdvance ==
    ASSUME TypeInv, SharedInv, NEW s \in Stmts, Reply(s), Basis(conn', be'),
           Stage(calls'[s], wire'[s], conn', be')
    PROVE  SharedInv'
  <1>1. s \in Threads /\ s # Dbc
    BY CoreAssumption DEF Threads
  <1>2. /\ calls[s].pc \notin {PcIdle, "exec"} /\ cs' = cs /\ Asks(calls'[s], calls[s])
        /\ calls'[s].pc = calls[s].pc
        /\ \A u \in Threads \ {s} : calls'[u] = calls[u] /\ wire'[u] = wire[u]
    BY <1>1, ReplyShape
  <1>3. cs = s /\ calls[s].pc \in Inner /\ Asked(calls[s])
    BY <1>1, <1>2, Inside
  <1> QED BY <1>2, <1>3, SharedAdvance

\* Where an answer can arrive.
LEMMA ReplyAt ==
    ASSUME TypeInv, SharedInv, NEW s \in Stmts, Reply(s)
    PROVE  LET k == calls[s]
               K == calls'[s]
           IN  /\ k.pc \in {"begin", "svp", "main", "undo", "abort"}
               /\ Stage(k, wire[s], conn, be) /\ wire[s] # << >> /\ Asked(k)
               /\ Basis(conn, be) /\ conn \in Conn /\ be \in Session /\ k \in CallRec
               /\ Asks(K, k) /\ K.pc = k.pc /\ K.err = k.err /\ K.lock = k.lock
               /\ \E o \in Outcomes(be, Head(wire[s])) :
                    /\ be' = o.be
                    /\ IF o.tag = "ERROR"
                       THEN wire'[s] = << >> /\ K.fail /\ conn' = HandleError(conn)
                       ELSE /\ wire'[s] = Tail(wire[s]) /\ K = k
                            /\ conn' = IF Queried(s) THEN HandleTag(conn, o.tag) ELSE conn
  <1> DEFINE k == calls[s]
             K == calls'[s]
  <1>1. s \in Threads /\ s # Dbc /\ wire[s] # << >>
    BY CoreAssumption DEF Threads, Reply
  <1>2. /\ k.pc \notin {PcIdle, "exec"}
        /\ Asks(K, k) /\ K.pc = k.pc /\ K.err = k.err /\ K.lock = k.lock
        /\ \E o \in Outcomes(be, Head(wire[s])) :
             /\ be' = o.be
             /\ IF o.tag = "ERROR"
                THEN wire'[s] = << >> /\ K.fail /\ conn' = HandleError(conn)
                ELSE /\ wire'[s] = Tail(wire[s]) /\ K = k
                     /\ conn' = IF Queried(s) THEN HandleTag(conn, o.tag) ELSE conn
    BY <1>1, ReplyShape
  <1>3. /\ cs = s /\ k.pc \in Inner /\ Stage(k, wire[s], conn, be) /\ Asked(k)
        /\ Basis(conn, be) /\ conn \in Conn /\ be \in Session /\ k \in CallRec
    BY <1>1, <1>2, Inside
  <1>4. k.pc \in {"begin", "svp", "main", "undo", "abort"}
    BY <1>1, <1>3, StageAt DEF Inner, ThenReady, ThenDone, ThenEnd
  <1> QED BY <1>1, <1>2, <1>3, <1>4

\* and what it makes of the backend, the messages left and the connection.
LEMMA ReplyAnswer ==
    ASSUME TypeInv, SharedInv, NEW s \in Stmts, Reply(s), NEW m, Head(wire[s]) = m
    PROVE  \E o \in Outcomes(be, m) :
             /\ be' = o.be
             /\ IF o.tag = "ERROR"
                THEN wire'[s] = << >> /\ calls'[s].fail /\ conn' = HandleError(conn)
                ELSE /\ wire'[s] = Tail(wire[s]) /\ calls'[s] = calls[s]
                     /\ conn' = IF Queried(s) THEN HandleTag(conn, o.tag) ELSE conn
  BY ReplyAt

\* The answer to the BEGIN of CC_begin,
LEMMA SharedReplyBegin ==
    ASSUME TypeInv, SharedInv, NEW s \in Stmts, Reply(s), calls[s].pc = "begin"
    PROVE  SharedInv'
  <1> DEFINE k == calls[s]
             K == calls'[s]
  <1>1. ~k.err /\ k.prot = "ext" /\ ThenBegin(wire[s], conn, be) /\ wire[s] # << >>
    BY ReplyAt, StageAt
  <1>2. /\ wire[s] = <<Cmd("BEGIN")>> /\ Aware(conn, be) /\ be.st = "I" /\ Clear(conn)
        /\ Head(wire[s]) = Cmd("BEGIN") /\ Tail(wire[s]) = << >>
    BY <1>1, HeadTail DEF ThenBegin
  <1>3. Queried(s)
    BY DEF Queried
  <1>4. PICK o \in Outcomes(be, Cmd("BEGIN")) :
          /\ be' = o.be
          /\ o.tag # "ERROR" => wire'[s] = << >> /\ K = k /\ conn' = HandleTag(conn, o.tag)
    BY <1>2, <1>3, ReplyAnswer
  <1>5. /\ Basis(conn', be') /\ Aware(conn', be') /\ Open(be') /\ be'.work = << >>
        /\ conn'.rbpoint = conn.rbpoint /\ conn'.accessed = conn.accessed
        /\ wire'[s] = << >> /\ K = k
    <2>1. Basis(conn, be) /\ conn \in Conn /\ be \in Session
      BY ReplyAt
    <2>2. /\ o.tag # "ERROR" /\ Basis(HandleTag(conn, o.tag), o.be)
          /\ Aware(HandleTag(conn, o.tag), o.be) /\ Open(o.be) /\ o.be.work = << >>
          /\ HandleTag(conn, o.tag).rbpoint = conn.rbpoint
          /\ HandleTag(conn, o.tag).accessed = conn.accessed
      BY <1>2, <2>1, AfterBegin
    <2> HIDE DEF K
    <2> QED BY <1>4, <2>2
  <1> HIDE DEF K
  <1>6. ThenBegin(wire'[s], conn', be')
    BY <1>2, <1>5 DEF ThenBegin, Clear
  <1>7. Stage(K, wire'[s], conn', be')
    BY <1>1, <1>5, <1>6, StageBy
  <1> QED BY <1>5, <1>7, ReplyAdvance DEF K

\* to the savepoint that SetStatementSvp sends by itself,
LEMMA SharedReplySvp ==
    ASSUME TypeInv, SharedInv, NEW s \in Stmts, Reply(s), calls[s].pc = "svp"
    PROVE  SharedInv'
  <1> DEFINE k == calls[s]
             K == calls'[s]
             r == SvpCmd("RELEASE", Internal)
             v == SvpCmd("SAVEPOINT", Internal)
  <1>1. ~k.err /\ ThenSvp(k, wire[s], conn, be) /\ wire[s] # << >>
    BY ReplyAt, StageAt
  <1>2. /\ k.lock /\ ~conn.optIn /\ ~k.fail /\ Aware(conn, be) /\ Open(be)
        /\ conn.op = "savepoint" /\ ~conn.optPrev
        /\ (wire[s] = <<r, v>> /\ conn.svp) \/ wire[s] = <<v>>
    BY <1>1 DEF ThenSvp, Savepoints
  <1>3. Queried(s)
    BY DEF Queried
  <1> HIDE DEF r, v
  <1>4. CASE wire[s] = <<r, v>> /\ conn.svp
    <2>1. Head(wire[s]) = r /\ Tail(wire[s]) = <<v>>
      BY <1>4, HeadTail
    <2>2. PICK o \in Outcomes(be, r) :
            /\ be' = o.be
            /\ o.tag # "ERROR" => wire'[s] = <<v>> /\ K = k /\ conn' = HandleTag(conn, o.tag)
      BY <1>3, <2>1, ReplyAnswer
    <2>3. /\ Basis(conn', be') /\ Aware(conn', be') /\ Open(be') /\ conn'.op = conn.op
          /\ conn'.optIn = conn.optIn /\ conn'.optPrev = conn.optPrev
          /\ wire'[s] = <<v>> /\ K = k
      BY <1>2, <1>4, <2>2, AfterRelease, ReplyAt DEF r
    <2> HIDE DEF K
    <2>4. ThenSvp(K, wire'[s], conn', be')
      BY <1>2, <2>3 DEF ThenSvp, Savepoints, v
    <2>5. Stage(K, wire'[s], conn', be')
      BY <1>1, <2>3, <2>4, StageBy
    <2> QED BY <2>3, <2>5, ReplyAdvance DEF K
  <1>5. CASE wire[s] = <<v>>
    <2>1. Head(wire[s]) = v /\ Tail(wire[s]) = << >>
      BY <1>5, HeadTail
    <2>2. PICK o \in Outcomes(be, v) :
            /\ be' = o.be
            /\ o.tag # "ERROR" => wire'[s] = << >> /\ K = k /\ conn' = HandleTag(conn, o.tag)
      BY <1>3, <2>1, ReplyAnswer
    <2>3. /\ Basis(conn', be') /\ Aware(conn', be') /\ Open(be') /\ Saved(conn', be')
          /\ conn'.optIn = conn.optIn /\ wire'[s] = << >> /\ K = k
      BY <1>2, <2>2, AfterSavepoint, ReplyAt DEF v
    <2> HIDE DEF K
    <2>4. ThenSvp(K, wire'[s], conn', be')
      BY <1>2, <2>3 DEF ThenSvp
    <2>5. Stage(K, wire'[s], conn', be')
      BY <1>1, <2>3, <2>4, StageBy
    <2> QED BY <2>3, <2>5, ReplyAdvance DEF K
  <1> QED BY <1>2, <1>4, <1>5

\* to what CC_send_query_append puts before a statement,
LEMMA SharedReplyPrepended ==
    ASSUME TypeInv, SharedInv, NEW s \in Stmts, Reply(s), calls[s].pc = "main",
           wire[s] # <<calls[s].cmd>>
    PROVE  SharedInv'
  <1> DEFINE k == calls[s]
             K == calls'[s]
             r == SvpCmd("RELEASE", Internal)
             v == SvpCmd("SAVEPOINT", Internal)
  <1>0. Basis(conn, be) /\ conn \in Conn /\ be \in Session
    BY ReplyAt
  <1>1. ~k.err /\ ThenMain(k, wire[s], conn, be) /\ wire[s] # << >>
    BY ReplyAt, StageAt
  <1>2. /\ k.lock /\ conn.accessed /\ ~conn.optIn /\ ~k.fail /\ Aware(conn, be)
        /\ k.prot = "simple"
        /\ \/ wire[s] = <<Cmd("BEGIN"), k.cmd>> /\ be.st = "I" /\ First(conn, be)
           \/ /\ Open(be) /\ conn.op = "savepoint" /\ ~conn.optPrev
              /\ (wire[s] = <<r, v, k.cmd>> /\ conn.svp) \/ wire[s] = <<v, k.cmd>>
    BY <1>1 DEF ThenMain, Locked
  <1>3. Queried(s)
    BY <1>2 DEF Queried
  <1> HIDE DEF r, v
  <1>4. CASE wire[s] = <<Cmd("BEGIN"), k.cmd>> /\ be.st = "I" /\ First(conn, be)
    <2>1. Head(wire[s]) = Cmd("BEGIN") /\ Tail(wire[s]) = <<k.cmd>>
      BY <1>4, HeadTail
    <2>2. PICK o \in Outcomes(be, Cmd("BEGIN")) :
            /\ be' = o.be
            /\ o.tag # "ERROR" => wire'[s] = <<k.cmd>> /\ K = k /\ conn' = HandleTag(conn, o.tag)
      BY <1>3, <2>1, ReplyAnswer
    <2>3. /\ Basis(conn', be') /\ Aware(conn', be') /\ Open(be') /\ be'.work = << >>
          /\ conn'.rbpoint = conn.rbpoint /\ conn'.accessed = conn.accessed
          /\ conn'.optIn = conn.optIn /\ wire'[s] = <<k.cmd>> /\ K = k
      <3>1. /\ o.tag # "ERROR" /\ Basis(HandleTag(conn, o.tag), o.be)
            /\ Aware(HandleTag(conn, o.tag), o.be) /\ Open(o.be) /\ o.be.work = << >>
            /\ HandleTag(conn, o.tag).rbpoint = conn.rbpoint
            /\ HandleTag(conn, o.tag).accessed = conn.accessed
            /\ HandleTag(conn, o.tag).optIn = conn.optIn
        BY <1>0, <1>2, <1>4, <2>2, AfterBegin
      <3> HIDE DEF K
      <3> QED BY <2>2, <3>1
    <2> HIDE DEF K
    <2>4. Kept(conn', be') /\ Locked(K, conn')
      BY <1>2, <1>4, <2>3 DEF Kept, First, Locked
    <2>5. ThenMain(K, wire'[s], conn', be')
      BY <1>2, <2>3, <2>4 DEF ThenMain
    <2>6. Stage(K, wire'[s], conn', be')
      BY <1>1, <2>3, <2>5, StageBy
    <2> QED BY <2>3, <2>6, ReplyAdvance DEF K
  <1>5. CASE /\ Open(be) /\ conn.op = "savepoint" /\ ~conn.optPrev
             /\ wire[s] = <<r, v, k.cmd>> /\ conn.svp
    <2>1. Head(wire[s]) = r /\ Tail(wire[s]) = <<v, k.cmd>>
      BY <1>5, HeadTail
    <2>2. PICK o \in Outcomes(be, r) :
            /\ be' = o.be
            /\ o.tag # "ERROR" => /\ wire'[s] = <<v, k.cmd>> /\ K = k
                                  /\ conn' = HandleTag(conn, o.tag)
      BY <1>3, <2>1, ReplyAnswer
    <2>3. /\ Basis(conn', be') /\ Aware(conn', be') /\ Open(be') /\ conn'.op = conn.op
          /\ conn'.accessed = conn.accessed /\ conn'.optIn = conn.optIn
          /\ conn'.optPrev = conn.optPrev /\ wire'[s] = <<v, k.cmd>> /\ K = k
      <3>1. /\ o.tag # "ERROR" /\ Basis(HandleTag(conn, o.tag), o.be)
            /\ Aware(HandleTag(conn, o.tag), o.be) /\ Open(o.be)
            /\ HandleTag(conn, o.tag).op = conn.op
            /\ HandleTag(conn, o.tag).accessed = conn.accessed
            /\ HandleTag(conn, o.tag).optIn = conn.optIn
            /\ HandleTag(conn, o.tag).optPrev = conn.optPrev
        BY <1>0, <1>2, <1>5, <2>2, AfterRelease DEF r
      <3> HIDE DEF K
      <3> QED BY <2>2, <3>1
    <2> HIDE DEF K
    <2>4. Locked(K, conn') /\ conn'.op = "savepoint" /\ ~conn'.optPrev
      BY <1>2, <1>5, <2>3 DEF Locked
    <2>5. ThenMain(K, wire'[s], conn', be')
      BY <1>2, <2>3, <2>4 DEF ThenMain, v
    <2>6. Stage(K, wire'[s], conn', be')
      BY <1>1, <2>3, <2>5, StageBy
    <2> QED BY <2>3, <2>6, ReplyAdvance DEF K
  <1>6. CASE /\ Open(be) /\ conn.op = "savepoint" /\ ~conn.optPrev
             /\ wire[s] = <<v, k.cmd>>
    <2>1. Head(wire[s]) = v /\ Tail(wire[s]) = <<k.cmd>>
      BY <1>6, HeadTail
    <2>2. PICK o \in Outcomes(be, v) :
            /\ be' = o.be
            /\ o.tag # "ERROR" => wire'[s] = <<k.cmd>> /\ K = k /\ conn' = HandleTag(conn, o.tag)
      BY <1>3, <2>1, ReplyAnswer
    <2>3. /\ Basis(conn', be') /\ Aware(conn', be') /\ Open(be') /\ Saved(conn', be')
          /\ conn'.accessed = conn.accessed /\ conn'.optIn = conn.optIn
          /\ wire'[s] = <<k.cmd>> /\ K = k
      BY <1>0, <1>2, <1>6, <2>2, AfterSavepoint DEF v
    <2> HIDE DEF K
    <2>4. Kept(conn', be') /\ Locked(K, conn')
      BY <1>2, <2>3 DEF Kept, Locked
    <2>5. ThenMain(K, wire'[s], conn', be')
      BY <1>2, <2>3, <2>4 DEF ThenMain
    <2>6. Stage(K, wire'[s], conn', be')
      BY <1>1, <2>3, <2>5, StageBy
    <2> QED BY <2>3, <2>6, ReplyAdvance DEF K
  <1> QED BY <1>2, <1>4, <1>5, <1>6

\* to the statement itself,
LEMMA SharedReplyBody ==
    ASSUME TypeInv, SharedInv, NEW s \in Stmts, Reply(s), calls[s].pc = "main",
           wire[s] = <<calls[s].cmd>>
    PROVE  SharedInv'
  <1> DEFINE k == calls[s]
             K == calls'[s]
  <1>1. ~k.err /\ ThenMain(k, wire[s], conn, be) /\ k.cmd.c \in {"WRITE", "READ"}
    BY ReplyAt, StageAt, DataAsked
  <1>2. /\ k.lock /\ conn.accessed /\ ~conn.optIn /\ ~k.fail /\ Aware(conn, be)
        /\ Open(be) /\ Kept(conn, be)
    <2>1. \A a, b, c, d : <<a>> # << >> /\ <<a>> # <<b, c>> /\ <<a>> # <<b, c, d>>
      OBVIOUS
    <2> QED BY <1>1, <2>1 DEF ThenMain, Locked
  <1>3. Head(wire[s]) = k.cmd /\ Tail(wire[s]) = << >>
    BY HeadTail
  <1>4. /\ Asks(K, k) /\ K.pc = k.pc /\ K.err = k.err /\ K.lock = k.lock
        /\ Basis(conn, be) /\ conn \in Conn /\ be \in Session
    BY ReplyAt
  <1>5. PICK o \in Outcomes(be, k.cmd) :
          /\ be' = o.be
          /\ IF o.tag = "ERROR"
             THEN wire'[s] = << >> /\ K.fail /\ conn' = HandleError(conn)
             ELSE /\ wire'[s] = << >> /\ K = k
                  /\ conn' = IF Queried(s) THEN HandleTag(conn, o.tag) ELSE conn
    BY <1>3, ReplyAnswer
  <1> HIDE DEF K
  <1>6. /\ Basis(conn', be') /\ Aware(conn', be') /\ Locked(K, conn') /\ wire'[s] = << >>
        /\ (~K.fail /\ Open(be')) \/ (K.fail /\ be'.st = "E" /\ Kept(conn', be'))
    <2>1. CASE o.tag = "ERROR"
      BY <1>1, <1>2, <1>4, <1>5, <2>1, AfterBody DEF Locked
    <2>2. CASE o.tag # "ERROR"
      BY <1>1, <1>2, <1>4, <1>5, <2>2, AfterBody DEF Locked
    <2> QED BY <2>1, <2>2
  <1>7. ThenMain(K, wire'[s], conn', be')
    BY <1>6 DEF ThenMain
  <1>8. Stage(K, wire'[s], conn', be')
    BY <1>1, <1>4, <1>7, StageBy
  <1> QED BY <1>6, <1>8, ReplyAdvance DEF K

\* to the ROLLBACK TO of CC_internal_rollback, which takes nothing back,
LEMMA SharedReplyUndo ==
    ASSUME TypeInv, SharedInv, NEW s \in Stmts, Reply(s), calls[s].pc = "undo"
    PROVE  SharedInv' /\ be'.work = be.work
  <1> DEFINE k == calls[s]
             K == calls'[s]
             u == SvpCmd("ROLLBACK TO", Internal)
  <1>0. Basis(conn, be) /\ conn \in Conn /\ be \in Session
    BY ReplyAt
  <1>1. ThenUndo(k, wire[s], conn, be) /\ wire[s] # << >>
    BY ReplyAt, StageAt
  <1>2. /\ k.lock /\ k.err /\ Saved(conn, be) /\ conn.inTrans /\ wire[s] = <<u>> /\ be.st = "E"
    BY <1>1 DEF ThenUndo, UndoCmds
  <1>3. ~Queried(s)
    BY DEF Queried
  <1>4. Head(wire[s]) = u /\ Tail(wire[s]) = << >>
    BY <1>2, HeadTail
  <1> HIDE DEF u
  <1>5. PICK o \in Outcomes(be, u) :
          be' = o.be /\ (o.tag # "ERROR" => wire'[s] = << >> /\ K = k /\ conn' = conn)
    BY <1>3, <1>4, ReplyAnswer
  <1>6. /\ Basis(conn', be') /\ Open(be') /\ Saved(conn', be') /\ be'.work = be.work
        /\ wire'[s] = << >> /\ K = k /\ conn' = conn
    BY <1>0, <1>2, <1>5, AfterUndo DEF u
  <1> HIDE DEF K
  <1>7. ThenUndo(K, wire'[s], conn', be')
    BY <1>2, <1>6 DEF ThenUndo
  <1>8. Stage(K, wire'[s], conn', be')
    BY <1>6, <1>7, StageBy
  <1> QED BY <1>6, <1>8, ReplyAdvance DEF K

\* to the ROLLBACK of CC_abort, which finds no work of another call,
LEMMA SharedReplyAbort ==
    ASSUME TypeInv, SharedInv, NEW s \in Stmts, Reply(s), calls[s].pc = "abort"
    PROVE  SharedInv' /\ be'.work = be.work
  <1> DEFINE k == calls[s]
             K == calls'[s]
  <1>1. ThenAbort(k, wire[s], conn, be) /\ wire[s] # << >>
    BY ReplyAt, StageAt
  <1>2. /\ k.lock /\ k.err /\ conn.inTrans /\ be.st = "E" /\ be.work = << >>
        /\ wire[s] = <<Cmd("ROLLBACK")>>
    BY <1>1 DEF ThenAbort
  <1>3. Queried(s)
    BY DEF Queried
  <1>4. Head(wire[s]) = Cmd("ROLLBACK") /\ Tail(wire[s]) = << >> /\ Cmd("ROLLBACK").c = "ROLLBACK"
    BY <1>2, HeadTail DEF Cmd
  <1>5. PICK o \in Outcomes(be, Cmd("ROLLBACK")) :
          /\ be' = o.be /\ wire'[s] = << >>
          /\ conn' = IF o.tag = "ERROR" THEN HandleError(conn) ELSE HandleTag(conn, o.tag)
    BY <1>3, <1>4, ReplyAnswer
  <1>6. Basis(conn', be') /\ conn'.inTrans /\ be'.st = "I" /\ be'.work = << >>
    <2>1. Basis(conn, be) /\ conn \in Conn /\ be \in Session
      BY ReplyAt
    <2> HIDE DEF k, K
    <2> QED BY <1>2, <1>4, <1>5, <2>1, AfterEnd
  <1>7. K.pc = "abort" /\ K.lock /\ K.err
    BY <1>2, ReplyAt
  <1> HIDE DEF K
  <1>8. ThenAbort(K, wire'[s], conn', be')
    BY <1>5, <1>6, <1>7 DEF ThenAbort
  <1>9. Stage(K, wire'[s], conn', be')
    BY <1>7, <1>8, StageBy
  <1> QED BY <1>2, <1>6, <1>9, ReplyAdvance DEF K

\* and to SQLEndTran.
LEMMA SharedReplyDbc ==
    ASSUME TypeInv, SharedInv, Reply(Dbc)
    PROVE  SharedInv'
  <1> DEFINE k == calls[Dbc]
             K == calls'[Dbc]
  <1>1. Dbc \in Threads /\ wire[Dbc] # << >>
    BY DEF Threads, Reply
  <1>2. /\ k.pc \notin {PcIdle, "exec"} /\ cs' = cs /\ K.pc = k.pc
        /\ \A u \in Threads \ {Dbc} : calls'[u] = calls[u] /\ wire'[u] = wire[u]
        /\ \E o \in Outcomes(be, Head(wire[Dbc])) :
             /\ be' = o.be
             /\ IF o.tag = "ERROR"
                THEN wire'[Dbc] = << >> /\ K.fail /\ conn' = HandleError(conn)
                ELSE /\ wire'[Dbc] = Tail(wire[Dbc]) /\ K = k
                     /\ conn' = IF Queried(Dbc) THEN HandleTag(conn, o.tag) ELSE conn
    BY <1>1, ReplyShape
  <1>3. /\ cs = Dbc /\ k.pc = "endtran" /\ Stage(k, wire[Dbc], conn, be)
        /\ Basis(conn, be) /\ conn \in Conn /\ be \in Session
    BY <1>1, <1>2, Inside
  <1>4. /\ Clear(conn) /\ conn.inTrans /\ Open(be)
        /\ \E cmd : wire[Dbc] = <<cmd>> /\ cmd.c \in {"COMMIT", "ROLLBACK"}
    <2>1. ThenEndTran(wire[Dbc], conn, be)
      BY <1>3, StageAt
    <2> QED BY <1>1, <2>1 DEF ThenEndTran, Cmd
  <1>5. PICK cmd : wire[Dbc] = <<cmd>> /\ cmd.c \in {"COMMIT", "ROLLBACK"}
    BY <1>4
  <1>6. Head(wire[Dbc]) = cmd /\ Tail(wire[Dbc]) = << >> /\ Queried(Dbc)
    BY <1>3, <1>5, HeadTail DEF Queried
  <1>7. PICK o \in Outcomes(be, cmd) :
          /\ be' = o.be /\ wire'[Dbc] = << >>
          /\ conn' = IF o.tag = "ERROR" THEN HandleError(conn) ELSE HandleTag(conn, o.tag)
    BY <1>2, <1>6
  <1>8. Basis(conn', be') /\ conn'.inTrans /\ be'.st = "I" /\ Clear(conn')
    BY <1>3, <1>4, <1>5, <1>7, AfterEnd DEF Open
  <1> HIDE DEF K
  <1>9. ThenEndTran(wire'[Dbc], conn', be')
    BY <1>7, <1>8 DEF ThenEndTran
  <1>10. Stage(K, wire'[Dbc], conn', be')
    BY <1>2, <1>3, <1>9 DEF Stage
  <1>11. Turn(Dbc, K, wire'[Dbc], cs' = Dbc)
    BY <1>2, <1>3 DEF Turn, PcIdle
  <1> QED BY <1>1, <1>2, <1>3, <1>8, <1>10, <1>11, SharedMove DEF K

-----------------------------------------------------------------------------
\* The invariant holds initially,
LEMMA SharedInit == OnThreads /\ Init => SharedInv
  <1> SUFFICES ASSUME OnThreads, Init PROVE SharedInv
    OBVIOUS
  <1>1. /\ ~conn.autocommit /\ ~conn.inTrans /\ ~conn.manual /\ ~conn.inError /\ ~conn.accessed
        /\ ~conn.rbpoint /\ ~conn.svp /\ conn.up /\ conn.cursors = {}
    BY DEF Init, OnThreads
  <1>2. be.st = "I" /\ be.work = << >>
    BY DEF Init, FreshSession
  <1>3. \A t \in Threads : calls[t].pc = PcIdle /\ ~calls[t].err /\ ~calls[t].lock /\ wire[t] = << >>
    BY DEF Init, Idle
  <1>4. cs = NoOne /\ \A t \in Threads : t # NoOne
    BY CoreAssumption DEF Init, Threads
  <1>5. Basis(conn, be) /\ Quiet(conn, be)
    BY <1>1, <1>2 DEF Basis, Coherent, Quiet, Sound, Aware, InBlock, Remembers, Clear
  <1>6. \A t \in Threads : Turn(t, calls[t], wire[t], cs = t)
    BY <1>3, <1>4 DEF Turn
  <1> QED BY <1>4, <1>5, <1>6 DEF SharedInv

LEMMA SharedReply ==
    ASSUME TypeInv, SharedInv, NEW s \in Stmts, Reply(s)
    PROVE  SharedInv'
  <1>1. calls[s].pc \in {"begin", "svp", "main", "undo", "abort"}
    BY ReplyAt
  <1> QED BY <1>1, SharedReplyBegin, SharedReplySvp, SharedReplyPrepended, SharedReplyBody,
             SharedReplyUndo, SharedReplyAbort

\* and every step keeps it.
LEMMA SharedStep ==
    ASSUME OnThreads, TypeInv, SharedInv, [Next]_vars
    PROVE  SharedInv'
  <1>1. CASE UNCHANGED vars
    BY <1>1 DEF vars, SharedInv
  <1>2. ASSUME NEW s \in Stmts, Progress(s) PROVE SharedInv'
    <2>1. ASSUME SendMain(s) PROVE SharedInv'
      <3>1. calls[s].pc \in {"exec", "request", "ready"}
        BY <2>1 DEF SendMain
      <3> QED BY <2>1, <3>1, SharedSendReady, SharedSendFresh
    <2> QED BY <1>2, <2>1, SharedNever, SharedBeginFirst, SharedBeginDone,
               SharedDirectSavepoint, SharedSavepointMade, SharedMainDone, SharedPost,
               SharedDiscard, SharedUndo, SharedUndoDone, SharedDecideAbort, SharedAbort,
               SharedAbortDone, SharedSync, SharedEndCall
            DEF Progress
  <1>3. ASSUME NEW s \in Stmts, Call(s) \/ Close(s) \/ Reconnect(s) PROVE SharedInv'
    BY <1>3, SharedCall, SharedNever
  <1>4. ASSUME NEW t \in Threads, Reply(t) PROVE SharedInv'
    BY <1>4, SharedReply, SharedReplyDbc DEF Threads
  <1>5. ASSUME NEW k, EndTran(k) PROVE SharedInv'
    BY <1>5, SharedEndTran
  <1>6. CASE EndTranDone
    BY <1>6, SharedEndTranDone
  <1>7. \A t : ~Lose(t)
    BY DEF Lose, OnThreads
  <1>8. ~SetAutocommit /\ ~SetAutocommitDone
    <2>1. ~conn.autocommit /\ conn \in Conn /\ Dbc \in Threads
      BY DEF SharedInv, Basis, TypeInv, TypeOK, Threads
    <2>2. calls[Dbc].pc # "autocommit"
      BY <2>1, Inside DEF PcIdle
    <2> QED BY <2>1, <2>2 DEF SetAutocommit, SetAutocommitDone, Answered, OnThreads
  <1> QED BY <1>1, <1>2, <1>3, <1>4, <1>5, <1>6, <1>7, <1>8 DEF Next, DbcProgress

\* However many threads call the driver at level 2, no two messages are in flight:
\* lock_CC_for_rb makes the critical section last from the first message of a call to
\* its return, so that the PQexec of CC_internal_rollback, which does not enter it,
\* meets no message of another thread.
THEOREM OneMessageOnThreads ==
    ASSUME OnThreads
    PROVE  Spec => []OneInFlight
  <1>1. TypeInv /\ SharedInv /\ [Next]_vars => SharedInv'
    BY SharedStep
  <1>2. TypeInv /\ SharedInv => OneInFlight
    <2> SUFFICES ASSUME TypeInv, SharedInv, NEW t \in Threads, NEW u \in Threads,
                        wire[t] # << >>, wire[u] # << >>
                 PROVE  t = u
      BY DEF OneInFlight
    <2>1. \A x \in Threads : Turn(x, calls[x], wire[x], cs = x)
      BY DEF SharedInv
    <2> QED BY <2>1 DEF Turn
  <1>3. Init => SharedInv
    BY SharedInit
  <1> QED BY <1>1, <1>2, <1>3, TypeInit, TypeStep, PTL DEF Spec

\* While DiscardStatementSvp has something to undo, only its answer empties the wire.
LEMMA UndoAnswered ==
    ASSUME OnThreads, TypeInv, SharedInv, [Next]_vars, NEW s \in Stmts,
           calls[s].pc \in {"undo", "abort"}, wire'[s] # wire[s]
    PROVE  be'.work = be.work
  <1> DEFINE Quits(t) == wire'[t] = wire[t]
  <1>1. s \in Threads /\ s # Dbc /\ Dbc \in Threads /\ wire \in [Threads -> Seq(Command)]
    BY CoreAssumption DEF Threads, TypeInv, TypeOK
  <1>2. cs = s
    BY <1>1, Inside DEF PcIdle
  <1>3. ASSUME NEW u \in Stmts, Progress(u), u # s PROVE Quits(s)
    <2>1. u \in Threads
      BY DEF Threads
    <2>2. wire' = wire \/ \E m : wire' = [wire EXCEPT ![u] = m]
      <3>1. ASSUME SendMain(u) PROVE \E m : wire' = [wire EXCEPT ![u] = m]
        BY <3>1, Zenon DEF SendMain
      <3>2. ASSUME DirectSavepoint(u) \/ PreCommit(u) \/ BeginFirst(u) \/ PostCommit(u) \/ Undo(u)
                   \/ Abort(u)
            PROVE  wire' = wire \/ \E m : wire' = [wire EXCEPT ![u] = m]
        BY <3>2 DEF DirectSavepoint, PreCommit, BeginFirst, PostCommit, Undo, Abort, Send
      <3>3. ASSUME Down(u) \/ PreCommitDone(u) \/ BeginDone(u) \/ SavepointMade(u) \/ MainDone(u)
                   \/ PostCommitDone(u) \/ Post(u) \/ Discard(u) \/ UndoDone(u) \/ DecideAbort(u)
                   \/ AbortDone(u) \/ Sync(u) \/ EndCall(u) \/ CloseDone(u)
            PROVE  wire' = wire
        BY <3>3 DEF Down, PreCommitDone, BeginDone, SavepointMade, MainDone, PostCommitDone, Post,
                    Discard, UndoDone, DecideAbort, AbortDone, Sync, EndCall, CloseDone
      <3> QED BY <1>3, <3>1, <3>2, <3>3 DEF Progress
    <2> QED BY <1>1, <1>3, <2>1, <2>2
  <1>4. ASSUME Progress(s) PROVE Quits(s)
    <2>1. ASSUME UndoDone(s) \/ AbortDone(s) \/ Discard(s) \/ DecideAbort(s) \/ Sync(s) \/ EndCall(s)
          PROVE Quits(s)
      BY <2>1 DEF UndoDone, AbortDone, Discard, DecideAbort, Sync, EndCall
    <2> QED BY <1>4, <2>1
        DEF Progress, Down, PreCommit, PreCommitDone, BeginFirst, BeginDone, DirectSavepoint,
            SavepointMade, SendMain, MainDone, PostCommit, PostCommitDone, Post, Undo, Abort,
            CloseDone, Answered
  <1>5. ASSUME NEW u \in Stmts, Call(u) \/ Close(u) \/ Reconnect(u) PROVE Quits(s)
    <2>1. ~Close(u) /\ ~Reconnect(u)
      BY SharedNever
    <2> QED BY <1>5, <2>1 DEF Call
  <1>6. ASSUME NEW t \in Threads, Reply(t) PROVE be'.work = be.work
    <2>1. CASE t = s
      BY <1>6, <2>1, SharedReplyUndo, SharedReplyAbort
    <2>2. CASE t # s
      BY <1>1, <1>6, <2>2, ReplyShape
    <2> QED BY <2>1, <2>2
  <1>7. \A t : ~Lose(t)
    BY DEF Lose, OnThreads
  <1>8. ASSUME NEW k, EndTran(k) PROVE FALSE
    BY <1>1, <1>2, <1>8, CoreAssumption DEF EndTran, Threads
  <1>9. ~SetAutocommit
    BY <1>1, <1>2, CoreAssumption DEF SetAutocommit, Threads
  <1>10. DbcProgress => Quits(s)
    BY DEF DbcProgress, EndTranDone, SetAutocommitDone
  <1>11. Next
    BY DEF vars
  <1> QED BY <1>3, <1>4, <1>5, <1>6, <1>7, <1>8, <1>9, <1>10, <1>11 DEF Next

\* However many threads call the driver at level 2, what DiscardStatementSvp sends for a
\* failed statement takes back no work of the transaction at all: not that of another
\* thread, and of its own the server has dropped what failed.
THEOREM UndoLosesNothingAlways ==
    ASSUME OnThreads
    PROVE  Spec => UndoLosesNothing
  <1> DEFINE Held == \A s \in Stmts :
               calls[s].pc \in {"undo", "abort"} /\ wire'[s] # wire[s] => be'.work = be.work
  <1>1. TypeInv /\ SharedInv /\ [Next]_vars => SharedInv'
    BY SharedStep
  <1>2. TypeInv /\ SharedInv /\ [Next]_vars => [Held]_vars
    BY UndoAnswered
  <1>3. Init => SharedInv
    BY SharedInit
  <1> HIDE DEF Held
  <1>4. Spec => [][Held]_vars
    BY <1>1, <1>2, <1>3, TypeInit, TypeStep, PTL DEF Spec
  <1> QED BY <1>4 DEF UndoLosesNothing, Held

\* So it takes back the writes of its own call at most.
THEOREM UndoesOwnOnlyAlways ==
    ASSUME OnThreads
    PROVE  Spec => UndoesOwnOnly
  <1> DEFINE Own == \A s \in Stmts :
               /\ calls[s].pc \in {"undo", "abort"} /\ wire'[s] # wire[s] /\ conn'.up
               => Range(be.work) \ Range(be'.work) \subseteq {calls[s].cmd.w}
  <1>1. TypeInv /\ SharedInv /\ [Next]_vars => SharedInv'
    BY SharedStep
  <1>2. TypeInv /\ SharedInv /\ [Next]_vars => [Own]_vars
    BY UndoAnswered
  <1>3. Init => SharedInv
    BY SharedInit
  <1> HIDE DEF Own
  <1>4. Spec => [][Own]_vars
    BY <1>1, <1>2, <1>3, TypeInit, TypeStep, PTL DEF Spec
  <1> QED BY <1>4 DEF UndoesOwnOnly, Own
===============================================================================
