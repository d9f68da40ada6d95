------------------------------ MODULE BulkOps ------------------------------
(***************************************************************************)
(* SQLBulkOperations and SQLSetPos: one call that writes several rows of   *)
(* a rowset.  Each row is an INSERT, UPDATE or DELETE of its own, the      *)
(* first two executed by a delegated statement handle.  A row whose data   *)
(* come at execution stops the loop: what is left to do waits in the       *)
(* handle's queue of callbacks, and SQLParamData goes on with it when the  *)
(* data are there.  For the time of the operation the driver switches      *)
(* autocommit off on the whole connection.                                 *)
(*                                                                         *)
(* The application keeps to the states of an ODBC driver manager: while a  *)
(* statement waits for data it calls SQLParamData, SQLPutData or SQLCancel *)
(* on it, and the connection's attributes and transaction are left alone.  *)
(* Another statement handle of the connection may write at any time; that  *)
(* one of its statements fails, and that the connection is lost, are not   *)
(* modelled here.                                                          *)
(***************************************************************************)
EXTENDS Integers, Sequences, FiniteSets

CONSTANTS
    Rows,        \* the size of the rowset
    Tuples,      \* the tuples the result holds from the start of the rowset
    Lives,       \* which of them may be in the rowset (CURS_IN_ROWSET)
    Ignores,     \* the rows SQL_ATTR_ROW_OPERATION_PTR may tell SQLSetPos to ignore
    Faults,      \* what the application does wrong or gives up: {"unbound", "cancel"}
    MaxOps,      \* bound on the operations on rows
    MaxOthers    \* bound on the writes of the other statement handle

ASSUME BulkAssumption ==
    /\ Rows \in Nat \ {0} /\ Tuples \in Nat
    /\ Lives \subseteq SUBSET (0 .. Tuples - 1)
    /\ \A live \in Lives : IsFiniteSet(live) /\ Cardinality(live) <= Rows
    /\ Ignores \subseteq SUBSET (0 .. Rows - 1)
    /\ Faults \subseteq {"unbound", "cancel"}
    /\ MaxOps \in Nat \ {0} /\ MaxOthers \in Nat

VARIABLES
    conn,     \* the ConnectionClass and what the server holds of its writes
    stmt,     \* the StatementClass of the cursor: callbacks, delegate, position
    call,     \* the API call in progress on it
    app,      \* what the application knows and has bound
    hist      \* history: what became of the operation

vars == <<conn, stmt, call, app, hist>>

RowIds == 0 .. Rows - 1
Writes == ((1 .. MaxOps) \X RowIds) \cup ({0} \X (1 .. MaxOthers))
Ops == {"add", "update", "delete", "position"}
Writing == {"add", "update", "delete"}
Mark == [add |-> "added", update |-> "updated", delete |-> "deleted",
         position |-> "old"]

-----------------------------------------------------------------------------
(* Types.                                                                  *)

Conn == [auto : BOOLEAN,           \* CONN_IN_AUTOCOMMIT
         public : BOOLEAN,         \* autocommit_public
         tx : {"idle", "open", "failed"},
         pending : SUBSET Writes, durable : SUBSET Writes,
         accessed : BOOLEAN,       \* CC_accessed_db
         svp : BOOLEAN,            \* CC_started_rbpoint and internal_svp
         saved : SUBSET Writes]    \* what was pending when it was made

\* bop_cdata and spos_cdata.
Loop == [api : {"bulk", "setpos"}, op : Ops, n : 1 .. MaxOps,
         acNeeded : BOOLEAN, idx : Nat, nrow : Nat, processed : Nat,
         irow : 0 .. Rows, first : Nat, last : Int,
         reached : BOOLEAN,        \* ridx is set
         pos : Nat]                \* pos_ridx, a local variable

\* pup_cdata and padd_cdata carry the row of the loop they were made in.
Callback == [kind : {"row", "loop"}, loop : Loop]

\* A delegated handle, known by the operation and the row it was made for.
NoDelegate == [n |-> 0, row |-> 0, dae |-> -1, cur |-> -1]
Delegate == [n : 0 .. MaxOps, row : Nat, dae : -1 .. 1, cur : -1 .. 0]

Stmt == [queue : Seq(Callback), delegate : Delegate,
         curr : Nat,                              \* currTuple
         live : SUBSET (0 .. Tuples - 1)]

Call == [pc : {"idle", "loop", "resume", "finish", "crashed"},
         loop : Loop, ret : {"ok", "error", "need"},
         info : BOOLEAN,                          \* SQL_SUCCESS_WITH_INFO
         direct : BOOLEAN,                        \* not from SQLParamData
         exec : (0 .. MaxOps) \X Nat]             \* the delegate that executed

App == [dialogue : BOOLEAN,        \* the last call returned SQL_NEED_DATA
        last : {"none", "op", "param", "put", "cancel"},
        ret : {"ok", "error", "need"},
        status : [RowIds -> {"old", "added", "updated", "deleted", "info", "error"}],
        fetched : Nat,             \* rowsFetched
        ignore : SUBSET RowIds]

Hist == [n : 0 .. MaxOps, done : Seq(Nat \X Nat), others : 0 .. MaxOthers,
         missed : SUBSET RowIds,   \* rows of the operation the server did not write
         refused : BOOLEAN,        \* its COMMIT was not taken
         given : BOOLEAN,          \* an operation was given up half way
         left : BOOLEAN]           \* and its callbacks are still queued

\* Type invariant: the flags, the callbacks and the loop in progress keep the
\* values bulk_ope_callback, spos_callback and the queue give them.
TypeOK == conn \in Conn /\ stmt \in Stmt /\ call \in Call /\ app \in App /\ hist \in Hist

IdleLoop == [api |-> "bulk", op |-> "add", n |-> 1, acNeeded |-> FALSE,
             idx |-> 0, nrow |-> 0, processed |-> 0, irow |-> 0,
             first |-> 0, last |-> 0, reached |-> FALSE, pos |-> 0]
IdleCall == [pc |-> "idle", loop |-> IdleLoop, ret |-> "ok", info |-> FALSE,
             direct |-> TRUE, exec |-> <<0, 0>>]

\* A cursor whose rowset has been fetched, on a connection in either mode.
Init ==
    /\ \E on \in BOOLEAN :
         conn = [auto |-> on, public |-> on, tx |-> "idle", pending |-> {},
                 durable |-> {}, accessed |-> FALSE, svp |-> FALSE, saved |-> {}]
    /\ \E live \in Lives :
         stmt = [queue |-> <<>>, delegate |-> NoDelegate, curr |-> 0, live |-> live]
    /\ call = IdleCall
    /\ \E ign \in Ignores :
         app = [dialogue |-> FALSE, last |-> "none", ret |-> "ok",
                status |-> [r \in RowIds |-> "old"], fetched |-> 0, ignore |-> ign]
    /\ hist = [n |-> 0, done |-> <<>>, others |-> 0, missed |-> {}, refused |-> FALSE,
               given |-> FALSE, left |-> FALSE]

-----------------------------------------------------------------------------
(* The transaction.                                                        *)

StartStmt(c) == [c EXCEPT !.accessed = FALSE, !.svp = FALSE, !.saved = {}]

\* A COMMIT may be refused, and in a failed transaction it is answered by a ROLLBACK.
Commit(c, taken) ==
    IF c.tx = "idle" THEN c
    ELSE StartStmt([c EXCEPT !.tx = "idle", !.pending = {},
                             !.durable = IF c.tx = "open" /\ taken THEN @ \cup c.pending ELSE @])
Abort(c) == IF c.tx = "idle" THEN c
            ELSE StartStmt([c EXCEPT !.tx = "idle", !.pending = {}])

\* Mutant: the mode changes and the transaction of the old mode stays open.
SetAutocommit_NoCommit(c, on, taken) == [c EXCEPT !.auto = on]

\* Whether the COMMIT was taken is not asked.
SetAutocommit(c, on, taken) ==
    IF c.auto = on THEN c ELSE [Commit(c, taken) EXCEPT !.auto = on]

\* SetStatementSvp before a row: in an open transaction there may be a savepoint
\* (StatementSvp says when), and only the first of a call makes one.  In a failed
\* transaction nothing is done.
RowSvps(c) ==
    LET acc == [c EXCEPT !.accessed = TRUE]
    IN  {IF c.tx = "failed" THEN c ELSE acc}
        \cup IF c.tx = "open" /\ ~c.svp
             THEN {[acc EXCEPT !.svp = TRUE, !.saved = c.pending]} ELSE {}

\* DiscardStatementSvp at the end of the API call.
Discard(c, ret) ==
    CASE ret = "need" -> c
      [] ret = "error" /\ c.accessed /\ c.tx # "idle" ->
           IF c.svp THEN StartStmt([c EXCEPT !.tx = "open", !.pending = c.saved])
           ELSE Abort(c)
      [] OTHER -> StartStmt(c)

\* One row's command: a DELETE opens a transaction when autocommit is off, the
\* INSERT or UPDATE of a delegated handle is not external and does not.
Begun(c, op) == IF op = "delete" /\ c.tx = "idle" /\ ~c.auto
                THEN [c EXCEPT !.tx = "open"] ELSE c
Written(c, w) == IF c.tx = "idle" THEN [c EXCEPT !.durable = @ \cup {w}]
                 ELSE [c EXCEPT !.pending = @ \cup {w}]
Broken(c) == IF c.tx = "idle" THEN c ELSE [c EXCEPT !.tx = "failed"]

\* What comes of a row, and whether the server wrote it (hit).  An error may come
\* after the row was written: the driver's SELECT of the row fails or does not find
\* it, or more than one was written.  A row gone before its UPDATE or DELETE is
\* SQL_SUCCESS_WITH_INFO, and a failure of the SELECT that then reloads it for a keyset
\* cursor is not looked at; an INSERT that a trigger or a rule swallowed keeps its
\* return code.  One that wrote the row is SQL_SUCCESS_WITH_INFO after a notice, and an
\* UPDATE if the row is gone when it is read again.  No column bound: no command.
Results(c, op, w) ==
    LET svps == RowSvps(Begun(c, op))
        sound == {d \in svps : d.tx # "failed"}
        wrote == {Written(d, w) : d \in sound}
        OrBroken(ds) == ds \cup {Broken(d) : d \in ds}
        Reply(ds, ret, infos, hit) == [conn : ds, ret : {ret}, info : infos, hit : {hit}]
    IN  Reply(OrBroken(svps), "error", {FALSE}, FALSE)
        \cup Reply(OrBroken(wrote), "error", {FALSE}, TRUE)
        \cup Reply(wrote, "ok", IF op = "delete" THEN {FALSE} ELSE BOOLEAN, TRUE)
        \cup IF op = "add" THEN Reply(sound, "ok", BOOLEAN, FALSE)
             ELSE Reply(OrBroken(sound), "ok", {TRUE}, FALSE)
        \cup IF op = "delete" THEN {} ELSE Reply({c}, "ok", {TRUE}, FALSE)

-----------------------------------------------------------------------------
(* The loop over the rows.                                                 *)

\* The API call returns to the application.
Return(c, ret) ==
    /\ conn' = Discard(c, ret)
    /\ call' = IdleCall

Ready == call.pc = "idle" /\ ~app.dialogue

\* The history of a new operation.
Anew(h) == [h EXCEPT !.n = @ + 1, !.done = <<>>, !.missed = {}, !.refused = FALSE]

\* Autocommit is off for the time of the operation.
SwitchedOff(l, taken) == IF l.acNeeded THEN SetAutocommit(conn, FALSE, taken) ELSE conn

Begin(l) ==
    /\ call' = [IdleCall EXCEPT !.pc = "loop", !.loop = l]
    /\ \E taken \in BOOLEAN : conn' = SwitchedOff(l, taken)
    /\ hist' = Anew(hist)
    /\ UNCHANGED <<stmt, app>>

NewLoop(api, op, irow) ==
    [IdleLoop EXCEPT !.api = api, !.op = op, !.n = hist.n + 1,
                     !.acNeeded = conn.auto /\ op \in Writing, !.irow = irow,
                     !.first = IF irow = 0 THEN 0 ELSE irow - 1,
                     !.last = IF irow = 0 THEN Rows - 1 ELSE irow - 1]

\* PGAPI_BulkOperations.  Autocommit is switched off before the bookmark is
\* looked for, and stays off when there is none.
BulkOperations(op, bound) ==
    /\ Ready /\ hist.n < MaxOps
    /\ LET l == NewLoop("bulk", op, 0)
       IN  IF bound \/ op = "add" THEN Begin(l)
           ELSE /\ \E taken \in BOOLEAN : Return(SwitchedOff(l, taken), "error")
                /\ app' = [app EXCEPT !.last = "op", !.ret = "error"]
                /\ hist' = [Anew(hist) EXCEPT !.given = @ \/ l.acNeeded]
                /\ UNCHANGED stmt

\* PGAPI_SetPos; a row out of the rowset is refused before anything is changed.
SetPos(op, irow) ==
    /\ Ready /\ hist.n < MaxOps
    /\ irow = 0 => op # "position"
    /\ op # "add" => irow <= Cardinality(stmt.live)
    /\ Begin(NewLoop("setpos", op, irow))

LoopOver(l) ==
    \/ l.api = "bulk" /\ l.idx >= Rows
    \/ l.api = "setpos" /\ l.nrow > l.last
    \/ l.api = "setpos" /\ l.op # "add" /\ l.idx >= Tuples

\* The tuple is not in the rowset: the next one, for the same row.
NotInRowset(l) == l.api = "setpos" /\ l.op # "add" /\ l.idx \notin stmt.live

\* The row is before the one asked for, or is to be ignored.
NotWanted(l) ==
    /\ l.api = "setpos" /\ ~NotInRowset(l)
    /\ l.nrow < l.first \/ (l.irow = 0 /\ l.nrow \in app.ignore)

Skipped(l) == IF NotInRowset(l) THEN [l EXCEPT !.idx = @ + 1]
              ELSE [l EXCEPT !.idx = @ + 1, !.nrow = @ + 1]

PassOver ==
    /\ call.pc = "loop" /\ ~LoopOver(call.loop)
    /\ NotInRowset(call.loop) \/ NotWanted(call.loop)
    /\ call' = [call EXCEPT !.loop = Skipped(@)]
    /\ UNCHANGED <<conn, stmt, app, hist>>

-----------------------------------------------------------------------------
(* One row.                                                                *)

AtRow == /\ call.pc = "loop" /\ ~LoopOver(call.loop)
         /\ ~NotInRowset(call.loop) /\ ~NotWanted(call.loop)

Reached(l) == [l EXCEPT !.reached = TRUE, !.pos = l.idx]

\* The row has been processed: the counters of the loop.
Counted(l, ret) ==
    [l EXCEPT !.processed = @ + 1, !.idx = @ + 1,
              !.nrow = IF l.api = "setpos" /\ ret = "error" THEN @ ELSE @ + 1]

\* SC_pos_delete says SQL_ROW_DELETED of a row it did not find as well.
RowStatus(op, ret, info) ==
    IF ret = "error" THEN "error" ELSE IF info /\ op # "delete" THEN "info" ELSE Mark[op]

\* The server did not write the row.
Missing(h, r, hit) == IF hit THEN h ELSE [h EXCEPT !.missed = @ \cup {r}]

\* The row is done, and its status in the row status array.
RowDone(ret, info, hit) ==
    LET l == call.loop
    IN  /\ call' = [call EXCEPT !.pc = IF ret = "error" THEN "finish" ELSE "loop",
                                !.ret = ret, !.loop = Counted(Reached(l), ret)]
        /\ hist' = [Missing(hist, l.nrow, hit) EXCEPT !.done = Append(@, <<l.nrow, l.idx>>)]
        /\ app' = IF l.op = "position" THEN app
                  ELSE [app EXCEPT !.status[l.nrow] = RowStatus(l.op, ret, info)]

\* SC_pos_add, SC_pos_update and SC_pos_delete without data at execution; the
\* delegated handle is dropped as soon as it has executed.
ExecuteRow ==
    /\ AtRow /\ call.loop.op \in Writing
    /\ \E x \in Results(conn, call.loop.op, <<call.loop.n, call.loop.nrow>>) :
         /\ conn' = x.conn
         /\ RowDone(x.ret, x.info, x.hit)
    /\ stmt' = IF call.loop.op = "delete" THEN stmt
               ELSE [stmt EXCEPT !.delegate = NoDelegate]

PositionRow ==
    /\ AtRow /\ call.loop.op = "position"
    /\ RowDone("ok", FALSE, TRUE)
    /\ UNCHANGED <<conn, stmt>>

\* The row is refused before its command is built (no key, a read-only
\* statement): its status is left as it was.
RefuseRow ==
    /\ AtRow /\ call.loop.op \in Writing
    /\ call' = [call EXCEPT !.pc = "finish", !.ret = "error",
                            !.loop = Counted(Reached(@), "error")]
    /\ UNCHANGED <<conn, stmt, app, hist>>

\* Mutant: the row's callback is queued behind that of the loop.
Waiting_LoopFirst(l) == <<[kind |-> "loop", loop |-> l], [kind |-> "row", loop |-> l]>>

\* enqueueNeedDataCallback, by SC_pos_add or SC_pos_update and then by the loop.
Waiting(l) == <<[kind |-> "row", loop |-> l], [kind |-> "loop", loop |-> l]>>

\* The row has data at execution: the call returns SQL_NEED_DATA.
RowNeedsData ==
    /\ AtRow /\ call.loop.op \in {"add", "update"}
    /\ LET l == Reached(call.loop)
       IN  stmt' = [stmt EXCEPT !.queue = @ \o Waiting(l),
                                !.delegate = [n |-> l.n, row |-> l.nrow, dae |-> 1, cur |-> -1]]
    /\ Return(conn, "need")
    /\ app' = [app EXCEPT !.dialogue = TRUE, !.ret = "need",
                          !.last = IF call.direct THEN "op" ELSE "param"]
    /\ UNCHANGED hist

LoopEnds ==
    /\ call.pc = "loop" /\ LoopOver(call.loop)
    /\ call' = [call EXCEPT !.pc = "finish"]
    /\ UNCHANGED <<conn, stmt, app, hist>>

\* Mutant: a resumed loop does not know that autocommit has to come back.
Restored_DirectOnly(l) == l.acNeeded /\ call.direct

Restored(l) == l.acNeeded

\* The end of bulk_ope_callback and spos_callback: autocommit is switched on
\* again, which commits, and the counters and the position are handed out.
Finish ==
    /\ call.pc = "finish"
    /\ \E taken \in BOOLEAN :
       LET l == call.loop
           c == IF Restored(l) THEN SetAutocommit(conn, TRUE, taken) ELSE conn
           none == call.direct /\ l.api = "setpos" /\ l.processed = 0
           ret == IF none THEN "error" ELSE call.ret
           counted == IF l.irow = 0 THEN [app EXCEPT !.fetched = l.processed] ELSE app
       IN  /\ stmt' = IF l.irow > 0 /\ l.op # "add" /\ l.reached
                      THEN [stmt EXCEPT !.curr = l.pos] ELSE stmt
           /\ IF ~call.direct /\ stmt.queue # <<>>
              THEN /\ call' = [call EXCEPT !.pc = "resume", !.ret = ret]
                   /\ conn' = c /\ app' = counted
              ELSE /\ Return(c, ret)
                   /\ app' = [counted EXCEPT !.dialogue = FALSE, !.ret = ret,
                                  !.last = IF call.direct THEN "op" ELSE "param"]
           /\ hist' = [hist EXCEPT !.refused = l.acNeeded /\ ~taken]

-----------------------------------------------------------------------------
(* dequeueNeedDataCallback.                                                *)

Resumed(l) == [Counted(l, call.ret) EXCEPT !.pos = 0]

\* The loop goes on behind the row that had waited; pos_ridx starts at 0 again.
ResumeLoop ==
    /\ call.pc = "resume" /\ stmt.queue # <<>> /\ Head(stmt.queue).kind = "loop"
    /\ stmt' = [stmt EXCEPT !.queue = Tail(@)]
    /\ call' = [call EXCEPT !.pc = IF call.ret = "error" THEN "finish" ELSE "loop",
                            !.loop = Resumed(Head(stmt.queue).loop)]
    /\ UNCHANGED <<conn, app, hist>>

Own(l) == call.exec = <<l.n, l.nrow>>

\* pos_add_callback and pos_update_callback look at the result of the handle
\* they were queued for, and drop it.  A handle that never executed has no
\* result to look at.
ResumeRow ==
    /\ call.pc = "resume" /\ stmt.queue # <<>> /\ Head(stmt.queue).kind = "row"
    /\ stmt' = [stmt EXCEPT !.queue = Tail(@), !.delegate = NoDelegate]
    /\ LET l == Head(stmt.queue).loop
       IN  IF Own(l) \/ call.ret = "error"
           THEN /\ app' = [app EXCEPT !.status[l.nrow] = RowStatus(l.op, call.ret, call.info)]
                /\ hist' = [hist EXCEPT !.done = Append(@, <<l.nrow, l.idx>>)]
                /\ UNCHANGED call
           ELSE call' = [call EXCEPT !.pc = "crashed"] /\ UNCHANGED <<app, hist>>
    /\ UNCHANGED conn

-----------------------------------------------------------------------------
(* The dialogue for the data.                                              *)

\* The application is out of the dialogue, and what was queued is not.
GivenUp(h) ==
    [h EXCEPT !.left = @ \/ stmt.queue # <<>>,
              !.given = @ \/ \E i \in DOMAIN stmt.queue : stmt.queue[i].loop.acNeeded]

\* An answer of SQLParamData or SQLPutData that ends the dialogue.
Refuse(last) ==
    /\ Return(conn, "error")
    /\ app' = [app EXCEPT !.dialogue = FALSE, !.last = last, !.ret = "error"]
    /\ hist' = GivenUp(hist)
    /\ UNCHANGED stmt

InDialogue == call.pc = "idle" /\ app.dialogue

\* SQLParamData tells which parameter it wants the data of ...
ParamToken ==
    /\ InDialogue /\ stmt.delegate.dae = 1
    /\ stmt' = [stmt EXCEPT !.delegate.dae = 0, !.delegate.cur = 0]
    /\ app' = [app EXCEPT !.last = "param"]
    /\ UNCHANGED <<conn, call, hist>>

\* ... or, when all are there, executes the row and runs the callbacks ...
ParamExecute ==
    /\ InDialogue /\ stmt.delegate.dae = 0 /\ app.last = "put"
    /\ LET d == stmt.delegate
           op == Head(stmt.queue).loop.op
       IN  \E x \in Results(conn, op, <<d.n, d.row>>) :
             /\ conn' = x.conn
             /\ call' = [IdleCall EXCEPT !.pc = "resume", !.ret = x.ret, !.info = x.info,
                                         !.direct = FALSE, !.exec = <<d.n, d.row>>]
             /\ hist' = Missing(hist, d.row, x.hit)
    /\ UNCHANGED <<stmt, app>>

\* SQLPutData, which needs a parameter that was asked for.
PutData ==
    /\ InDialogue /\ app.last = "param"
    /\ IF stmt.delegate.cur = 0
       THEN app' = [app EXCEPT !.last = "put"] /\ UNCHANGED <<conn, stmt, call, hist>>
       ELSE Refuse("put")

\* PGAPI_Cancel resets the delegated handle, but the callbacks it cancels are
\* the delegate's, which has none: those of the statement stay queued.
Cancel ==
    /\ InDialogue /\ "cancel" \in Faults
    /\ stmt' = [stmt EXCEPT !.delegate.dae = -1, !.delegate.cur = -1]
    /\ app' = [app EXCEPT !.dialogue = FALSE, !.last = "cancel", !.ret = "ok"]
    /\ hist' = GivenUp(hist)
    /\ UNCHANGED <<conn, call>>

-----------------------------------------------------------------------------
(* The rest of the application.                                            *)

\* SQLFreeStmt(SQL_CLOSE) drops the delegate and the callbacks; the statement
\* is executed again, in a transaction if autocommit is off, and fetched.  A failed
\* transaction has to be ended first.
Reopen ==
    /\ Ready /\ conn.tx # "failed"
    /\ \E live \in Lives :
         stmt' = [queue |-> <<>>, delegate |-> NoDelegate, curr |-> 0, live |-> live]
    /\ conn' = StartStmt([conn EXCEPT !.tx = IF conn.auto THEN @ ELSE "open"])
    /\ hist' = [hist EXCEPT !.left = FALSE, !.given = @ \/ hist.left, !.done = <<>>,
                              !.missed = {}]
    /\ app' = [app EXCEPT !.last = "none", !.ret = "ok", !.fetched = Cardinality(stmt'.live),
                          !.status = [r \in RowIds |-> "old"]]
    /\ UNCHANGED call

\* The other statement handle writes, in a transaction that has not failed;
\* autocommit decides about a BEGIN.
OtherWrites ==
    /\ call.pc = "idle" /\ hist.others < MaxOthers /\ conn.tx # "failed"
    /\ LET w == <<0, hist.others + 1>>
           c == [conn EXCEPT !.tx = IF conn.auto THEN @ ELSE "open"]
       IN  /\ conn' = StartStmt(Written(c, w))
           /\ hist' = [hist EXCEPT !.others = @ + 1]
    /\ UNCHANGED <<stmt, call, app>>

\* PGAPI_SetConnectOption acts only when the application's own setting changes.
\* What was written in a mode it had not asked for is the application's from here.
SetAutocommitOption(on) ==
    /\ Ready /\ conn.public # on
    /\ \E taken \in BOOLEAN : conn' = [SetAutocommit(conn, on, taken) EXCEPT !.public = on]
    /\ hist' = [hist EXCEPT !.given = FALSE]
    /\ UNCHANGED <<stmt, call, app>>

EndTran(commit) ==
    /\ Ready /\ conn.tx # "idle" /\ ~conn.auto
    /\ IF commit THEN \E taken \in BOOLEAN : conn' = Commit(conn, taken)
       ELSE conn' = Abort(conn)
    /\ UNCHANGED <<stmt, call, app, hist>>

Next ==
    \/ \E op \in Writing, bound \in {TRUE} \cup {"unbound" \notin Faults} :
         BulkOperations(op, bound)
    \/ \E op \in Ops, irow \in 0 .. Rows : SetPos(op, irow)
    \/ PassOver \/ ExecuteRow \/ PositionRow \/ RefuseRow \/ RowNeedsData \/ LoopEnds
    \/ Finish \/ ResumeLoop \/ ResumeRow
    \/ ParamToken \/ ParamExecute \/ PutData \/ Cancel
    \/ Reopen \/ OtherWrites
    \/ \E on \in BOOLEAN : SetAutocommitOption(on) \/ EndTran(on)

Spec == Init /\ [][Next]_vars

-----------------------------------------------------------------------------
(* Properties.                                                             *)

\* When no operation is in progress and none was given up half way, the
\* connection is in the mode the application set: every way through the loops
\* and their callbacks restores autocommit.
SettingKept == Ready /\ ~hist.given /\ ~hist.left => conn.auto = conn.public

\* The tuple a row of the rowset stands for: the rows are numbered over the
\* tuples that are still in the rowset.
TupleOf(row) == CHOOSE t \in stmt.live : Cardinality({u \in stmt.live : u < t}) = row

Positioned(l) == l.api = "setpos" /\ l.op # "add"

\* However often the loop is left for data and resumed, the rows are processed
\* in order, each once, none twice, and each with the tuple it stands for.
RowsOnce ==
    ~hist.left =>
      /\ \A i, j \in DOMAIN hist.done : i < j => hist.done[i][1] < hist.done[j][1]
      /\ call.pc \in {"loop", "finish"} /\ Positioned(call.loop) =>
           \A i \in DOMAIN hist.done : hist.done[i][2] = TupleOf(hist.done[i][1])

Completes == /\ call.pc = "finish" /\ call'.pc = "idle" /\ app'.ret = "ok"
             /\ call.loop.op \in Writing

\* The rows an operation had to process.
Due(l) ==
    {r \in RowIds : /\ l.first <= r /\ r <= l.last
                    /\ l.api = "bulk" \/ l.irow > 0 \/ r \notin app.ignore
                    /\ Positioned(l) => r < Cardinality(stmt.live)}

\* What the end of an operation leaves of its rows, those of a lost transaction aside.
Kept == IF conn'.auto THEN conn'.durable ELSE conn'.pending \cup conn'.durable

\* An operation that returns success has done the rows it was to do and no other, and
\* counted them.  A status says what the driver's command can have told it: SQL_ROW_UPDATED
\* only of a row that was written, and of each row the mark of the operation or, but for a
\* DELETE, SQL_ROW_SUCCESS_WITH_INFO.  Every row the server wrote is still there, in one
\* call or in many, and durable if autocommit is on; no other is.  Only if the
\* COMMIT at the end was refused or met a failed transaction, which the driver does not
\* look at, is the work of that transaction gone, and then all of it.
StatusTruth ==
    [][Completes /\ ~hist.left =>
         LET l == call.loop
             rows == {hist.done[i][1] : i \in DOMAIN hist.done}
             lost == /\ conn'.auto
                     /\ conn.tx = "failed" \/ (conn.tx = "open" /\ hist'.refused)
         IN  /\ rows = Due(l)
             /\ l.irow = 0 => app'.fetched = Cardinality(rows)
             /\ \A r \in rows :
                  LET w == <<l.n, r>>
                  IN  /\ \/ app'.status[r] = Mark[l.op]
                         \/ app'.status[r] = "info" /\ l.op # "delete"
                      /\ app'.status[r] = "updated" => r \notin hist.missed
                      /\ ~lost => (w \in Kept <=> r \notin hist.missed)
             /\ lost => conn'.pending = {} /\ conn'.durable = conn.durable]_vars

=============================================================================
