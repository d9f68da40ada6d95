------------------------------ MODULE ParamExec ------------------------------
(***************************************************************************)
(* How one statement handle executes a statement whose parameters are      *)
(* arrays: the row loop of PGAPI_Execute, the rows that                    *)
(* Exec_with_parameters_resolved defers and sends in one message, the      *)
(* parameters whose data SQLParamData and SQLPutData hand over during the  *)
(* execution, the status array, and SQLCancel, which another thread calls. *)
(*                                                                         *)
(* The connection is in autocommit mode, so that a message to the server   *)
(* takes effect as a whole or not at all.  A call of the application's     *)
(* thread holds the statement's critical section from its first step to    *)
(* its last; SQLCancel looks at the handle without it.                     *)
(***************************************************************************)
EXTENDS Integers, Sequences, FiniteSets

CONSTANTS
    MaxRows,     \* bound on the size of a parameter array
    Params,      \* the number of parameters of the statement
    BatchSizes,  \* the batch sizes a handle may have been allocated with
    UseServerSidePrepare,
    MaxExecs,    \* bound on the executions
    MaxChunks,   \* bound on the SQLPutData calls for one parameter
    MaxCancels,  \* bound on the calls of SQLCancel
    Avoids       \* what the application (or its data) keeps clear of

ASSUME ArrayAssumption ==
    /\ MaxRows \in Nat \ {0} /\ Params \in Nat \ {0}
    /\ BatchSizes \subseteq Nat \ {0} /\ BatchSizes # {}
    /\ UseServerSidePrepare \in BOOLEAN
    /\ {MaxExecs, MaxChunks, MaxCancels} \subseteq Nat
    /\ Avoids \subseteq {"cancelBatch", "badValueInBatch", "directAfterCancel",
                         "ignoredTailFails", "busyCancel"}

VARIABLES
    handle,  \* the StatementClass
    app,     \* what the last execution that got to its rows was called with
    pstat,   \* the application's status array
    call,    \* the call of the application's thread
    cancel,  \* the SQLCancel of another thread
    dm,      \* where the driver manager has the handle in a data dialogue
    effect,  \* the rows in effect at the server, in the order of execution
    given,   \* history: how many chunks of data each parameter was given
    dead,    \* history: the executions that SQLCancel ended
    exec     \* how many executions have got to their rows

vars == <<handle, app, pstat, call, cancel, dm, effect, given, dead, exec>>

Rows == 0 .. MaxRows - 1
Pars == 0 .. Params - 1
None == -1

\* A chunk of data is known by the execution and the row it was meant for.
Chunk == [exec : 0 .. MaxExecs, row : Rows]
Data == [Pars -> Seq(Chunk)]
NoData == [p \in Pars |-> << >>]
Row == [exec : 0 .. MaxExecs, row : Rows, data : Data]

Handle == [prepare : BOOLEAN,                        \* PREPARE_STATEMENT
           method : {"none", "driver", "server"},    \* the other bits of prepare
           type : {"direct", "deferred"},            \* exec_type
           status : {"allocated", "ready", "executing", "finished"},
           batch : BatchSizes,                       \* batch_size
           current : None .. MaxRows,                \* exec_current_row
           deferred : Seq(Row),                      \* stmt_deferred
           count : Nat,                              \* count_of_deffered
           dae : None .. Params,                     \* data_at_exec
           param : None .. Params - 1,               \* current_exec_param
           put : BOOLEAN,                            \* put_data
           pdata : Data]                             \* the PutDataInfo

App == [n : 1 .. MaxRows, ignored : SUBSET Rows, atexec : SUBSET Rows]
Status == {"unused", "success", "error"}
CallRec == [pc : {"idle", "row", "resolve", "server"},
            by : {"execute", "paramdata"},
            kind : {"direct", "batch", "last"},  \* what the message holds
            msg : Seq(Row),
            ret : {"none", "success", "error", "needdata"}]

\* Type invariant: the fields of the StatementClass that the execution of arrays
\* uses, the status array and the calls stay in the values the code gives them.
TypeOK ==
    /\ handle \in Handle
    /\ app \in App
    /\ pstat \in [Rows -> Status]
    /\ call \in CallRec
    /\ cancel \in [pc : {"idle", "reset"}, busy : BOOLEAN, calls : 0 .. MaxCancels]
    /\ dm \in {"idle", "need", "must", "can"}
    /\ effect \in Seq(Row)
    /\ given \in [Rows -> [Pars -> 0 .. MaxChunks]]
    /\ dead \subseteq 0 .. MaxExecs
    /\ exec \in 0 .. MaxExecs

Init ==
    /\ \E b \in BatchSizes :
          handle = [prepare |-> FALSE, method |-> "none", type |-> "direct",
                    status |-> "allocated", batch |-> b,
                    current |-> None, deferred |-> << >>, count |-> 0, dae |-> None,
                    param |-> None, put |-> FALSE, pdata |-> NoData]
    /\ app = [n |-> 1, ignored |-> {}, atexec |-> {}]
    /\ pstat = [r \in Rows |-> "unused"]
    /\ call = [pc |-> "idle", by |-> "execute", kind |-> "direct", msg |-> << >>, ret |-> "none"]
    /\ cancel = [pc |-> "idle", busy |-> FALSE, calls |-> 0]
    /\ dm = "idle"
    /\ effect = << >>
    /\ given = [r \in Rows |-> [p \in Pars |-> 0]]
    /\ dead = {}
    /\ exec = 0

EndRow == app.n - 1
Idle == call.pc = "idle"
InEffect(r) == \E i \in DOMAIN effect : effect[i].exec = exec /\ effect[i].row = r

-----------------------------------------------------------------------------
(* The handle between executions.                                          *)

\* SC_free_params.
FreeData(h) == [h EXCEPT !.pdata = NoData, !.dae = None, !.param = None, !.put = FALSE]

\* SC_recycle_statement.
Recycle(h) == IF h.status = "allocated" THEN h
              ELSE [FreeData(h) EXCEPT !.status = "ready"]

\* SC_initialize_stmts.
InitializeStmts(h) == [h EXCEPT !.prepare = FALSE, !.method = "none"]

\* SQLPrepare.
Prepare ==
    /\ Idle /\ dm = "idle" /\ exec < MaxExecs
    /\ LET h == IF handle.status = "finished" THEN Recycle(handle) ELSE handle IN
       handle' = [InitializeStmts(h) EXCEPT !.prepare = TRUE, !.status = "ready"]
    /\ UNCHANGED <<app, pstat, call, cancel, dm, effect, given, dead, exec>>

\* SQLFreeStmt with SQL_CLOSE, and with SQL_RESET_PARAMS.
Close ==
    /\ Idle /\ dm = "idle"
    /\ handle' = Recycle(handle)
    /\ UNCHANGED <<app, pstat, call, cancel, dm, effect, given, dead, exec>>

ResetParams ==
    /\ Idle /\ dm = "idle" /\ exec < MaxExecs
    /\ handle' = [FreeData(handle) EXCEPT !.current = None]
    /\ UNCHANGED <<app, pstat, call, cancel, dm, effect, given, dead, exec>>

-----------------------------------------------------------------------------
(* The beginning of PGAPI_Execute.                                         *)

MaybeBatch(h, n) == n > 1 /\ h.batch > 1

\* decideHowToPrepare: once a method is chosen it stays.
HowToPrepare(h, n) == CASE h.method # "none" -> h.method
                        [] MaybeBatch(h, n) \/ ~UseServerSidePrepare -> "driver"
                        [] OTHER -> "server"

ExecType(method, h, n) ==
    IF method = "driver" /\ MaybeBatch(h, n) THEN "deferred" ELSE "direct"

\* What depends on the size of the array is decided when the first row is next.
\* A statement prepared at the server is not recycled; what recycling would
\* free, the row loop does.
FirstRow(h, n) == LET method == HowToPrepare(h, n) IN
                  [Recycle(h) EXCEPT !.current = 0, !.method = method,
                                     !.type = ExecType(method, h, n)]

\* The arrays the application may have bound.
Arrays == {a \in App : a.ignored \subseteq 0 .. a.n - 1 /\ a.atexec \subseteq (0 .. a.n - 1) \ a.ignored}

\* An execution gets to its rows.  One that does not begin with the first row
\* goes on with what the handle still holds.
StartRows(h) ==
    /\ app' \in Arrays
    /\ handle' = IF h.current > 0 THEN h ELSE FirstRow(h, app'.n)
    /\ pstat' = [r \in Rows |-> IF r < app'.n /\ h.current <= 0 THEN "unused" ELSE pstat[r]]
    /\ call' = [call EXCEPT !.pc = "row", !.by = "execute", !.ret = "none"]
    /\ given' = [r \in Rows |-> [p \in Pars |-> 0]]
    /\ exec' = exec + 1
    /\ UNCHANGED <<cancel, dm, effect, dead>>

\* prepareParameters asks the server about the parameters, in vain.  A statement
\* prepared at the server that has been executed is not described again.
ParametersUnknown(h) ==
    /\ h.current <= 0 /\ (h.method = "server" => handle.status # "finished")
    /\ \E a \in Arrays :
          handle' = [(IF h.status = "finished" THEN Recycle(h) ELSE h)
                     EXCEPT !.current = 0, !.method = HowToPrepare(h, a.n)]
    /\ call' = [call EXCEPT !.ret = "error"]
    /\ UNCHANGED <<app, pstat, cancel, dm, effect, given, dead, exec>>

MayExecute == /\ Idle /\ dm = "idle" /\ exec < MaxExecs
              /\ "cancelBatch" \in Avoids => cancel.pc = "idle"

ExecuteHandle(h) == [(IF h.status = "finished" THEN Recycle(h) ELSE h) EXCEPT !.current = None]

\* SQLExecute.
Execute == /\ MayExecute /\ handle.prepare
           /\ LET h == ExecuteHandle(handle) IN StartRows(h) \/ ParametersUnknown(h)

\* SQLExecDirect.
ExecDirect == /\ MayExecute
              /\ "directAfterCancel" \in Avoids => handle.current <= 0
              /\ LET h == Recycle(InitializeStmts(handle)) IN
                 StartRows(h) \/ ParametersUnknown(h)

-----------------------------------------------------------------------------
(* The rows of the array.                                                  *)

\* The call returns: the execution is over, or needs data.
Over(ret) == /\ call' = [call EXCEPT !.pc = "idle", !.msg = << >>, !.ret = ret]
             /\ dm' = "idle"
NeedData(state) == /\ call' = [call EXCEPT !.pc = "idle", !.ret = "needdata"]
                   /\ dm' = state

RowsLeft == {r \in handle.current .. EndRow : r \notin app.ignored}
IsNext(r) == r \in RowsLeft /\ \A s \in RowsLeft : r <= s

RowHandle(r) == [FreeData(handle) EXCEPT !.current = r]

\* The row counts as an error until it has been executed.
StartRow(r) == /\ call.pc = "row" /\ IsNext(r)
               /\ pstat' = [pstat EXCEPT ![r] = "error"]
               /\ UNCHANGED <<app, cancel, effect, given, dead, exec>>

BoundRow == \E r \in Rows \ app.atexec :
    /\ StartRow(r)
    /\ handle' = RowHandle(r)
    /\ call' = [call EXCEPT !.pc = "resolve"]
    /\ UNCHANGED dm

\* Mutant: the parameters that still need data are not counted down.
Token_NotCounted(h) == [h EXCEPT !.param = @ + 1, !.put = FALSE]

\* SQLParamData hands out the token of the next parameter.
Token(h) == [h EXCEPT !.dae = @ - 1, !.param = @ + 1, !.put = FALSE]

\* Data are needed: SQLExecute says so, SQLParamData goes on to the first token.
DataRow == \E r \in app.atexec :
    /\ StartRow(r)
    /\ LET h == [RowHandle(r) EXCEPT !.dae = Params] IN
       \/ call.by = "execute" /\ handle' = h /\ NeedData("need")
       \/ call.by = "paramdata" /\ handle' = Token(h) /\ NeedData("must")

\* The end of the array: what is still deferred is sent (LAST_EXEC).
FinishRows == /\ call.pc = "row" /\ RowsLeft = {}
              /\ handle.type = "direct" \/ handle.deferred = << >>
              /\ handle' = [handle EXCEPT !.current = None]
              /\ Over("success")
              /\ UNCHANGED <<app, pstat, cancel, effect, given, dead, exec>>

SendDeferred == /\ call.pc = "row" /\ RowsLeft = {}
                /\ handle.type = "deferred" /\ handle.deferred # << >>
                /\ handle' = [handle EXCEPT !.status = "executing",
                                 !.current = IF @ > EndRow THEN @ ELSE EndRow]
                /\ call' = [call EXCEPT !.pc = "server", !.kind = "last", !.msg = handle.deferred]
                /\ UNCHANGED <<app, pstat, cancel, dm, effect, given, dead, exec>>

-----------------------------------------------------------------------------
(* Exec_with_parameters_resolved: the values of the current row are known. *)

TheRow == [exec |-> exec, row |-> handle.current,
           data |-> IF handle.current \in app.atexec THEN handle.pdata ELSE NoData]

\* copy_statement_with_parameters cannot convert a value.
BadValue == /\ call.pc = "resolve" /\ handle.method # "server"
            /\ "badValueInBatch" \in Avoids => handle.deferred = << >>
            /\ handle' = [handle EXCEPT !.current = None, !.param = None]
            /\ Over("error")
            /\ UNCHANGED <<app, pstat, cancel, effect, given, dead, exec>>

\* A statement sent with the extended protocol is executed at once.
MayDefer == /\ handle.method # "server" /\ handle.type = "deferred"
            /\ handle.current < EndRow
            /\ handle.count + 1 < handle.batch

Defer == /\ call.pc = "resolve" /\ MayDefer
         /\ handle' = [handle EXCEPT !.deferred = Append(@, TheRow), !.count = @ + 1,
                                     !.current = @ + 1, !.param = None]
         /\ pstat' = [pstat EXCEPT ![handle.current] = "success"]
         /\ call' = [call EXCEPT !.pc = "row"]
         /\ UNCHANGED <<app, cancel, dm, effect, given, dead, exec>>

SendRow == /\ call.pc = "resolve" /\ ~MayDefer
           /\ handle' = [handle EXCEPT !.status = "executing", !.param = None]
           /\ call' = [call EXCEPT !.pc = "server",
                          !.kind = IF handle.type = "direct" THEN "direct" ELSE "batch",
                          !.msg = IF handle.type = "direct" THEN <<TheRow>>
                                  ELSE Append(handle.deferred, TheRow)]
           /\ UNCHANGED <<app, pstat, cancel, dm, effect, given, dead, exec>>

-----------------------------------------------------------------------------
(* The answer.                                                             *)

\* Mutant: the batch that was sent is kept.
Executed_Kept(h) == [h EXCEPT !.status = "finished", !.count = 0]

Executed(h) == [h EXCEPT !.status = "finished", !.count = 0,
                         !.deferred = IF call.kind = "direct" THEN @ ELSE << >>]

\* param_status_batch_update: the count + 1 highest rows in use up to target.
\* Mutant: the rows in use are not told from the others.
Updated_AllRows(target, count) == {r \in Rows : r <= target /\ target - r <= count}

Updated(target, count) ==
    {r \in Rows : /\ r <= target /\ pstat[r] # "unused"
                  /\ Cardinality({s \in r .. target : pstat[s] # "unused"}) <= count + 1}

\* The row whose status the message reports.
LastUsed == CHOOSE r \in 0 .. EndRow :
                /\ pstat[r] # "unused"
                /\ \A s \in r + 1 .. EndRow : pstat[s] = "unused"
StatusRow == IF call.kind = "last" /\ \E r \in 0 .. EndRow : pstat[r] # "unused"
             THEN LastUsed ELSE handle.current

\* The server commits the message.  With notices every row of it is updated.
Done == /\ call.pc = "server"
        /\ effect' = effect \o call.msg
        /\ \E rows \in {{StatusRow}, Updated(StatusRow, handle.count)} :
              pstat' = [r \in Rows |-> IF r \in rows THEN "success" ELSE pstat[r]]
        /\ IF handle.current >= EndRow
           THEN handle' = [Executed(handle) EXCEPT !.current = None] /\ Over("success")
           ELSE /\ handle' = [Executed(handle) EXCEPT !.current = @ + 1]
                /\ call' = [call EXCEPT !.pc = "row", !.msg = << >>]
                /\ UNCHANGED dm
        /\ UNCHANGED <<app, cancel, given, dead, exec>>

\* Mutant: the loop is not left and tries the row again.
Failed_Retry ==
    /\ call.pc = "server"
    /\ pstat' = [pstat EXCEPT ![handle.current] = "error"]
    /\ handle' = Executed(handle)
    /\ call' = [call EXCEPT !.pc = "row", !.msg = << >>]
    /\ UNCHANGED <<app, cancel, dm, effect, given, dead, exec>>

\* The server refuses the message, or cancels it.
Failed == /\ call.pc = "server"
          /\ "ignoredTailFails" \in Avoids /\ call.kind = "last" =>
                \A r \in 0 .. EndRow : ~InEffect(r)
          /\ pstat' = [r \in Rows |-> IF r \in Updated(handle.current, handle.count)
                                      THEN "error" ELSE pstat[r]]
          /\ handle' = [Executed(handle) EXCEPT !.current = None]
          /\ Over("error")
          /\ UNCHANGED <<app, cancel, effect, given, dead, exec>>

-----------------------------------------------------------------------------
(* SQLParamData and SQLPutData.                                            *)

ParamToken == /\ Idle /\ dm \in {"need", "can"} /\ handle.dae > 0
              /\ handle' = Token(handle)
              /\ NeedData("must")
              /\ UNCHANGED <<app, pstat, cancel, effect, given, dead, exec>>

\* Every parameter has its data: the row is executed.
ParamDataComplete ==
    /\ Idle /\ dm \in {"need", "can"} /\ handle.dae = 0
    /\ call' = [call EXCEPT !.pc = "resolve", !.by = "paramdata", !.ret = "none"]
    /\ UNCHANGED <<handle, app, pstat, cancel, dm, effect, given, dead, exec>>

\* Mutant: every call is taken for the first one.
NewData_Replace(chunk) == <<chunk>>

NewData(chunk) == IF handle.put THEN Append(handle.pdata[handle.param], chunk) ELSE <<chunk>>

PutData ==
    /\ Idle /\ dm \in {"must", "can"}
    /\ LET p == handle.param  r == handle.current IN
       /\ given[r][p] < MaxChunks
       /\ given' = [given EXCEPT ![r][p] = @ + 1]
       /\ handle' = [handle EXCEPT !.put = TRUE,
                        !.pdata[p] = NewData([exec |-> exec, row |-> r])]
    /\ dm' = "can"
    /\ UNCHANGED <<app, pstat, call, cancel, effect, dead, exec>>

-----------------------------------------------------------------------------
(* SQLCancel, by another thread.                                           *)

CancelBegins == /\ cancel.pc = "idle" /\ cancel.calls < MaxCancels
                /\ UNCHANGED <<handle, app, pstat, call, dm, effect, given, dead, exec>>

\* The handle looks as if it waited for data: wait for its critical section.
CancelDialogue ==
    /\ CancelBegins /\ handle.dae >= 0
    /\ "cancelBatch" \in Avoids => handle.type = "direct"
    /\ "busyCancel" \in Avoids => handle.status # "executing"
    /\ cancel' = [pc |-> "reset", busy |-> handle.status = "executing", calls |-> cancel.calls + 1]

\* A cancel request goes to the server, which may refuse the message for it.
CancelAtServer ==
    /\ CancelBegins /\ handle.dae < 0 /\ handle.status = "executing"
    /\ cancel' = [cancel EXCEPT !.calls = @ + 1]

CancelReset ==
    /\ cancel.pc = "reset" /\ Idle
    /\ handle' = [handle EXCEPT !.dae = None, !.param = None, !.put = FALSE]
    /\ cancel' = [cancel EXCEPT !.pc = "idle", !.busy = FALSE]
    /\ dead' = IF dm = "idle" THEN dead ELSE dead \cup {exec}
    /\ dm' = "idle"
    /\ UNCHANGED <<app, pstat, call, effect, given, exec>>

-----------------------------------------------------------------------------
CallStep == \/ BoundRow \/ DataRow \/ FinishRows \/ SendDeferred
            \/ BadValue \/ Defer \/ SendRow \/ Done \/ Failed

Next == \/ Prepare \/ Close \/ ResetParams \/ Execute \/ ExecDirect
        \/ CallStep
        \/ ParamToken \/ ParamDataComplete \/ PutData
        \/ CancelDialogue \/ CancelAtServer \/ CancelReset

\* A call that has begun goes on, and the server answers.
Spec == Init /\ [][Next]_vars /\ WF_vars(CallStep)

-----------------------------------------------------------------------------
(* Properties.                                                             *)

\* When no execution is in progress, a row is reported as a success exactly
\* when it took effect: of the rows of a message all or none are reported as
\* errors, and no row is reported before it has been executed for good.
StatusTruth == Idle /\ dm = "idle" =>
    \A r \in 0 .. EndRow : pstat[r] = "success" <=> InEffect(r)

\* A row is executed with the data SQLPutData was given for its parameters, all
\* of them, in pieces or in one, and with nothing meant for another row.
OwnData == \A i \in DOMAIN effect : effect[i].exec = exec =>
    LET r == effect[i].row IN
    \A p \in Pars : effect[i].data[p] = [k \in 1 .. given[r][p] |-> [exec |-> exec, row |-> r]]

\* What SQLCancel ended stays undone: rows that were waiting to be sent when the
\* execution was cancelled are not sent with a later one.
CancelledRowsNeverRun ==
    [][\A i \in Len(effect) + 1 .. Len(effect') : effect'[i].exec \notin dead]_vars

\* A call returns: the row loop comes to its end.
CallsReturn == ~Idle ~> Idle

\* The rows an execution in progress has yet to execute.
Todo == IF Idle /\ dm = "idle" THEN {}
        ELSE {r \in (0 .. EndRow) \ app.ignored : ~InEffect(r)}

\* In order, no row twice or left out, and none after the execution is over.
Contract == INSTANCE ArrayContract WITH todo <- Todo, done <- effect
ImplementsContract == Contract!Spec
==============================================================================
