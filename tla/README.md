# A TLA+ model of the AWS ODBC driver for PostgreSQL

The driver (`src/`) is psqlodbc with AWS authentication, failover and limitless
routing added. It is a shared library: application threads call ODBC entry
points (`odbcapi*.c`), which lock a handle, call the `PGAPI_*` functions, and
talk to one PostgreSQL session per connection through libpq. Except for the
threads of the distributed transactions on Windows there is no thread of the
driver's own; what is concurrent is threads of the application inside the
library, and the server, which sees what they sent in the order they sent it.

Contents: 1 Inventory, 2 Modules and how they compose, 3 The modules one by one,
4 Runs, 5 Fairness, 6 Proofs, 7 Observations on the code, 8 Not modelled.

## 1. Inventory

| component | state | operations | interacts with | modules |
|---|---|---|---|---|
| Transactions and statement savepoints (`connection.c`, `execute.c`, `statement.c`) | `transact_status`, `rbonerr`, `internal_svp`, `internal_op`, `opt_in_progress`, `opt_previous` of a connection; `lock_CC_for_rb` of a statement | `SC_execute`, `CC_send_query_append`, `SetStatementSvp`, `DiscardStatementSvp`, `CC_begin/commit/abort`, `CC_internal_rollback`, `CC_set_autocommit`, `PGAPI_Transact` | the session, cursors, every statement of the connection | StatementSvp, ManagedUse, CursorUse, SharedUse, PgSession, TransactionContract |
| Connection handles and connecting (`connection.c`, `drvconn.c`, `environ.c`) | `status`, `pqconn`, connection string | connect, retry, disconnect, free, `CC_cleanup` | authentication, statements | Connect |
| AWS services (the library is external; `connection.c`, `odbcapi.c`) | cached tokens, limitless router, failover | `GetTokenForIAM`, `GetLimitlessServer`, `SC_connection_lost_check` | connecting | Connect |
| Statement handles and execution (`statement.c`, `execute.c`, `pgapi30.c`) | `status`, `prepared`, `data_at_exec`, `exec_current_row`, delegated statements, callbacks, options | prepare, execute, `SQLParamData`/`SQLPutData`, cancel, bulk operations, free | results, transactions, descriptors | ParamExec, ArrayContract, BulkOps, Descriptors |
| Results and cursors (`qresult.c`, `results.c`) | tuple cache, `cursTuple`, rowset, keyset, rollback list | fetch, `QR_next_tuple`, `SQLSetPos`, undo of positioned changes | transactions | Scroll, RowsetContract, BulkOps, Keyset |
| Descriptors and bindings (`descriptor.c`, `bind.c`, `pgapi30.c`, `options.c`) | four descriptors per statement, explicit descriptors shared by statements, `gdata_info`, `pdata_info` | bind, set field, copy, free | statements | Descriptors |
| Conversions and query rewriting (`convert.c`, `parse.c`, `multibyte.c`) | the scanners; `current_col`, `data_left` of a column | query to commands and markers, values to literals, `SQLGetData` in pieces | server, results | QueryText, Descriptors |
| Catalog functions (`info.c`, `odbcapi.c`, `odbcapiw.c`) | statement handles of the driver's own | the catalog calls and their second searches | statements | Catalog |
| Distributed transactions (`msdtc_enlist.cpp`, `pgxalib.cpp`) | `IAsyncPG`, its locks and threads, prepared transactions | enlist, prepare, commit, abort, recover | connections, transactions | Enlist |
| Large objects (`lobj.c`) | one descriptor per statement | fastpath calls | transactions | - |
| Configuration, dialogs, logging, memory, loading | none a step of another component depends on | parsing and storing of options | - | - |

What is hard here:

- flags of a connection that are copies of the server's state and are refreshed
  at some returns only; savepoints of the driver among savepoints of the
  application on one stack; a critical section that one function enters for the
  rest of the ODBC call and another one leaves;
- executions that run over rows, put some of them off, stop in the middle to ask
  for data, are resumed through a queue of callbacks, and may be cancelled;
- three numbers (the server's cursor, the cache, the rowset) that have to stay
  in step; a keyset that has to be brought back to what the server holds after
  a ROLLBACK nobody explains to the driver;
- tokens that are cached by one name and refused under another; sessions lost
  and replaced beneath a handle; two-phase commit in threads that share a session
  with the application;
- arrays of bindings shared, copied and freed under three owners;
- one query text read by two scanners and a server, each with rules of its own.

PROJECT.json lists each of these under "hazards" with its line.

## 2. Modules and how they compose

| abstract specification | implemented by | mapping |
|---|---|---|
| `TransactionContract`: the session the application sees under Statement(2) | `StatementSvp` (run `serial`) | the session as of the beginning of the call that runs (`before`), without the internal savepoint |
| `ArrayContract`: rows of an array take effect in order, once, until the execution is over | `ParamExec` (run `arrays`) | what is left (`Todo`) and what is in effect |
| `RowsetContract`: a fetch moves a rowset over the result and hands out its rows | `Scroll` (run `scroll_rows`) | the cursor of the server, the place and rows handed out |

`StatementSvp` uses `PgSession`, the server. The other modules stand for
themselves and abstract what their neighbours do: ParamExec, BulkOps and Keyset
take messages as committed or failed as a whole, Connect sees a transaction as one
bit, Catalog leaves transactions to StatementSvp. Where two of them touch the same
code the README says which one has it. MC modules instantiate them for TLC,
`*_proofs` modules, `StatementSvp_contract` and `StatementSvp_uses` hold the theorems. `ManagedUse` adds to
StatementSvp the use for which level 2 keeps its promise and the invariant behind it, `CursorUse` the one
for which nothing of the driver's own is left behind, cursors included, and `SharedUse` the one for which
threads that share a connection at level 2 do not disturb each other (see 6).

The order in which they were written is that of importance to an application:
transactions, executions, bulk operations, scrolling, connecting, distributed
transactions, keysets, catalog functions, descriptors, query text. A next step
would be the composition of Scroll with StatementSvp (cursors that do not survive
a rollback), and a proof of Catalog's `HandlesFreed`.

Every property of a run has a mutant in PROJECT.json: an operator next to the
definition it changes (marked "Mutant", "Slip" or "Mistake"), as a plausible error
in the code would, for which TLC finds the property violated. In the modules whose `TypeOK` is not
the property of a run (BulkOps, Connect, Enlist, Keyset, Scroll) it documents the
state; it holds in the runs' instances, and for all of them but Keyset it is proved.

## 3. The modules one by one

### PgSession (external)

PostgreSQL as the driver observes it: status (idle, in a transaction, failed,
gone), writes of the open transaction, its savepoint stack, durable writes.
`Outcomes(s, cmd)` is the set of all answers to a command: a statement may
always fail, COMMIT of a failed transaction answers ROLLBACK, COMMIT may be
refused, savepoints of a name shadow older ones. The server is not in the
repository, so all of the module is marked external.

### StatementSvp

One connection, its statement handles (`Stmts`), and one more thread on the
connection handle (`Dbc`). Each thread is in at most one API call, whose program
counter walks through the code:

| state | code |
|---|---|
| `conn` | `transact_status` (autocommit, inTrans, manual, inError), `rbonerr` (accessed, rbpoint), `internal_svp`, `internal_op`, read-only bit of `opt_in_progress`/`opt_previous`, `pqconn`, open declare/fetch cursors |
| `calls[t]` | where the call is, its statement type and protocol, `lock_CC_for_rb`, whether it will return SQL_ERROR |
| `wire[t]` | commands of the message sent and not yet answered |
| `cs` | owner of the connection's critical section |
| `be` | the session |

| actions | code |
|---|---|
| `Call`, `Down`, `PreCommit`, `BeginFirst`, `DirectSavepoint`, `SendMain`, `MainDone`, `PostCommit`, `Post` | `SC_execute`, `libpq_bind_and_exec`, `CC_send_query_append` with what it prepends, `SetStatementSvp` |
| `Discard`, `Undo`, `UndoDone`, `DecideAbort`, `Abort`, `AbortDone`, `Sync`, `EndCall` | `DiscardStatementSvp`, `CC_internal_rollback`, `CC_abort` |
| `Close`, `CloseDone` | `QR_close` of a declare/fetch cursor |
| `EndTran`, `SetAutocommit` and their `...Done` | `PGAPI_Transact`, `CC_set_autocommit` |
| `Reply`, `Lose`, `Reconnect` | `PQgetResult` loop with `handle_pgres_error` and the command tags, `CC_on_abort(CONN_DEAD)`, the failover in `SC_connection_lost_check` |

Two facts of the code decide most of what can happen. Only
`CC_send_query_append` reads command tags and copies the transaction status when
it returns; a statement of the extended protocol (`libpq_bind_and_exec`) does
neither (`Queried`). And libpq reports ACTIVE while a message is in flight, in
which case nothing is copied (`StatusCopied`).

Statement kinds stand for `statement_type`: `ro` is a statement the driver knows
to be read-only (catalog functions), `special` is VACUUM and its like, `call` a
procedure call with output parameters, `declare` a select through declare/fetch,
`local` a call that does not reach the server.

Left out: cursors that may not have survived ROLLBACK TO are closed under a
savepoint of their own (`CC_mark_cursors_doubtful`, ROLLBACK_ON_ERROR;
`CoreAssumption` keeps `declare` and `rollbackto` apart); PER_QUERY_ROLLBACK and
`SET statement_timeout` send further commands in the same message; the Parse and
Describe round trips of the extended protocol are part of the message that
executes; PQsendQuery failing at once is the same as losing the answer.

### TransactionContract

What level Statement(2) with autocommit off promises: the application works on
a session of its own; a call is made, may turn out to fail, and returns; a
statement that returns SQL_ERROR had no effect. While a call runs the application sees the session the call began with
(`before`), and never the internal savepoint. The freedom the contract leaves
is written in it: a failing statement may end a transaction that holds no work
(the first statement of a transaction has no savepoint and is undone by
ROLLBACK), and when the connection breaks during COMMIT either outcome is possible.

### ParamExec and ArrayContract

One statement handle (not a query, forward-only and read-only) executing for an
array of parameters, in autocommit mode, so that a message takes effect as a
whole or not at all. The row loop of `PGAPI_Execute` and
`Exec_with_parameters_resolved` are one call that walks from row to row:

| state | code |
|---|---|
| `handle` | `prepare`, `exec_type`, `status`, `batch_size`, `exec_current_row`, `stmt_deferred`, `count_of_deffered`, `data_at_exec`, `current_exec_param`, `put_data`, the `PutDataInfo` |
| `app` | `paramset_size`, `param_operation_ptr`, which rows are bound with `SQL_DATA_AT_EXEC` |
| `pstat` | `param_status_ptr` |
| `call`, `cancel` | the call of the application's thread (in its critical section until it returns) and the `SQLCancel` of another |
| `dm` | the states S8 to S10 of the driver manager, which lets only calls of the data dialogue through (external) |
| `effect` | the rows the server has executed |
| `given`, `dead`, `exec` | history: the data handed over, the executions that were cancelled, their number |

| actions | code |
|---|---|
| `Prepare`, `Close`, `ResetParams` | `PGAPI_Prepare`, `PGAPI_FreeStmt`, `SC_recycle_statement`, `SC_free_params` |
| `Execute`, `ExecDirect` (`StartRows`, `ParametersUnknown`) | `SQLExecute`, `SQLExecDirect`, `PGAPI_Execute` up to `next_param_row` |
| `BoundRow`, `DataRow`, `FinishRows`, `SendDeferred` | `next_param_row` up to the execution or SQL_NEED_DATA |
| `BadValue`, `Defer`, `SendRow`, `Done`, `Failed` | `Exec_with_parameters_resolved`, `param_status_batch_update` |
| `ParamToken`, `ParamDataComplete`, `PutData` | `PGAPI_ParamData`, `PGAPI_PutData` |
| `CancelDialogue`, `CancelReset`, `CancelAtServer` | the branches of `PGAPI_Cancel`: look at the handle, wait for the critical section and reset; or send a request |

The data of a parameter are chunks that carry the execution and row they were
meant for, so that a chunk in the wrong place shows. ArrayContract is what an
application may rely on: rows take effect in the order of the array, none twice
and none left out, until the execution is over, and none after.

Left out: manual commit mode, in which an error takes earlier rows of the array
back while their status says success; queries, updatable cursors and several
statements in one string; plans prepared at the server (whether one exists is only
told by the status of the handle; describing the parameters again is left possible
where the driver would find the plan it has); large objects written by SQLPutData
and errors of SQLPutData itself; the connection breaking, which here is one more
way for a message to fail; SQL_SUCCESS_WITH_INFO counts as success, SQL_NO_DATA is
not told apart.

### BulkOps

SQLBulkOperations and SQLSetPos on a rowset of an updatable cursor: the loop over
the rows, the delegated statement that executes each INSERT and UPDATE, the
callbacks that continue a row and the loop behind it when its data are there, and
autocommit, which is switched off for the time of the operation on the whole
connection. Another statement of the connection may write at any time.

| state | code |
|---|---|
| `conn` | autocommit as set and as in effect, what the server holds of writes, pending and durable |
| `stmt` | `callbacks`, `execute_delegate`, `currTuple`, `pos_ridx`, CURS_IN_ROWSET |
| `call` | `bop_cdata` / `spos_cdata` and where the loop is |
| `app` | bound data at execution, row operations, row statuses, rows fetched |
| `hist` | history: the rows done, which of them the server did not write, whether the COMMIT was refused |

What may come of a row's command (`Results`) is what `irow_update`, `SC_pos_delete` and
`irow_insert` make of the server's answer: an error before or after the row was written; a success; a
row that was gone, which is SQL_SUCCESS_WITH_INFO (and whose reload for a keyset cursor may break
the transaction unseen); an INSERT that a trigger or a rule swallowed, which keeps its return
code. The COMMIT in `CC_set_autocommit` may be refused (`taken`), where the mode is switched off and where it
is switched on again; the code does not look. In a failed transaction it is answered by a ROLLBACK.

Actions: `BulkOperations`, `SetPos` (entry with its checks), `PassOver`,
`ExecuteRow`, `PositionRow`, `RefuseRow`, `RowNeedsData`, `LoopEnds`, `Finish`
(`bulk_ope_callback`, `spos_callback`, `SC_pos_update/delete/add`), `ResumeRow`,
`ResumeLoop` (`dequeueNeedDataCallback`), `ParamToken`, `ParamExecute`, `PutData`,
`Cancel`, `Reopen`, `OtherWrites`, `SetAutocommitOption`, `EndTran`.

### Scroll and RowsetContract

A result read through a cursor of the server (or cached as a whole): SQLFetchScroll
moves the rowset, and `QR_next_tuple` decides row by row whether the cache has it
or MOVE and FETCH must get it. Rows are numbers, so a wrong row shows.

| state | code |
|---|---|
| `server` | the position of the server's cursor, its number of rows, whether it was moved to the end, whether the transaction failed |
| `res` | `backend_tuples`, `num_cached_rows`, `cursTuple`, `base`, `num_total_read`, `reached_eof`, `move_direction`, `cache_size` |
| `stmt` | `rowset_start`, `currTuple`, `last_fetch_count`, `save_rowset_size` |

Actions: `ExtendedFetch` (`PGAPI_ExtendedFetch` up to the first row) and
`FetchWhole`, `FetchCached`, `FetchAtEnd`, `FetchMoved`, `FetchNew`, `FetchMore`,
`FetchRefused`, `Done` (`SC_fetch`, `QR_next_tuple`, `move_cursor_position_if_needed`,
`QR_read_tuples_from_pgres`). RowsetContract is weakened, explicitly, in two
places where the code does less: a rowset that was counted from the end may lack
its last rows (`Given`), and behind an end that is not known yet the place is not
fixed (`Reached`). See 7.

### Connect

Two connection handles that share the token cache. A call holds the critical
section of its handle.

| state | code |
|---|---|
| `conn` | `status`, `pqconn`, the transaction flag, the connection string, host and limitless/failover services |
| `call` | where `CC_connect`, a statement, SQLEndTran, SQLDisconnect or the failover is |
| `app` | what the application was told |
| `cache` | host -> token of the library (external) |
| `srv` | the sessions (external) |

Actions: `Ask(c)` (the entry points) and `Step(c)` (`CC_connect`, `LIBPQ_connect`
with cached token, fresh token or secret, the limitless router, `CC_initial_log`'s
retries and initial settings, `SC_connection_lost_check`, `CC_cleanup`), `Lose` a
session, `Expire` a token.

### Enlist

One handle enlisted in distributed transactions one after the other.

| state | code |
|---|---|
| `handle` | autocommit, the error left on the handle, `asdum`, the flags of `gTranInfo` |
| `branch` | each `IAsyncPG`: which connection `dtcconn` is, `prepared`, `done`, the result of the request |
| `lock` | ELOCK of a branch, CONN_CS, LIFELOCK |
| `thread` | the application, MSDTC's request threads, `RequestExec` |
| `sess`, `pg`, `durable`, `dtc` | the session, the prepared transactions, the committed work, the coordinator (external); `dtc[b].lost` records that a command was executed whose answer never came |

Actions: `Application` (enlist, statements, SQLDisconnect), `Coordination(b)`
(Prepare/Commit/AbortRequest and the XA library's recovery), `RequestExec(b)`,
`Separation(t)` (`separateXAConn` with `isolateXAConn` and `generateXAConn`, `PgDtc_isolate`).
A connection may break under a command of `RequestExec`, before the server has executed it or after: the
driver cannot tell the two apart (`PgDtc_two_phase_operation`, `CC_commit`) and reports E_FAIL. `Losses` names the
commands under which the handle may lose its session: `vote` (ROLLBACK, COMMIT or PREPARE TRANSACTION
of a PrepareRequest), `abort` (the ROLLBACK of AbortRequest), `statement`, `decision` (COMMIT or ROLLBACK PREPARED). The
branch's own connection may break under every command.

### Keyset

An updatable static cursor whose result is cached as a whole.

| state | code |
|---|---|
| `server` | the table as this session and the others see it, its savepoints |
| `res` | `backend_tuples`, `keyset` (tid and the CURS_ bits), `ad_count`, `rollback` |
| `pc` | a ROLLBACK TO or ROLLBACK is done on the server and not yet in the driver |
| `upto` | `rollbp`, what the scans of `UndoRollback` found to stand |
| `foreign`, `caught`, `kept` | history: rows others changed, those of them changed before the driver asked about them, versions that were committed |

Actions: `Begin`, `Add`, `Update`, `Delete` (`SC_pos_add/update/delete` with
`AddRollback`), `Fetch`, `Savepoint`, `FailStatement`, `Commit`
(`DiscardRollback`/`CommitUpdated`), `RollbackTo`, `OtherUpdate`, `OtherDelete`. The driver's part of a
rollback is a series of messages of its own, and the rows are unlocked meanwhile: `RollbackTo` and
`FailStatement` are followed by `FindUndone` (the two scans of `UndoRollback`, `tupleExists`) and that,
as `Rollback` is at once, by `Undo` (the entries, `positioned_load`); other sessions act in between.
Each of the two is one step, since a row changed between two of its questions has none of the old versions
asked for before the change or after it.

### Catalog

The catalog functions and their ANSI and Unicode entry points as a stack of
functions in progress, each with its internal statement handles.

| state | code |
|---|---|
| `db` | the items of the server |
| `hs` | live statement handles: that of the application and those of the driver |
| `stack` | the functions in progress with their arguments, step and partial answer |
| `app`, `up` | the call and its answer; whether the session answers |

`EntryPoints` are `SQLTables` to `SQLProcedureColumns`, `Driver` the steps of the
function on top: its query, its fetches (which may fail half way), the calls of
other catalog functions (`SQLStatistics`, `SQLForeignKeys`), the second search in
schema public (`goto retry_public_schema`) and in lower case, and the return with
the freeing of handles. `Complete` says what the answer should be, written without
looking at how the queries are put together.

### Descriptors

Statement handles with their options and descriptors, explicit descriptors, the
data put at execution and the values read in pieces, in an explicit heap.

| state | code |
|---|---|
| `d.mem`, `d.arr` | live blocks and the arrays (ARD, APD, IPD records, bookmark, `gdata`, `pdata`) that hold them |
| `d.desc`, `d.stmt`, `d.deflt` | descriptors, statement handles with `options` and `options_orig`, `stmtOptions` of the connection |
| `asked` | what the application has asked for last |
| `left`, `uses` | the program: which groups of calls, and how many of each |

A call is one step: it runs in the critical section of its handle. Record 0 is the
bookmark, the second column's text has line ends to convert, so that it passes
through `ttlbuf`.

Left out: NULL values and indicators, the `fdata` buffers of bound columns, the
columns of the IRD, record fields that only describe, failing malloc,
`retrieve_data` off, large objects, SQLSetDescRec.

### QueryText

The application's text, an unbounded sequence of characters, is read in step by
the driver's scan for SQLNumParams (`whole`), its scan of the present command
(`org`), the rewriting (`qb`), the driver's scan of the text it made (`gen`) and the
server's lexer (`srv`), each with one character of lookahead; so no bound on the
length is needed. `conn` says whether the statement is prepared ($n) or values are
written into the text, and whether a backslash escapes
(`standard_conforming_strings`). The one action `Feed` is a turn of all the loops.

`Legible` names what is kept out, which the scanners are known to read differently;
see 7.

## 4. Runs

| run | module | instance and bounds | shows |
|---|---|---|---|
| `serial` | StatementSvp | level 2, autocommit off, one statement handle, both protocols, own BEGIN, COMMIT, ROLLBACK, savepoints, the network may break; 3 writes, 3 savepoints | the internal savepoint is always on top; no savepoint or work of the application is lost; a reported write is there; TransactionContract implemented, across reconnects too |
| `auto` | StatementSvp | level 2, autocommit switched, two handles, cursors, catalog functions, procedure calls, savepoint in a round trip of its own, the network may break; 2 writes | no transaction of the driver's own stays open and no failed one is left; COMMIT tells the truth; every call returns |
| `threads` | StatementSvp | level 2, two statement threads and the connection thread, interleaved at every message; 2 writes | one message in flight; a failing call undoes its own writes only |
| `arrays` | ParamExec | up to 3 rows, one parameter, batches of 2, 2 executions, 2 chunks, one SQLCancel | statuses say what took effect; each row has its own data; ArrayContract implemented; every call returns |
| `bulk_rows` | BulkOps | rowset of 2 over 3 tuples, 2 operations, one write of another handle, unbound columns and SQLCancel | autocommit is what the application set; every row once, in order, with its tuple; statuses and counts say what the driver was told, and what the server wrote is there unless the COMMIT failed |
| `scroll_rows` | Scroll | results of 0, 1 and 4 rows, Fetch 1 and 3, rowsets of 1 to 3, all orientations, refused MOVE and FETCH | the cache has no gap and is where `base` says; RowsetContract implemented |
| `connect_tokens` | Connect | a handle that executes with three connection strings, another that shares its tokens; 2 sessions at a time | a session has one handle; connecting fails only for a reason outside; after a failover the handle works as the application was told |
| `enlist_outcome` | Enlist | two branches, one after the other on a handle | nothing is durable that MSDTC did not decide to commit; what MSDTC is told is so, also when the connection breaks under a vote or an abort |
| `keyset_undo` | Keyset | one row at first, at most 3, 5 row versions, 2 savepoints, one change by another session, a fetch while at most 2 rollback entries exist | after every rollback the keys shown are those of the server, and none is missing, but for a row changed before the driver asked about it; no key is that of another row |
| `catalog_answers` | Catalog | 10 databases of up to 8 items, schemas none/me/ME/app, spellings emp/EMP/Emp/%, every entry point, failures of every query and fetch, a lost session | handles freed once; a success answers completely; an error is told; every call returns |
| `descriptors` | Descriptors | 12 programs of up to 6 calls, 2 statements, an explicit descriptor, records 0 to 2, 2 rows | bindings as asked; no block lost, freed twice or used after; options come back; pieces consecutive and complete |
| `query_texts` | QueryText | texts of any length; 2 commands, 2 markers a command, comments nested 2 deep, one escape sequence, values of 2 characters | markers, commands and values agree between the driver's scanners and the server |

In `threads` the network does not break (see 7).

Why the bounds are enough. Savepoints: one name besides the internal one is enough
for shadowing, since savepoints of one name nest; two or three writes tell earlier
work from the work of the call and of another thread. Arrays: three rows are the
least for which a batch of two has a tail of its own, a row to ignore comes between
two others, and a row needs data while one before it waits; two executions are
enough for one to leave something behind for the other. Bulk operations: with three
tuples one of which has left the rowset, rows and tuples are numbered apart, and two
rows are the least for a second one to be resumed. Scrolling: four rows with Fetch 3
need a second FETCH, and a rowset of three can begin in the cache and end behind it.
`Unknown`, what the driver takes for the number of rows while the end was not seen, is INT_MAX.
Connecting: a second session is needed to lose the first and to leak one. Enlistment:
a second branch shows what the first left on the handle; a third would be needed for
the handle that is enlisted while it is not connected (see 6 and 7). Keysets: two savepoints
with a changed and an added row are the least for a partial undo to have to guess.
Query text: two commands show a wrong cut, two markers a wrong number, and the
automata have no memory beyond nesting.

Deadlock is checked but in three runs. In `bulk_rows`, `scroll_rows` and
`descriptors` the bounds on calls end the behaviour, or SQLDisconnect does. In
`enlist_outcome` two threads of the code really can wait for each other (see 7).

What the runs leave out on purpose, because the code breaks the property there, is
named: by the operations in `Ops` (transaction statements through the extended protocol,
catalog functions and procedure calls at level 2 with autocommit off, VACUUM in a
transaction, calls of kind `local` when threads share a connection; the BEGIN and
declared cursors of `auto` are checked against fewer properties), by `Avoids` in ParamExec,
`Waits` and `Losses` in Enlist, `UpdatesAdded` in Keyset, by the weaker clauses of RowsetContract and by
`Legible` in QueryText. Each is explained in 7.

`Avoids` of `arrays`: `cancelBatch` (a batched execution is cancelled while it waits for
data: the rows it had put off are sent by the next execution), `busyCancel` (SQLCancel
while SQLParamData executes blocks until the server is done, and sends no request),
`badValueInBatch` (a value that cannot be converted ends the execution while rows
before it are deferred; they are reported as successes and sent later),
`directAfterCancel` (after SQLCancel in row k SQLExecDirect begins at row k), and
`ignoredTailFails` (if the last rows are ignored and the message with the deferred rows
fails, one row too many is marked; this takes four rows, with three it excludes
nothing).

## 5. Fairness

`FairSpec` of StatementSvp (run `auto`): a thread inside the driver runs on, since
nothing in the driver waits except for the critical section and the server; the
server answers or the connection breaks. ParamExec: a call that has begun goes on and
the server answers (weak fairness of `CallStep`); Catalog: weak fairness of `Driver`, the
steps of a function that was called. Nothing is assumed of the application, of SQLCancel
or of the data dialogue: it need not call again. Weak fairness is enough because the one
thing a thread waits for, the critical section, is not contended in these runs.

The other modules have safety properties only. Termination of connecting holds by
the bounded number of attempts in `CC_connect`, but its state space is too large for
TLC's liveness check; Enlist can deadlock, so that nothing can be promised there.

## 6. Proofs

`StatementSvp_proofs` proves, for every number of statement handles, every set
of operations, and both settings of every option:

- `OutcomeWellFormed`: every outcome of a command on a well-formed session of PgSession
  is a well-formed session, by case on the command, with lemmas on prefixes and appended savepoints.
- `TypeCorrect`: `Spec => []TypeOK`. Not a formality: `wire` must stay a sequence
  of well-formed commands through every prefix the driver prepends, and `be` a
  session through every answer.
- `CriticalSection`: `Spec => []CsInv`. A thread that has a message on the wire
  or runs between two messages owns the critical section; the exception is the
  ROLLBACK TO of `CC_internal_rollback`, which is sent with PQexec.
- `OneMessage`: at levels 0 and 1 two messages are never in flight together. The
  strengthening (`QuietInv`) says that the exception above never arises there:
  `rbpoint` is only set by a savepoint the driver makes, and it makes none. At
  level 2 more is needed (`OneMessageOnThreads` below).

`StatementSvp_contract` proves what level 2 promises, for an application that uses one connection as
`Managed` says: autocommit off (`Autocommits = {FALSE}`), one call at a time (`Serialized`), work
on data by either protocol, and BEGIN, COMMIT, ROLLBACK, savepoints and SQLEndTran by the simple one.
These are the conditions of the run `serial`, for any number of statement handles, any names and depth of savepoints,
any number of writes, both values of ReduceRoundtrip, and a connection that may break at
any command or never. Without them the promise is broken (see 7), which is why they are a
hypothesis: they are about the application, and no code checks them.

- `ManagedInvAlways`: `Spec => []ManagedInv`; TLC checked it on the instance of `serial` before it was proved.
  None of the properties below is inductive: each
  speaks of the end of a call or of one answer, and what makes it true happened messages before. `SerialInv`
  relates, for each program counter, the message that is under way (`wire`), the flags of the
  connection, the session and the session the call began with. At rest the flags tell the truth (`Calm`), and
  `opt_previous` is not read-only if the transaction holds work (`KnowsWork`), which is why a statement
  without a savepoint has nothing to lose. Before the command of the call runs, the session is the
  one the call began with (`Clean`), and the statement is protected by a savepoint made for it that is the newest and marks all
  the work (`Guarded`, `TopNow`), or the transaction is empty (`Bare`). Afterwards the
  session is what the command makes of the one before (`DoneEffect`, `FailEffect`), or a failed one
  that can still be undone (`Undoable`). The proof has one lemma per action (`StepCall` to `StepLose`), and for `Reply` one per
  place that waits. `NumberInv` says that a write is new to the session its call
  began with.
- `OwnSavepointOnTopAlways`, `UserSavepointsSurviveAlways`, `EarlierWorkKeptAlways`, `NotPoisonedAlways`,
  `WriteReportedAlways`: the properties of `serial` and `NotPoisoned`, each from the invariant at the step it speaks of.
- `TransactionContractKept`: `Spec => ImplementsContract`. `Call` and `EndTran` are the contract's
  `Make`; a step by which a call comes to fail is its `Fail`; `EndCall` and `EndTranDone` are
  `Succeed`, `FailData`, `FailControl` or `Lost`, by what `DoneEffect` and
  `FailEffect` say; `Reconnect` is `Reconnect`; all other steps change nothing the contract sees. It rests on lemmas
  that a command means to the stack without the driver's savepoints what it
  means to the stack with them (`SeenOutcome`), which is not obvious for RELEASE and ROLLBACK TO: they take
  everything above the newest savepoint of the name along, and the rank of a savepoint among the application's own is
  not its place on the stack (`RankOrders`).

`StatementSvp_uses` proves, first, that nothing of the driver's own is left behind, in a wider use (`OnCursors`):
autocommit on, off or switched at any time, level 1 or 2, declare/fetch cursors, catalog functions, procedure calls, BEGIN,
SQLEndTran, calls that never reach the server, and a connection that may break at any command. One call runs at a time
(`Serialized`), and only writes and plain reads go by the extended protocol; the run `auto` is an instance. The application's own
COMMIT, ROLLBACK and savepoints in a statement are left to `StatementSvp_contract`.

- `AutocommitSettledAlways`, `NotPoisonedWithCursors`, `CommitTruthAlways`: the safety properties of `auto`. They speak of the
  connection at rest or of the return of a call, and depend on what a call may find in between. `CursorInv`
  says at each program counter what is on the wire, how the session stands to the flags, and who the transaction is
  for. At rest `transact_status` is the session's (`Aware`), the session has not failed, and an open transaction belongs
  to the application or to an open cursor (`Served`). Inside a call this does not hold, and the invariant says how far:
  a declare/fetch select begins a transaction for a cursor that is not open yet, and if it fails then, CC_abort
  has to end that transaction, which needs that `CC_accessed_db` is set and that no `rbpoint` is
  (`Dues`, `Blamed`); the transaction of a BEGIN becomes a manual one only after it was answered; and between an answer of the
  server and the next copy of the status only `Coherent` holds. CC_commit after a statement,
  whose result is not looked at, leaves no transaction or no session (`Over`), refused or not; so does the COMMIT that QR_close sends
  behind a CLOSE in one message (`InClose`). For COMMIT by SQLEndTran, `InEndTran` says that the session stays
  the one the call began with until the answer. One lemma per action (`StepDown` to `StepLose`),
  and for `Reply` one per place that waits. TLC checked `CursorInv` on the instance of `auto` (78 256 states), with level 1
  and with ReduceRoundtrip, before it was proved.

and second, for any number of threads that call the driver at the same time (`OnThreads`), that they do not disturb
each other at level 2. Autocommit is off, the threads execute writes and reads by either protocol while another ends
transactions, ReduceRoundtrip is on or off; the run `threads` is an instance. The connection does not
break, and calls that never reach the server are left out, because with either a property fails (see 7).

- `OneMessageOnThreads`: `Spec => []OneInFlight`. CC_internal_rollback sends its ROLLBACK TO with PQexec and does not
  enter the critical section; it meets no message of another thread only because `SetStatementSvp` has set `lock_CC_for_rb`
  before the statement was sent, which keeps the section until the ODBC call returns. `SharedInv` therefore says that a call is
  outside, with nothing on the wire, or is the one inside (`Turn`); that whoever is inside has that lock from the
  moment it changes flags of the connection other statements look at (`Locked`, `Stage`); and that with nobody inside the flags are as if
  no statement had run (`Quiet`), so that the next call to enter does not mistake for its own what another left. Between
  an answer and the next copy of the transaction status only `Basis` holds.
- `UndoLosesNothingAlways`: `Spec => UndoLosesNothing`, which says more than the run asks: the commands sent for a failed
  statement take back no work at all. At that point the statement had a savepoint made for it, which is the newest and marks all the work
  (`Saved`), or the transaction was empty (`First`): the server has already dropped what failed.
- `UndoesOwnOnlyAlways`: `Spec => UndoesOwnOnly`, from it. One lemma per action (`SharedBeginFirst` to `SharedCall`), and
  for `Reply` one per place that waits. TLC checked `SharedInv` on the instance of `threads` (528 019 states), without
  ReduceRoundtrip (541 247), and with three statement threads and one write (2 647 553), before it was proved.

`ParamExec_proofs` proves, for arrays, batches and chunks of any size, any number
of parameters, executions and calls of SQLCancel:

- `ExecTypeCorrect`: `Spec => []TypeOK`. The type invariant is not inductive: that
  the current row and the current parameter stay inside their arrays needs to
  know where the call is, and that in a dialogue `data_at_exec` and
  `current_exec_param` add up to the number of parameters (`Positions`).
- `CancelledStaysUndone`: if no batched execution is cancelled while it waits for
  data (`"cancelBatch" \in Avoids`), then `Spec => CancelledRowsNeverRun`, whatever
  else the application does. The invariant says that rows of a cancelled
  execution are neither deferred nor in a message (`NoneWaits`), which needs that
  a direct execution defers nothing of its own and that SQLCancel only ever waits
  to end a direct one (`WhyNoneWaits`). The deferred rows are thus the only way by
  which a cancelled execution can still take effect.

- `StatusTruthAlways`, `OwnDataAlways`, `ArrayContractKept`: the statuses, the data and the
  refinement of ArrayContract, if the application keeps clear of four of the five paths of
  `Avoids` (`Careful`; on each of them the code breaks one of the properties, see 7, and
  `busyCancel` is not needed). The statuses alone are far from inductive. `ArrayInv` keeps
  account of each row between its turn in the loop and its effect: a row passed is in effect
  or deferred (`Account`), the status array counts it a success from the moment it is deferred
  (`Reported`), the deferred rows lie behind those in effect and `count_of_deffered` is their
  number (`Queue`), and a message is the deferred rows and at most one more (`Message`), so
  that setting the last so many statuses back after a failure hits exactly these.
  `GivenInv` adds what the `PutDataInfo` of the current row holds at each point of the
  dialogue (`Handed`) and that rows not yet reached were given nothing (`Unasked`). For the
  refinement a step maps to one of the contract (`Done`, when the message succeeds; the
  calls that begin an execution; those that end it) or to a stutter.

`BulkOps_proofs` proves, for rowsets, results and numbers of operations of any size:

- `BulkTyped`: `Spec => []TypeOK`.
- `SettingKeptAlways`, `RowsOnceAlways`. Nothing in the state between two SQLParamData says
  where the operation is but the callbacks in the queue. The invariant (`Serial`) says
  that the loop they carry is the one that was left: it knows whether autocommit was on
  (`ModeOf`), the rows behind it come before the row it is at (`DoneBefore`), and each of these
  is the number of tuples of the rowset before its own (`PlacedOf`, `AtRank`), which is what
  makes rows and tuples agree again after the loop was resumed.
- `StatusTruthAlways`: `Spec => StatusTruth`, a property of the step that completes an operation.
  The property speaks of a vanished row of an UPDATE or DELETE and a swallowed INSERT too
  (`hist.missed`), and says what is left when the COMMIT at the end is refused or meets a failed
  transaction (`lost`): nothing of that transaction, and what was durable before.
  `TruthInv` adds that the connection holds the writes of exactly those rows done that were not missed
  and what their statuses say (`Told`), that nothing is held or missed of a row not done (`Fresh`),
  that the rows done are the due ones before the current row (`Reckoned`), that
  numbers of operations are new (`Numbered`), and that nothing is pending without a transaction
  (`Orderly`). `SwitchedOnConn` is the end: what switching autocommit on again makes of the work
  with the COMMIT taken and with it refused. After an operation was given up half way
  (`hist.left`) nothing is claimed, as in the property.

`Connect_proofs` proves, for any number of handles, connection strings and sessions:

- `ConnectTyped`: `Spec => []TypeOK`.
- `HeldOnceAlways`, `FailoverTruthAlways`. `HeldInv` says for each handle what it has at each
  point of `CC_connect` and of the failover (`Good`): a closed handle that still has a session
  has one that was lost or has refused an initial command. The proof per step is local to
  a handle: whoever changes one handle and touches only the session that it has, gives up or takes keeps
  the invariant for all (`HandleStep`).
- `NoNeedlessErrorAlways`: if tokens are asked for under names that AWS knows (`KnownNames`, of the
  constant `Targets`; for a custom name the connection string has to give the host).
  `TokInv` follows a token from where the call got it to the verdict of the server: a token made
  in this call is not dead unless there was trouble, and a retry is only ever made for a cached one.

`Enlist_proofs` proves, for any number of branches:

- `EnlistTyped`: `Spec => []TypeOK`, with each thread confined to the points where its
  kind of request may be.
- `OnlyOnCommitAlways`: `Spec /\ []EnlistsConnected => []OnlyOnCommit`, if the application
  enlists again only after the decision (`Waits`), and `Steady`. The property speaks of what is durable; the
  invariant (`Sharing`) says why it stays so: whose work the session holds (`Working`), that a branch that
  uses the handle is the one in `asdum` and autocommit is off while it has work there (`Using`), that while
  the application enlists every other branch is decided or over (`Alone`), and that LIFELOCK protects the
  choice made by `isolateXAConn` until the handle is isolated (`Parting`).
  `EnlistsConnected` is a hypothesis about the application, since the code does not
  check it: without it the property is false (see 7). So is `Steady`, about the server: the handle loses its session
  under the command of a vote at most (`Losses \subseteq {"vote"}`; the run adds `abort`). A branch may then
  still use a handle that has no session, from the loss to `SetDone` (`Losing`); RequestExec holds its ELOCK all that time, and
  ReleaseConnection waits for the thread of the vote. The two branches of `enlist_outcome` do
  not reach that case; TLC checked the invariant there before it was proved.
- `OutcomeTruthAlways`: `Spec /\ []EnlistsConnected => []OutcomeTruth`, if `Waits` and `Steady`. What MSDTC is told is
  decided long after the work was done, and on the way the work changes its place: the session of the handle, the copy
  that isolation leaves the branch (whose session is closed already, so that its vote must fail), what the
  server has prepared, what is durable. `Whereabouts` names the place for every branch whose statements all succeeded,
  `Kept` and `Committed` tie it to the result that RequestExec carries to the answer, and `Decisions` to what the coordinator decided.
  For the work of a statement to be where `Whereabouts` says, the application must not execute one while it believes in a branch
  and the handle belongs to another: `Knowing` says that it has separated the two in time (`RequestStart`), or that
  the request thread which aborts that branch holds `executing`, and then what the statement does is lost by an abort.
  A vote whose answer is lost leaves a branch that voted no and is prepared, or durable: `Kept` and `Committed` say that
  nothing else does (`dtc[b].lost`). That a yes vote leaves all the work prepared follows (`VotedWork`).
  TLC checked `TruthInv` on the instance of `enlist_outcome` with `EnlistsConnected` as a constraint and `Losses = {"vote"}`
  (4.6 million states) before it was proved.

`Scroll_proofs` proves, for results, caches and rowsets of any size, any value of the option Fetch,
all three kinds of cursor, and MOVE and FETCH refused at any time or never:

- `ScrollTyped`: `Spec => []TypeOK`.
- `CacheTruthAlways`, `RowsetContractKept` (the refinement of RowsetContract). The cache being right now
  says nothing of the next FETCH, whose rows are added or put in its place by their number alone.
  `ScrollInv` therefore says where the three counters stand to each other: the cache is a part of the result without gaps that
  begins at `Origin`, the row `rowset_start` and `base` give (`Cached`); `cursTuple` is where the
  server's cursor is, and that is behind the last row cached or behind the result (`Synced`); the
  end is known only if it was seen (`Ended`). In a fetch, the rows got are the first of the rowset, and
  either a MOVE is still to be sent, which leads to its first row, or `fetch_number` is
  the next one (`InRows`); between fetches the application stands where it was told (`Between`).
  A cursor that only moves forward leaves no row behind that it may still be asked for (`ForwardOnly`); without that clause
  the proof fails at a fetch that needs a MOVE back. The
  steps of `QR_next_tuple` are shown to be of few kinds (`Moves`), each proved to keep the
  invariant once. For the refinement the call maps to the contract's, every row read to a stutter, and
  the last one to the contract's answer.

The assumptions are `ScrollAssumption` (a rowset has between 1 and INT_MAX rows: a
larger one would wrap in the driver's counters), `SessionAssumption`, `CoreAssumption`, `ArrayAssumption`, `BulkAssumption`,
`ConnectAssumption`, `EnlistAssumption` and `HolderAssumption` (no thread is called like the holder of a
free lock), which TLC evaluates in every run of those modules; `Managed` holds in the instance of `serial`, `OnCursors` in that of `auto`, `OnThreads` in that of `threads`, `Careful` and
`KnownNames` in those of `arrays` and `connect_tokens`, `Waits` in that of `enlist_outcome`, `Steady` there but for the loss under an abort.

Model-checked only: Catalog, Descriptors and QueryText. Out of the prover's reach are liveness (that calls
return) and ENABLED, and Keyset, whose undo is a recursion over the list of rollback entries:
what it computes for every list needs induction over data, for which the library's theorems take
an operator as parameter. No module of the proofs uses a recursive operator.

## 7. Observations on the code

Differences between what the code does and what its comments, documentation or the
ODBC standard lead one to expect, met while modelling. Those marked (TLC) are
counterexamples of an instance that leaves out the restriction named; the others
were read off the code.

Transactions (level Statement(2): `docs/config.html:210` "Rollback the statement."):

- (TLC) After a catalog function or a procedure call the next statement has no internal savepoint,
  because `opt_previous` calls the one before read-only (execute.c:803); when it
  fails the whole transaction is rolled back.
- (TLC) A SAVEPOINT executed through the extended protocol stays unnoticed, and the
  driver's RELEASE of its own older savepoint takes it along; the comment at
  connection.c:2348 names that risk.
- (TLC) With a declare/fetch cursor open in autocommit mode, the COMMIT after a statement may be
  refused and the statement is reported as done: `SC_execute` does not look at the
  result of `CC_commit` (statement.c:2146).
- (TLC) A call that fails before it reaches the server consults flags of the connection that are
  another thread's, and rolls back its work (execute.c:878). A catalog call's end
  clears `CC_accessed_db`, so another thread's failing statement may do nothing.
- (TLC) When the connection breaks under the calls of two threads and one of them has
  reconnected and begun a new transaction, the `CC_abort` of the other's
  `DiscardStatementSvp` rolls that one back (`threads` with `MayLose = TRUE`). There the ROLLBACK TO of
  CC_internal_rollback may also be sent while the message of another thread is in flight.
- The level Transaction(1) and the transaction a failing statement keeps (level 2) with a SAVEPOINT
  as the first command are not checked by a run any more.

Arrays and bulk operations:

- (TLC) The five members of `Avoids` above.
- After a bulk operation with data at execution the position is row 0 (`pos_ridx` is
  reset on re-entry). SQLCancel in such an operation resets the delegated handle only,
  and `lock_CC_for_rb` keeps the critical section of the connection for the other
  threads. A failing operation leaves row statuses of rows it did not reach.
- Autocommit is off before the bookmark column is checked (pgapi30.c:2392).
- (TLC) `CC_set_autocommit` does not look at the result of its COMMIT (connection.c:550). When it is
  refused at the end of an operation, SQLBulkOperations and SQLSetPos return success with row
  statuses of success, and nothing is durable. When it is refused at the beginning, what the
  transaction held before is gone.
- (TLC) A positioned DELETE that finds no row returns SQL_SUCCESS_WITH_INFO and still sets
  SQL_ROW_DELETED (results.c:4402); an INSERT of other than one row sets an error and keeps its
  return code, so that the row is told as SQL_ROW_ADDED (results.c:4478).
- (TLC) For a keyset-driven cursor the row that was gone is reloaded without a look at the result
  (results.c:3947, 4357): a failing SELECT breaks the transaction, the last row's success stands, and
  the COMMIT at the end is answered by a ROLLBACK. `StatusTruth` allows for these three by its
  `lost`, `hist.missed` and the mark of a DELETE.
- `odbc_lo_write`'s result is overwritten (execute.c:1809); a second large-object column
  read, or a fetch, while one is partly read leaks its descriptor and leaves a transaction
  open in autocommit mode; one statement that finishes its large object commits and
  invalidates another's.
- ParseWithLibpq (statement.c:2871) with `{?=call f(?)}` and exactly one input parameter
  takes the types from the parameter of the return value on, contrary to its comment.

Scrolling:

- (TLC) SQL_FETCH_LAST and negative absolute positions send MOVE ALL, then
  `move_cursor_position_if_needed` takes a rowset that begins in the cache or right behind
  it for a continuation: rows are missing. `QR_set_move_from_the_last`, which the comment at
  results.c:1396 wants used, never is.
- (TLC) A refused MOVE is reported as SQL_NO_DATA. Behind an end that is not known yet
  `rowset_start` is not clamped, so SQL_FETCH_PRIOR afterwards is off. From before the
  start SQL_FETCH_RELATIVE 0 or less hands out the first rowset when it has several rows.

Connecting:

- (TLC) The documentation keeps 08S02 for failures outside a transaction
  (`docs/using-the-aws-driver/failover/failover.md:53`, "while autocommit was set to true"), but the code asks for the transaction flag after the loss
  has cleared it (odbcapi.c:78), so a failure inside one may be told as 08S02.
- A session lost while connecting leaves CONN_DOWN, which `CC_initial_log` refuses on every
  later attempt. A refused initial SET leaves `pqconn` open, and the next attempt overwrites
  it: a leaked session. Tokens are looked up by the IAM host and stored by the server's name.
  `UpdateCachedToken` stores a cached token again with a new expiry. SQL_ERROR returned through
  `char CC_connect` is 255 where char is unsigned. `StopFailoverService` is never called. Prepared
  plans survive a failover in the handle only. SQLEndTran after a loss that was noticed
  returns success. The autocommit attribute and the flag diverge over SQLDisconnect.

Distributed transactions:

- (TLC) LIFELOCK and CONN_CS are taken in both orders, against the comment at the head of
  `msdtc_enlist.cpp` (line 521); threads may wait for each other for ever.
- (TLC) If the application enlists again before the earlier transaction is decided, work of
  it can become durable that MSDTC did not decide to commit: the executing flag is read
  outside CONN_CS (`Waits`).
- (TLC) The same can happen although it waits for the decision, with a handle that is not connected.
  When `PgDtc_connect` fails after the isolation (msdtc_enlist.cpp:526) the handle stays without a
  session and can be enlisted all the same: `EnlistInDtc` (line 1286) does not look at the status, and
  on SQLDisconnect `ReleaseConnection` (line 697) does not isolate it. After SQLConnect
  the PREPARE of that branch finds nothing and votes yes; while its commit is executed the next branch is
  enlisted on the handle, whose old flag keeps `IsolateDtcConn` from separating the two, and
  `generateXAConn` switches autocommit on under the work of the new one. It takes three branches; met by
  TLC on a model restricted to that behaviour. Hence `EnlistsConnected` in 6.
- (TLC) When the connection breaks behind the PREPARE TRANSACTION or the COMMIT of a single-phase commit that the
  server has executed, `PgDtc_two_phase_operation` (connection.c:3828) and `CC_commit` take it for a failure and
  `RequestExec` answers E_FAIL (msdtc_enlist.cpp:625-641): MSDTC counts the branch as aborted, and it stays prepared, with
  its locks, until somebody rolls it back by hand, or is durable. `OutcomeTruth` says of a vote of no what holds in the code:
  it is true unless an answer was lost.
- (TLC) When the handle loses its session under a statement, or under COMMIT or ROLLBACK PREPARED, what the application did
  in the next transaction may be committed undecided. `ReleaseConnection` looks whether the handle is
  connected, so SQLDisconnect does not separate the branch (and it waits at most two seconds for the thread of a decision);
  after SQLConnect the handle is enlisted for the next branch, and the end of the first (`generateXAConn`, or
  `SetDone` with `PgDtc_set_async(NULL)`) switches autocommit on under it. Met with `Losses` enlarged by
  `statement` or `decision`; two branches are enough. Hence `Losses` in the run and `Steady` in 6.
- Statements outside any branch on an enlisted handle are autocommitted. The handle's statements are freed
  when it is isolated, also one that executes. A PrepareRequest when done or without a
  connection is never answered. `xa_recover` without TMSTARTRSCAN reads index -1;
  its fetch loop does not end on SQL_ERROR; `xa_open` does not replace an existing rmid.

Keysets:

- (TLC) After a ROLLBACK TO has unlocked the rows, another session may change one before `tupleExists`
  asks for its old tid (results.c:2908). The scan then takes the driver's own undone change to stand: an undone
  UPDATE leaves the key at a version nobody ever committed, so that the row's next UPDATE or DELETE finds nothing until it is
  read again, and the row of an undone DELETE stays hidden although it is in the table. Rows changed
  in that window are `caught` in the two properties of `keyset_undo`.
- (TLC) A row that was added and then updated in one transaction is taken for undone when
  only a later savepoint is rolled back to (`UpdatesAdded`; a test of SQL_UPDATE is commented out in
  results.c).
- Undoing a DELETE without a cursor does not decrement `dl_count`, so SQLRowCount is too low
  (results.c:81, pgapi30.c:300). With a cursor of the server `DiscardRollback` returns
  without freeing the list. `RemoveDeleted` and `RemoveUpdated` skip the element behind a
  removed one. Undoing a second UPDATE clears SELF_UPDATING of the first. The last loop of
  `SC_pos_reload_needed` never increments its index. A ROLLBACK TO through a prepared
  statement is not seen at all. A fetch that misses a row adds a rollback entry each time. Tids reused after
  VACUUM may name another row.

Catalog functions:

- SQLStatistics with a null table name returns success with no result.
  SQLSpecialColumns(SQL_BEST_ROWID) looks for unique keys by the table's name in every
  schema; an absent table is an error there. SQLColumns with row versioning adds an xmin row
  for a table that was not found. SQLProcedureColumns frees a result twice when its query fails.
  SQLForeignKeys on old servers swallows errors of its fetches, with both tables named the
  schema of the primary key's is ignored on new ones. In SQLTablePrivileges "/grantor" counts as
  privilege letters, and the lowered second call passes no flags (odbcapi.c:1591). A call that fails while fetching leaves a partial result.

Descriptors and options:

- SQLGetData with buffer length 0 in the middle of a value returns SQL_SUCCESS and loses
  the rest (convert.c:1204). After a fetch the buffer of an earlier, longer value is kept,
  and the last piece of a shorter one is then reported as truncated.
- A refused SQLSetDescField on a record still unbinds it. SQLCopyDesc from an IRD empties the target before it refuses; a copy of
  an IPD shares the names, which are freed twice. Freeing an attached explicit descriptor leaves the statement
  pointing at it. SQLPutData indexes `pdata` without extending it. (All kept out by named
  guards, `Usable`, `Attached`, `Awaited`, `Unread`, `Beyond`.)
- options.c:317 says that statement options set on a connection apply to its statements; only the
  defaults change. SQL_ATTR_PGOPT_COMMLOG 0 sets `debug` instead of `commlog` (pgapi30.c).
  No lock is taken in SQLCopyDesc, SQLSetDescField and SQLFreeHandle for descriptors.
  SQLFreeStmt(SQL_DROP) tests the connection once more inside its critical section and returns without
  leaving it (odbcapi.c:450).

Query text (`Legible`; with each of its conjuncts left out, except that on a continued literal, TLC finds the disagreement):

- `/*/` closes a comment for the rewriting only. `E'a''b\'...'`: a doubled quote
  reopens the literal without escapes. A literal continued on the next line, lower-case
  `e'...'`, `xE'...'` behind a word, and a carriage return as the end of a line comment are read differently by the server.
- Tags: `$my_tag$` is not one for the driver, `$1$` is; `1$$` and `_$$` begin a quote only for one of
  the sides. `?and?` becomes `$1and$2`, and `??` becomes `$1$2`, which the second scan takes
  for a dollar quote, so that the next command is lost.
- A multibyte character behind a backslash leaves the escape pending; as the first character
  of a command it does not count as its beginning. A comment behind the last `;` counts as a
  command. `;` in parentheses, in BEGIN ATOMIC or in an escape sequence cuts the text. A marker that touches
  a word or a literal (`limit?`) is glued to it. `{?=call` behind another marker is a return value to one
  scanner only. `}` is dropped from a text that begins with `{`.

## 8. Not modelled

- Large objects (`lobj.c`, `convert_lo`): wrappers of fastpath calls; their transaction is
  the statement's. What was met is in 7.
- The conversions between C and SQL types (`convert.c`, most of it), between encodings
  (`multibyte.c`, `win_unicode.c`) and the parser of `parse.c`: functions of their
  arguments over large data; `@@identity`, cursors and keysets in the text, casts, named notation, date and function
  escape sequences, output and unbound parameters.
- Environments with several connections (SQLEndTran on one stops at the first that
  fails), SQLBrowseConnect, translation libraries, the services that run inside the AWS library.
- Several results in one handle, prepared plans and their names, bookmarks, keyset-driven
  cursors and the lists of added, updated and deleted rows beside a cursor of the server.
- In BulkOps: a lost connection, statements of another handle that fail (in a failed transaction it does
  not write, and the result is not opened again, before the transaction is ended).
- In Catalog: the texts of rows, escaped patterns, the pseudo columns, privilege letters,
  requests SQLStatistics without a table and SQLForeignKeys naming none.
- In Enlist: a session lost while the handle is idle, reference counts, SLOCK, the 2 s wait of `ReleaseConnection`, the link with
  MSDTC, `xa_open`, `xa_close` and the scan of `xa_recover`.
- Configuration and dialogs, logging, memory helpers and loading: no interaction between
  steps of theirs.
- Failing malloc, throughout.
