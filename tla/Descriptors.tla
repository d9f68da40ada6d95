---------------------------- MODULE Descriptors ----------------------------
(***************************************************************************)
(* What the application binds and reads: statement handles with their      *)
(* options, the descriptors (ARD, APD, IRD, IPD) that hold the bindings,   *)
(* explicit descriptors the statements of a connection may share, the data *)
(* handed over in pieces by SQLPutData and fetched in pieces by            *)
(* SQLGetData.  All of it lives in arrays the driver grows, shrinks,       *)
(* copies and frees, under three different owners, so memory is modelled:  *)
(* a block is live from its malloc to its free, and whoever holds its      *)
(* address refers to it.                                                   *)
(*                                                                         *)
(* A call is one step (it runs inside the critical section of its handle). *)
(* Record 0 is the bookmark.  The value of column c in row r is            *)
(* Lengths[r][c] units long; Refined columns have line ends to convert.    *)
(***************************************************************************)
EXTENDS Integers, Sequences, FiniteSets, FiniteSetsExt, TLC

CONSTANTS
    Stmts,       \* statement handles
    Explicit,    \* descriptors of SQLAllocHandle(SQL_HANDLE_DESC)
    Programs,    \* what an application confines itself to: which calls, how many
    MaxRecs,     \* bound: the highest record number
    Lengths,     \* Lengths[r][c]: of the value of column c in row r
    Refined,     \* the columns whose text is converted on the way
    BufferSizes  \* buffer lengths of SQLGetData, 0 to ask for the length

ASSUME DescriptorsAssumption ==
    /\ MaxRecs \in Nat
    /\ \A p \in Programs : p.bounds \in [{"calls", "copies", "reads", "puts"} -> Nat]
    /\ BufferSizes \subseteq Nat \ {1}
    /\ \A r \in DOMAIN Lengths : \A c \in DOMAIN Lengths[r] : Lengths[r][c] \in Nat \ {0}

VARIABLES
    d,           \* the driver
    asked,       \* what the application has asked for
    left,        \* how many calls that bind, copy, read and put are left
    uses         \* the calls this application confines itself to

vars == <<d, asked, left, uses>>

Recs == 0 .. MaxRecs
Ids == (Stmts \X {"ARD", "APD", "IRD", "IPD"}) \cup (Explicit \X {"DESC"})
Places == (Stmts \X {"ARD", "APD", "IPD", "mark", "gdata", "pdata"})
            \cup (Explicit \X {"DESC", "mark"})
None == <<>>                            \* the NULL of an address
Null == "null"                          \* the NULL of a buffer of the application
Unset == [buf |-> Null, type |-> "unset"]

Defaults == [cursor |-> "forward", conc |-> "ro", rows |-> 0]

-----------------------------------------------------------------------------
(* Memory.  d.mem maps the live blocks to their contents, d.arr[p] is the  *)
(* array a place p owns: its address and the number of records it counts.  *)
(* A record may own a block itself (a name, a value read in part).         *)

Array(e, p) == IF e.arr[p].at \in DOMAIN e.mem THEN e.mem[e.arr[p].at] ELSE <<>>
Size(e, p) == e.arr[p].n
Cell(e, p, i) == Array(e, p)[i]
Owned(e, p) == {Cell(e, p, i).own : i \in DOMAIN Array(e, p)} \ {None}

\* The addresses the structures hold.
Referred(e) ==
    ({e.arr[p].at : p \in Places} \ {None}) \cup UNION {Owned(e, p) : p \in Places}

\* How many places hold an address.
Holders(e, b) ==
    Cardinality({p \in Places : e.arr[p].at = b})
    + Cardinality({q \in Places \X (1 .. MaxRecs) :
                     q[2] \in DOMAIN Array(e, q[1]) /\ Cell(e, q[1], q[2]).own = b})

\* malloc and free.
NewBlock(e, tag) ==
    <<tag, CHOOSE k \in 0 .. 5 :
             /\ <<tag, k>> \notin DOMAIN e.mem \cup Referred(e)
             /\ \A j \in 0 .. k - 1 : <<tag, j>> \in DOMAIN e.mem \cup Referred(e)>>
Filled(e, b, content) ==
    [e EXCEPT !.mem = [x \in DOMAIN @ \cup {b} |-> IF x = b THEN content ELSE @[x]]]
Released(e, B) ==
    [e EXCEPT !.mem = [b \in DOMAIN @ \ B |-> @[b]],
              !.stray = @ \/ ~(B \subseteq DOMAIN e.mem)]

\* A write to record i: astray when the array does not reach so far.
WithCell(e, p, i, cell) ==
    IF i \in DOMAIN Array(e, p) THEN [e EXCEPT !.mem[e.arr[p].at][i] = cell]
    ELSE [e EXCEPT !.stray = TRUE]

\* An array grown to n records (realloc, or malloc, copy and free).
Extended(e, p, n, blank) ==
    LET old == Array(e, p)
        content == [i \in 1 .. n |-> IF i <= Size(e, p) /\ i \in DOMAIN old
                                     THEN old[i] ELSE blank]
        gone == Released([e EXCEPT !.arr[p].at = None], {e.arr[p].at} \ {None})
        b == NewBlock(gone, p)
    IN  IF n <= Size(e, p) THEN e
        ELSE [Filled(gone, b, content) EXCEPT !.arr[p] = [at |-> b, n |-> n]]

\* The blocks the records above n own are freed, the records blank again.
Reset(e, p, n, blank) ==
    LET own == {Cell(e, p, i).own : i \in {j \in DOMAIN Array(e, p) : j > n /\ j <= Size(e, p)}}
        f == Released(e, own \ {None})
    IN  IF DOMAIN Array(e, p) = {} THEN f
        ELSE [f EXCEPT !.mem[e.arr[p].at] =
                [i \in DOMAIN @ |-> IF i > n /\ i <= Size(e, p) THEN blank ELSE @[i]]]

\* The array itself is freed.
Freed(e, p) == [Released(e, {e.arr[p].at} \ {None}) EXCEPT !.arr[p] = [at |-> None, n |-> 0]]

\* Counts less records, the block stays as long as it was.
Shrunk(e, p, n, blank) ==
    LET f == [Reset(e, p, n, blank) EXCEPT !.arr[p].n = n]
    IN  IF n = 0 THEN Freed(f, p) ELSE f

-----------------------------------------------------------------------------
(* The arrays of bind.c.                                                   *)

Column(buf, type) == [buf |-> buf, type |-> type, own |-> None]
Untouched == Column(Null, "junk")            \* create_empty_bindings
NoBinding == Column(Null, "char")
NoParameter == Column(Null, "none")          \* all zero
NoData == [left |-> -1, size |-> 0, used |-> 0, own |-> None]
NoPut == [own |-> None]

extend_column_bindings(e, a, n) == Extended(e, a, n, Untouched)
extend_parameter_bindings(e, a, n) == Extended(e, a, n, NoParameter)
extend_iparameter_bindings(e, a, n) == Extended(e, a, n, NoParameter)
extend_putdata_info(e, s, n) == Extended(e, <<s, "pdata">>, n, NoPut)
extend_getdata_info(e, s, n, shrink) ==
    LET g == <<s, "gdata">>
    IN  IF shrink /\ Size(e, g) > n THEN Shrunk(e, g, n, NoData) ELSE Extended(e, g, n, NoData)

reset_a_getdata_info(e, s, c) ==
    LET g == <<s, "gdata">> IN
    IF c \notin DOMAIN Array(e, g) THEN e
    ELSE WithCell(Released(e, {Cell(e, g, c).own} \ {None}), g, c, NoData)

Mark(id) == <<id[1], "mark">>

ARD_AllocBookmark(e, id) ==
    IF e.arr[Mark(id)].at # None THEN e ELSE Extended(e, Mark(id), 1, NoParameter)

reset_a_bookmark(e, id) ==
    IF e.arr[Mark(id)].at = None THEN e
    ELSE WithCell(e, Mark(id), 1, [Cell(e, Mark(id), 1) EXCEPT !.buf = Null])

ARD_unbind_cols(e, id, freeall) ==
    LET f == Reset(e, id, 0, NoBinding) IN IF freeall THEN Freed(f, id) ELSE f

GDATA_unbind_cols(e, s, freeall) ==
    LET g == <<s, "gdata">>  f == Reset(e, g, 0, NoData) IN IF freeall THEN Freed(f, g) ELSE f

APD_free_params(e, id) == Freed(e, id)
IPD_free_params(e, id) == Freed(Reset(e, id, 0, NoParameter), id)
PDATA_free_params(e, s, all) ==
    LET p == <<s, "pdata">>  f == Reset(e, p, 0, NoPut) IN IF all THEN Freed(f, p) ELSE f

\* SC_free_params(STMT_FREE_PARAMS_ALL) and (..._DATA_AT_EXEC_ONLY).
SC_free_params(e, s, all) ==
    LET f == PDATA_free_params(e, s, all)
    IN  IF all THEN IPD_free_params(APD_free_params(f, f.stmt[s].apd), <<s, "IPD">>) ELSE f

-----------------------------------------------------------------------------
(* Descriptors: descriptor.c.                                              *)

Kind(e, id) == e.desc[id].kind          \* "dead", "none" (no type yet) or the type

ARDFields_free(e, id) == ARD_unbind_cols(Freed(e, Mark(id)), id, TRUE)
APDFields_free(e, id) == APD_free_params(e, id)
IPDFields_free(e, id) == IPD_free_params(e, id)

DC_Destructor(e, id) ==
    CASE Kind(e, id) = "ARD" -> ARDFields_free(e, id)
      [] Kind(e, id) = "APD" -> APDFields_free(e, id)
      [] Kind(e, id) = "IPD" -> IPDFields_free(e, id)
      [] OTHER -> e

\* SQLCopyDesc: the header, the bookmark and the records.
\* A slip: the bookmark of the source is taken over, not copied.
ARDFields_copy_Shared(e, src, id) ==
    LET f == [e EXCEPT !.arr[Mark(id)] = e.arr[Mark(src)]]
        g == Extended(f, id, Size(e, src), Untouched)
    IN  IF Size(e, src) = 0 THEN f
        ELSE Filled(g, g.arr[id].at, [i \in 1 .. Size(e, src) |-> Cell(e, src, i)])

ARDFields_copy(e, src, id) ==
    LET f == IF e.arr[Mark(src)].at = None THEN e
             ELSE WithCell(ARD_AllocBookmark(e, id), Mark(id), 1, Cell(e, Mark(src), 1))
        g == Extended(f, id, Size(e, src), Untouched)
    IN  IF Size(e, src) = 0 THEN f
        ELSE Filled(g, g.arr[id].at, [i \in 1 .. Size(e, src) |-> Cell(e, src, i)])

APDFields_copy(e, src, id) ==
    LET g == Extended(e, id, Size(e, src), NoParameter)
    IN  IF Size(e, src) = 0 THEN e
        ELSE Filled(g, g.arr[id].at, [i \in 1 .. Size(e, src) |-> Cell(e, src, i)])

IPDFields_copy(e, src, id) == APDFields_copy(e, src, id)

Failing(e) == [e EXCEPT !.out.ret = "error"]

PGAPI_CopyDesc(e, src, id) ==
    LET k == Kind(e, src)
        f == [DC_Destructor(e, id) EXCEPT !.desc[id] = e.desc[src]]
    IN  IF \/ k = "none"
           \/ Kind(e, id) = "IRD"
           \/ Kind(e, id) \notin {"none", k} /\ id[1] \in Stmts
        THEN Failing(e)
        ELSE CASE k = "ARD" -> ARDFields_copy(f, src, id)
               [] k = "APD" -> APDFields_copy(f, src, id)
               [] k = "IPD" -> IPDFields_copy(f, src, id)
               [] OTHER -> Failing(DC_Destructor(e, id))

-----------------------------------------------------------------------------
(* Statement handles: statement.c.                                         *)

NoStmt == [status |-> "none", ard |-> None, apd |-> None, row |-> 0, col |-> 0, cols |-> 0,
           need |-> {}, cur |-> 0, opt |-> Defaults, orig |-> Defaults]
Dead == [kind |-> "dead", head |-> 0]
HeadOf(k) == IF k \in {"ARD", "APD"} THEN 1 ELSE 0

InitializeEmbeddedDescriptors(e, s) ==
    [e EXCEPT !.desc = [id \in Ids |-> IF id[1] = s THEN [kind |-> id[2], head |-> HeadOf(id[2])]
                                       ELSE @[id]]]

PGAPI_AllocStmt(e, s) ==
    LET f == ARD_AllocBookmark(InitializeEmbeddedDescriptors(e, s), <<s, "ARD">>)
    IN  [f EXCEPT !.stmt[s] = [NoStmt EXCEPT !.status = "allocated",
                                             !.ard = <<s, "ARD">>, !.apd = <<s, "APD">>,
                                             !.opt = e.deflt, !.orig = e.deflt]]

SC_Destructor(e, s) ==
    LET a == DC_Destructor(e, <<s, "ARD">>)
        b == DC_Destructor(a, <<s, "APD">>)
        c == DC_Destructor(b, <<s, "IPD">>)
        g == PDATA_free_params(GDATA_unbind_cols(c, s, TRUE), s, TRUE)
    IN  [g EXCEPT !.stmt[s] = NoStmt,
                  !.desc = [id \in Ids |-> IF id[1] = s THEN Dead ELSE @[id]]]

\* The result is freed, the data given at execution too, and the options are
\* those the application has set.
SC_recycle_statement(e, s) ==
    LET f == SC_free_params(e, s, FALSE)
    IN  IF e.stmt[s].status = "allocated" THEN e
        ELSE [f EXCEPT !.stmt[s] = [@ EXCEPT !.status = "ready", !.row = 0, !.col = 0,
                                             !.cols = 0, !.need = {}, !.cur = 0,
                                             !.opt = f.stmt[s].orig]]

\* A slip: SQL_UNBIND forgets the bookmark.
PGAPI_FreeStmt_Mark(e, s, option) ==
    CASE option = "DROP" -> SC_Destructor(e, s)
      [] option = "CLOSE" -> SC_recycle_statement(e, s)
      [] option = "UNBIND" ->
            GDATA_unbind_cols(ARD_unbind_cols(e, e.stmt[s].ard, FALSE), s, FALSE)
      [] option = "RESET_PARAMS" -> SC_free_params(e, s, TRUE)

PGAPI_FreeStmt(e, s, option) ==
    CASE option = "DROP" -> SC_Destructor(e, s)
      [] option = "CLOSE" -> SC_recycle_statement(e, s)
      [] option = "UNBIND" ->
            reset_a_bookmark(GDATA_unbind_cols(ARD_unbind_cols(e, e.stmt[s].ard, FALSE), s, FALSE),
                             e.stmt[s].ard)
      [] option = "RESET_PARAMS" -> SC_free_params(e, s, TRUE)

\* The options a query is executed with: no updates unless it can be updated.
Downgraded(opt, kind) ==
    CASE kind = "other" -> [opt EXCEPT !.cursor = "forward", !.conc = "ro"]
      [] kind # "other" /\ opt.cursor = "forward" -> [opt EXCEPT !.conc = "ro"]
      [] kind = "plain" /\ opt.cursor # "forward" /\ opt.conc # "ro" ->
            [opt EXCEPT !.cursor = "static", !.conc = "ro"]
      [] OTHER -> opt

Columns(kind) == CASE kind = "other" -> 0 [] kind = "plain" -> MaxRecs [] OTHER -> 1

\* The parameters the application will give during the execution.
AtExecution(e, s) ==
    {i \in DOMAIN Array(e, e.stmt[s].apd) :
        i <= Size(e, e.stmt[s].apd) /\ Cell(e, e.stmt[s].apd, i).buf = "dae"}

SC_execute(e, s) ==
    LET f == extend_column_bindings(e, e.stmt[s].ard, e.stmt[s].cols)
    IN  [f EXCEPT !.stmt[s].status = "finished", !.stmt[s].row = 0, !.stmt[s].cur = 0]

PGAPI_Execute(e, s, kind) ==
    LET f == PDATA_free_params(SC_recycle_statement(e, s), s, FALSE)
        g == [f EXCEPT !.stmt[s].opt = Downgraded(@, kind), !.stmt[s].cols = Columns(kind)]
    IN  IF AtExecution(f, s) # {}
        THEN [g EXCEPT !.stmt[s].status = "need", !.stmt[s].need = AtExecution(f, s)]
        ELSE SC_execute(g, s)

PGAPI_ParamData(e, s) ==
    LET i == Min(e.stmt[s].need)
    IN  IF e.stmt[s].need = {} THEN SC_execute(e, s)
        ELSE [e EXCEPT !.stmt[s].cur = i, !.stmt[s].need = @ \ {i}]

PGAPI_PutData(e, s) ==
    LET i == e.stmt[s].cur
        p == <<s, "pdata">>
        b == NewBlock(e, Append(p, i))
    IN  IF i > Size(e, p) THEN [e EXCEPT !.stray = TRUE]
        ELSE IF Cell(e, p, i).own # None THEN e
        ELSE WithCell(Filled(e, b, <<>>), p, i, [own |-> b])

PGAPI_Cancel(e, s) == [e EXCEPT !.stmt[s].status = "ready", !.stmt[s].need = {}, !.stmt[s].cur = 0]

-----------------------------------------------------------------------------
(* Binding: bind.c and the fields of pgapi30.c.                            *)

PGAPI_BindCol(e, s, c, buf, type) ==
    LET a == e.stmt[s].ard
        g == <<s, "gdata">>
        f == extend_column_bindings(e, a, c)
        h == IF c > Size(f, g) THEN extend_getdata_info(f, s, c, FALSE) ELSE f
        cell == Cell(h, g, c)
    IN  IF c = 0
        THEN IF buf = Null THEN reset_a_bookmark(e, a)
             ELSE IF type # "bookmark" THEN Failing(e)
             ELSE WithCell(ARD_AllocBookmark(e, a), Mark(a), 1, Column(buf, type))
        ELSE IF buf = Null
        THEN WithCell(WithCell(Released(h, {cell.own} \ {None}), g, c, NoData), a, c, NoBinding)
        ELSE WithCell(WithCell(h, g, c, [cell EXCEPT !.left = -1]), a, c, Column(buf, type))

PGAPI_BindParameter(e, s, i, buf, type) ==
    LET a == e.stmt[s].apd
        p == <<s, "pdata">>
        f == extend_iparameter_bindings(extend_parameter_bindings(e, a, i), <<s, "IPD">>, i)
        g == extend_putdata_info(f, s, i)
        h == Released(g, {Cell(g, p, i).own} \ {None})
    IN  WithCell(WithCell(WithCell(h, p, i, NoPut), a, i, Column(buf, type)),
                 <<s, "IPD">>, i, [Cell(h, <<s, "IPD">>, i) EXCEPT !.type = type])

column_bindings_set(e, id, n, maxset) ==
    IF n < Size(e, id) /\ ~maxset THEN Shrunk(e, id, n, NoBinding)
    ELSE extend_column_bindings(e, id, n)
parameter_bindings_set(e, id, n, maxset) ==
    IF n < Size(e, id) /\ ~maxset THEN Shrunk(e, id, n, NoParameter)
    ELSE extend_parameter_bindings(e, id, n)
parameter_ibindings_set(e, id, n, maxset) ==
    IF n < Size(e, id) /\ ~maxset THEN Shrunk(e, id, n, NoParameter)
    ELSE extend_iparameter_bindings(e, id, n)

\* A field of a record: all but the addresses unbind it.
Field(cell, field, v) ==
    CASE field = "TYPE" -> [cell EXCEPT !.type = v, !.buf = Null]
      [] field = "DATA" -> [cell EXCEPT !.buf = v]
      [] OTHER -> [cell EXCEPT !.buf = Null]

ARDSetField(e, id, i, field, v) ==
    LET f == IF field = "TYPE" THEN column_bindings_set(e, id, i, TRUE) ELSE e
        m == ARD_AllocBookmark(f, id)
        mark == Cell(m, Mark(id), 1)
    IN  CASE field = "SIZE" -> [e EXCEPT !.desc[id].head = v]
          [] field = "COUNT" -> column_bindings_set(e, id, i, FALSE)
          [] field \notin {"SIZE", "COUNT"} /\ i > Size(f, id) -> Failing(f)
          [] field \notin {"SIZE", "COUNT"} /\ i = 0 ->
                WithCell(m, Mark(id), 1,
                         CASE field = "TYPE" -> [mark EXCEPT !.type = v]
                           [] field = "DATA" -> [mark EXCEPT !.buf = v]
                           [] OTHER -> mark)
          [] OTHER -> WithCell(f, id, i, Field(Cell(f, id, i), field, v))

APDSetField(e, id, i, field, v) ==
    LET f == IF field # "TYPE" /\ i = 0 THEN e ELSE parameter_bindings_set(e, id, i, TRUE)
    IN  CASE field = "SIZE" -> [e EXCEPT !.desc[id].head = v]
          [] field = "COUNT" -> parameter_bindings_set(e, id, i, FALSE)
          [] field \notin {"SIZE", "COUNT"} /\ i = 0 -> Failing(f)
          [] OTHER -> WithCell(f, id, i, Field(Cell(f, id, i), field, v))

\* SIZE stands for SQL_DESC_ROWS_PROCESSED_PTR; everything else is read-only.
IRDSetField(e, id, i, field, v) ==
    IF field = "SIZE" THEN [e EXCEPT !.desc[id].head = v] ELSE Failing(e)

STR_TO_NAME(e, id, i) ==
    LET f == WithCell(Released(e, {Cell(e, id, i).own} \ {None}), id, i,
                      [Cell(e, id, i) EXCEPT !.own = None])
        b == NewBlock(f, Append(id, i))
    IN  WithCell(Filled(f, b, <<>>), id, i, [Cell(f, id, i) EXCEPT !.own = b])
NULL_THE_NAME(e, id, i) ==
    WithCell(Released(e, {Cell(e, id, i).own} \ {None}), id, i,
             [Cell(e, id, i) EXCEPT !.own = None])

IPDSetField(e, id, i, field, v) ==
    LET f == IF field \in {"TYPE", "NAME"} THEN parameter_ibindings_set(e, id, i, TRUE) ELSE e
        n == NULL_THE_NAME(f, id, i)
    IN  CASE field = "SIZE" -> [e EXCEPT !.desc[id].head = v]
          [] field = "COUNT" -> parameter_ibindings_set(e, id, i, FALSE)
          [] field \notin {"SIZE", "COUNT"} /\ (i = 0 \/ i > Size(f, id)) -> Failing(f)
          [] field = "TYPE" /\ i > 0 ->
                IF Cell(f, id, i).type = v THEN f
                ELSE WithCell(n, id, i, [Cell(n, id, i) EXCEPT !.type = v])
          [] field = "NAME" /\ i > 0 -> IF v = Null THEN n ELSE STR_TO_NAME(f, id, i)
          [] OTHER -> f

PGAPI_SetDescField(e, id, i, field, v) ==
    CASE Kind(e, id) = "ARD" -> ARDSetField(e, id, i, field, v)
      [] Kind(e, id) = "APD" -> APDSetField(e, id, i, field, v)
      [] Kind(e, id) = "IRD" -> IRDSetField(e, id, i, field, v)
      [] Kind(e, id) = "IPD" -> IPDSetField(e, id, i, field, v)
      [] OTHER -> Failing(e)

\* What SQLGetDescField answers for the fields of a record, SQL_NO_DATA and no
\* record at all as Unset.
ARDGetField(e, id, i) ==
    LET p == IF i = 0 THEN Mark(id) ELSE id
        cell == Cell(e, p, IF i = 0 THEN 1 ELSE i)
    IN  IF i > Size(e, id) \/ e.arr[p].at = None THEN Unset
        ELSE [buf |-> cell.buf, type |-> cell.type]
APDGetField(e, id, i) ==
    IF i \notin 1 .. Size(e, id) THEN Unset
    ELSE [buf |-> Cell(e, id, i).buf, type |-> Cell(e, id, i).type]
IPDGetField(e, id, i) ==
    IF i \notin 1 .. Size(e, id) THEN Unset
    ELSE [buf |-> IF Cell(e, id, i).own = None THEN Null ELSE "n1", type |-> Cell(e, id, i).type]

PGAPI_GetDescField(e, id, i) ==
    CASE Kind(e, id) = "ARD" -> ARDGetField(e, id, i)
      [] Kind(e, id) = "APD" -> APDGetField(e, id, i)
      [] Kind(e, id) = "IPD" -> IPDGetField(e, id, i)
      [] OTHER -> Unset

\* What SQLGetStmtAttr answers for the descriptors and the size of the rowset.
PGAPI_GetStmtAttr(e, s) ==
    [ard |-> e.stmt[s].ard, apd |-> e.stmt[s].apd, size |-> e.desc[e.stmt[s].ard].head]

-----------------------------------------------------------------------------
(* Options: options.c.                                                     *)

Adjusted(o, v) == IF o = "conc" /\ v = "lock" THEN "ver" ELSE v          \* no locks on rows

\* A slip: what is set while a result is open is not kept for the next one.
set_statement_option_Now(e, s, o, v) ==
    CASE o # "rows" /\ e.stmt[s].status = "finished" -> Failing(e)
      [] o = "rows" /\ e.stmt[s].status = "finished" -> e
      [] OTHER -> [e EXCEPT !.stmt[s].orig[o] = Adjusted(o, v), !.stmt[s].opt[o] = Adjusted(o, v)]

set_statement_option(e, s, o, v) ==
    CASE o = "rows" ->
            [e EXCEPT !.stmt[s].orig.rows = v,
                      !.stmt[s].opt.rows = IF e.stmt[s].status = "finished" THEN @ ELSE v]
      [] o # "rows" /\ e.stmt[s].status = "finished" -> Failing(e)
      [] OTHER -> [e EXCEPT !.stmt[s].orig[o] = Adjusted(o, v), !.stmt[s].opt[o] = Adjusted(o, v)]

PGAPI_SetConnectOption(e, o, v) == [e EXCEPT !.deflt[o] = Adjusted(o, v)]

\* What SQLGetStmtAttr answers for the options.
PGAPI_GetStmtOption(e, s) == e.stmt[s].opt

-----------------------------------------------------------------------------
(* Reading: SC_fetch, PGAPI_GetData, convert.c.                            *)

Rows == DOMAIN Lengths

Bound(e, s, c) == Cell(e, e.stmt[s].ard, c).buf # Null

AtEnd(st) == st.row >= Cardinality(Rows) \/ (st.opt.rows > 0 /\ st.row = st.opt.rows)

SC_fetch(e, s) ==
    LET a == e.stmt[s].ard
        n == e.stmt[s].cols
        m == e.arr[Mark(a)].at
        f == extend_column_bindings(e, a, n)
        g == IF Size(f, <<s, "gdata">>) # Size(f, a)
             THEN extend_getdata_info(f, s, Size(f, a), TRUE) ELSE f
        at == g.arr[<<s, "gdata">>].at
        h == [g EXCEPT !.mem[at] =
                [c \in DOMAIN @ |-> IF c <= n THEN [@[c] EXCEPT !.left = -1] ELSE @[c]]]
        moved == (m # None /\ Cell(e, Mark(a), 1).buf # Null) \/ \E c \in 1 .. n : Bound(h, s, c)
    IN  IF AtEnd(e.stmt[s])
        THEN [e EXCEPT !.stmt[s].row = Cardinality(Rows) + 1, !.out.ret = "nodata"]
        ELSE [h EXCEPT !.stmt[s].row = @ + 1, !.stmt[s].col = IF moved THEN 0 ELSE @]

\* A slip: what is left of the column read before is not dropped.
SC_set_current_col_Kept(e, s, c) == [e EXCEPT !.stmt[s].col = c]

SC_set_current_col(e, s, c) ==
    IF e.stmt[s].col = c THEN e ELSE [reset_a_getdata_info(e, s, c) EXCEPT !.stmt[s].col = c]

\* What a call has returned and handed out: n units from a place in a value.
Out(e, ret, of, from, n) == [e EXCEPT !.out = [ret |-> ret, of |-> of, from |-> from, n |-> n]]

\* The value is prepared: in a buffer of the column when it does not fit or
\* has to be converted.
setup_getdataclass(e, s, c, size) ==
    LET g == <<s, "gdata">>
        cell == Cell(e, g, c)
        of == <<e.stmt[s].row, c>>
        len == Lengths[e.stmt[s].row][c]
        cap == IF cell.own = None THEN 0 ELSE cell.size
        gone == Released([e EXCEPT !.mem[e.arr[g].at][c].own = None], {cell.own} \ {None})
        b == NewBlock(gone, Append(g, c))
        grown == IF len + 1 > cap
                 THEN WithCell(Filled(gone, b, of), g, c, [cell EXCEPT !.own = b, !.size = len + 1])
                 ELSE Filled(e, cell.own, of)
    IN  IF c \in Refined \/ len + 1 > size
        THEN WithCell(grown, g, c, [Cell(grown, g, c) EXCEPT !.used = len])
        ELSE WithCell(gone, g, c, [cell EXCEPT !.own = None, !.size = cap])

convert_text_field_to_sql_c(e, s, c, size) ==
    LET g == <<s, "gdata">>
        first == Cell(e, g, c).left < 0
        f == IF first THEN setup_getdataclass(e, s, c, size) ELSE e
        cell == Cell(f, g, c)
        held == cell.own \in DOMAIN f.mem
        len == IF first THEN Lengths[f.stmt[s].row][c] ELSE cell.left
        of == IF held THEN f.mem[cell.own] ELSE <<f.stmt[s].row, c>>
        from == IF first THEN 0 ELSE cell.used - cell.left
        need == IF first THEN len + 1 ELSE len + (cell.size - cell.used)
        n == IF len < size THEN len ELSE size - 1
        stray == [f EXCEPT !.stray = @ \/ (~first /\ ~held)]
    IN  IF first /\ size = 0 THEN Out(e, "truncated", <<>>, 0, 0)
        ELSE IF need > size
        THEN Out(WithCell(stray, g, c, [cell EXCEPT !.left = len - n]), "truncated", of, from, n)
        ELSE Out(WithCell(Released(stray, {cell.own} \ {None}), g, c,
                          [cell EXCEPT !.own = None, !.left = 0]), "ok", of, from, n)

\* A C type of a fixed size takes the whole value.
Converted(e, s, c) ==
    Out(WithCell(e, <<s, "gdata">>, c, [Cell(e, <<s, "gdata">>, c) EXCEPT !.left = 0]), "ok",
        <<e.stmt[s].row, c>>, 0, Lengths[e.stmt[s].row][c])

copy_and_convert_field(e, s, c, type, size) ==
    LET a == e.stmt[s].ard
        g == <<s, "gdata">>
        f == IF Size(e, g) # Size(e, a) THEN extend_getdata_info(e, s, Size(e, a), TRUE) ELSE e
        was == Cell(f, g, c)
        left0 == CASE was.left = -2 /\ size > 0 -> 0
                   [] was.left = -2 /\ size = 0 -> -1
                   [] OTHER -> was.left
        h == WithCell(f, g, c, [was EXCEPT !.left = left0])
    IN  IF c > Size(e, a) THEN Failing(e)
        ELSE IF left0 = 0
        THEN Out(WithCell(Released(f, {was.own} \ {None}), g, c,
                          [was EXCEPT !.own = None, !.left = -2,
                                      !.size = IF was.own = None THEN @ ELSE 0]),
                 "nodata", <<>>, 0, 0)
        ELSE IF type = "int" THEN Converted(h, s, c)
        ELSE convert_text_field_to_sql_c(h, s, c, size)

PGAPI_GetData(e, s, c, type, size) ==
    IF e.stmt[s].status # "finished" \/ c > e.stmt[s].cols \/ e.stmt[s].row \notin Rows
    THEN Failing(e)
    ELSE copy_and_convert_field(SC_set_current_col(e, s, c), s, c, type, size)

-----------------------------------------------------------------------------
(* The calls.  asked is kept from the arguments of the calls that succeed. *)

Quiet == [ret |-> "ok", of |-> <<>>, from |-> 0, n |-> 0]
NoRead == [col |-> 0, got |-> <<>>, end |-> FALSE]

Nothing ==
    [rec |-> [id \in Ids |-> [i \in Recs |-> Unset]], head |-> [id \in Ids |-> 0],
     ard |-> [s \in Stmts |-> None], apd |-> [s \in Stmts |-> None],
     wish |-> [s \in Stmts |-> Defaults], deflt |-> Defaults,
     read |-> [s \in Stmts |-> NoRead]]

Init ==
    /\ d = [mem |-> <<>>, arr |-> [p \in Places |-> [at |-> None, n |-> 0]],
            desc |-> [id \in Ids |-> Dead], stmt |-> [s \in Stmts |-> NoStmt],
            deflt |-> Defaults, connected |-> TRUE, stray |-> FALSE, out |-> Quiet]
    /\ asked = Nothing
    /\ \E p \in Programs : uses = p.uses /\ left = p.bounds

Done(e, a) ==
    /\ d' = [e EXCEPT !.out = Quiet]
    /\ asked' = IF e.out.ret = "error" THEN asked ELSE a
    /\ uses' = uses

Spent(k) == left[k] > 0 /\ left' = [left EXCEPT ![k] = @ - 1]
Free == left' = left

Usable(s) == d.connected /\ d.stmt[s].status \notin {"none", "need"}
Attached(id) == {s \in Stmts : id \in {d.stmt[s].ard, d.stmt[s].apd}}
Awaited(id) == \E s \in Stmts : d.stmt[s].status = "need" /\ (id = d.stmt[s].apd \/ id[1] = s)

Unread(a, S) == [a EXCEPT !.read = [s \in Stmts |-> IF s \in S THEN NoRead ELSE @[s]]]
Beyond(a, id, n) == [a EXCEPT !.rec[id] = [i \in Recs |-> IF i > n THEN Unset ELSE @[i]]]

\* A second handle where the two can share a descriptor.
AllocStmt(s) ==
    /\ d.connected /\ d.stmt[s].status = "none"
    /\ "explicit" \in uses \/ \A t \in Stmts : d.stmt[t].status = "none"
    /\ Done(PGAPI_AllocStmt(d, s),
            [asked EXCEPT !.wish[s] = asked.deflt, !.ard[s] = <<s, "ARD">>, !.apd[s] = <<s, "APD">>,
                          !.head = [id \in Ids |-> IF id[1] = s THEN HeadOf(id[2]) ELSE @[id]]])
    /\ Free

FreeStmt(s, option) ==
    /\ Usable(s)
    /\ option = "UNBIND" => uses \cap {"columns", "fields"} # {}
    /\ option = "RESET_PARAMS" => uses \cap {"params", "fields"} # {} /\ ~Awaited(d.stmt[s].apd)
    /\ Done(PGAPI_FreeStmt(d, s, option),
            LET a == asked.ard[s]  p == asked.apd[s]  u == Unread(asked, {s}) IN
            CASE option = "DROP" ->
                    [u EXCEPT !.ard[s] = None, !.apd[s] = None, !.wish[s] = Defaults,
                              !.rec = [id \in Ids |-> IF id[1] = s THEN Nothing.rec[id] ELSE @[id]],
                              !.head = [id \in Ids |-> IF id[1] = s THEN 0 ELSE @[id]]]
              [] option = "CLOSE" -> u
              [] option = "UNBIND" -> [u EXCEPT !.rec[a] = [i \in Recs |-> Unset]]
              [] option = "RESET_PARAMS" ->
                    [asked EXCEPT !.rec[p] = [i \in Recs |-> Unset],
                                  !.rec[<<s, "IPD">>] = [i \in Recs |-> Unset]])
    /\ Free

BindCol(s, c, buf, type) ==
    /\ "columns" \in uses /\ Usable(s)
    /\ Done(PGAPI_BindCol(d, s, c, buf, type),
            LET a == [asked EXCEPT !.rec[asked.ard[s]][c] =
                        IF buf = Null THEN Unset ELSE [buf |-> buf, type |-> type]]
            IN  IF asked.read[s].col = c THEN Unread(a, {s}) ELSE a)
    /\ Spent("calls")

BindParameter(s, i, buf, type) ==
    /\ "params" \in uses /\ Usable(s) /\ ~Awaited(d.stmt[s].apd)
    /\ Done(PGAPI_BindParameter(d, s, i, buf, type),
            [asked EXCEPT !.rec[asked.apd[s]][i] = [buf |-> buf, type |-> type],
                          !.rec[<<s, "IPD">>][i].type = type])
    /\ Spent("calls")

\* SQLDescribeParam: the records it describes are allocated.
DescribeParam(s, i) ==
    /\ "params" \in uses /\ Usable(s) /\ d.stmt[s].status # "allocated"
    /\ Done(extend_iparameter_bindings(d, <<s, "IPD">>, i), asked)
    /\ Free

Takes(id, i, field, v) ==
    LET rec == [asked EXCEPT !.rec[id][i] = Field(@, field, v)]
    IN  CASE field = "SIZE" -> [asked EXCEPT !.head[id] = v]
          [] field = "COUNT" -> Beyond(asked, id, i)
          [] Kind(d, id) = "IPD" /\ field = "TYPE" ->
                [asked EXCEPT !.rec[id][i] = IF @.type = v THEN @ ELSE [buf |-> Null, type |-> v]]
          [] Kind(d, id) = "IPD" /\ field = "NAME" -> [asked EXCEPT !.rec[id][i].buf = v]
          [] Kind(d, id) = "IPD" /\ field \notin {"TYPE", "NAME", "SIZE", "COUNT"} -> asked
          [] i = 0 /\ field = "TYPE" -> [asked EXCEPT !.rec[id][0].type = v]
          [] i = 0 /\ field \notin {"TYPE", "DATA", "SIZE", "COUNT"} -> asked
          [] OTHER -> rec

Values(k, i, field) ==
    CASE field = "SIZE" -> {1, 2}
      [] field = "TYPE" -> IF i = 0 THEN {"bookmark"} ELSE {"int"}
      [] field = "DATA" -> IF k = "IPD" THEN {} ELSE {"b1"}
      [] field = "NAME" -> IF k = "IPD" THEN {"n1", Null} ELSE {}
      [] OTHER -> {Null}

SetDescField(id, i, field, v) ==
    /\ "fields" \in uses /\ d.connected /\ Kind(d, id) \in {"ARD", "APD", "IRD", "IPD"}
    /\ ~Awaited(id)
    /\ field = "SIZE" => i = 0
    /\ Done(PGAPI_SetDescField(d, id, i, field, v), Takes(id, i, field, v))
    /\ Spent("calls")

AllocDesc(id) ==
    /\ "explicit" \in uses /\ d.connected /\ id[1] \in Explicit /\ Kind(d, id) = "dead"
    /\ Done([d EXCEPT !.desc[id] = [kind |-> "none", head |-> 0]],
            asked)
    /\ Free

FreeDesc(id) ==
    /\ d.connected /\ id[1] \in Explicit /\ Kind(d, id) # "dead" /\ Attached(id) = {}
    /\ Done([DC_Destructor(d, id) EXCEPT !.desc[id] = Dead],
            [asked EXCEPT !.rec[id] = Nothing.rec[id], !.head[id] = 0])
    /\ Free

\* The copies that make sense: onto another descriptor, an explicit one keeps
\* its type, and no names of parameters (their blocks would be shared).
CopyDesc(src, id) ==
    /\ "explicit" \in uses /\ d.connected /\ src # id
    /\ Kind(d, src) \notin {"dead", "IRD"} /\ Kind(d, id) # "dead"
    /\ id[1] \in Explicit => Kind(d, id) \in {"none", Kind(d, src)}
    /\ Kind(d, src) = "IPD" => Owned(d, src) = {}
    /\ ~Awaited(src) /\ ~Awaited(id)
    /\ Done(PGAPI_CopyDesc(d, src, id),
            [asked EXCEPT !.rec[id] = asked.rec[src], !.head[id] = asked.head[src]])
    /\ Spent("copies")

\* SQLSetStmtAttr(SQL_ATTR_APP_ROW_DESC and SQL_ATTR_APP_PARAM_DESC); a NULL
\* descriptor stands for the statement's own.
SetAppDesc(s, k, id) ==
    /\ "explicit" \in uses /\ Usable(s) /\ k \in {"ARD", "APD"}
    /\ Kind(d, id) = k /\ (id[1] \in Explicit \/ id = <<s, k>>)
    /\ Done(IF k = "ARD" THEN [d EXCEPT !.stmt[s].ard = id] ELSE [d EXCEPT !.stmt[s].apd = id],
            IF k = "ARD" THEN [asked EXCEPT !.ard[s] = id] ELSE [asked EXCEPT !.apd[s] = id])
    /\ Spent("copies")

SetOption(s, o, v) ==
    /\ "options" \in uses /\ Usable(s)
    /\ Done(set_statement_option(d, s, o, v), [asked EXCEPT !.wish[s][o] = Adjusted(o, v)])
    /\ Spent("calls")

SetConnectOption(o, v) ==
    /\ "options" \in uses /\ d.connected
    /\ Done(PGAPI_SetConnectOption(d, o, v), [asked EXCEPT !.deflt[o] = Adjusted(o, v)])
    /\ Spent("calls")

Prepare(s) ==
    /\ "executes" \in uses /\ Usable(s)
    /\ Done([SC_recycle_statement(d, s) EXCEPT !.stmt[s].status = "ready"], Unread(asked, {s}))
    /\ Free

\* Data at execution only for parameters SQLBindParameter has seen: the
\* records SQLPutData writes to are allocated there.
Execute(s, kind) ==
    /\ "executes" \in uses /\ Usable(s)
    /\ \A i \in AtExecution(d, s) : i <= Size(d, <<s, "pdata">>)
    /\ Done(PGAPI_Execute(d, s, kind), Unread(asked, {s}))
    /\ Free

Asking(s) == d.connected /\ d.stmt[s].status = "need"

ParamData(s) == Asking(s) /\ Done(PGAPI_ParamData(d, s), asked) /\ Free
PutData(s) ==
    /\ Asking(s) /\ d.stmt[s].cur > 0
    /\ Done(PGAPI_PutData(d, s), asked)
    /\ Spent("puts")
CancelNeed(s) == Asking(s) /\ Done(PGAPI_Cancel(d, s), asked) /\ Free

Fetch(s) ==
    /\ "reads" \in uses /\ Usable(s) /\ d.stmt[s].status = "finished" /\ d.stmt[s].cols > 0
    /\ Done(SC_fetch(d, s), Unread(asked, {s}))
    /\ Spent("reads")

\* All pieces of a value are read as the same C type, and its length is asked
\* for before the first piece.
GetData(s, c, type, size) ==
    LET r == asked.read[s]
        e == PGAPI_GetData(d, s, c, type, size)
        o == e.out
        was == IF r.col = c THEN r ELSE [NoRead EXCEPT !.col = c]
    IN  /\ "reads" \in uses /\ Usable(s)
        /\ was.got # <<>> => type = "char" /\ size > 0
        /\ Done(e, [asked EXCEPT !.read[s] =
                      [was EXCEPT !.got = IF o.n > 0 THEN Append(@, [of |-> o.of, from |-> o.from, n |-> o.n])
                                          ELSE @,
                                  !.end = @ \/ o.ret \in {"ok", "nodata"}]])
        /\ Spent("reads")

\* SQLDisconnect: the statements, then the explicit descriptors.
Disconnect ==
    /\ d.connected /\ \A s \in Stmts : d.stmt[s].status # "need"
    /\ LET live == {s \in Stmts : d.stmt[s].status # "none"}
           e == FoldSet(LAMBDA s, x : SC_Destructor(x, s), d, live)
           ids == {id \in Ids : id[1] \in Explicit}
           f == FoldSet(LAMBDA id, x : DC_Destructor(x, id), e, ids)
       IN  Done([f EXCEPT !.connected = FALSE, !.deflt = Defaults,
                          !.desc = [id \in Ids |-> Dead]], Nothing)
    /\ left' = [k \in DOMAIN left |-> 0]

Next ==
    \/ \E s \in Stmts :
        \/ AllocStmt(s)
        \/ \E o \in {"DROP", "CLOSE", "UNBIND", "RESET_PARAMS"} : FreeStmt(s, o)
        \/ \E c \in Recs, buf \in {Null, "b1"}, type \in {"char", "bookmark"} : BindCol(s, c, buf, type)
        \/ \E i \in Recs \ {0}, buf \in {"b1", "dae"} : BindParameter(s, i, buf, "char")
        \/ \E i \in Recs \ {0} : DescribeParam(s, i)
        \/ \E k \in {"ARD", "APD"}, id \in Ids : SetAppDesc(s, k, id)
        \/ \E v \in {"forward", "keyset"} : SetOption(s, "cursor", v)
        \/ \E v \in {"ro", "lock"} : SetOption(s, "conc", v)
        \/ \E v \in {0, 1} : SetOption(s, "rows", v)
        \/ Prepare(s)
        \/ \E kind \in {"other", "plain", "updatable"} : Execute(s, kind)
        \/ ParamData(s)
        \/ PutData(s)
        \/ CancelNeed(s)
        \/ Fetch(s)
        \/ \E c \in Recs \ {0}, type \in {"char", "int"}, size \in BufferSizes : GetData(s, c, type, size)
    \/ \E o \in {"cursor", "conc", "rows"} :
         \E v \in CASE o = "cursor" -> {"keyset"} [] o = "conc" -> {"lock"} [] o = "rows" -> {1} :
            SetConnectOption(o, v)
    \/ \E id \in Ids, i \in Recs, field \in {"SIZE", "COUNT", "TYPE", "DATA", "NAME", "OTHER"} :
         \E v \in Values(Kind(d, id), i, field) : SetDescField(id, i, field, v)
    \/ \E id \in Ids : AllocDesc(id) \/ FreeDesc(id) \/ \E src \in Ids : CopyDesc(src, id)
    \/ Disconnect

Spec == Init /\ [][Next]_vars

-----------------------------------------------------------------------------
(* Properties.                                                             *)

\* What is bound is what the application has bound last, whichever of
\* SQLBindCol, SQLBindParameter, SQLSetDescField, SQLSetStmtAttr, SQLCopyDesc and
\* SQLFreeStmt said so and whichever statement shares the descriptor: growing,
\* shrinking, copying and freeing the records loses nothing and brings nothing
\* back, and a refused call changes nothing.
BindingsTrue ==
    /\ \A id \in Ids : Kind(d, id) \notin {"dead", "none"} =>
        /\ d.desc[id].head = asked.head[id]
        /\ \A i \in Recs : Kind(d, id) # "IRD" =>
            LET answer == PGAPI_GetDescField(d, id, i)  said == asked.rec[id][i] IN
            /\ answer.buf = said.buf
            /\ said.type # "unset" => answer.type = said.type
    /\ \A s \in Stmts : d.stmt[s].status # "none" =>
        PGAPI_GetStmtAttr(d, s) = [ard |-> asked.ard[s], apd |-> asked.apd[s],
                                   size |-> asked.head[asked.ard[s]]]

\* Every block malloc has given out is held by exactly one structure, no
\* structure holds a block that was freed, no access goes astray, and after
\* SQLDisconnect nothing is left: over bindings, explicit descriptors shared by
\* statements, copies, parameter names, data put at execution and values read in
\* part.
MemorySound ==
    /\ ~d.stray
    /\ \A b \in DOMAIN d.mem : Holders(d, b) = 1
    /\ Referred(d) \subseteq DOMAIN d.mem
    /\ ~d.connected => DOMAIN d.mem = {}

\* The options a query was executed with may be less than was asked for, but the
\* next execution starts again from what SQLSetStmtAttr has set, also where it was
\* set while the result was open.
OptionsAsAsked ==
    \A s \in Stmts : d.stmt[s].status # "none" =>
        /\ SC_recycle_statement(d, s).stmt[s].opt = asked.wish[s]
        /\ d.stmt[s].status = "allocated" => PGAPI_GetStmtOption(d, s) = asked.wish[s]

\* What SQLGetData hands out piece by piece are the consecutive pieces of the
\* column's value in the current row, and SQL_SUCCESS or SQL_NO_DATA comes only
\* when all of it was handed out: whatever buffer an earlier value, column or
\* rowset has left behind, and whoever grows the shared bindings meanwhile.
PiecesTrue ==
    \A s \in Stmts :
        LET r == asked.read[s]
            of == <<d.stmt[s].row, r.col>>
            k == Len(r.got)
        IN  /\ \A j \in 1 .. k :
                /\ r.got[j].of = of
                /\ r.got[j].from = IF j = 1 THEN 0 ELSE r.got[j - 1].from + r.got[j - 1].n
            /\ r.end => k > 0 /\ r.got[k].from + r.got[k].n = Lengths[of[1]][of[2]]

=============================================================================
