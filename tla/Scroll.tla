------------------------------- MODULE Scroll -------------------------------
(***************************************************************************)
(* A result read through a cursor of the server: SQLExecDirect sends       *)
(* DECLARE and the first FETCH, SQLFetch and SQLFetchScroll move the       *)
(* rowset over the result, and QR_next_tuple decides for each row whether  *)
(* the tuple cache has it or MOVE and FETCH have to get it.  Three numbers *)
(* have to stay in step: where the server's cursor is (cursTuple), which   *)
(* part of the result the cache holds (base) and where the application is  *)
(* (rowset_start, currTuple).                                              *)
(*                                                                         *)
(* A result without a cursor of the server is cached as a whole.  Rows are *)
(* numbered from 0, and a row's data is its number.  Results with a keyset *)
(* are not scrolled here.                                                  *)
(***************************************************************************)
EXTENDS Integers, Sequences

CONSTANTS
    Totals,      \* how many rows a result may have
    FetchMaxs,   \* the values of the option Fetch (drivers.fetch_max)
    Kinds,       \* {"scroll", "forward", "whole"}: the cursor
    Sizes,       \* the rowset sizes the application may set
    Asks,        \* the fetches: <<orientation, offset>>
    MayFail,     \* whether the server may refuse a MOVE or FETCH
    Unknown      \* INT_MAX, the number of tuples while the end has not been seen

ASSUME ScrollAssumption ==
    /\ Totals \subseteq Nat /\ Unknown \in Nat
    /\ FetchMaxs \subseteq Nat \ {0} /\ Sizes \subseteq 1 .. Unknown
    /\ Kinds \subseteq {"scroll", "forward", "whole"}
    /\ Asks \subseteq {"next", "prior", "first", "last", "absolute", "relative"} \X Int
    /\ MayFail \in BOOLEAN

VARIABLES
    server,      \* the cursor of the server
    res,         \* the QResultClass
    stmt,        \* the StatementClass
    call,        \* the call of PGAPI_ExtendedFetch in progress
    out,         \* what the last call handed out
    asked        \* the fetch it was asked for

vars == <<server, res, stmt, call, out, asked>>

-----------------------------------------------------------------------------
(* Types.                                                                  *)

Server == [n : Nat,                \* rows of the result
           pos : Nat,              \* 0 in front of the first, n + 1 behind the last
           all : BOOLEAN,          \* a MOVE ALL was sent
           dead : BOOLEAN]         \* its transaction has failed

Res == [kind : Kinds, fetchMax : Nat,
        curs : BOOLEAN,            \* there is a cursor_name
        eof : BOOLEAN,             \* FQR_REACHED_EOF
        valid : BOOLEAN,           \* FQR_HAS_VALID_BASE
        total : Nat,               \* num_total_read
        cursT : Int,               \* cursTuple
        cache : Seq(Nat),          \* backend_tuples
        base : Int,                \* base, of the rowset in the cache
        next : Int,                \* fetch_number
        tuple : Int,               \* tupleField, -1 when it is NULL
        req : Nat,                 \* rowset_size_include_ommitted
        move : {"none", "forward", "backward"},
        off : Nat]                 \* move_offset

Stmt == [start : Int,              \* rowset_start
         curr : Int,               \* currTuple
         saved : Int]              \* save_rowset_size

Call == [pc : {"idle", "rows"}, r : Nat, got : Seq(Nat)]

Out == [ret : {"none", "ok", "nodata", "error"}, rows : Seq(Nat),
        size : Nat, at : Int]      \* of the rowset it stands on

\* Type invariant: the counters keep to the results' bounds PGAPI_ExtendedFetch
\* and QR_next_tuple are written for; the cache holds rows of the result.
TypeOK ==
    /\ server \in Server /\ server.pos <= server.n + 1
    /\ res \in Res /\ res.total <= server.n
    /\ \A i \in DOMAIN res.cache : res.cache[i] < server.n
    /\ stmt \in Stmt /\ call \in Call /\ out \in Out
    /\ asked \in (Asks \X Sizes) \cup {<<>>}

-----------------------------------------------------------------------------
(* The server's cursor.                                                    *)

Min2(a, b) == IF a < b THEN a ELSE b

\* FETCH or MOVE by k rows: the rows passed, and where the cursor is then.
Ahead(k) == Min2(k, IF server.pos > server.n THEN 0 ELSE server.n - server.pos)
AfterForward(k) == Min2(server.pos + k, server.n + 1)
Back(k) == Min2(k, IF server.pos = 0 THEN 0 ELSE server.pos - 1)
AfterBackward(k) == IF server.pos > k THEN server.pos - k ELSE 0

\* The rows of FETCH k from position p of a result of n rows.
Fetched(n, p, k) ==
    IF p >= n THEN <<>> ELSE [i \in 1 .. Min2(k, n - p) |-> p + i - 1]

-----------------------------------------------------------------------------
(* The tuple cache.                                                        *)

TotalTuples(q) == q.total
CacheIdx(q, s, g) == IF q.valid THEN g - s.start + q.base ELSE g    \* GIdx2CacheIdx
CacheRow(q, i) == IF i + 1 \in DOMAIN q.cache THEN q.cache[i + 1] ELSE -1

\* QR_read_tuples_from_pgres and the end of QR_from_PGresult: the answer to a
\* FETCH of k rows is appended to the cache; fewer rows are the end.
ReadTuples(q, tuples, k) ==
    LET t == q.cursT + Len(tuples)
        total == IF t + 1 > q.total /\ (tuples # <<>> \/ ~q.eof) THEN t + 1 ELSE q.total
        end == Len(tuples) < k
    IN  [q EXCEPT !.cache = @ \o tuples, !.total = total,
                  !.eof = @ \/ end,
                  !.cursT = IF end /\ t < total THEN total ELSE t]

\* SQLExecDirect of a SELECT: without a cursor, everything is in the cache.
Init ==
    \E n \in Totals, k \in FetchMaxs, kind \in Kinds :
      LET whole == kind = "whole"
          rows == Fetched(n, 0, IF whole THEN n ELSE k)
          empty == [kind |-> kind, fetchMax |-> k, curs |-> ~whole, eof |-> whole,
                    valid |-> FALSE, total |-> 0, cursT |-> -1, cache |-> <<>>,
                    base |-> 0, next |-> 0, tuple |-> -1, req |-> 1,
                    move |-> "none", off |-> 0]
      IN  /\ server = [n |-> n, pos |-> IF whole \/ n < k THEN n + 1 ELSE k,
                        all |-> FALSE, dead |-> FALSE]
          /\ res = ReadTuples(empty, rows, IF whole THEN n ELSE k)
          /\ stmt = [start |-> -1, curr |-> -1, saved |-> -1]
          /\ call = [pc |-> "idle", r |-> 0, got |-> <<>>]
          /\ out = [ret |-> "none", rows |-> <<>>, size |-> 0, at |-> -1]
          /\ asked = <<>>

-----------------------------------------------------------------------------
(* Where the rowset starts.                                                *)

\* Mutant: the base stays when the rowset moves on.
SetStart_KeepsBase(q, s, start) ==
    [q EXCEPT !.valid = TRUE,
              !.base = IF q.valid THEN @ ELSE IF start < 0 THEN -1 ELSE start]

\* SC_set_rowset_start: the base of the rowset in the cache moves with it.
SetStart(q, s, start) ==
    [q EXCEPT !.valid = TRUE,
              !.base = IF q.valid THEN @ + start - s.start
                       ELSE IF start < 0 THEN -1 ELSE start]

\* EXTFETCH_RETURN_BOF and EXTFETCH_RETURN_EOF: nothing is fetched.
NoRows(q, start, r) ==
    /\ res' = SetStart(q, stmt, start)
    /\ stmt' = [start |-> start, curr |-> -1, saved |-> -1]
    /\ out' = [ret |-> "nodata", rows |-> <<>>, size |-> r, at |-> start]
    /\ call' = [call EXCEPT !.pc = "idle", !.got = <<>>]

\* getNthValid without a keyset, forward and backward: where the nth row from
\* there is; it may be past the end or in front of the first row.
Forward(sta, nth) == sta - 1 + nth
Backward(sta, nth) == IF sta + 1 >= nth THEN sta + 1 - nth ELSE -1
\* How many rows there are for it in front: 0 is "none".
CountBack(sta, nth) == IF sta + 1 >= nth THEN nth ELSE -(sta + 1)

\* Mutant: the rowset size that is in effect now, not that of the last rowset.
Progress_CurrentSize(s, r) == r

\* SQL_FETCH_NEXT goes on by the size the last rowset was fetched with.
Progress(s, r) == IF s.saved > 0 THEN s.saved ELSE r

\* QR_move_cursor_to_last: MOVE ALL, when the end was not seen.
ToLast(q) ==
    IF ~q.curs \/ (q.eof /\ q.cursT >= q.total) THEN q
    ELSE LET t == q.cursT + Ahead(server.n + 1) + 1
         IN  IF q.eof THEN [q EXCEPT !.cursT = t]
             ELSE [q EXCEPT !.cursT = t, !.total = t, !.eof = TRUE]
MovesToLast(q) == q.curs /\ ~(q.eof /\ q.cursT >= q.total)

\* move_cursor_position_if_needed: the rowset may be in the cache, begin right
\* behind it, or be elsewhere.
MoveIfNeeded(q, curr) ==
    IF ~q.curs THEN [q EXCEPT !.move = "none", !.off = 0]
    ELSE IF q.base >= 0 /\ q.base <= Len(q.cache) THEN [q EXCEPT !.next = q.base, !.off = 0]
    ELSE LET d == curr - q.cursT
         IN  IF d = 0 THEN [q EXCEPT !.off = 0]
             ELSE [q EXCEPT !.move = IF d > 0 THEN "forward" ELSE "backward",
                            !.off = IF d > 0 THEN d ELSE -d]

\* The rows are fetched from there.
FetchFrom(q, start, r) ==
    LET s == [start |-> start, curr |-> start - 1, saved |-> -1]
        p == [SetStart(q, stmt, start) EXCEPT !.req = r]
    IN  /\ res' = IF q.kind = "whole" THEN [p EXCEPT !.base = start]
                  ELSE MoveIfNeeded(p, s.curr)
        /\ stmt' = s
        /\ call' = [pc |-> "rows", r |-> r, got |-> <<>>]
        /\ UNCHANGED out

\* The checks behind the switch of PGAPI_ExtendedFetch.
GoTo(q, start, r, num, eof) ==
    IF (~q.curs \/ eof) /\ start >= num THEN NoRows(q, num, r)
    ELSE IF start >= 0 THEN FetchFrom(q, start, r)
    ELSE IF start + r <= 0 THEN NoRows(q, -1, r) ELSE FetchFrom(q, 0, r)

-----------------------------------------------------------------------------
(* PGAPI_ExtendedFetch: where the fetch goes.                              *)

Idle == call.pc = "idle"
Num(q) == IF q.curs /\ ~q.eof THEN Unknown ELSE TotalTuples(q)
Eof(q) == q.eof /\ q.curs

\* Bound: a cursor that was refused is not asked for rows behind the result again.
Ready(ask) == /\ Idle /\ ask \in Asks
              /\ server.dead => stmt.start <= server.n
              /\ res.kind = "forward" => ask[1] = "next"

AskNext(ask, r) ==
    /\ ask[1] = "next" /\ UNCHANGED server
    /\ GoTo(res, IF stmt.start < 0 THEN 0 ELSE stmt.start + Progress(stmt, r), r,
            Num(res), Eof(res))

AskPrior(ask, r) ==
    /\ ask[1] = "prior" /\ UNCHANGED server
    /\ IF stmt.start <= 0 THEN NoRows(res, -1, r)
       ELSE GoTo(res, IF (stmt.start >= Num(res) /\ r > Num(res)) \/ stmt.start < r THEN 0
                      ELSE stmt.start - r,
                 r, Num(res), Eof(res))

AskFirst(ask, r) ==
    /\ ask[1] = "first" /\ UNCHANGED server
    /\ GoTo(res, 0, r, Num(res), Eof(res))

\* Backward from a row: none is before the result, too few is its start.
Before(q, sta, nth, r, num, eof) ==
    IF CountBack(sta, nth) = 0 THEN NoRows(q, -1, r)
    ELSE IF CountBack(sta, nth) < 0 THEN GoTo(q, 0, r, num, eof)
    ELSE GoTo(q, Backward(sta, nth), r, num, eof)

\* From the last row, with the cursor moved there first; the server may refuse
\* to, and what was read so far is then taken for the result.
FromLast(nth, r) ==
    IF Eof(res) \/ ~MovesToLast(res)
    THEN /\ Before(res, TotalTuples(res) - 1, nth, r,
                   IF Eof(res) \/ ~res.curs THEN Num(res) ELSE TotalTuples(res), Eof(res))
         /\ UNCHANGED server
    ELSE \/ /\ ~server.dead
            /\ server' = [server EXCEPT !.pos = server.n + 1, !.all = TRUE]
            /\ LET q == ToLast(res)
               IN  Before(q, TotalTuples(q) - 1, nth, r, TotalTuples(q), FALSE)
         \/ /\ MayFail \/ server.dead
            /\ server' = [server EXCEPT !.dead = TRUE]
            /\ Before(res, TotalTuples(res) - 1, nth, r, TotalTuples(res), FALSE)

AskLast(ask, r) == ask[1] = "last" /\ FromLast(r, r)

AskAbsolute(ask, r) ==
    /\ ask[1] = "absolute"
    /\ CASE ask[2] = 0 -> NoRows(res, -1, r) /\ UNCHANGED server
         [] ask[2] > 0 ->
              /\ UNCHANGED server
              /\ LET p == Forward(0, ask[2])
                 IN  IF res.eof /\ p >= TotalTuples(res) THEN NoRows(res, Num(res), r)
                     ELSE GoTo(res, p, r, Num(res), Eof(res))
         [] OTHER -> FromLast(-ask[2], r)

AskRelative(ask, r) ==
    /\ ask[1] = "relative" /\ UNCHANGED server
    /\ CASE ask[2] = 0 -> GoTo(res, stmt.start, r, Num(res), Eof(res))
         [] ask[2] > 0 ->
              LET p == Forward(stmt.start + 1, ask[2])
              IN  IF res.eof /\ p >= TotalTuples(res) THEN NoRows(res, Num(res), r)
                  ELSE GoTo(res, p, r, Num(res), Eof(res))
         [] OTHER -> Before(res, stmt.start - 1, -ask[2], r, Num(res), Eof(res))

ExtendedFetch(ask, r) ==
    /\ Ready(ask)
    /\ asked' = <<ask, r>>
    /\ \/ AskNext(ask, r) \/ AskPrior(ask, r) \/ AskFirst(ask, r)
       \/ AskLast(ask, r) \/ AskAbsolute(ask, r) \/ AskRelative(ask, r)

-----------------------------------------------------------------------------
(* SC_fetch and QR_next_tuple: one row.                                    *)

\* The end of PGAPI_ExtendedFetch, with the rows that were got.
Finish(q, s, ret) ==
    LET n == Len(call.got)
    IN  /\ stmt' = IF ret = "error" THEN s
                   ELSE [s EXCEPT !.saved = call.r, !.curr = s.start]
        /\ res' = IF q.curs /\ ret # "error" THEN [q EXCEPT !.tuple = q.base] ELSE q
        /\ call' = [call EXCEPT !.pc = "idle"]
        /\ out' = [ret |-> IF ret = "error" THEN ret ELSE IF n = 0 THEN "nodata" ELSE "ok",
                   rows |-> IF ret = "error" THEN <<>> ELSE call.got,
                   size |-> call.r, at |-> s.start]

Complete == Len(call.got) = call.r

GotRow(q, row) ==
    /\ res' = q
    /\ stmt' = [stmt EXCEPT !.curr = @ + 1]
    /\ call' = [call EXCEPT !.got = Append(@, row)]
    /\ UNCHANGED out

\* No row: a cursor that only moves forward is closed at its end.
NoRow(q) ==
    IF q.kind = "forward" /\ q.curs /\ q.eof
    THEN Finish([q EXCEPT !.curs = FALSE, !.cursT = -1], stmt, "ok")
    ELSE Finish(q, stmt, "ok")

\* From the cache without a cursor of the server.
FetchWhole ==
    /\ call.pc = "rows" /\ ~Complete /\ ~res.curs
    /\ UNCHANGED <<server, asked>>
    /\ IF stmt.curr >= TotalTuples(res) - 1
       THEN Finish(res, [stmt EXCEPT !.curr = TotalTuples(res)], "ok")
       ELSE GotRow(res, CacheRow(res, CacheIdx(res, stmt, stmt.curr + 1)))

\* The row is in the cache.
FetchCached ==
    /\ call.pc = "rows" /\ ~Complete /\ res.curs
    /\ res.off = 0 /\ res.next < Len(res.cache)
    /\ GotRow([res EXCEPT !.tuple = res.next, !.next = @ + 1], CacheRow(res, res.next))
    /\ UNCHANGED <<server, asked>>

Misses == /\ call.pc = "rows" /\ ~Complete /\ res.curs
          /\ res.off > 0 \/ res.next >= Len(res.cache)

\* The end was seen and there are no more rows behind the current one.
AtEnd == res.off = 0 /\ res.eof /\ stmt.curr + 1 >= TotalTuples(res)

FetchAtEnd ==
    /\ Misses /\ AtEnd
    /\ NoRow([res EXCEPT !.tuple = -1])
    /\ UNCHANGED <<server, asked>>

Size(q) == IF q.req > q.fetchMax THEN q.req ELSE q.fetchMax

\* MOVE BACKWARD goes further than needed, so that the cache is filled with
\* rows in front of the rowset too.
BackBy(q) ==
    IF Size(q) > q.req THEN Min2(q.off + Size(q) - q.req, q.cursT + 1) ELSE q.off

\* The position of the driver after a MOVE that passed k rows of m: what it
\* counts for having left the result.
Passed(q, k, m) ==
    IF k = m THEN k
    ELSE IF k = 0 /\ \/ q.move = "backward" /\ q.cursT < 0
                     \/ q.move = "forward" /\ q.eof /\ q.cursT >= q.total THEN 0
    ELSE k + 1

\* The result as the MOVE leaves it, and the place of the rowset in what is
\* fetched next.
MovedBack(q) ==
    LET m == BackBy(q)
        k == Passed(q, Back(m), m)
    IN  [q |-> [q EXCEPT !.cursT = @ - k], offset |-> k - q.off, pos |-> AfterBackward(m)]

MovedOn(q) ==
    LET k == Passed(q, Ahead(q.off), q.off)
        short == Ahead(q.off) < q.off
        t == q.cursT + k
    IN  [q |-> [q EXCEPT !.cursT = t, !.eof = @ \/ short,
                         !.total = IF short /\ ~q.eof THEN t ELSE @],
         offset |-> q.off - k, pos |-> AfterForward(q.off)]

Moved(q) == IF q.move = "backward" THEN MovedBack(q) ELSE MovedOn(q)

\* The FETCH of what the cache does not hold: a new cache ...
Refill(q, offset, pos) ==
    LET k == Size(q)
        rows == Fetched(server.n, pos, k)
        p == ReadTuples([q EXCEPT !.cache = <<>>, !.base = offset, !.next = offset + 1,
                                  !.move = "none", !.off = 0], rows, k)
    IN  [q |-> [p EXCEPT !.tuple = IF offset < Len(rows) THEN offset ELSE -1],
         got |-> offset < Len(rows), row |-> CacheRow(p, offset),
         pos |-> Min2(pos + k, server.n + 1)]

\* ... or the rest of a rowset the cache begins with.
Extend(q) ==
    LET k == q.req + q.base - Len(q.cache)
        rows == Fetched(server.n, server.pos, k)
        offset == q.next
        p == ReadTuples([q EXCEPT !.next = @ + 1], rows, k)
        got == offset < Len(p.cache)
    IN  [q |-> [p EXCEPT !.tuple = IF got THEN offset ELSE -1],
         got |-> got, row |-> CacheRow(p, offset), pos |-> AfterForward(k)]

Answered(x) ==
    /\ server' = [server EXCEPT !.pos = x.pos]
    /\ IF x.got THEN GotRow(x.q, x.row) ELSE NoRow(x.q)

\* The rowset begins outside the cache.
FetchMoved ==
    /\ Misses /\ res.off > 0 /\ ~server.dead
    /\ LET m == Moved(res) IN Answered(Refill(m.q, m.offset, m.pos))
    /\ UNCHANGED asked

FetchNew ==
    /\ Misses /\ res.off = 0 /\ ~AtEnd /\ ~server.dead
    /\ res.base >= Len(res.cache)
    /\ Answered(Refill(res, 0, server.pos))
    /\ UNCHANGED asked

FetchMore ==
    /\ Misses /\ res.off = 0 /\ ~AtEnd /\ ~server.dead
    /\ res.base < Len(res.cache)
    /\ IF res.req + res.base > Len(res.cache) THEN Answered(Extend(res))
       ELSE NoRow([res EXCEPT !.tuple = -1]) /\ UNCHANGED server
    /\ UNCHANGED asked

\* The server refuses the MOVE, which QR_next_tuple reports like the end of the
\* result, or the FETCH.
FetchRefused ==
    /\ Misses /\ ~AtEnd /\ (MayFail \/ server.dead)
    /\ UNCHANGED asked
    /\ server' = [server EXCEPT !.dead = TRUE]
    /\ IF res.off > 0 THEN NoRow(res)
       ELSE Finish([res EXCEPT !.tuple = -1, !.cache = IF res.base >= Len(@) THEN <<>> ELSE @,
                               !.next = IF res.base >= Len(res.cache) THEN 1 ELSE @ + 1,
                               !.base = IF @ >= Len(res.cache) THEN 0 ELSE @],
                   stmt, "error")

Done ==
    /\ call.pc = "rows" /\ Complete
    /\ Finish(res, stmt, "ok")
    /\ UNCHANGED <<server, asked>>

Next ==
    \/ \E ask \in Asks, r \in Sizes : ExtendedFetch(ask, r)
    \/ FetchWhole \/ FetchCached \/ FetchAtEnd \/ FetchMoved \/ FetchNew \/ FetchMore
    \/ FetchRefused \/ Done

Spec == Init /\ [][Next]_vars

-----------------------------------------------------------------------------
(* Properties.                                                             *)

\* The cache is a part of the result without gaps, and base says where in it
\* the rowset is.
CacheTruth ==
    /\ \A i \in DOMAIN res.cache : res.cache[i] = res.cache[1] + i - 1
    /\ res.valid /\ res.cache # <<>> => res.cache[1] = stmt.start - res.base

Contract == INSTANCE RowsetContract
    WITH asked <- asked, n <- server.n, at <- out.at, size <- out.size, rows <- out.rows,
         ret <- out.ret, jumped <- server.all, lost <- server.dead

\* What the application is promised, and the fetches keep it, weakened after
\* fetches from the end and failures as RowsetContract says.
ImplementsContract == Contract!CInit(Totals) /\ [][Contract!CNext]_(Contract!cvars)

=============================================================================
