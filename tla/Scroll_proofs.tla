---------------------------- MODULE Scroll_proofs ----------------------------
(***************************************************************************)
(* Theorems about Scroll, for results, caches and rowsets of any size, any *)
(* values of the option Fetch and every order of fetches.                  *)
(***************************************************************************)
EXTENDS Scroll, SequenceTheorems, TLAPS

-----------------------------------------------------------------------------
(***************************************************************************)
(* The inductive invariant.                                                *)
(***************************************************************************)

\* The row of the result that the cache begins with.
Origin == IF res.valid THEN stmt.start - res.base ELSE 0
Filled == Len(res.cache)

\* The cache has no gap.
Cached ==
    /\ \A i \in 1 .. Filled : res.cache[i] = Origin + i - 1
    /\ Filled > 0 => Origin >= 0 /\ Origin + Filled <= server.n
    /\ ~res.valid => stmt.start = -1 /\ res.base = 0
    /\ stmt.start >= -1 /\ res.next >= 0 /\ res.req >= 1 /\ res.fetchMax >= 1

\* cursTuple is where the server's cursor is, and that is behind the cache or behind the
\* result; unless MOVE ALL was sent, the cache then reaches to the end.
Synced == res.curs =>
    /\ res.cursT = server.pos - 1
    /\ server.pos = server.n + 1 => res.eof
    /\ \/ server.pos = Origin + Filled
       \/ server.pos = server.n + 1 /\ (server.all \/ Origin + Filled >= server.n)
       \/ server.dead /\ Filled = 0

\* What is known of the end.
Ended ==
    /\ ~res.curs => res.eof
    /\ res.eof => res.total = server.n
    /\ res.kind = "whole" => ~res.curs /\ Origin = 0 /\ Filled = server.n
    /\ res.kind = "scroll" => res.curs

\* In a fetch: the rows got are those of the rowset from its start on, the next one is
\* where fetch_number says, and a MOVE that is still to be sent goes to the start.
InRows == call.pc = "rows" =>
    LET k == Len(call.got) IN
    /\ call.r \in Sizes /\ asked \in Asks \X Sizes /\ asked[2] = call.r
    /\ ~server.dead => stmt.start \in Contract!Target(asked[1], asked[2])
    /\ stmt.start >= 0 /\ stmt.curr = stmt.start - 1 + k /\ k <= call.r
    /\ \A i \in 1 .. k : call.got[i] = stmt.start + i - 1
    /\ k > 0 => stmt.start + k <= server.n
    /\ res.valid /\ stmt.saved = -1 /\ (res.kind = "forward" => res.curs)
    /\ res.curs =>
         /\ res.req = call.r
         /\ res.off > 0 =>
              /\ k = 0 /\ res.base \notin 0 .. Filled
              /\ \/ res.move = "forward" /\ res.off = stmt.curr - res.cursT
                 \/ res.move = "backward" /\ res.off = res.cursT - stmt.curr
         /\ res.off = 0 =>
              \/ res.base \in 0 .. Filled /\ res.next = res.base + k /\ res.next <= Filled
              \/ server.dead /\ Filled = 0 /\ k = 0
         /\ res.eof /\ k = 0 => stmt.start < server.n \/ stmt.start = 0

\* Between fetches: the application stands where it was told.
Between == call.pc = "idle" =>
    /\ stmt.saved \in {-1} \cup Sizes
    /\ ~server.dead =>
         /\ stmt.start = out.at /\ (out.at >= 0 => out.size >= 1)
         /\ IF stmt.saved > 0 THEN stmt.saved = out.size /\ stmt.start >= 0
            ELSE stmt.start = -1 \/ (stmt.start >= server.n /\ res.eof)

HandedOut == \E k \in 0 .. server.n : out.rows = Contract!RowsOf(out.at, k)

\* A cursor that only moves forward never leaves the cache but at its end, and is
\* closed when there are no more rows.
OpenForward ==
    /\ res.eof => Origin + Filled = server.n /\ res.base >= 0
    /\ ~server.dead =>
         IF call.pc = "rows" THEN res.off = 0
         ELSE \/ ~res.valid
              \/ stmt.saved > 0 /\ res.base >= 0 /\ res.base + stmt.saved <= Filled
              \/ res.eof /\ stmt.start >= server.n
ClosedForward ==
    /\ call.pc = "idle" /\ stmt.start >= 0
    /\ stmt.start >= server.n \/ (stmt.saved > 0 /\ stmt.start + stmt.saved >= server.n)
ForwardOnly == res.kind = "forward" =>
    ~server.all /\ IF res.curs THEN OpenForward ELSE ClosedForward

CacheInv == TypeOK /\ Cached /\ Synced /\ Ended
ScrollInv == CacheInv /\ InRows /\ Between /\ HandedOut /\ ForwardOnly

-----------------------------------------------------------------------------
(***************************************************************************)
(* What the operators compute.                                             *)
(***************************************************************************)
LEMMA ConstantTypes ==
    /\ Unknown \in Nat /\ \A r \in Sizes : r \in Nat /\ r >= 1 /\ r <= Unknown
    /\ Totals \subseteq Nat /\ \A k \in FetchMaxs : k \in Nat /\ k >= 1
    /\ Kinds \subseteq {"scroll", "forward", "whole"}
    /\ \A ask \in Asks : /\ ask[1] \in {"next", "prior", "first", "last", "absolute", "relative"}
                         /\ ask[2] \in Int
BY ScrollAssumption

\* How many rows FETCH k yields from position p of a result of n rows.
Yield(n, p, k) == IF p >= n THEN 0 ELSE Min2(k, n - p)

LEMMA FetchedRows ==
    ASSUME NEW n \in Nat, NEW p \in Nat, NEW k \in Nat
    PROVE  /\ Fetched(n, p, k) \in Seq(Nat)
           /\ Len(Fetched(n, p, k)) = Yield(n, p, k)
           /\ \A i \in 1 .. Len(Fetched(n, p, k)) : Fetched(n, p, k)[i] = p + i - 1
<1>1. CASE p >= n
  BY <1>1, EmptySeq DEF Fetched, Yield
<1>2. CASE p < n
  <2> DEFINE m == Min2(k, n - p)
             s == [i \in 1 .. m |-> p + i - 1]
  <2>1. m \in Nat
    BY <1>2 DEF Min2, Yield
  <2>2. Fetched(n, p, k) = s
    BY <1>2 DEF Fetched
  <2> HIDE DEF m
  <2>3. s \in [1 .. m -> Nat]
    BY <2>1
  <2>4. s \in Seq(Nat)
    BY <2>1, <2>3, SeqDef
  <2>5. Len(s) = m
    <3>1. Len(s) \in Nat /\ DOMAIN s = 1 .. Len(s)
      BY <2>4, LenProperties
    <3> QED BY <2>1, <2>3, <3>1
  <2>6. \A i \in 1 .. m : s[i] = p + i - 1
    OBVIOUS
  <2>7. m = Yield(n, p, k)
    BY <1>2 DEF m, Yield
  <2> HIDE DEF s
  <2> QED BY <2>2, <2>4, <2>5, <2>6, <2>7
<1> QED BY <1>1, <1>2

\* SC_set_rowset_start leaves the cache where it was in the result.
LEMMA SetStartKeeps ==
    ASSUME NEW q \in Res, NEW s \in Stmt, NEW start \in Int, start >= -1,
           ~q.valid => s.start = -1 /\ q.base = 0
    PROVE  /\ SetStart(q, s, start) =
                [q EXCEPT !.valid = TRUE,
                          !.base = start - (IF q.valid THEN s.start - q.base ELSE 0)]
           /\ SetStart(q, s, start) \in Res
<1>1. q.base \in Int /\ s.start \in Int
  BY DEF Res, Stmt
<1>2. (IF q.valid THEN q.base + start - s.start ELSE IF start < 0 THEN -1 ELSE start)
        = start - (IF q.valid THEN s.start - q.base ELSE 0)
  BY <1>1
<1>3. start - (IF q.valid THEN s.start - q.base ELSE 0) \in Int
  BY <1>1
<1> QED BY <1>2, <1>3 DEF SetStart, Res

\* What FETCH k appends from position p on, and where it leaves the cursor.
Reads(x, q, n, p, k) ==
    /\ x \in Res /\ x.cache = q.cache \o Fetched(n, p, k)
    /\ x.total <= n /\ (x.eof => x.total = n)
    /\ x.eof <=> q.eof \/ p + k > n
    /\ x.cursT = Min2(p + k, n + 1) - 1
    /\ x.kind = q.kind /\ x.fetchMax = q.fetchMax /\ x.curs = q.curs /\ x.valid = q.valid
    /\ x.base = q.base /\ x.next = q.next /\ x.req = q.req /\ x.move = q.move /\ x.off = q.off

LEMMA ReadTuplesKeeps ==
    ASSUME NEW q \in Res, NEW n \in Nat, NEW p \in 0 .. n + 1, NEW k \in Nat, k >= 1,
           q.cursT = p - 1, q.total <= n, q.eof => q.total = n, p = n + 1 => q.eof
    PROVE  Reads(ReadTuples(q, Fetched(n, p, k), k), q, n, p, k)
<1> DEFINE tuples == Fetched(n, p, k)
           m == Len(tuples)
           t == q.cursT + m
           total == IF t + 1 > q.total /\ (tuples # <<>> \/ ~q.eof) THEN t + 1 ELSE q.total
           end == m < k
           cursT == IF end /\ t < total THEN total ELSE t
           x == ReadTuples(q, tuples, k)
<1>1. q.total \in Nat /\ q.cursT \in Int /\ q.eof \in BOOLEAN /\ q.cache \in Seq(Nat)
  BY DEF Res
<1>2. /\ tuples \in Seq(Nat) /\ m \in Nat /\ m = Yield(n, p, k)
      /\ tuples # <<>> <=> m > 0
  <2>0. p \in Nat /\ k \in Nat
    OBVIOUS
  <2>1. tuples \in Seq(Nat) /\ m = Yield(n, p, k)
    BY <2>0, FetchedRows
  <2>2. m \in Nat /\ (tuples # <<>> <=> m > 0)
    BY <2>1, LenProperties, EmptySeq
  <2> QED BY <2>1, <2>2
<1>3. x = [q EXCEPT !.cache = @ \o tuples, !.total = total, !.eof = @ \/ end, !.cursT = cursT]
  BY DEF ReadTuples
<1>4. q.cache \o tuples \in Seq(Nat)
  BY <1>1, <1>2, ConcatProperties
<1> HIDE DEF tuples, m
<1>5. end <=> p + k > n
  BY <1>2 DEF Min2, Yield
<1>6. /\ total \in Nat /\ total <= n /\ (q.eof \/ end => total = n)
      /\ cursT = Min2(p + k, n + 1) - 1 /\ cursT \in Int
  <2>1. CASE p >= n
    BY <1>1, <1>2, <2>1 DEF Min2, Yield
  <2>2. CASE p < n /\ k <= n - p
    <3>1. m = k /\ p + k <= n /\ t = p - 1 + k
      BY <1>2, <2>2 DEF Min2, Yield
    <3>2. total \in Nat /\ total <= n /\ (q.eof => total = n) /\ ~end
      BY <1>1, <3>1
    <3> HIDE DEF total, end
    <3>3. cursT = p - 1 + k /\ Min2(p + k, n + 1) = p + k
      BY <3>1, <3>2 DEF Min2
    <3> QED BY <3>1, <3>2, <3>3
  <2>3. CASE p < n /\ k > n - p
    BY <1>1, <1>2, <2>3 DEF Min2, Yield
  <2> QED BY <2>1, <2>2, <2>3
<1> HIDE DEF total, cursT, end, x
<1>7. x \in Res /\ x.cache = q.cache \o tuples /\ x.total = total /\ (x.eof <=> q.eof \/ end)
      /\ x.cursT = cursT
      /\ x.kind = q.kind /\ x.fetchMax = q.fetchMax /\ x.curs = q.curs /\ x.valid = q.valid
      /\ x.base = q.base /\ x.next = q.next /\ x.req = q.req /\ x.move = q.move /\ x.off = q.off
  BY <1>1, <1>3, <1>4, <1>6 DEF Res, end
<1> QED BY <1>5, <1>6, <1>7 DEF Reads, x, tuples

-----------------------------------------------------------------------------
(***************************************************************************)
(* The rows of a rowset.                                                   *)
(***************************************************************************)
LEMMA RowsOfNothing ==
    ASSUME server.n \in Nat, NEW p \in Int, NEW r, p < 0 \/ p >= server.n
    PROVE  Contract!RowsOf(p, r) = <<>>
BY DEF Contract!RowsOf

LEMMA RowsOfRowset ==
    ASSUME server.n \in Nat, NEW p \in Nat, NEW r \in Nat, p < server.n, NEW s \in Seq(Nat),
           p + r > server.n => Len(s) = server.n - p, p + r <= server.n => Len(s) = r,
           \A i \in 1 .. Len(s) : s[i] = p + i - 1
    PROVE  s = Contract!RowsOf(p, r)
<1> DEFINE m == IF p + r > server.n THEN server.n - p ELSE r
           t == [i \in 1 .. m |-> p + i - 1]
<1>1. m \in Nat /\ Contract!RowsOf(p, r) = t
  BY DEF Contract!RowsOf
<1>2. Len(s) = m
  OBVIOUS
<1> HIDE DEF m
<1>3. t \in [1 .. m -> Nat]
  BY <1>1
<1>4. t \in Seq(Nat)
  BY <1>1, <1>3, SeqDef
<1>5. Len(t) = m
  <2>1. Len(t) \in Nat /\ DOMAIN t = 1 .. Len(t)
    BY <1>4, LenProperties
  <2> QED BY <1>1, <1>3, <2>1
<1>6. \A i \in 1 .. m : t[i] = p + i - 1
  OBVIOUS
<1> HIDE DEF t
<1>7. s = t
  <2>1. Len(s) = Len(t) /\ \A i \in 1 .. Len(s) : s[i] = t[i]
    BY <1>2, <1>5, <1>6
  <2> QED BY <1>4, <2>1, SeqEqual
<1> QED BY <1>1, <1>7

\* Any first rows of a rowset are a smaller rowset.
LEMMA RowsGot ==
    ASSUME server.n \in Nat, NEW s \in Seq(Nat), NEW p \in Nat,
           Len(s) > 0 => p + Len(s) <= server.n,
           \A i \in 1 .. Len(s) : s[i] = p + i - 1
    PROVE  /\ Len(s) \in 0 .. server.n
           /\ s = Contract!RowsOf(p, Len(s))
<1>1. Len(s) \in Nat
  BY LenProperties
<1>2. CASE Len(s) > 0
  <2>1. p < server.n /\ p + Len(s) <= server.n
    BY <1>1, <1>2
  <2> QED BY <1>1, <1>2, <2>1, RowsOfRowset
<1>3. CASE Len(s) = 0
  <2>1. s = <<>>
    BY <1>3, EmptySeq
  <2>2. CASE p >= server.n
    BY <1>3, <2>1, <2>2, RowsOfNothing
  <2>3. CASE p < server.n
    <3>1. PICK z \in Nat : z = 0
      OBVIOUS
    <3>2. s = Contract!RowsOf(p, z)
      <4>1. ~(p + z > server.n) /\ Len(s) = z /\ p < server.n
        BY <1>3, <2>3, <3>1
      <4>2. (p + z > server.n => Len(s) = server.n - p) /\ (p + z <= server.n => Len(s) = z)
        BY <4>1
      <4> QED BY <4>1, <4>2, RowsOfRowset
    <3> QED BY <1>3, <3>1, <3>2
  <2> QED BY <2>2, <2>3
<1> QED BY <1>1, <1>2, <1>3

-----------------------------------------------------------------------------
(***************************************************************************)
(* SQLExecDirect.                                                          *)
(***************************************************************************)
LEMMA FetchedFirst ==
    ASSUME NEW n \in Nat, NEW k \in Nat
    PROVE  /\ Fetched(n, 0, k) \in Seq(Nat) /\ Len(Fetched(n, 0, k)) = Min2(k, n)
           /\ \A i \in 1 .. Len(Fetched(n, 0, k)) : Fetched(n, 0, k)[i] = i - 1
<1>1. PICK z \in Nat : z = 0
  OBVIOUS
<1>2. /\ Fetched(n, z, k) \in Seq(Nat) /\ Len(Fetched(n, z, k)) = Yield(n, z, k)
      /\ \A i \in 1 .. Len(Fetched(n, z, k)) : Fetched(n, z, k)[i] = z + i - 1
  BY FetchedRows
<1>3. Yield(n, z, k) = Min2(k, n)
  BY <1>1 DEF Yield, Min2
<1>4. Len(Fetched(n, z, k)) \in Nat
  BY <1>2, LenProperties
<1> QED BY <1>1, <1>2, <1>3, <1>4

\* A result without a cursor is read as a whole.
LEMMA WholeRead ==
    ASSUME NEW n \in Nat, NEW e \in Res, e.eof, e.total = 0, e.cursT = -1, e.cache = <<>>,
           NEW rows, rows = Fetched(n, 0, n), NEW q, q = ReadTuples(e, rows, n)
    PROVE  /\ q \in Res /\ q.cache = rows /\ rows \in Seq(Nat) /\ Len(rows) = n
           /\ q.total = n /\ q.eof
           /\ q.kind = e.kind /\ q.fetchMax = e.fetchMax /\ (q.curs <=> e.curs) /\ q.valid = e.valid
           /\ q.base = e.base /\ q.next = e.next /\ q.req = e.req
<1>1. rows \in Seq(Nat) /\ Len(rows) = n
  <2>1. Min2(n, n) = n
    BY DEF Min2
  <2> QED BY <2>1, FetchedFirst
<1>2. <<>> \o rows = rows /\ (rows # <<>> <=> n > 0)
  BY <1>1, ConcatEmptySeq, EmptySeq
<1> DEFINE t == e.cursT + n
           total == IF t + 1 > e.total /\ (rows # <<>> \/ ~e.eof) THEN t + 1 ELSE e.total
<1>3. t = n - 1 /\ total = n
  BY <1>2
<1>4. q = [e EXCEPT !.cache = rows, !.total = n, !.eof = TRUE, !.cursT = n - 1]
  <2>1. q = [e EXCEPT !.cache = @ \o rows, !.total = total, !.eof = @ \/ n < n,
                      !.cursT = IF n < n /\ t < total THEN total ELSE t]
    BY <1>1 DEF ReadTuples
  <2>2. (e.eof \/ n < n) = TRUE
    BY DEF Res
  <2>3. (IF n < n /\ t < total THEN total ELSE t) = n - 1
    BY <1>3
  <2> HIDE DEF t, total
  <2> QED BY <1>2, <1>3, <2>1, <2>2, <2>3
<1>5. n - 1 \in Int
  OBVIOUS
<1> QED BY <1>1, <1>4, <1>5 DEF Res

\* Through a cursor the first FETCH reads.
LEMMA FirstRead ==
    ASSUME NEW n \in Nat, NEW k \in Nat, k >= 1, NEW e \in Res,
           ~e.eof, e.total = 0, e.cursT = -1, e.cache = <<>>,
           NEW rows, rows = Fetched(n, 0, k), NEW q, q = ReadTuples(e, rows, k)
    PROVE  /\ q \in Res /\ q.cache = rows /\ rows \in Seq(Nat) /\ Len(rows) = Min2(k, n)
           /\ q.total <= n /\ (q.eof => q.total = n) /\ (q.eof <=> k > n)
           /\ q.cursT = Min2(k, n + 1) - 1
           /\ q.kind = e.kind /\ q.fetchMax = e.fetchMax /\ (q.curs <=> e.curs) /\ q.valid = e.valid
           /\ q.base = e.base /\ q.next = e.next /\ q.req = e.req
<1>1. rows \in Seq(Nat) /\ Len(rows) = Min2(k, n) /\ <<>> \o rows = rows
  <2>1. rows \in Seq(Nat) /\ Len(rows) = Min2(k, n)
    BY FetchedFirst
  <2> QED BY <2>1, ConcatEmptySeq
<1>2. Reads(q, e, n, 0, k)
  <2>1. e.cursT = 0 - 1 /\ e.total <= n /\ (0 = n + 1 => e.eof) /\ 0 \in 0 .. n + 1
    OBVIOUS
  <2> QED BY <2>1, ReadTuplesKeeps
<1> QED BY <1>1, <1>2 DEF Reads

LEMMA InitKeeps == Init => ScrollInv
<1> SUFFICES ASSUME Init PROVE ScrollInv
  OBVIOUS
<1>1. PICK n \in Totals, k \in FetchMaxs, kind \in Kinds :
        LET whole == kind = "whole"
            rows == Fetched(n, 0, IF whole THEN n ELSE k)
            empty == [kind |-> kind, fetchMax |-> k, curs |-> ~whole, eof |-> whole,
                      valid |-> FALSE, total |-> 0, cursT |-> -1, cache |-> <<>>,
                      base |-> 0, next |-> 0, tuple |-> -1, req |-> 1,
                      move |-> "none", off |-> 0]
        IN  /\ server = [n |-> n, pos |-> IF whole \/ n < k THEN n + 1 ELSE k,
                          all |-> FALSE, dead |-> FALSE]
            /\ res = ReadTuples(empty, rows, IF whole THEN n ELSE k)
            /\ stmt = [start |-> -1, curr |-> -1, saved |-> -1]
            /\ call = [pc |-> "idle", r |-> 0, got |-> <<>>]
            /\ out = [ret |-> "none", rows |-> <<>>, size |-> 0, at |-> -1]
            /\ asked = <<>>
  BY DEF Init
<1>2. n \in Nat /\ k \in Nat /\ k >= 1
  BY ConstantTypes
<1> DEFINE whole == kind = "whole"
<1>3. PICK e : e = [kind |-> kind, fetchMax |-> k, curs |-> ~whole, eof |-> whole,
                    valid |-> FALSE, total |-> 0, cursT |-> -1, cache |-> <<>>,
                    base |-> 0, next |-> 0, tuple |-> -1, req |-> 1, move |-> "none", off |-> 0]
  OBVIOUS
<1>4. PICK rows : rows = Fetched(n, 0, IF whole THEN n ELSE k)
  OBVIOUS
<1>5. /\ e \in Res /\ e.kind = kind /\ e.fetchMax = k /\ (e.curs <=> ~whole) /\ (e.eof <=> whole)
      /\ e.valid = FALSE /\ e.total = 0 /\ e.cursT = -1 /\ e.cache = <<>>
      /\ e.base = 0 /\ e.next = 0 /\ e.req = 1
  <2>1. <<>> \in Seq(Nat) /\ kind \in Kinds /\ -1 \in Int
    BY EmptySeq
  <2>2. e \in Res
    BY <1>2, <1>3, <2>1 DEF Res
  <2>3. /\ e.kind = kind /\ e.fetchMax = k /\ (e.curs <=> ~whole) /\ (e.eof <=> whole)
        /\ e.valid = FALSE /\ e.total = 0 /\ e.cursT = -1 /\ e.cache = <<>>
        /\ e.base = 0 /\ e.next = 0 /\ e.req = 1
    BY <1>3
  <2> QED BY <2>2, <2>3
<1>6. /\ res = ReadTuples(e, rows, IF whole THEN n ELSE k)
      /\ server = [n |-> n, pos |-> IF whole \/ n < k THEN n + 1 ELSE k,
                    all |-> FALSE, dead |-> FALSE]
      /\ stmt = [start |-> -1, curr |-> -1, saved |-> -1]
      /\ call = [pc |-> "idle", r |-> 0, got |-> <<>>]
      /\ out = [ret |-> "none", rows |-> <<>>, size |-> 0, at |-> -1]
      /\ asked = <<>>
  BY <1>1, <1>3, <1>4
<1>7. /\ res \in Res /\ res.cache = rows /\ rows \in Seq(Nat)
      /\ Len(rows) = IF whole THEN n ELSE Min2(k, n)
      /\ res.total <= n /\ (res.eof => res.total = n)
      /\ whole => res.eof
      /\ ~whole => res.cursT = Min2(k, n + 1) - 1 /\ (res.eof <=> k > n)
      /\ res.kind = kind /\ res.fetchMax = k /\ (res.curs <=> ~whole) /\ res.valid = FALSE
      /\ res.base = 0 /\ res.next = 0 /\ res.req = 1
  <2>1. CASE whole
    <3>1. rows = Fetched(n, 0, n) /\ res = ReadTuples(e, rows, n) /\ e.eof
      BY <1>4, <1>5, <1>6, <2>1
    <3> QED BY <1>2, <1>5, <2>1, <3>1, WholeRead
  <2>2. CASE ~whole
    <3>1. rows = Fetched(n, 0, k) /\ res = ReadTuples(e, rows, k) /\ ~e.eof
      BY <1>4, <1>5, <1>6, <2>2
    <3> QED BY <1>2, <1>5, <2>2, <3>1, FirstRead
  <2> QED BY <2>1, <2>2
<1> HIDE DEF whole
<1>8. /\ server \in Server /\ server.n = n /\ ~server.all /\ ~server.dead
      /\ ~whole => server.pos = Min2(k, n + 1)
      /\ server.pos <= n + 1
  BY <1>2, <1>6 DEF Server, Min2
<1>9. /\ stmt \in Stmt /\ stmt.start = -1 /\ stmt.saved = -1
      /\ call \in Call /\ call.pc = "idle"
      /\ out \in Out /\ out.rows = <<>> /\ out.at = -1
  BY <1>6, EmptySeq DEF Stmt, Call, Out
<1>10. \A i \in 1 .. Len(rows) : rows[i] = i - 1
  <2>1. CASE whole
    BY <1>2, <1>4, <2>1, FetchedFirst
  <2>2. CASE ~whole
    BY <1>2, <1>4, <2>2, FetchedFirst
  <2> QED BY <2>1, <2>2
<1>11. Len(rows) \in Nat /\ Len(rows) <= n /\ DOMAIN rows = 1 .. Len(rows)
  BY <1>2, <1>7, LenProperties DEF Min2
<1>12. TypeOK
  <2>1. \A i \in DOMAIN res.cache : res.cache[i] < server.n
    BY <1>2, <1>7, <1>8, <1>10, <1>11
  <2>2. asked \in (Asks \X Sizes) \cup {<<>>}
    BY <1>6
  <2> QED BY <1>7, <1>8, <1>9, <2>1, <2>2 DEF TypeOK
<1>13. Origin = 0 /\ Filled = Len(rows)
  BY <1>7 DEF Origin, Filled
<1>14. Cached
  BY <1>2, <1>7, <1>8, <1>9, <1>10, <1>11, <1>13 DEF Cached
<1>15. Synced
  <2>1. CASE whole
    BY <1>7, <2>1 DEF Synced
  <2>2. CASE ~whole /\ k <= n
    <3>1. Min2(k, n + 1) = k /\ Min2(k, n) = k
      BY <1>2, <2>2 DEF Min2
    <3> QED BY <1>2, <1>7, <1>8, <1>13, <2>2, <3>1 DEF Synced
  <2>3. CASE ~whole /\ k > n
    <3>1. Min2(k, n + 1) = n + 1 /\ Min2(k, n) = n
      BY <1>2, <2>3 DEF Min2
    <3> QED BY <1>2, <1>7, <1>8, <1>13, <2>3, <3>1 DEF Synced
  <2> QED BY <1>2, <2>1, <2>2, <2>3
<1>16. Ended
  BY <1>7, <1>8, <1>13 DEF Ended, whole
<1>17. InRows /\ Between
  BY <1>9 DEF InRows, Between
<1>18. HandedOut
  BY <1>2, <1>8, <1>9, RowsOfNothing DEF HandedOut
<1>19. ForwardOnly
  <2>1. ~whole /\ k > n => Len(rows) = n
    BY <1>2, <1>7 DEF Min2
  <2> QED BY <1>2, <1>7, <1>8, <1>9, <1>13, <2>1 DEF ForwardOnly, OpenForward, whole
<1> QED BY <1>12, <1>14, <1>15, <1>16, <1>17, <1>18, <1>19 DEF ScrollInv, CacheInv

-----------------------------------------------------------------------------
(***************************************************************************)
(* Where PGAPI_ExtendedFetch goes.                                         *)
(***************************************************************************)
LEMMA ReachedHas ==
    ASSUME server.n \in Nat, NEW p \in Int
    PROVE  /\ p \in Contract!Reached(p)
           /\ p >= server.n => server.n \in Contract!Reached(p)
BY DEF Contract!Reached

LEMMA TargetIs ==
    ASSUME NEW ask \in Asks, NEW r
    PROVE  LET k == ask[2] T == Contract!Target(ask, r) IN
           /\ ask[1] = "next" =>
                T = IF out.at < 0 THEN {0} ELSE Contract!Reached(out.at + out.size)
           /\ ask[1] = "prior" =>
                T = Contract!Reached(IF out.at <= 0 THEN -1
                                     ELSE IF out.at < r THEN 0 ELSE out.at - r)
                      \cup {p \in {0} : out.at >= server.n /\ server.n > 0 /\ r > server.n}
           /\ ask[1] = "first" => T = {0}
           /\ ask[1] = "last" => T = Contract!Absolute(-r)
           /\ ask[1] = "absolute" => T = Contract!Absolute(k)
           /\ ask[1] = "relative" =>
                T = Contract!Reached(IF k > 0 THEN out.at + k
                       ELSE IF out.at < 0 THEN Contract!FromBefore(r)
                       ELSE IF k = 0 THEN out.at
                       ELSE IF out.at = 0 THEN -1 ELSE IF out.at + k < 0 THEN 0 ELSE out.at + k)
<1>1. CASE ask[1] = "next"
  BY <1>1 DEF Contract!Target
<1>2. CASE ask[1] = "prior"
  BY <1>2 DEF Contract!Target
<1>3. CASE ask[1] = "first"
  BY <1>3 DEF Contract!Target
<1>4. CASE ask[1] = "last"
  BY <1>4 DEF Contract!Target
<1>5. CASE ask[1] = "absolute"
  BY <1>5 DEF Contract!Target
<1>6. CASE ask[1] = "relative"
  BY <1>6 DEF Contract!Target
<1> QED BY <1>1, <1>2, <1>3, <1>4, <1>5, <1>6, ConstantTypes

\* The result as a fetch from the end finds it: MOVE ALL was sent, or refused.
Sought(q) ==
    \/ q = res /\ UNCHANGED server
    \/ q = res /\ res.kind # "forward" /\ server' = [server EXCEPT !.dead = TRUE]
    \/ /\ q = ToLast(res) /\ MovesToLast(res) /\ ~Eof(res) /\ ~server.dead
       /\ res.kind # "forward"
       /\ server' = [server EXCEPT !.pos = server.n + 1, !.all = TRUE]

NextStart(r) == IF stmt.start < 0 THEN 0 ELSE stmt.start + Progress(stmt, r)

\* In front of the result, or behind it when its end was seen.
Outside(q, start) ==
    (start = -1 /\ res.kind # "forward") \/ (start = server.n /\ q.eof)

\* The rowset goes to start, or in front of or behind the result.
LandsAt(q, start, r) ==
    \/ NoRows(q, start, r) /\ Outside(q, start)
    \/ /\ FetchFrom(q, start, r) /\ start >= 0
       /\ (~q.curs \/ q.eof) => start < server.n \/ start = 0
       /\ res.kind = "forward" => start = NextStart(r) /\ q.curs

Lands(ask, r) ==
    \E q : Sought(q) /\ \E start \in Int :
      /\ LandsAt(q, start, r) /\ (server'.all => server.all \/ Contract!FromEnd(ask))
      /\ ~server'.dead => start \in Contract!Target(ask, r)

\* What a result says of its end.
Bounds(q) == /\ q \in Res /\ q.kind = res.kind /\ (q.curs <=> res.curs) /\ q.total \in Nat
             /\ (~q.curs => q.eof) /\ (q.eof => q.total = server.n)

LEMMA Between1 ==
    ASSUME ScrollInv
    PROVE  /\ server.n \in Nat /\ server.pos \in Nat /\ server.pos <= server.n + 1
           /\ stmt.start \in Int /\ stmt.start >= -1 /\ stmt.saved \in Int /\ stmt.curr \in Int
           /\ out.at \in Int /\ out.size \in Nat
           /\ Bounds(res) /\ res.kind \in {"scroll", "forward", "whole"}
           /\ res.kind = "scroll" => res.curs
           /\ res.kind = "whole" => ~res.curs
           /\ (Eof(res) <=> res.eof /\ res.curs)
           /\ res.eof => Num(res) = server.n
           /\ ~res.eof => Num(res) = Unknown
BY ConstantTypes DEF ScrollInv, CacheInv, TypeOK, Server, Stmt, Out, Res, Bounds, Ended, Cached, Eof, Num,
   TotalTuples

\* The common end of the switch, for a result whose end is known to be num.
LEMMA GoToLands ==
    ASSUME ScrollInv, NEW q, Bounds(q), NEW start \in Int, NEW r \in Nat, r >= 1, NEW num, NEW eof,
           GoTo(q, start, r, num, eof), eof \in BOOLEAN,
           eof => q.eof /\ q.curs, q.eof => num = server.n, q.eof /\ q.curs /\ ~eof => start < server.n,
           start >= 0 \/ res.kind # "forward", start >= -1,
           res.kind = "forward" =>
               start = NextStart(r) /\ (q.curs \/ start >= server.n)
    PROVE  \/ /\ start >= server.n /\ q.eof /\ LandsAt(q, server.n, r)
           \/ /\ start >= 0 /\ LandsAt(q, start, r)
           \/ /\ start < 0 /\ r = 1 /\ LandsAt(q, -1, r)
           \/ /\ start < 0 /\ r > 1 /\ LandsAt(q, 0, r)
<1>0. server.n \in Nat
  BY Between1
<1>1. CASE (~q.curs \/ eof) /\ start >= num
  <2>1. q.eof /\ num = server.n
    BY <1>1 DEF Bounds
  <2>2. NoRows(q, server.n, r)
    BY <1>1, <2>1 DEF GoTo
  <2> QED BY <1>1, <2>1, <2>2 DEF LandsAt, Outside
<1>2. CASE ~((~q.curs \/ eof) /\ start >= num)
  <2>1. ~q.curs \/ q.eof => start < server.n
    BY <1>0, <1>2 DEF Bounds
  <2>2. CASE start >= 0
    <3>1. FetchFrom(q, start, r)
      BY <1>2, <2>2 DEF GoTo
    <3>2. res.kind = "forward" => start = NextStart(r) /\ q.curs
      BY <1>0, <2>1
    <3> QED BY <2>1, <2>2, <3>1, <3>2 DEF LandsAt, Outside
  <2>3. CASE start < 0
    <3>1. start = -1 /\ res.kind # "forward"
      BY <2>3
    <3>2. r = 1 => NoRows(q, -1, r)
      BY <1>2, <2>3, <3>1 DEF GoTo
    <3>3. r > 1 => FetchFrom(q, 0, r)
      BY <1>2, <2>3, <3>1 DEF GoTo
    <3> QED BY <2>3, <3>1, <3>2, <3>3 DEF LandsAt, Outside
  <2> QED BY <2>2, <2>3
<1> QED BY <1>1, <1>2

LEMMA BeforeLands ==
    ASSUME ScrollInv, NEW q, Bounds(q), NEW sta \in Int, sta >= -2, NEW nth \in Nat, nth >= 1,
           NEW r \in Nat, r >= 1, NEW num, NEW eof, Before(q, sta, nth, r, num, eof),
           eof \in BOOLEAN, eof => q.eof /\ q.curs, q.eof => num = server.n,
           q.eof /\ q.curs /\ ~eof => sta < server.n, res.kind # "forward"
    PROVE  \/ sta + 1 >= nth /\ \/ sta + 1 - nth >= server.n /\ LandsAt(q, server.n, r)
                                \/ LandsAt(q, sta + 1 - nth, r)
           \/ sta = -1 /\ LandsAt(q, -1, r)
           \/ 0 < sta + 1 /\ sta + 1 < nth /\ \/ server.n = 0 /\ LandsAt(q, server.n, r)
                                              \/ LandsAt(q, 0, r)
           \/ sta = -2 /\ \/ r = 1 /\ LandsAt(q, -1, r)
                          \/ r > 1 /\ LandsAt(q, 0, r)
<1>0. server.n \in Nat
  BY Between1
<1>1. CASE sta + 1 >= nth
  <2>1. CountBack(sta, nth) = nth /\ Backward(sta, nth) = sta + 1 - nth
    BY <1>1 DEF CountBack, Backward
  <2>2. GoTo(q, sta + 1 - nth, r, num, eof)
    BY <2>1 DEF Before
  <2>3. sta + 1 - nth \in Int /\ sta + 1 - nth >= 0 /\ (sta < server.n => sta + 1 - nth < server.n)
    BY <1>0, <1>1
  <2> HIDE DEF Contract!Target
  <2>4. PICK start \in Int : start = sta + 1 - nth
    BY <2>3
  <2>5. GoTo(q, start, r, num, eof) /\ start >= 0 /\ (sta < server.n => start < server.n)
    BY <2>2, <2>3, <2>4
  <2>6. \/ start >= server.n /\ LandsAt(q, server.n, r)
        \/ LandsAt(q, start, r)
    BY <2>5, GoToLands
  <2> QED BY <1>1, <2>4, <2>6
<1>2. CASE sta = -1
  <2>1. CountBack(sta, nth) = 0
    <3>1. sta + 1 = 0
      BY <1>2
    <3> QED BY <3>1 DEF CountBack
  <2>2. NoRows(q, -1, r)
    BY <2>1 DEF Before
  <2> QED BY <1>2, <2>2 DEF LandsAt, Outside
<1>3. CASE 0 < sta + 1 /\ sta + 1 < nth
  <2>1. CountBack(sta, nth) < 0 /\ CountBack(sta, nth) # 0
    BY <1>3 DEF CountBack
  <2>2. PICK start \in Int : start = 0
    OBVIOUS
  <2>3. GoTo(q, start, r, num, eof) /\ start >= 0 /\ (sta < server.n => start < server.n)
    BY <1>0, <1>3, <2>1, <2>2 DEF Before
  <2>4. \/ start >= server.n /\ LandsAt(q, server.n, r)
        \/ LandsAt(q, start, r)
    BY <2>3, GoToLands
  <2> QED BY <1>0, <1>3, <2>2, <2>4
<1>4. CASE sta = -2
  <2>1. CountBack(sta, nth) = 1 /\ Backward(sta, nth) = -1
    <3>1. sta + 2 = 0
      BY <1>4
    <3> QED BY <3>1 DEF CountBack, Backward
  <2>2. PICK start \in Int : start = -1
    OBVIOUS
  <2>3. GoTo(q, start, r, num, eof) /\ start < 0 /\ start >= -1 /\ start < server.n
    BY <1>0, <2>1, <2>2 DEF Before
  <2>4. \/ r = 1 /\ LandsAt(q, -1, r)
        \/ r > 1 /\ LandsAt(q, 0, r)
    BY <1>0, <2>3, GoToLands
  <2> QED BY <1>4, <2>4
<1> QED BY <1>1, <1>2, <1>3, <1>4


\* What a fetch starts from.
LEMMA Asking ==
    ASSUME ScrollInv, NEW ask \in Asks, NEW r \in Sizes, Ready(ask)
    PROVE  /\ r \in Nat /\ r >= 1 /\ r <= Unknown /\ Eof(res) \in BOOLEAN
           /\ call.pc = "idle" /\ (ask[1] # "next" => res.kind # "forward")
           /\ NextStart(r) \in Int /\ NextStart(r) >= 0
           /\ stmt.saved \in {-1} \cup Sizes
           /\ ~server.dead =>
                /\ stmt.start = out.at /\ (out.at >= 0 => out.size >= 1)
                /\ IF stmt.saved > 0 THEN stmt.saved = out.size /\ stmt.start >= 0
                   ELSE stmt.start = -1 \/ (stmt.start >= server.n /\ res.eof)
<1>1. r \in Nat /\ r >= 1 /\ r <= Unknown
  BY ConstantTypes
<1>2. call.pc = "idle"
  BY DEF Ready, Idle
<1>3. Between
  BY DEF ScrollInv
<1>4. stmt.saved \in {-1} \cup Sizes /\ (stmt.saved \in Sizes => stmt.saved \in Nat)
  BY <1>2, <1>3, ConstantTypes DEF Between
<1>5. NextStart(r) \in Int /\ NextStart(r) >= 0
  BY <1>1, <1>4, Between1 DEF NextStart, Progress
<1>6. Eof(res) \in BOOLEAN
  BY Between1 DEF Bounds, Res, Eof
<1> QED BY <1>1, <1>2, <1>3, <1>4, <1>5, <1>6 DEF Ready, Between

\* A fetch that does not move the cursor of the server.
LEMMA StaysLands ==
    ASSUME ScrollInv, UNCHANGED server, NEW ask, NEW r, NEW start \in Int,
           LandsAt(res, start, r), ~server.dead => start \in Contract!Target(ask, r)
    PROVE  Lands(ask, r)
BY DEF Lands, Sought

\* The common end of the switch, for the result as it is.
LEMMA ResGoTo ==
    ASSUME ScrollInv, NEW ask \in Asks, NEW r \in Sizes, Ready(ask), NEW start \in Int, start >= -1,
           GoTo(res, start, r, Num(res), Eof(res)),
           start >= 0 \/ res.kind # "forward",
           res.kind = "forward" => start = NextStart(r) /\ (res.curs \/ start >= server.n)
    PROVE  \/ /\ start >= server.n /\ res.eof /\ LandsAt(res, server.n, r)
           \/ /\ start >= 0 /\ LandsAt(res, start, r)
           \/ /\ start < 0 /\ r = 1 /\ LandsAt(res, -1, r)
           \/ /\ start < 0 /\ r > 1 /\ LandsAt(res, 0, r)
<1>1. PICK num, eof : num = Num(res) /\ eof = Eof(res)
  OBVIOUS
<1>2. /\ GoTo(res, start, r, num, eof) /\ eof \in BOOLEAN /\ r \in Nat /\ r >= 1 /\ Bounds(res)
      /\ eof => res.eof /\ res.curs
      /\ res.eof => num = server.n
      /\ res.eof /\ res.curs /\ ~eof => start < server.n
  BY <1>1, Asking, Between1
<1> QED BY <1>2, GoToLands

LEMMA NextLands ==
    ASSUME ScrollInv, NEW ask \in Asks, NEW r \in Sizes, Ready(ask), AskNext(ask, r)
    PROVE  Lands(ask, r)
<1>1. PICK start \in Int : start = NextStart(r)
  BY Asking
<1>2. GoTo(res, start, r, Num(res), Eof(res)) /\ ask[1] = "next" /\ UNCHANGED server /\ start >= 0
  BY <1>1, Asking DEF AskNext, NextStart
<1>3. res.kind = "forward" => res.curs \/ start >= server.n
  <2>1. SUFFICES ASSUME res.kind = "forward", ~res.curs PROVE start >= server.n
    OBVIOUS
  <2>2. stmt.start >= 0 /\ (stmt.start >= server.n \/ (stmt.saved > 0 /\ stmt.start + stmt.saved >= server.n))
    BY <2>1 DEF ScrollInv, ForwardOnly, ClosedForward
  <2>3. start = stmt.start + (IF stmt.saved > 0 THEN stmt.saved ELSE r)
    BY <1>1, <2>2, Between1 DEF NextStart, Progress
  <2> QED BY <2>2, <2>3, Asking, Between1
<1>4. (start >= server.n /\ res.eof /\ LandsAt(res, server.n, r)) \/ LandsAt(res, start, r)
  BY <1>1, <1>2, <1>3, ResGoTo
<1>5. PICK T : T = Contract!Target(ask, r)
  OBVIOUS
<1>6. T = IF out.at < 0 THEN {0} ELSE Contract!Reached(out.at + out.size)
  BY <1>2, <1>5, TargetIs
<1>7. CASE start >= server.n /\ LandsAt(res, server.n, r)
  <2>1. ASSUME ~server.dead PROVE server.n \in T
    <3>1. CASE out.at < 0
      <4>1. start = 0
        BY <1>1, <2>1, <3>1, Asking DEF NextStart
      <4> QED BY <1>6, <1>7, <3>1, <4>1, Between1
    <3>2. CASE out.at >= 0
      <4>1. stmt.start = out.at /\ out.size >= 1
        BY <2>1, <3>2, Asking
      <4>2. out.at + out.size >= server.n /\ out.at + out.size \in Int
        <5>1. CASE stmt.saved > 0
          BY <1>1, <1>7, <2>1, <3>2, <4>1, <5>1, Asking, Between1 DEF NextStart, Progress
        <5>2. CASE ~(stmt.saved > 0)
          BY <2>1, <3>2, <4>1, <5>2, Asking, Between1
        <5> QED BY <5>1, <5>2
      <4>3. server.n \in Contract!Reached(out.at + out.size)
        BY <4>2, ReachedHas, Between1
      <4> QED BY <1>6, <3>2, <4>3, Between1
    <3> QED BY <3>1, <3>2, Between1
  <2> QED BY <1>2, <1>5, <1>7, <2>1, StaysLands, Between1
<1>8. CASE LandsAt(res, start, r) /\ ~(start = server.n /\ LandsAt(res, server.n, r))
  <2>1. ASSUME ~server.dead PROVE start \in T
    <3>1. CASE out.at < 0
      <4>1. start = 0
        BY <1>1, <2>1, <3>1, Asking DEF NextStart
      <4> QED BY <1>6, <3>1, <4>1
    <3>2. CASE out.at >= 0 /\ stmt.saved > 0
      <4>1. start = out.at + out.size /\ start \in Int
        BY <1>1, <2>1, <3>2, Asking, Between1 DEF NextStart, Progress
      <4>2. start \in Contract!Reached(start)
        BY <4>1, ReachedHas, Between1
      <4> QED BY <1>6, <3>2, <4>1, <4>2, Between1
    <3>3. CASE out.at >= 0 /\ ~(stmt.saved > 0)
      <4>1. stmt.start >= server.n /\ res.eof /\ start = stmt.start + r
        BY <1>1, <2>1, <3>3, Asking, Between1 DEF NextStart, Progress
      <4>2. start > server.n /\ start # 0 /\ start # -1
        BY <4>1, Asking, Between1
      <4> QED BY <1>8, <4>1, <4>2, Between1 DEF LandsAt, Outside
    <3> QED BY <3>1, <3>2, <3>3, Between1
  <2> QED BY <1>2, <1>5, <1>8, <2>1, StaysLands
<1> QED BY <1>4, <1>7, <1>8, Between1

LEMMA PriorLands ==
    ASSUME ScrollInv, NEW ask \in Asks, NEW r \in Sizes, Ready(ask), AskPrior(ask, r)
    PROVE  Lands(ask, r)
<1>1. ask[1] = "prior" /\ UNCHANGED server /\ res.kind # "forward"
  BY Asking DEF AskPrior
<1>2. PICK T : T = Contract!Target(ask, r)
  OBVIOUS
<1>3. T = Contract!Reached(IF out.at <= 0 THEN -1 ELSE IF out.at < r THEN 0 ELSE out.at - r)
            \cup {p \in {0} : out.at >= server.n /\ server.n > 0 /\ r > server.n}
  BY <1>1, <1>2, TargetIs
<1>4. CASE stmt.start <= 0
  <2>1. PICK start \in Int : start = -1
    OBVIOUS
  <2>2. LandsAt(res, start, r)
    BY <1>1, <1>4, <2>1 DEF AskPrior, LandsAt, Outside
  <2>3. ASSUME ~server.dead PROVE start \in T
    <3>1. out.at <= 0
      BY <1>4, <2>3, Asking
    <3>2. start \in Contract!Reached(start)
      BY ReachedHas, Between1
    <3> QED BY <1>3, <2>1, <3>1, <3>2
  <2> QED BY <1>1, <1>2, <2>2, <2>3, StaysLands
<1>5. CASE ~(stmt.start <= 0)
  <2> DEFINE first == (stmt.start >= Num(res) /\ r > Num(res)) \/ stmt.start < r
  <2>1. PICK start \in Int : start = IF first THEN 0 ELSE stmt.start - r
    BY Asking, Between1
  <2>2. start >= 0 /\ GoTo(res, start, r, Num(res), Eof(res))
    <3>1. start >= 0
      BY <2>1, Asking, Between1
    <3> QED BY <1>5, <2>1, <3>1, Zenon DEF AskPrior
  <2>3. (start >= server.n /\ LandsAt(res, server.n, r)) \/ LandsAt(res, start, r)
    BY <1>1, <2>2, ResGoTo
  <2>4. ASSUME ~server.dead, NEW x \in Int, x = start \/ (x = server.n /\ start >= server.n) PROVE x \in T
    <3>1. out.at = stmt.start /\ out.at > 0
      BY <1>5, <2>4, Asking, Between1
    <3>2. CASE out.at < r
      <4>1. start = 0
        BY <2>1, <3>1, <3>2
      <4>2. x = 0 /\ 0 \in Contract!Reached(0)
        BY <2>4, <4>1, Between1 DEF Contract!Reached
      <4> QED BY <1>3, <3>1, <3>2, <4>2, Between1
    <3>3. CASE ~(out.at < r) /\ stmt.start >= Num(res) /\ r > Num(res)
      <4>1. Num(res) = server.n /\ start = 0
        <5>1. start = 0
          BY <2>1, <3>3
        <5>2. r \in Nat /\ r <= Unknown /\ Unknown \in Nat
          BY ConstantTypes
        <5>3. Num(res) # Unknown
          BY <3>3, <5>2
        <5> QED BY <5>1, <5>3, Between1
      <4>2. CASE server.n > 0
        BY <1>3, <2>4, <3>1, <3>3, <4>1, <4>2, Between1
      <4>3. CASE server.n = 0
        <5>1. x = server.n /\ out.at - r \in Int /\ out.at - r >= server.n
          BY <2>4, <3>3, <4>1, <4>3, Asking, Between1
        <5>2. x \in Contract!Reached(out.at - r)
          BY <5>1, ReachedHas, Between1
        <5> QED BY <1>3, <3>1, <3>3, <5>2, Between1
      <4> QED BY <4>2, <4>3, Between1
    <3>4. CASE ~(out.at < r) /\ ~(stmt.start >= Num(res) /\ r > Num(res))
      <4>1. start = out.at - r
        BY <2>1, <3>1, <3>4
      <4>2. x \in Contract!Reached(start)
        BY <2>4, ReachedHas, Between1
      <4> QED BY <1>3, <3>1, <3>4, <4>1, <4>2, Between1
    <3> QED BY <3>2, <3>3, <3>4
  <2> HIDE DEF first
  <2> QED BY <1>1, <1>2, <2>3, <2>4, StaysLands, Between1
<1> QED BY <1>4, <1>5

LEMMA FirstLands ==
    ASSUME ScrollInv, NEW ask \in Asks, NEW r \in Sizes, Ready(ask), AskFirst(ask, r)
    PROVE  Lands(ask, r)
<1>1. ask[1] = "first" /\ UNCHANGED server /\ res.kind # "forward"
  BY Asking DEF AskFirst
<1>2. PICK start \in Int : start = 0
  OBVIOUS
<1>3. (start >= server.n /\ LandsAt(res, server.n, r)) \/ LandsAt(res, start, r)
  BY <1>1, <1>2, ResGoTo DEF AskFirst
<1>4. start \in Contract!Target(ask, r)
  BY <1>1, <1>2, TargetIs
<1>5. start >= server.n => start = server.n
  BY <1>2, Between1
<1> QED BY <1>1, <1>3, <1>4, <1>5, StaysLands

\* MOVE ALL tells where the result ends.
LEMMA ToLastKeeps ==
    ASSUME ScrollInv, MovesToLast(res), ~Eof(res)
    PROVE  /\ ToLast(res) = [res EXCEPT !.cursT = server.n, !.total = server.n, !.eof = TRUE]
           /\ Bounds(ToLast(res))
<1>1. res.curs /\ ~res.eof /\ res \in Res /\ server.n \in Nat /\ server.pos \in Nat
  BY Between1 DEF Bounds, MovesToLast, Res
<1>2. res.cursT = server.pos - 1 /\ server.pos # server.n + 1 /\ server.pos <= server.n + 1
  BY <1>1, Between1 DEF ScrollInv, CacheInv, Synced
<1>3. res.cursT + Ahead(server.n + 1) + 1 = server.n
  <2>1. Ahead(server.n + 1) = server.n - server.pos
    BY <1>1, <1>2 DEF Ahead, Min2
  <2> QED BY <1>1, <1>2, <2>1
<1>4. ToLast(res) = [res EXCEPT !.cursT = server.n, !.total = server.n, !.eof = TRUE]
  BY <1>1, <1>3 DEF ToLast
<1>5. PICK q : q = [res EXCEPT !.cursT = server.n, !.total = server.n, !.eof = TRUE]
  OBVIOUS
<1>6. server.n \in Int
  BY <1>1
<1>7. q \in Res /\ q.kind = res.kind /\ (q.curs <=> res.curs) /\ q.total = server.n /\ q.eof
  BY <1>1, <1>5, <1>6 DEF Res
<1> QED BY <1>1, <1>4, <1>5, <1>7 DEF Bounds

LEMMA FromLastLands ==
    ASSUME ScrollInv, NEW ask \in Asks, NEW r \in Sizes, Ready(ask), ask[1] # "next",
           NEW nth \in Nat, nth >= 1, FromLast(nth, r), NEW T,
           T = {IF server.n = 0 THEN -1 ELSE IF server.n < nth THEN 0 ELSE server.n - nth}
    PROVE  \E q : Sought(q) /\ \E start \in Int :
             LandsAt(q, start, r) /\ (~server'.dead => start \in T)
<1>1. r \in Nat /\ r >= 1 /\ res.kind # "forward" /\ server.n \in Nat /\ Bounds(res)
  BY Asking, Between1
<1>2. ASSUME NEW q, Sought(q), Bounds(q), q.eof, NEW sta \in Int, sta = server.n - 1,
             NEW num, num = server.n, NEW eof \in BOOLEAN, eof => q.eof /\ q.curs,
             Before(q, sta, nth, r, num, eof)
      PROVE  \E start \in Int : LandsAt(q, start, r) /\ start \in T
  <2>1. \/ sta + 1 >= nth /\ LandsAt(q, sta + 1 - nth, r)
        \/ sta = -1 /\ LandsAt(q, -1, r)
        \/ 0 < sta + 1 /\ sta + 1 < nth /\ LandsAt(q, 0, r)
    BY <1>1, <1>2, BeforeLands
  <2>2. CASE sta + 1 >= nth /\ LandsAt(q, sta + 1 - nth, r)
    BY <1>1, <1>2, <2>2
  <2>3. CASE sta = -1 /\ LandsAt(q, -1, r)
    BY <1>1, <1>2, <2>3
  <2>4. CASE 0 < sta + 1 /\ sta + 1 < nth /\ LandsAt(q, 0, r)
    BY <1>1, <1>2, <2>4
  <2> QED BY <2>1, <2>2, <2>3, <2>4
<1>3. CASE Eof(res) \/ ~MovesToLast(res)
  <2>1. UNCHANGED server /\ Sought(res)
    BY <1>3 DEF FromLast, Sought
  <2>2. res.eof /\ TotalTuples(res) = server.n /\ Num(res) = server.n
    BY <1>1, <1>3, Between1 DEF MovesToLast, Bounds, TotalTuples
  <2>3. PICK num, eof : /\ num = IF Eof(res) \/ ~res.curs THEN Num(res) ELSE TotalTuples(res)
                        /\ eof = Eof(res)
    OBVIOUS
  <2>4. num = server.n /\ eof \in BOOLEAN /\ (eof => res.eof /\ res.curs)
    BY <2>2, <2>3, Asking, Between1
  <2>5. PICK sta \in Int : sta = server.n - 1
    BY <1>1
  <2>6. Before(res, sta, nth, r, num, eof)
    BY <1>3, <2>2, <2>3, <2>5 DEF FromLast
  <2> QED BY <1>1, <1>2, <2>1, <2>2, <2>4, <2>5, <2>6
<1>4. CASE /\ ~(Eof(res) \/ ~MovesToLast(res)) /\ ~server.dead
           /\ server' = [server EXCEPT !.pos = server.n + 1, !.all = TRUE]
           /\ Before(ToLast(res), TotalTuples(ToLast(res)) - 1, nth, r,
                     TotalTuples(ToLast(res)), FALSE)
  <2>1. PICK q : q = ToLast(res)
    OBVIOUS
  <2>2. Sought(q) /\ Bounds(q) /\ q.eof /\ TotalTuples(q) = server.n
    BY <1>1, <1>4, <2>1, ToLastKeeps DEF Sought, TotalTuples, Bounds, Res
  <2>3. PICK num, eof : num = server.n /\ eof = FALSE
    OBVIOUS
  <2>4. PICK sta \in Int : sta = server.n - 1
    BY <1>1
  <2>5. Before(q, sta, nth, r, num, eof)
    BY <1>4, <2>1, <2>2, <2>3, <2>4
  <2> QED BY <1>2, <2>2, <2>3, <2>4, <2>5
<1>5. CASE /\ ~(Eof(res) \/ ~MovesToLast(res))
           /\ server' = [server EXCEPT !.dead = TRUE]
           /\ Before(res, TotalTuples(res) - 1, nth, r, TotalTuples(res), FALSE)
  <2>1. Sought(res)
    BY <1>1, <1>5 DEF Sought
  <2>2. server'.dead
    BY <1>5, Between1 DEF ScrollInv, CacheInv, TypeOK, Server
  <2>8. PICK num, eof : num = TotalTuples(res) /\ eof = FALSE
    OBVIOUS
  <2>3. PICK sta \in Int : sta = TotalTuples(res) - 1 /\ sta >= -1
    BY <1>1 DEF Bounds, TotalTuples
  <2>4. Before(res, sta, nth, r, num, eof) /\ ~res.eof /\ eof \in BOOLEAN /\ ~eof
    BY <1>1, <1>5, <2>3, <2>8 DEF MovesToLast, Eof, Bounds
  <2>5. \/ sta + 1 >= nth /\ \/ LandsAt(res, server.n, r)
                             \/ LandsAt(res, sta + 1 - nth, r)
        \/ LandsAt(res, -1, r) \/ LandsAt(res, server.n, r) \/ LandsAt(res, 0, r)
    BY <1>1, <2>3, <2>4, BeforeLands
  <2>6. sta + 1 - nth \in Int
    OBVIOUS
  <2>7. \E start \in Int : LandsAt(res, start, r)
    BY <1>1, <2>5, <2>6
  <2> QED BY <2>1, <2>2, <2>7
<1> QED BY <1>3, <1>4, <1>5 DEF FromLast

LEMMA LastLands ==
    ASSUME ScrollInv, NEW ask \in Asks, NEW r \in Sizes, Ready(ask), AskLast(ask, r)
    PROVE  Lands(ask, r)
<1>1. ask[1] = "last" /\ FromLast(r, r) /\ r \in Nat /\ r >= 1 /\ server.n \in Nat
  BY Asking, Between1 DEF AskLast
<1>2. PICK nth \in Nat : nth = r
  BY <1>1
<1>3. PICK T : T = {IF server.n = 0 THEN -1 ELSE IF server.n < nth THEN 0 ELSE server.n - nth}
  OBVIOUS
<1>4. Contract!Target(ask, r) = T
  <2>1. Contract!Target(ask, r) = Contract!Absolute(-r)
    BY <1>1, TargetIs
  <2>2. Contract!Absolute(-r)
          = {IF server.n = 0 THEN -1 ELSE IF server.n + (-r) < 0 THEN 0 ELSE server.n + (-r)}
    BY <1>1 DEF Contract!Absolute
  <2> QED BY <1>1, <1>2, <1>3, <2>1, <2>2
<1>5. \E q : Sought(q) /\ \E start \in Int :
             LandsAt(q, start, r) /\ (~server'.dead => start \in T)
  BY <1>1, <1>2, <1>3, FromLastLands
<1>6. Contract!FromEnd(ask)
  BY <1>1 DEF Contract!FromEnd
<1> QED BY <1>4, <1>5, <1>6 DEF Lands

LEMMA AbsoluteLands ==
    ASSUME ScrollInv, NEW ask \in Asks, NEW r \in Sizes, Ready(ask), AskAbsolute(ask, r)
    PROVE  Lands(ask, r)
<1>1. ask[1] = "absolute" /\ ask[2] \in Int /\ res.kind # "forward" /\ server.n \in Nat
  BY Asking, Between1, ConstantTypes DEF AskAbsolute
<1>2. PICK T : T = Contract!Target(ask, r)
  OBVIOUS
<1>3. T = Contract!Absolute(ask[2])
  BY <1>1, <1>2, TargetIs
<1>4. CASE ask[2] = 0
  <2>1. UNCHANGED server /\ NoRows(res, -1, r)
    BY <1>1, <1>4 DEF AskAbsolute
  <2>2. LandsAt(res, -1, r)
    BY <1>1, <2>1 DEF LandsAt, Outside
  <2>3. T = {-1}
    BY <1>3, <1>4 DEF Contract!Absolute
  <2>4. PICK start \in Int : start = -1
    OBVIOUS
  <2> QED BY <1>2, <2>1, <2>2, <2>3, <2>4, StaysLands
<1>5. CASE ask[2] > 0
  <2>1. PICK p \in Int : p = ask[2] - 1 /\ p >= 0
    BY <1>1, <1>5
  <2>2. p = Forward(0, ask[2])
    BY <1>1, <2>1 DEF Forward
  <2>3. UNCHANGED server /\ (IF res.eof /\ p >= TotalTuples(res) THEN NoRows(res, Num(res), r)
                              ELSE GoTo(res, p, r, Num(res), Eof(res)))
    BY <1>1, <1>5, <2>2 DEF AskAbsolute
  <2>4. (p >= server.n /\ LandsAt(res, server.n, r)) \/ LandsAt(res, p, r)
    <3>1. CASE res.eof /\ p >= TotalTuples(res)
      BY <2>3, <3>1, Between1 DEF LandsAt, Outside, TotalTuples, Bounds
    <3>2. CASE ~(res.eof /\ p >= TotalTuples(res))
      BY <1>1, <2>1, <2>3, <3>2, ResGoTo
    <3> QED BY <3>1, <3>2
  <2>5. T = Contract!Reached(p)
    BY <1>1, <1>3, <1>5, <2>1 DEF Contract!Absolute
  <2>6. p \in T /\ (p >= server.n => server.n \in T)
    BY <1>1, <2>5, ReachedHas
  <2> QED BY <1>1, <1>2, <2>3, <2>4, <2>6, StaysLands
<1>6. CASE ask[2] < 0
  <2>1. PICK nth \in Nat : nth = -ask[2] /\ nth >= 1
    BY <1>1, <1>6
  <2>2. FromLast(nth, r)
    BY <1>1, <1>6, <2>1 DEF AskAbsolute
  <2>3. T = {IF server.n = 0 THEN -1 ELSE IF server.n < nth THEN 0 ELSE server.n - nth}
    <3>1. T = {IF server.n = 0 THEN -1
               ELSE IF server.n + ask[2] < 0 THEN 0 ELSE server.n + ask[2]}
      BY <1>1, <1>3, <1>6 DEF Contract!Absolute
    <3> QED BY <1>1, <2>1, <3>1
  <2>4. \E q : Sought(q) /\ \E start \in Int :
             LandsAt(q, start, r) /\ (~server'.dead => start \in T)
    BY <1>1, <2>1, <2>2, <2>3, FromLastLands
  <2>5. Contract!FromEnd(ask)
    BY <1>1, <1>6 DEF Contract!FromEnd
  <2> QED BY <1>2, <2>4, <2>5 DEF Lands
<1> QED BY <1>1, <1>4, <1>5, <1>6

LEMMA RelativeLands ==
    ASSUME ScrollInv, NEW ask \in Asks, NEW r \in Sizes, Ready(ask), AskRelative(ask, r)
    PROVE  Lands(ask, r)
<1>1. /\ ask[1] = "relative" /\ ask[2] \in Int /\ res.kind # "forward" /\ server.n \in Nat
      /\ UNCHANGED server /\ stmt.start \in Int /\ stmt.start >= -1 /\ r \in Nat /\ r >= 1
  BY Asking, Between1, ConstantTypes DEF AskRelative
<1>2. PICK T : T = Contract!Target(ask, r)
  OBVIOUS
<1>3. ~server.dead =>
        T = Contract!Reached(IF ask[2] > 0 THEN stmt.start + ask[2]
                       ELSE IF stmt.start < 0 THEN Contract!FromBefore(r)
                       ELSE IF ask[2] = 0 THEN stmt.start
                       ELSE IF stmt.start = 0 THEN -1
                       ELSE IF stmt.start + ask[2] < 0 THEN 0 ELSE stmt.start + ask[2])
  BY <1>1, <1>2, TargetIs, Asking
<1>4. ASSUME NEW p \in Int, ~server.dead => T = Contract!Reached(p), NEW start \in Int,
             LandsAt(res, start, r), start = p \/ (start = server.n /\ p >= server.n)
      PROVE  Lands(ask, r)
  <2>1. ~server.dead => start \in T
    BY <1>1, <1>4, ReachedHas
  <2> QED BY <1>1, <1>2, <1>4, <2>1, StaysLands
<1>5. CASE ask[2] = 0
  <2>1. GoTo(res, stmt.start, r, Num(res), Eof(res))
    BY <1>1, <1>5 DEF AskRelative
  <2>2. PICK start \in Int : start = stmt.start
    BY <1>1
  <2>3. \/ /\ start >= server.n /\ LandsAt(res, server.n, r)
        \/ /\ start >= 0 /\ LandsAt(res, start, r)
        \/ /\ start < 0 /\ r = 1 /\ LandsAt(res, -1, r)
        \/ /\ start < 0 /\ r > 1 /\ LandsAt(res, 0, r)
    BY <1>1, <2>1, <2>2, ResGoTo
  <2>4. PICK p \in Int : p = IF start >= 0 THEN start ELSE Contract!FromBefore(r)
    BY DEF Contract!FromBefore
  <2>5. ~server.dead => T = Contract!Reached(p)
    BY <1>1, <1>3, <1>5, <2>2, <2>4
  <2>6. p = IF start >= 0 THEN start ELSE IF r > 1 THEN 0 ELSE -1
    BY <2>4 DEF Contract!FromBefore
  <2>7. \E x \in Int : LandsAt(res, x, r) /\ (x = p \/ (x = server.n /\ p >= server.n))
    BY <1>1, <2>3, <2>6
  <2> QED BY <1>4, <2>5, <2>7
<1>6. CASE ask[2] > 0
  <2>1. PICK p \in Int : p = stmt.start + ask[2] /\ p >= 0
    BY <1>1, <1>6
  <2>2. p = Forward(stmt.start + 1, ask[2])
    BY <1>1, <2>1 DEF Forward
  <2>3. IF res.eof /\ p >= TotalTuples(res) THEN NoRows(res, Num(res), r)
        ELSE GoTo(res, p, r, Num(res), Eof(res))
    BY <1>1, <1>6, <2>2 DEF AskRelative
  <2>4. (p >= server.n /\ LandsAt(res, server.n, r)) \/ LandsAt(res, p, r)
    <3>1. CASE res.eof /\ p >= TotalTuples(res)
      BY <2>3, <3>1, Between1 DEF LandsAt, Outside, TotalTuples, Bounds
    <3>2. CASE ~(res.eof /\ p >= TotalTuples(res))
      BY <1>1, <2>1, <2>3, <3>2, ResGoTo
    <3> QED BY <3>1, <3>2
  <2>5. ~server.dead => T = Contract!Reached(p)
    BY <1>1, <1>3, <1>6, <2>1
  <2> QED BY <1>1, <1>4, <2>4, <2>5
<1>7. CASE ask[2] < 0
  <2>1. PICK nth \in Nat : nth = -ask[2] /\ nth >= 1
    BY <1>1, <1>7
  <2>2. PICK sta, num, eof : sta = stmt.start - 1 /\ num = Num(res) /\ eof = Eof(res)
    OBVIOUS
  <2>3. /\ Before(res, sta, nth, r, num, eof) /\ sta \in Int /\ sta >= -2
        /\ eof \in BOOLEAN /\ (eof => res.eof /\ res.curs) /\ (res.eof => num = server.n)
        /\ res.eof /\ res.curs /\ ~eof => sta < server.n /\ Bounds(res)
    <3>1. Before(res, sta, nth, r, num, eof)
      BY <1>1, <1>7, <2>1, <2>2 DEF AskRelative
    <3> QED BY <1>1, <2>2, <3>1, Asking, Between1
  <2>4. \/ sta + 1 >= nth /\ \/ sta + 1 - nth >= server.n /\ LandsAt(res, server.n, r)
                             \/ LandsAt(res, sta + 1 - nth, r)
        \/ sta = -1 /\ LandsAt(res, -1, r)
        \/ 0 < sta + 1 /\ sta + 1 < nth /\ \/ server.n = 0 /\ LandsAt(res, server.n, r)
                                           \/ LandsAt(res, 0, r)
        \/ sta = -2 /\ \/ r = 1 /\ LandsAt(res, -1, r)
                       \/ r > 1 /\ LandsAt(res, 0, r)
    BY <1>1, <2>1, <2>3, Between1, BeforeLands
  <2>5. PICK p \in Int : p = IF stmt.start < 0 THEN (IF r > 1 THEN 0 ELSE -1)
                             ELSE IF stmt.start = 0 THEN -1
                             ELSE IF stmt.start < nth THEN 0 ELSE stmt.start - nth
    BY <1>1
  <2>6. ~server.dead => T = Contract!Reached(p)
    <3>1. p = IF ask[2] > 0 THEN stmt.start + ask[2]
              ELSE IF stmt.start < 0 THEN Contract!FromBefore(r)
              ELSE IF ask[2] = 0 THEN stmt.start
              ELSE IF stmt.start = 0 THEN -1
              ELSE IF stmt.start + ask[2] < 0 THEN 0 ELSE stmt.start + ask[2]
      BY <1>1, <1>7, <2>1, <2>5 DEF Contract!FromBefore
    <3> QED BY <1>3, <3>1
  <2>7. \E x \in Int : LandsAt(res, x, r) /\ (x = p \/ (x = server.n /\ p >= server.n))
    <3>1. CASE sta + 1 >= nth
      <4>1. p = sta + 1 - nth
        BY <1>1, <2>1, <2>2, <2>5, <3>1
      <4> QED BY <1>1, <2>1, <2>3, <2>4, <3>1, <4>1
    <3>2. CASE sta = -1
      <4>1. p = -1 /\ ~(sta + 1 >= nth) /\ sta # -2 /\ ~(0 < sta + 1)
        BY <1>1, <2>1, <2>2, <2>5, <3>2
      <4> QED BY <2>4, <4>1
    <3>3. CASE 0 < sta + 1 /\ sta + 1 < nth
      <4>1. p = 0 /\ ~(sta + 1 >= nth) /\ sta # -1 /\ sta # -2
        BY <1>1, <2>1, <2>2, <2>5, <3>3
      <4> QED BY <1>1, <2>4, <4>1
    <3>4. CASE sta = -2
      <4>1. p = (IF r > 1 THEN 0 ELSE -1) /\ ~(sta + 1 >= nth) /\ sta # -1 /\ ~(0 < sta + 1)
        BY <1>1, <2>1, <2>2, <2>5, <3>4
      <4> QED BY <1>1, <2>4, <4>1
    <3> QED BY <2>4, <3>1, <3>2, <3>3, <3>4
  <2> QED BY <1>4, <2>6, <2>7
<1> QED BY <1>1, <1>5, <1>6, <1>7

LEMMA AskLands ==
    ASSUME ScrollInv, NEW ask \in Asks, NEW r \in Sizes, ExtendedFetch(ask, r)
    PROVE  Lands(ask, r) /\ asked' = <<ask, r>> /\ call.pc = "idle"
                 /\ (server.dead => stmt.start <= server.n)
BY NextLands, PriorLands, FirstLands, LastLands, AbsoluteLands, RelativeLands
   DEF ExtendedFetch, Ready, Idle

-----------------------------------------------------------------------------
(***************************************************************************)
(* The cache, whichever step has changed it.                               *)
(***************************************************************************)
\* CacheInv of a result q whose cache begins with row o, with the cursor srv.
Caches(q, o, srv) ==
    /\ q \in Res /\ srv \in Server /\ srv.pos <= srv.n + 1 /\ q.total <= srv.n /\ o \in Int
    /\ \A i \in 1 .. Len(q.cache) : q.cache[i] = o + i - 1
    /\ Len(q.cache) > 0 => o >= 0 /\ o + Len(q.cache) <= srv.n
    /\ q.next >= 0 /\ q.req >= 1 /\ q.fetchMax >= 1
    /\ q.curs =>
         /\ q.cursT = srv.pos - 1
         /\ srv.pos = srv.n + 1 => q.eof
         /\ \/ srv.pos = o + Len(q.cache)
            \/ srv.pos = srv.n + 1 /\ (srv.all \/ o + Len(q.cache) >= srv.n)
            \/ srv.dead /\ Len(q.cache) = 0
    /\ (~q.curs => q.eof) /\ (q.eof => q.total = srv.n)
    /\ q.kind = "whole" => ~q.curs /\ o = 0 /\ Len(q.cache) = srv.n
    /\ q.kind = "scroll" => q.curs

LEMMA CachesNow == ASSUME CacheInv PROVE Caches(res, Origin, server)
<1>1. TypeOK /\ Cached /\ Synced /\ Ended
  BY DEF CacheInv
<1>2. res \in Res /\ server \in Server /\ server.pos <= server.n + 1 /\ res.total <= server.n
  BY <1>1 DEF TypeOK
<1>3. Origin \in Int
  BY <1>1 DEF TypeOK, Res, Stmt, Origin
<1> QED BY <1>1, <1>2, <1>3 DEF Cached, Synced, Ended, Caches, Filled

LEMMA CachesNext ==
    ASSUME NEW o \in Int, Caches(res', o, server'), res'.valid, o = stmt'.start - res'.base,
           stmt' \in Stmt, stmt'.start >= -1, call' \in Call, out' \in Out,
           asked' \in (Asks \X Sizes) \cup {<<>>}
    PROVE  CacheInv' /\ Origin' = o /\ Filled' = Len(res'.cache)
<1>1. Origin' = o /\ Filled' = Len(res'.cache)
  BY DEF Origin, Filled
<1>2. res' \in Res /\ server' \in Server /\ server'.pos <= server'.n + 1 /\ res'.total <= server'.n
  BY DEF Caches
<1>3. \A i \in DOMAIN res'.cache : res'.cache[i] < server'.n
  <2>1. res'.cache \in Seq(Nat) /\ server'.n \in Nat
    BY <1>2 DEF Res, Server
  <2>2. DOMAIN res'.cache = 1 .. Len(res'.cache) /\ Len(res'.cache) \in Nat
    BY <2>1, LenProperties
  <2> QED BY <2>1, <2>2 DEF Caches
<1>4. TypeOK'
  BY <1>2, <1>3 DEF TypeOK
<1>5. Cached'
  BY <1>1 DEF Cached, Caches
<1>6. Synced'
  BY <1>1 DEF Synced, Caches
<1>7. Ended'
  BY <1>1 DEF Ended, Caches
<1> QED BY <1>1, <1>4, <1>5, <1>6, <1>7 DEF CacheInv

\* What the contract says of rows and places does not change with the step.
LEMMA ContractNext ==
    ASSUME server'.n = server.n, UNCHANGED out, NEW ask, NEW r
    PROVE  Contract!Target(ask, r)' = Contract!Target(ask, r)
BY DEF Contract!Target, Contract!Reached, Contract!Absolute, Contract!FromBefore

LEMMA HandedNext ==
    ASSUME server'.n = server.n, NEW k \in 0 .. server.n, NEW p, out'.at = p,
           out'.rows = Contract!RowsOf(p, k)
    PROVE  HandedOut'
BY DEF HandedOut, Contract!RowsOf

LEMMA HandedStays == ASSUME ScrollInv, server'.n = server.n, UNCHANGED out PROVE HandedOut'
<1>1. PICK k \in 0 .. server.n : out.rows = Contract!RowsOf(out.at, k)
  BY DEF ScrollInv, HandedOut
<1> QED BY <1>1, HandedNext

-----------------------------------------------------------------------------
(***************************************************************************)
(* PGAPI_ExtendedFetch, up to the rows.                                    *)
(***************************************************************************)
LEMMA SoughtKeeps ==
    ASSUME ScrollInv, NEW q, Sought(q)
    PROVE  /\ Caches(q, Origin, server') /\ server'.n = server.n
           /\ q.valid = res.valid /\ q.base = res.base /\ q.kind = res.kind /\ q.cache = res.cache
           /\ q.next = res.next
           /\ res.kind = "forward" => q = res /\ UNCHANGED server
<1>1. Caches(res, Origin, server)
  BY CachesNow DEF ScrollInv
<1>2. server \in Server /\ server.n \in Nat
  BY <1>1 DEF Caches, Server
<1>3. CASE q = res /\ UNCHANGED server
  BY <1>1, <1>3
<1>4. CASE q = res /\ res.kind # "forward" /\ server' = [server EXCEPT !.dead = TRUE]
  <2>1. /\ server' \in Server /\ server'.n = server.n /\ server'.pos = server.pos
        /\ server'.all = server.all /\ server'.dead
    BY <1>2, <1>4 DEF Server
  <2> QED BY <1>1, <1>4, <2>1 DEF Caches
<1>5. CASE /\ q = ToLast(res) /\ MovesToLast(res) /\ ~Eof(res) /\ res.kind # "forward"
           /\ server' = [server EXCEPT !.pos = server.n + 1, !.all = TRUE]
  <2>1. /\ server' \in Server /\ server'.n = server.n /\ server'.pos = server.n + 1
        /\ server'.all /\ server'.dead = server.dead
    <3>1. PICK z \in Nat : z = server.n + 1
      BY <1>2
    <3>2. server' = [server EXCEPT !.pos = z, !.all = TRUE]
      BY <1>5, <3>1
    <3> QED BY <1>2, <3>1, <3>2 DEF Server
  <2>2. q = [res EXCEPT !.cursT = server.n, !.total = server.n, !.eof = TRUE]
    BY <1>5, ToLastKeeps
  <2>3. res \in Res /\ server.n \in Int /\ res.curs
    BY <1>1, <1>2, <1>5 DEF Caches, MovesToLast
  <2>4. /\ q \in Res /\ q.cursT = server.n /\ q.total = server.n /\ q.eof = TRUE
        /\ q.kind = res.kind /\ q.fetchMax = res.fetchMax /\ q.curs = res.curs
        /\ q.valid = res.valid /\ q.base = res.base /\ q.cache = res.cache /\ q.next = res.next
        /\ q.req = res.req
    BY <1>2, <2>2, <2>3 DEF Res
  <2>5. server'.n <= server'.n /\ server'.n = server'.pos - 1 /\ server'.pos <= server'.n + 1
    BY <1>2, <2>1
  <2>6. /\ \A i \in 1 .. Len(q.cache) : q.cache[i] = Origin + i - 1
        /\ Len(q.cache) > 0 => Origin >= 0 /\ Origin + Len(q.cache) <= server'.n
        /\ q.next >= 0 /\ q.req >= 1 /\ q.fetchMax >= 1 /\ Origin \in Int
    BY <1>1, <2>1, <2>4 DEF Caches
  <2>7. q.kind # "whole" /\ q.curs /\ q.total = server'.n /\ q.eof
    BY <1>1, <2>1, <2>3, <2>4 DEF Caches
  <2>8. Caches(q, Origin, server')
    BY <2>1, <2>4, <2>5, <2>6, <2>7 DEF Caches
  <2> QED BY <1>5, <2>1, <2>4, <2>8
<1> QED BY <1>3, <1>4, <1>5 DEF Sought

\* The rowset moves in the result, and its base with it.
LEMMA StartKeeps ==
    ASSUME ScrollInv, NEW q, Sought(q), NEW start \in Int, start >= -1,
           NEW p, p = SetStart(q, stmt, start)
    PROVE  /\ Caches(p, Origin, server') /\ p.valid /\ p.base = start - Origin
           /\ p.curs = q.curs /\ p.eof = q.eof /\ p.kind = res.kind /\ p.cache = res.cache
           /\ p.next = q.next
<1>1. Caches(q, Origin, server') /\ q \in Res /\ Origin \in Int
  BY SoughtKeeps DEF Caches
<1>2. stmt \in Stmt /\ (~q.valid => stmt.start = -1 /\ q.base = 0)
  BY SoughtKeeps DEF ScrollInv, CacheInv, TypeOK, Cached
<1>3. Origin = IF q.valid THEN stmt.start - q.base ELSE 0
  BY SoughtKeeps DEF Origin
<1>4. p = [q EXCEPT !.valid = TRUE, !.base = start - Origin]
  BY <1>1, <1>2, <1>3, SetStartKeeps
<1>5. start - Origin \in Int
  BY <1>1
<1>6. /\ p \in Res /\ p.valid = TRUE /\ p.base = start - Origin
      /\ p.cursT = q.cursT /\ p.total = q.total /\ p.eof = q.eof
      /\ p.kind = q.kind /\ p.fetchMax = q.fetchMax /\ p.curs = q.curs
      /\ p.cache = q.cache /\ p.next = q.next /\ p.req = q.req
  BY <1>1, <1>4, <1>5 DEF Res
<1> QED BY <1>1, <1>6, SoughtKeeps DEF Caches

\* EXTFETCH_RETURN_BOF and EXTFETCH_RETURN_EOF keep the invariant.
LEMMA NoRowsKeeps ==
    ASSUME ScrollInv, NEW q, Sought(q), NEW start \in Int, NEW r \in Sizes, NEW ask \in Asks,
           NoRows(q, start, r), asked' = <<ask, r>>, call.pc = "idle",
           Outside(q, start)
    PROVE  ScrollInv'
<1>0. (start = -1 /\ res.kind # "forward") \/ (start = server.n /\ q.eof)
  BY DEF Outside
<1>1. /\ server.n \in Nat /\ server'.n = server.n /\ server' \in Server /\ r \in Nat /\ r >= 1
      /\ q \in Res /\ Origin \in Int
  BY SoughtKeeps, Between1, ConstantTypes DEF Caches
<1>2. start >= -1
  BY <1>0, <1>1
<1>3. /\ Caches(res', Origin, server') /\ res'.valid /\ res'.base = start - Origin
      /\ res'.curs = q.curs /\ res'.eof = q.eof /\ res'.kind = res.kind
  BY <1>2, StartKeeps DEF NoRows
<1>4. /\ stmt' \in Stmt /\ stmt'.start = start /\ stmt'.saved = -1
      /\ out' \in Out /\ out'.rows = <<>> /\ out'.at = start /\ out'.size = r
  BY <1>1, EmptySeq DEF NoRows, Stmt, Out
<1>5. call' \in Call /\ call'.pc = "idle"
  <2>1. call \in Call
    BY DEF ScrollInv, CacheInv, TypeOK
  <2> QED BY <2>1, EmptySeq DEF NoRows, Call
<1>6. CacheInv' /\ Origin' = Origin /\ Filled' = Len(res'.cache)
  <2>1. PICK o \in Int : o = Origin
    BY <1>1
  <2>2. Caches(res', o, server') /\ o = stmt'.start - res'.base
    BY <1>3, <1>4, <2>1
  <2>3. asked' \in (Asks \X Sizes) \cup {<<>>}
    OBVIOUS
  <2> QED BY <1>2, <1>3, <1>4, <1>5, <2>1, <2>2, <2>3, CachesNext
<1>7. InRows'
  BY <1>5 DEF InRows
<1>8. Between'
  BY <1>0, <1>1, <1>3, <1>4 DEF Between
<1>9. HandedOut'
  <2>1. PICK k \in 0 .. server.n : k = 0
    BY <1>1
  <2>2. out'.rows = Contract!RowsOf(start, k)
    BY <1>0, <1>1, <1>4, RowsOfNothing
  <2> QED BY <1>1, <1>4, <2>2, HandedNext
<1>10. ForwardOnly'
  <2>1. SUFFICES ASSUME res'.kind = "forward" PROVE ForwardOnly'
    BY DEF ForwardOnly
  <2>2. q = res /\ UNCHANGED server /\ start = server.n /\ q.eof
    BY <1>0, <1>3, <2>1, SoughtKeeps
  <2>3. ~server'.all /\ (res.curs => OpenForward)
    BY <1>3, <2>1, <2>2 DEF ScrollInv, ForwardOnly
  <2>4. CASE res.curs
    <3>1. Origin + Filled = server.n
      BY <2>2, <2>3, <2>4 DEF OpenForward
    <3>2. res'.cache = res.cache
      BY <1>2, StartKeeps DEF NoRows
    <3>3. Filled' = Filled /\ Filled \in Nat
      BY <1>1, <1>6, <2>2, <3>2, LenProperties DEF Filled, Res
    <3>4. res'.base >= 0
      BY <1>1, <1>3, <2>2, <3>1, <3>3
    <3>5. OpenForward'
      BY <1>1, <1>3, <1>4, <1>5, <1>6, <2>2, <3>1, <3>3, <3>4 DEF OpenForward
    <3> QED BY <1>3, <2>2, <2>3, <2>4, <3>5 DEF ForwardOnly
  <2>5. CASE ~res.curs
    <3>1. ClosedForward'
      BY <1>1, <1>4, <1>5, <2>2 DEF ClosedForward
    <3> QED BY <1>3, <2>2, <2>3, <2>5, <3>1 DEF ForwardOnly
  <2> QED BY <2>4, <2>5
<1> QED BY <1>6, <1>7, <1>8, <1>9, <1>10 DEF ScrollInv

Placed(q, next, move, off) == [q EXCEPT !.next = next, !.move = move, !.off = off]

\* move_cursor_position_if_needed and what is in front of it: the rowset is in the
\* cache, begins behind it, or a MOVE has to be sent.
LEMMA FromKeeps ==
    ASSUME ScrollInv, NEW q, Sought(q), NEW start \in Int, NEW r \in Sizes,
           FetchFrom(q, start, r), start >= 0,
           (~q.curs \/ q.eof) => start < server.n \/ start = 0
    PROVE  /\ Caches(res', Origin, server') /\ res'.valid /\ res'.base = start - Origin
           /\ res'.curs = q.curs /\ res'.eof = q.eof /\ res'.kind = res.kind
           /\ res'.cache = res.cache
           /\ res'.curs =>
                /\ res'.req = r
                /\ res'.off > 0 =>
                     \/ res'.move = "forward" /\ res'.off = start - 1 - res'.cursT
                     \/ res'.move = "backward" /\ res'.off = res'.cursT - (start - 1)
                /\ res'.off = 0 =>
                     \/ res'.base \in 0 .. Len(res.cache) /\ res'.next = res'.base
                     \/ server'.dead /\ Len(res.cache) = 0
                /\ res'.base \in 0 .. Len(res.cache) => res'.off = 0
<1>1. r \in Nat /\ r >= 1 /\ server.n \in Nat /\ server'.n = server.n
  BY ConstantTypes, Between1, SoughtKeeps
<1>2. PICK s : s = SetStart(q, stmt, start)
  OBVIOUS
<1>3. /\ Caches(s, Origin, server') /\ s.valid /\ s.base = start - Origin /\ s.curs = q.curs
      /\ s.eof = q.eof /\ s.kind = res.kind /\ s.cache = res.cache /\ s \in Res /\ Origin \in Int
  <2>1. start >= -1
    OBVIOUS
  <2>2. /\ Caches(s, Origin, server') /\ s.valid /\ s.base = start - Origin /\ s.curs = q.curs
        /\ s.eof = q.eof /\ s.kind = res.kind /\ s.cache = res.cache
    BY <1>2, <2>1, StartKeeps
  <2> QED BY <2>2 DEF Caches
<1>4. PICK p : p = [s EXCEPT !.req = r]
  OBVIOUS
<1>5. /\ Caches(p, Origin, server') /\ p.valid /\ p.base = start - Origin /\ p.curs = q.curs
      /\ p.eof = q.eof /\ p.kind = res.kind /\ p.cache = res.cache /\ p \in Res /\ p.req = r
  <2>1. /\ p \in Res /\ p.kind = s.kind /\ p.fetchMax = s.fetchMax /\ p.curs = s.curs
        /\ p.eof = s.eof /\ p.valid = s.valid /\ p.total = s.total /\ p.cursT = s.cursT
        /\ p.cache = s.cache /\ p.base = s.base /\ p.next = s.next /\ p.req = r
    BY <1>1, <1>3, <1>4 DEF Res
  <2> QED BY <1>1, <1>3, <2>1 DEF Caches
<1>6. res' = IF q.kind = "whole" THEN [p EXCEPT !.base = start] ELSE MoveIfNeeded(p, start - 1)
  BY <1>2, <1>4 DEF FetchFrom
<1>7. q.kind = res.kind
  BY SoughtKeeps
<1>8. CASE q.kind = "whole"
  <2>1. Origin = 0 /\ ~p.curs
    BY <1>5, <1>7, <1>8 DEF Caches
  <2>2. p.base = start
    BY <1>5, <2>1
  <2>3. res' = p
    BY <1>5, <1>6, <1>8, <2>2 DEF Res
  <2> QED BY <1>5, <2>1, <2>3
<1>9. ASSUME NEW next \in Int, next >= 0, NEW move \in {"none", "forward", "backward"}, NEW off \in Nat,
             res' = Placed(p, next, move, off)
      PROVE  /\ Caches(res', Origin, server') /\ res'.valid /\ res'.base = start - Origin
             /\ res'.curs = q.curs /\ res'.eof = q.eof /\ res'.kind = res.kind
             /\ res'.cache = res.cache /\ res'.req = r /\ res'.cursT = p.cursT
             /\ res'.next = next /\ res'.move = move /\ res'.off = off
  <2>1. /\ res' \in Res /\ res'.kind = p.kind /\ res'.fetchMax = p.fetchMax /\ res'.curs = p.curs
        /\ res'.eof = p.eof /\ res'.valid = p.valid /\ res'.total = p.total /\ res'.cursT = p.cursT
        /\ res'.cache = p.cache /\ res'.base = p.base /\ res'.next = next /\ res'.req = p.req
        /\ res'.move = move /\ res'.off = off
    BY <1>5, <1>9 DEF Res, Placed
  <2> QED BY <1>5, <1>9, <2>1 DEF Caches
<1>10. /\ p.next \in Int /\ p.next >= 0 /\ p.move \in {"none", "forward", "backward"}
       /\ p.off \in Nat /\ p.base \in Int /\ p.cursT \in Int /\ Len(p.cache) \in Nat
       /\ p = Placed(p, p.next, p.move, p.off)
  BY <1>5, LenProperties DEF Res, Caches, Placed
<1>11. CASE q.kind # "whole" /\ ~p.curs
  <2>1. res' = Placed(p, p.next, "none", 0)
    BY <1>5, <1>6, <1>11 DEF MoveIfNeeded, Res, Placed
  <2>2. 0 \in Nat /\ "none" \in {"none", "forward", "backward"}
    OBVIOUS
  <2> QED BY <1>5, <1>9, <1>10, <1>11, <2>1, <2>2
<1>12. CASE q.kind # "whole" /\ p.curs /\ p.base >= 0 /\ p.base <= Len(p.cache)
  <2>3. PICK z \in Nat : z = 0
    OBVIOUS
  <2>1. res' = Placed(p, p.base, p.move, z)
    BY <1>5, <1>6, <1>12, <2>3 DEF MoveIfNeeded, Res, Placed
  <2>2. res'.next = res'.base /\ res'.off = 0 /\ res'.base \in 0 .. Len(res.cache)
    <3>1. res'.next = p.base /\ res'.off = z /\ res'.base = start - Origin /\ res'.cache = res.cache
      BY <1>9, <1>10, <1>12, <2>1
    <3> QED BY <1>5, <1>10, <1>12, <2>3, <3>1
  <2> QED BY <1>9, <1>10, <1>12, <2>1, <2>2
<1>13. CASE q.kind # "whole" /\ p.curs /\ ~(p.base >= 0 /\ p.base <= Len(p.cache))
  <2>1. PICK d \in Int : d = start - 1 - p.cursT
    BY <1>10
  <2>2. res' = IF d = 0 THEN [p EXCEPT !.off = 0]
               ELSE [p EXCEPT !.move = IF d > 0 THEN "forward" ELSE "backward",
                              !.off = IF d > 0 THEN d ELSE -d]
    BY <1>6, <1>13, <2>1 DEF MoveIfNeeded
  <2>3. ~(p.base \in 0 .. Len(res.cache))
    BY <1>5, <1>10, <1>13
  <2>4. CASE d = 0
    <3>1. res' = Placed(p, p.next, p.move, 0)
      BY <1>5, <2>2, <2>4 DEF Res, Placed
    <3>2. server'.dead /\ Len(res.cache) = 0
      <4>1. server'.pos = start /\ server'.n = server.n /\ p.eof = q.eof /\ server'.pos \in Nat
        BY <1>1, <1>5, <1>10, <1>13, <2>1, <2>4 DEF Caches, Server
      <4>2. server'.pos # server'.n + 1
        BY <1>1, <1>5, <1>13, <4>1 DEF Caches
      <4>3. server'.pos # Origin + Len(p.cache)
        BY <1>3, <1>5, <1>10, <1>13, <4>1
      <4> QED BY <1>5, <1>13, <4>2, <4>3 DEF Caches
    <3> QED BY <1>5, <1>9, <1>10, <2>3, <3>1, <3>2
  <2>5. CASE d > 0
    <3>1. res' = Placed(p, p.next, "forward", d)
      <4>1. /\ d # 0 /\ (IF d > 0 THEN "forward" ELSE "backward") = "forward"
            /\ (IF d > 0 THEN d ELSE -d) = d
        BY <2>5
      <4>2. res' = [p EXCEPT !.move = "forward", !.off = d]
        BY <2>2, <4>1, Zenon
      <4> QED BY <1>5, <4>2 DEF Res, Placed
    <3>2. d \in Nat /\ "forward" \in {"none", "forward", "backward"}
      BY <2>5
    <3> QED BY <1>5, <1>9, <1>10, <2>1, <2>3, <2>5, <3>1, <3>2
  <2>6. CASE d < 0
    <3>1. PICK m \in Nat : m = -d /\ m > 0
      BY <2>6
    <3>2. res' = Placed(p, p.next, "backward", m)
      <4>1. /\ d # 0 /\ (IF d > 0 THEN "forward" ELSE "backward") = "backward"
            /\ (IF d > 0 THEN d ELSE -d) = m
        BY <2>6, <3>1
      <4>2. res' = [p EXCEPT !.move = "backward", !.off = m]
        BY <2>2, <4>1, Zenon
      <4> QED BY <1>5, <4>2 DEF Res, Placed
    <3>3. m = p.cursT - (start - 1) /\ "backward" \in {"none", "forward", "backward"}
      BY <1>10, <2>1, <3>1
    <3> QED BY <1>5, <1>9, <1>10, <2>3, <3>1, <3>2, <3>3
  <2> QED BY <2>4, <2>5, <2>6
<1> QED BY <1>8, <1>11, <1>12, <1>13

LEMMA FetchFromKeeps ==
    ASSUME ScrollInv, NEW q, Sought(q), NEW start \in Int, NEW r \in Sizes, NEW ask \in Asks,
           FetchFrom(q, start, r), asked' = <<ask, r>>, call.pc = "idle", start >= 0,
           (~q.curs \/ q.eof) => start < server.n \/ start = 0,
           res.kind = "forward" => start = NextStart(r) /\ q.curs,
           ~server'.dead => start \in Contract!Target(ask, r)
    PROVE  ScrollInv'
<1>1. /\ server.n \in Nat /\ server'.n = server.n /\ server' \in Server /\ r \in Nat /\ r >= 1
      /\ q \in Res /\ Origin \in Int
  BY SoughtKeeps, Between1, ConstantTypes DEF Caches
<1>2. /\ Caches(res', Origin, server') /\ res'.valid /\ res'.base = start - Origin
      /\ res'.curs = q.curs /\ res'.eof = q.eof /\ res'.kind = res.kind
      /\ res'.cache = res.cache
      /\ res'.curs =>
           /\ res'.req = r
           /\ res'.off > 0 =>
                \/ res'.move = "forward" /\ res'.off = start - 1 - res'.cursT
                \/ res'.move = "backward" /\ res'.off = res'.cursT - (start - 1)
           /\ res'.off = 0 =>
                \/ res'.base \in 0 .. Len(res.cache) /\ res'.next = res'.base
                \/ server'.dead /\ Len(res.cache) = 0
           /\ res'.base \in 0 .. Len(res.cache) => res'.off = 0
  BY FromKeeps
<1>3. /\ stmt' \in Stmt /\ stmt'.start = start /\ stmt'.saved = -1 /\ stmt'.curr = start - 1
      /\ UNCHANGED out
  <2>1. start - 1 \in Int /\ -1 \in Int
    OBVIOUS
  <2> QED BY <2>1 DEF FetchFrom, Stmt
<1>4. call' \in Call /\ call'.pc = "rows" /\ call'.r = r /\ call'.got = <<>>
  BY <1>1, EmptySeq DEF FetchFrom, Call
<1>5. CacheInv' /\ Origin' = Origin /\ Filled' = Len(res.cache)
  <2>1. PICK o \in Int : o = Origin
    BY <1>1
  <2>2. Caches(res', o, server') /\ o = stmt'.start - res'.base /\ stmt'.start >= -1
    BY <1>2, <1>3, <2>1
  <2>3. asked' \in (Asks \X Sizes) \cup {<<>>}
    OBVIOUS
  <2>4. out' \in Out
    BY <1>3 DEF ScrollInv, CacheInv, TypeOK
  <2> QED BY <1>2, <1>3, <1>4, <2>1, <2>2, <2>3, <2>4, CachesNext
<1>6. InRows'
  <2>1. PICK k \in Nat : k = Len(call'.got) /\ k = 0
    BY <1>4, EmptySeq
  <2>2. call'.r \in Sizes /\ asked' \in Asks \X Sizes /\ asked'[2] = call'.r /\ asked'[1] = ask
    BY <1>4
  <2>3. ~server'.dead => stmt'.start \in Contract!Target(asked[1], asked[2])'
    <3>1. Contract!Target(asked[1], asked[2])' = Contract!Target(ask, r)
      BY <1>1, <1>3, <2>2
         DEF Contract!Target, Contract!Reached, Contract!Absolute, Contract!FromBefore
    <3> QED BY <1>3, <3>1
  <2>4. /\ stmt'.start >= 0 /\ stmt'.curr = stmt'.start - 1 + k /\ k <= call'.r
        /\ ~(k > 0) /\ ~(\E i \in 1 .. k : TRUE) /\ stmt'.saved = -1 /\ res'.valid
    BY <1>1, <1>2, <1>3, <1>4, <2>1
  <2>5. res'.kind = "forward" => res'.curs
    BY <1>2
  <2>6. ASSUME res'.curs
        PROVE /\ res'.req = call'.r
              /\ res'.off > 0 =>
                 /\ k = 0 /\ res'.base \notin 0 .. Filled'
                 /\ \/ res'.move = "forward" /\ res'.off = stmt'.curr - res'.cursT
                    \/ res'.move = "backward" /\ res'.off = res'.cursT - stmt'.curr
              /\ res'.off = 0 =>
                 \/ res'.base \in 0 .. Filled' /\ res'.next = res'.base + k /\ res'.next <= Filled'
                 \/ server'.dead /\ Filled' = 0 /\ k = 0
              /\ res'.eof /\ k = 0 => stmt'.start < server'.n \/ stmt'.start = 0
    <3>1. res'.off = 0 =>
                 \/ res'.base \in 0 .. Filled' /\ res'.next = res'.base + k /\ res'.next <= Filled'
                 \/ server'.dead /\ Filled' = 0 /\ k = 0
      <4>1. Filled' \in Nat
        BY <1>2, <1>5, LenProperties DEF Caches, Res
      <4> QED BY <1>2, <1>5, <2>1, <2>6, <4>1
    <3>2. res'.eof => stmt'.start < server'.n \/ stmt'.start = 0
      BY <1>1, <1>2, <1>3
    <3>3. res'.off > 0 =>
            /\ k = 0 /\ res'.base \notin 0 .. Filled'
            /\ \/ res'.move = "forward" /\ res'.off = stmt'.curr - res'.cursT
               \/ res'.move = "backward" /\ res'.off = res'.cursT - stmt'.curr
      BY <1>2, <1>3, <1>5, <2>1, <2>6
    <3>4. res'.req = call'.r
      BY <1>2, <1>4, <2>6
    <3> QED BY <3>1, <3>2, <3>3, <3>4
  <2> QED BY <2>1, <2>2, <2>3, <2>4, <2>5, <2>6 DEF InRows
<1>7. Between'
  BY <1>4 DEF Between
<1>8. HandedOut'
  BY <1>1, <1>3, HandedStays
<1>9. ForwardOnly'
  <2>1. SUFFICES ASSUME res'.kind = "forward" PROVE ForwardOnly'
    BY DEF ForwardOnly
  <2>2. q = res /\ UNCHANGED server /\ start = NextStart(r) /\ res.curs /\ res'.curs /\ res.kind = "forward"
    BY <1>2, <2>1, SoughtKeeps
  <2>3. ~server'.all /\ OpenForward
    BY <2>2 DEF ScrollInv, ForwardOnly
  <2>4. Filled' = Filled /\ Filled \in Nat /\ res.base \in Int
    BY <1>1, <1>5, <2>2, LenProperties DEF Filled, Res
  <2>5. /\ stmt.start \in Int /\ stmt.start >= -1 /\ stmt.saved \in Int
        /\ Origin = IF res.valid THEN stmt.start - res.base ELSE 0
        /\ ~res.valid => stmt.start = -1
    BY Between1 DEF Origin, ScrollInv, CacheInv, Cached
  <2>6. start = IF stmt.start < 0 THEN 0
                ELSE stmt.start + (IF stmt.saved > 0 THEN stmt.saved ELSE r)
    BY <2>2 DEF NextStart, Progress
  <2>7. res'.eof => Origin' + Filled' = server'.n /\ res'.base >= 0
    <3>1. SUFFICES ASSUME res.eof PROVE Origin + Filled = server.n /\ start - Origin >= 0
      BY <1>1, <1>2, <1>5, <2>2, <2>4
    <3>2. Origin + Filled = server.n /\ res.base >= 0
      BY <2>3, <3>1 DEF OpenForward
    <3> QED BY <1>1, <2>4, <2>5, <2>6, <3>2
  <2>8. ASSUME ~server.dead PROVE res'.off = 0
    <3>1. stmt.saved > 0 => stmt.start >= 0
      BY <2>8 DEF ScrollInv, Between
    <3>2. CASE ~res.valid
      <4>1. start - Origin \in 0 .. Filled
        BY <1>1, <2>4, <2>5, <2>6, <3>2
      <4> QED BY <1>2, <1>5, <2>2, <2>4, <4>1
    <3>3. CASE res.valid /\ stmt.saved > 0 /\ res.base >= 0 /\ res.base + stmt.saved <= Filled
      <4>1. start - Origin \in 0 .. Filled
        BY <1>1, <2>4, <2>5, <2>6, <3>1, <3>3
      <4> QED BY <1>2, <1>5, <2>2, <2>4, <4>1
    <3>4. CASE res.eof /\ stmt.start >= server.n
      <4>1. start > server.n /\ start # 0
        BY <1>1, <2>5, <2>6, <3>4
      <4> QED BY <1>1, <2>2, <3>4, <4>1
    <3> QED BY <2>3, <2>8, <3>2, <3>3, <3>4 DEF OpenForward
  <2>9. OpenForward'
    BY <1>4, <2>2, <2>7, <2>8 DEF OpenForward
  <2> QED BY <1>2, <2>2, <2>3, <2>9 DEF ForwardOnly
<1> QED BY <1>5, <1>6, <1>7, <1>8, <1>9 DEF ScrollInv

LEMMA AskKeeps ==
    ASSUME ScrollInv, NEW ask \in Asks, NEW r \in Sizes, ExtendedFetch(ask, r)
    PROVE  ScrollInv'
<1>5. PICK q : Sought(q) /\ \E start \in Int :
        LandsAt(q, start, r) /\ (~server'.dead => start \in Contract!Target(ask, r))
  BY AskLands DEF Lands
<1>1. PICK start \in Int : Sought(q) /\ LandsAt(q, start, r)
                           /\ (~server'.dead => start \in Contract!Target(ask, r))
  BY <1>5
<1>2. asked' = <<ask, r>> /\ call.pc = "idle"
  BY AskLands
<1>3. CASE NoRows(q, start, r) /\ Outside(q, start)
  BY <1>1, <1>2, <1>3, NoRowsKeeps
<1>4. CASE /\ FetchFrom(q, start, r) /\ start >= 0
           /\ (~q.curs \/ q.eof) => start < server.n \/ start = 0
           /\ res.kind = "forward" => start = NextStart(r) /\ q.curs
  BY <1>1, <1>2, <1>4, FetchFromKeeps
<1> QED BY <1>1, <1>3, <1>4 DEF LandsAt

-----------------------------------------------------------------------------
(***************************************************************************)
(* SC_fetch: a row of the rowset, or no more of them.                      *)
(***************************************************************************)
Got == Len(call.got)

\* What a fetch knows of its rowset, whichever row it is at.
LEMMA RowsNow ==
    ASSUME ScrollInv, call.pc = "rows"
    PROVE  /\ Got \in Nat /\ Got <= call.r /\ call.r \in Sizes /\ call.r \in Nat /\ call.r >= 1
           /\ server.n \in Nat /\ stmt.start \in Int /\ stmt.start >= 0 /\ stmt \in Stmt
           /\ stmt.curr = stmt.start - 1 + Got /\ stmt.saved = -1
           /\ call \in Call /\ call.got \in Seq(Nat) /\ out \in Out
           /\ \A i \in 1 .. Got : call.got[i] = stmt.start + i - 1
           /\ Got > 0 => stmt.start + Got <= server.n
           /\ asked \in Asks \X Sizes /\ asked[2] = call.r
           /\ ~server.dead => stmt.start \in Contract!Target(asked[1], asked[2])
           /\ res.valid /\ Origin = stmt.start - res.base /\ Origin \in Int
           /\ res.base \in Int /\ Filled \in Nat /\ Filled = Len(res.cache)
           /\ Complete <=> Got = call.r
           /\ res.kind = "forward" => res.curs /\ OpenForward /\ ~server.all
<1>1. InRows /\ TypeOK /\ ForwardOnly
  BY DEF ScrollInv, CacheInv
<1>2. call \in Call /\ res \in Res /\ server \in Server /\ stmt \in Stmt /\ out \in Out
  BY <1>1 DEF TypeOK
<1>3. /\ call.got \in Seq(Nat) /\ Got \in Nat /\ call.r \in Nat /\ server.n \in Nat
      /\ stmt.start \in Int /\ res.base \in Int /\ res.cache \in Seq(Nat) /\ Filled \in Nat
  BY <1>2, LenProperties DEF Call, Res, Server, Stmt, Got, Filled
<1>4. call.r \in Sizes /\ call.r >= 1
  BY <1>1, ConstantTypes DEF InRows
<1>5. /\ Got <= call.r /\ stmt.start >= 0 /\ stmt.curr = stmt.start - 1 + Got /\ stmt.saved = -1
      /\ \A i \in 1 .. Got : call.got[i] = stmt.start + i - 1
      /\ Got > 0 => stmt.start + Got <= server.n
      /\ asked \in Asks \X Sizes /\ asked[2] = call.r
      /\ ~server.dead => stmt.start \in Contract!Target(asked[1], asked[2])
      /\ res.valid /\ (res.kind = "forward" => res.curs)
  BY <1>1 DEF InRows, Got
<1>6. Origin = stmt.start - res.base /\ Origin \in Int
  BY <1>3, <1>5 DEF Origin
<1>7. Complete <=> Got = call.r
  BY DEF Complete, Got
<1>8. Filled = Len(res.cache)
  BY DEF Filled
<1>9. res.kind = "forward" => res.curs /\ OpenForward /\ ~server.all
  BY <1>1, <1>5 DEF ForwardOnly
<1> QED BY <1>2, <1>3, <1>4, <1>5, <1>6, <1>7, <1>8, <1>9

\* Where it is.
AtRow ==
    /\ Got \in Nat /\ Got <= call.r /\ call.r \in Nat /\ call.r >= 1
    /\ server.n \in Nat /\ stmt.start \in Int /\ stmt.start >= 0
    /\ stmt.curr = stmt.start - 1 + Got /\ (Got > 0 => stmt.start + Got <= server.n)
    /\ Complete <=> Got = call.r

LEMMA AtRowNow == ASSUME ScrollInv, call.pc = "rows" PROVE AtRow
BY RowsNow DEF AtRow

LEMMA RowsCurs ==
    ASSUME ScrollInv, call.pc = "rows", res.curs
    PROVE  /\ res.req = call.r
           /\ res.off > 0 =>
                /\ Got = 0 /\ res.base \notin 0 .. Filled
                /\ \/ res.move = "forward" /\ res.off = stmt.curr - res.cursT
                   \/ res.move = "backward" /\ res.off = res.cursT - stmt.curr
           /\ res.off = 0 =>
                \/ res.base \in 0 .. Filled /\ res.next = res.base + Got /\ res.next <= Filled
                \/ server.dead /\ Filled = 0 /\ Got = 0
           /\ res.eof /\ Got = 0 => stmt.start < server.n \/ stmt.start = 0
BY DEF ScrollInv, InRows, Got

\* The cache, with the cursor, as a step of a fetch leaves it.
Fresh(q, o) ==
    /\ Caches(q, o, server') /\ q.valid /\ q.kind = res.kind /\ o = stmt.start - q.base
    /\ server'.n = server.n /\ server'.all = server.all /\ (server.dead => server'.dead)

\* SC_fetch got the next row of the rowset.
LEMMA GotKeeps ==
    ASSUME ScrollInv, call.pc = "rows", ~Complete, UNCHANGED asked, NEW q, NEW o \in Int,
           NEW row, GotRow(q, row), Fresh(q, o), server'.dead = server.dead,
           row = stmt.start + Got, stmt.start + Got < server.n,
           q.curs => /\ q.req = call.r /\ q.off = 0 /\ q.base \in 0 .. Len(q.cache)
                     /\ q.next = q.base + (Got + 1) /\ q.next <= Len(q.cache),
           res.kind = "forward" => q.curs /\ (q.eof => o + Len(q.cache) = server.n /\ q.base >= 0)
    PROVE  ScrollInv'
<1>0. AtRow
  BY AtRowNow
<1> USE <1>0 DEF AtRow
<1>1. /\ stmt' \in Stmt /\ stmt'.start = stmt.start /\ stmt'.saved = -1
      /\ stmt'.curr = stmt.start + Got
      /\ UNCHANGED out /\ res' = q
  <2>1. stmt.curr + 1 \in Int /\ stmt.curr + 1 = stmt.start + Got
    OBVIOUS
  <2> QED BY <2>1, RowsNow DEF GotRow, Stmt
<1>2. row \in Nat
  OBVIOUS
<1>3. /\ call' \in Call /\ call'.pc = "rows" /\ call'.r = call.r
      /\ Len(call'.got) = Got + 1
      /\ \A i \in 1 .. Got + 1 : call'.got[i] = stmt.start + i - 1
  <2>1. call' = [call EXCEPT !.got = Append(call.got, row)]
    BY DEF GotRow
  <2>2. Append(call.got, row) \in Seq(Nat)
    BY <1>2, AppendProperties, RowsNow
  <2>3. call' \in Call /\ call'.pc = "rows" /\ call'.r = call.r /\ call'.got = Append(call.got, row)
    BY <2>1, <2>2, RowsNow DEF Call
  <2>4. Len(call'.got) = Got + 1
    BY <1>2, <2>3, AppendProperties, RowsNow DEF Got
  <2>5. ASSUME NEW i \in 1 .. Got + 1 PROVE call'.got[i] = stmt.start + i - 1
    <3>1. CASE i = Got + 1
      <4>1. call'.got[Got + 1] = row
        BY <1>2, <2>3, AppendProperties, RowsNow DEF Got
      <4> QED BY <3>1, <4>1
    <3>2. CASE i \in 1 .. Got
      <4>1. call'.got[i] = call.got[i]
        BY <1>2, <2>3, <3>2, AppendProperties, RowsNow DEF Got
      <4> QED BY <3>2, <4>1, RowsNow
    <3> QED BY <3>1, <3>2
  <2> QED BY <2>3, <2>4, <2>5
<1>4. CacheInv' /\ Origin' = o /\ Filled' = Len(q.cache)
  <2>1. Caches(res', o, server') /\ res'.valid /\ o = stmt'.start - res'.base /\ stmt'.start >= -1
    BY <1>1 DEF Fresh
  <2>2. out' \in Out /\ asked' \in (Asks \X Sizes) \cup {<<>>}
    BY <1>1, RowsNow
  <2> QED BY <1>1, <1>3, <2>1, <2>2, CachesNext
<1>5. InRows'
  <2>1. PICK k \in Nat : k = Len(call'.got) /\ k = Got + 1
    BY <1>3
  <2>2. call'.r \in Sizes /\ asked' \in Asks \X Sizes /\ asked'[2] = call'.r
    BY <1>3, RowsNow
  <2>3. ~server'.dead => stmt'.start \in Contract!Target(asked[1], asked[2])'
    <3>1. Contract!Target(asked[1], asked[2])' = Contract!Target(asked[1], asked[2])
      BY <1>1
         DEF Contract!Target, Contract!Reached, Contract!Absolute, Contract!FromBefore, Fresh
    <3> QED BY <1>1, <3>1, RowsNow
  <2>4. /\ stmt'.start >= 0 /\ stmt'.curr = stmt'.start - 1 + k /\ k <= call'.r
        /\ stmt'.start + k <= server'.n /\ k # 0
        /\ res'.valid /\ stmt'.saved = -1 /\ (res'.kind = "forward" => res'.curs)
    <3>1. k <= call.r /\ stmt.start + k <= server.n /\ stmt.start + Got = stmt.start - 1 + k
      <4>1. Got + 1 <= call.r
        BY SMTT(30)
      <4>2. stmt.start + (Got + 1) <= server.n
        BY SMTT(30)
      <4>3. stmt.start + Got = stmt.start - 1 + (Got + 1)
        BY SMTT(30)
      <4> QED BY <2>1, <4>1, <4>2, <4>3
    <3>2. res'.valid /\ (res'.kind = "forward" => res'.curs) /\ server'.n = server.n
      BY <1>1 DEF Fresh
    <3>3. stmt'.start = stmt.start /\ stmt'.saved = -1 /\ stmt'.curr = stmt.start + Got /\ call'.r = call.r
      BY <1>1, <1>3
    <3> QED BY <2>1, <3>1, <3>2, <3>3
  <2>6. \A i \in 1 .. k : call'.got[i] = stmt'.start + i - 1
    BY <1>1, <1>3, <2>1
  <2>5. ASSUME res'.curs
        PROVE /\ res'.req = call'.r /\ res'.off = 0 /\ ~(res'.off > 0)
              /\ res'.base \in 0 .. Filled' /\ res'.next = res'.base + k /\ res'.next <= Filled'
    BY <1>1, <1>3, <1>4, <2>1, <2>5
  <2> QED BY <2>1, <2>2, <2>3, <2>4, <2>5, <2>6 DEF InRows
<1>6. Between'
  BY <1>3 DEF Between
<1>7. HandedOut'
  BY <1>1, HandedStays DEF Fresh
<1>8. ForwardOnly'
  <2>1. SUFFICES ASSUME res'.kind = "forward" PROVE ForwardOnly'
    BY DEF ForwardOnly
  <2>2. OpenForward'
    BY <1>1, <1>3, <1>4, <2>1 DEF OpenForward, Fresh
  <2> QED BY <1>1, <2>1, <2>2, RowsNow DEF ForwardOnly, Fresh
<1> QED BY <1>4, <1>5, <1>6, <1>7, <1>8 DEF ScrollInv

\* The fetch ends: it has the whole rowset, or the result has no more rows of it.
Over == Complete \/ stmt.start + Got >= server.n \/ server.all \/ server'.dead

\* What it leaves a cursor that only moves forward.
LeavesForward(q, o) == res.kind = "forward" =>
    IF q.curs
    THEN /\ q.eof => o + Len(q.cache) = server.n /\ q.base >= 0
         /\ ~server'.dead => Complete /\ q.base >= 0 /\ q.base + call.r <= Len(q.cache)
    ELSE stmt.start >= server.n \/ stmt.start + call.r >= server.n

LEMMA FinishTells ==
    ASSUME ScrollInv, call.pc = "rows", NEW q, NEW o \in Int, Fresh(q, o),
           NEW s \in Stmt, s.start = stmt.start, s.saved = -1,
           NEW ret \in {"ok", "error"}, Finish(q, s, ret), ret = "error" => server'.dead
    PROVE  /\ stmt' \in Stmt /\ stmt'.start = stmt.start
           /\ stmt'.saved = IF ret = "error" THEN -1 ELSE call.r
           /\ call' \in Call /\ call'.pc = "idle"
           /\ out' \in Out /\ out'.at = stmt.start /\ out'.size = call.r
           /\ out'.rows = (IF ret = "error" THEN <<>> ELSE call.got)
           /\ ret = "ok" => out'.ret = IF out'.rows = <<>> THEN "nodata" ELSE "ok"
           /\ Caches(res', o, server') /\ res'.valid /\ res'.kind = res.kind /\ res'.base = q.base
           /\ res'.curs = q.curs /\ res'.eof = q.eof /\ res'.cache = q.cache
           /\ HandedOut'
<1>0. AtRow
  BY AtRowNow
<1> USE <1>0 DEF AtRow
<1>1. /\ stmt' \in Stmt /\ stmt'.start = stmt.start
      /\ stmt'.saved = IF ret = "error" THEN -1 ELSE call.r
  <2>1. CASE ret = "error"
    BY <2>1 DEF Finish
  <2>2. CASE ret = "ok"
    <3>4. PICK c \in Int, r \in Int : c = s.start /\ r = call.r
      BY DEF Stmt
    <3>1. stmt' = [s EXCEPT !.saved = r, !.curr = c]
      BY <2>2, <3>4 DEF Finish
    <3>2. stmt' \in Stmt /\ stmt'.start = s.start /\ stmt'.saved = call.r
      BY <3>1, <3>4 DEF Stmt
    <3>3. ret # "error"
      BY <2>2
    <3> QED BY <3>2, <3>3
  <2> QED BY <2>1, <2>2
<1>2. call' \in Call /\ call'.pc = "idle"
  BY RowsNow DEF Finish, Call
<1>3. <<>> \in Seq(Nat) /\ (Len(call.got) = 0 <=> call.got = <<>>)
  BY EmptySeq, RowsNow
<1>4. /\ out' \in Out /\ out'.at = stmt.start /\ out'.size = call.r
      /\ out'.rows = (IF ret = "error" THEN <<>> ELSE call.got)
      /\ ret = "ok" => out'.ret = IF out'.rows = <<>> THEN "nodata" ELSE "ok"
  <2>1. out' = [ret |-> IF ret = "error" THEN ret ELSE IF Len(call.got) = 0 THEN "nodata" ELSE "ok",
                rows |-> IF ret = "error" THEN <<>> ELSE call.got,
                size |-> call.r, at |-> s.start]
    BY DEF Finish
  <2>2. CASE ret = "error"
    BY <1>3, <2>1, <2>2 DEF Out
  <2>3. CASE ret = "ok"
    <3>1. call.got \in Seq(Nat)
      BY RowsNow
    <3> QED BY <1>3, <2>1, <2>3, <3>1 DEF Out
  <2> QED BY <2>2, <2>3
<1>5. /\ Caches(res', o, server') /\ res'.valid /\ res'.kind = res.kind /\ res'.base = q.base
      /\ res'.curs = q.curs /\ res'.eof = q.eof /\ res'.cache = q.cache
  <2>1. CASE res' = q
    BY <2>1 DEF Fresh
  <2>2. CASE res' = [q EXCEPT !.tuple = q.base]
    <3>1. q \in Res
      BY DEF Fresh, Caches
    <3>2. /\ res' \in Res /\ res'.kind = q.kind /\ res'.fetchMax = q.fetchMax /\ res'.curs = q.curs
          /\ res'.eof = q.eof /\ res'.valid = q.valid /\ res'.total = q.total
          /\ res'.cursT = q.cursT /\ res'.cache = q.cache /\ res'.base = q.base
          /\ res'.next = q.next /\ res'.req = q.req
      BY <2>2, <3>1 DEF Res
    <3> QED BY <3>2 DEF Fresh, Caches
  <2> QED BY <2>1, <2>2 DEF Finish
<1>6. HandedOut'
  <2>1. PICK p \in Nat : p = stmt.start
    OBVIOUS
  <2>2. PICK k \in 0 .. server.n : out'.rows = Contract!RowsOf(p, k)
    <3>1. CASE ret = "error"
      <4>1. out'.rows \in Seq(Nat) /\ Len(out'.rows) = 0
        BY <1>3, <1>4, <3>1
      <4>3. /\ Len(out'.rows) > 0 => p + Len(out'.rows) <= server.n
            /\ \A i \in 1 .. Len(out'.rows) : out'.rows[i] = p + i - 1
        BY <4>1
      <4>2. Len(out'.rows) \in 0 .. server.n /\ out'.rows = Contract!RowsOf(p, Len(out'.rows))
        BY <4>1, <4>3, RowsGot
      <4> QED BY <4>2
    <3>2. CASE ret = "ok"
      <4>1. /\ Len(call.got) > 0 => p + Len(call.got) <= server.n
            /\ \A i \in 1 .. Len(call.got) : call.got[i] = p + i - 1
        BY <2>1, RowsNow DEF Got
      <4>2. Len(call.got) \in 0 .. server.n /\ call.got = Contract!RowsOf(p, Len(call.got))
        BY <4>1, RowsGot, RowsNow
      <4> QED BY <1>4, <3>2, <4>2
    <3> QED BY <3>1, <3>2
  <2> QED BY <1>4, <2>1, <2>2, HandedNext DEF Fresh
<1> QED BY <1>1, <1>2, <1>4, <1>5, <1>6

LEMMA FinishKeeps ==
    ASSUME ScrollInv, call.pc = "rows", UNCHANGED asked, NEW q, NEW o \in Int, Fresh(q, o),
           NEW s \in Stmt, s.start = stmt.start, s.saved = -1,
           NEW ret \in {"ok", "error"}, Finish(q, s, ret), ret = "error" => server'.dead,
           LeavesForward(q, o), ret = "error" => q.curs
    PROVE  ScrollInv'
<1>0. AtRow
  BY AtRowNow
<1> USE <1>0 DEF AtRow
<1>1. /\ stmt' \in Stmt /\ stmt'.start = stmt.start
      /\ stmt'.saved = IF ret = "error" THEN -1 ELSE call.r
      /\ call' \in Call /\ call'.pc = "idle"
      /\ out' \in Out /\ out'.at = stmt.start /\ out'.size = call.r
      /\ Caches(res', o, server') /\ res'.valid /\ res'.kind = res.kind /\ res'.base = q.base
      /\ res'.curs = q.curs /\ res'.eof = q.eof /\ res'.cache = q.cache
      /\ HandedOut'
  BY FinishTells, Zenon
<1>2. CacheInv' /\ Origin' = o /\ Filled' = Len(q.cache)
  <2>1. o = stmt'.start - res'.base /\ stmt'.start >= -1
    BY <1>1 DEF Fresh
  <2>2. asked' \in (Asks \X Sizes) \cup {<<>>}
    BY RowsNow
  <2> QED BY <1>1, <2>1, <2>2, CachesNext
<1>3. InRows'
  BY <1>1 DEF InRows
<1>4. Between'
  <2>1. stmt'.saved \in {-1} \cup Sizes
    BY <1>1, RowsNow
  <2>2. ASSUME ~server'.dead PROVE stmt'.saved = call.r /\ call.r > 0
    BY <1>1, <2>2
  <2> QED BY <1>1, <2>1, <2>2 DEF Between
<1>5. ForwardOnly'
  <2>1. SUFFICES ASSUME res'.kind = "forward" PROVE ForwardOnly'
    BY DEF ForwardOnly
  <2>2. ~server'.all /\ res.kind = "forward" /\ server'.n = server.n
    BY <1>1, <2>1, RowsNow DEF Fresh
  <2>3. CASE q.curs
    <3>1. ~server'.dead => ret = "ok"
      OBVIOUS
    <3>2. OpenForward'
      BY <1>1, <1>2, <2>2, <2>3, <3>1 DEF OpenForward, LeavesForward
    <3> QED BY <1>1, <2>2, <2>3, <3>2 DEF ForwardOnly
  <2>4. CASE ~q.curs
    <3>1. ClosedForward'
      BY <1>1, <2>2, <2>4 DEF ClosedForward, LeavesForward
    <3> QED BY <1>1, <2>2, <2>4, <3>1 DEF ForwardOnly
  <2> QED BY <2>3, <2>4
<1> QED BY <1>1, <1>2, <1>3, <1>4, <1>5 DEF ScrollInv

-----------------------------------------------------------------------------
(***************************************************************************)
(* What a step of SC_fetch comes to: the next row of the rowset, or its end. *)
(***************************************************************************)
Gets(q, o) ==
    /\ ~Complete /\ server'.dead = server.dead /\ stmt.start + Got < server.n
    /\ GotRow(q, stmt.start + Got)
    /\ q.curs => /\ q.req = call.r /\ q.off = 0 /\ q.base \in 0 .. Len(q.cache)
                 /\ q.next = q.base + (Got + 1) /\ q.next <= Len(q.cache)
    /\ res.kind = "forward" => q.curs /\ (q.eof => o + Len(q.cache) = server.n /\ q.base >= 0)

Ends(q, o) ==
    /\ \E s \in Stmt, ret \in {"ok", "error"} :
         /\ s.start = stmt.start /\ s.saved = -1 /\ Finish(q, s, ret)
         /\ ret = "error" => server'.dead /\ q.curs
    /\ LeavesForward(q, o) /\ Over

Moves == \E q : \E o \in Int : Fresh(q, o) /\ (Gets(q, o) \/ Ends(q, o))

LEMMA MovesKeeps ==
    ASSUME ScrollInv, call.pc = "rows", UNCHANGED asked, Moves
    PROVE  ScrollInv'
<1>1. PICK q : \E o \in Int : Fresh(q, o) /\ (Gets(q, o) \/ Ends(q, o))
  BY DEF Moves
<1>2. PICK o \in Int : Fresh(q, o) /\ (Gets(q, o) \/ Ends(q, o))
  BY <1>1
<1>3. CASE Gets(q, o)
  <2>1. PICK row : row = stmt.start + Got
    OBVIOUS
  <2>2. GotRow(q, row)
    BY <1>3, <2>1 DEF Gets
  <2> QED BY <1>2, <1>3, <2>1, <2>2, GotKeeps DEF Gets
<1>4. CASE Ends(q, o)
  <2>1. PICK s \in Stmt, ret \in {"ok", "error"} :
          /\ s.start = stmt.start /\ s.saved = -1 /\ Finish(q, s, ret)
          /\ ret = "error" => server'.dead /\ q.curs
    BY <1>4 DEF Ends
  <2> QED BY <1>2, <1>4, <2>1, FinishKeeps DEF Ends
<1> QED BY <1>2, <1>3, <1>4

\* The cache as it was, with or without the server having refused something.
LEMMA SameCache ==
    ASSUME ScrollInv, call.pc = "rows", NEW q \in Res, q.next >= 0,
           server' = server \/ server' = [server EXCEPT !.dead = TRUE],
           q.kind = res.kind, q.fetchMax = res.fetchMax, q.curs = res.curs, q.eof = res.eof,
           q.valid = res.valid, q.total = res.total, q.cursT = res.cursT, q.cache = res.cache,
           q.base = res.base, q.req = res.req
    PROVE  Fresh(q, Origin) /\ Origin \in Int
<1>1. Caches(res, Origin, server)
  BY CachesNow DEF ScrollInv
<1>2. res.valid /\ Origin = stmt.start - res.base /\ Origin \in Int
  BY RowsNow
<1>3. /\ server' \in Server /\ server'.n = server.n /\ server'.pos = server.pos
      /\ server'.all = server.all /\ (server.dead => server'.dead)
  BY <1>1 DEF Caches, Server
<1>4. Caches(q, Origin, server')
  BY <1>1, <1>3 DEF Caches
<1> QED BY <1>2, <1>3, <1>4 DEF Fresh

\* A cursor that only moves forward is closed at its end.
LEMMA NoRowEnds ==
    ASSUME ScrollInv, call.pc = "rows", NEW q, NEW o \in Int, Fresh(q, o), NoRow(q), Over,
           res.kind = "forward" => /\ ~q.eof => server'.dead
                                   /\ q.eof => stmt.start >= server.n
                                               \/ stmt.start + call.r >= server.n
    PROVE  Moves
<1>1. stmt \in Stmt /\ stmt.saved = -1
  BY RowsNow
<1>2. CASE q.kind = "forward" /\ q.curs /\ q.eof
  <2>1. PICK t \in Int : t = -1
    OBVIOUS
  <2>2. PICK x : x = [q EXCEPT !.curs = FALSE, !.cursT = t]
    OBVIOUS
  <2>3. Finish(x, stmt, "ok")
    BY <1>2, <2>1, <2>2 DEF NoRow
  <2>4. q \in Res
    BY DEF Fresh, Caches
  <2>5. /\ x \in Res /\ x.kind = q.kind /\ x.fetchMax = q.fetchMax /\ x.curs = FALSE
        /\ x.eof = q.eof /\ x.valid = q.valid /\ x.total = q.total
        /\ x.cache = q.cache /\ x.base = q.base /\ x.next = q.next /\ x.req = q.req
    BY <2>2, <2>4 DEF Res
  <2>6. Fresh(x, o)
    BY <1>2, <2>5 DEF Fresh, Caches
  <2>7. LeavesForward(x, o)
    BY <1>2, <2>5 DEF LeavesForward, Fresh
  <2>8. Ends(x, o)
    BY <1>1, <2>3, <2>7 DEF Ends
  <2> QED BY <2>6, <2>8 DEF Moves
<1>3. CASE ~(q.kind = "forward" /\ q.curs /\ q.eof)
  <2>1. Finish(q, stmt, "ok")
    BY <1>3 DEF NoRow
  <2>2. LeavesForward(q, o)
    <3>1. SUFFICES ASSUME res.kind = "forward" PROVE LeavesForward(q, o)
      BY DEF LeavesForward
    <3>2. CASE q.curs
      BY <1>3, <3>1, <3>2 DEF LeavesForward, Fresh
    <3>3. CASE ~q.curs
      <4>1. q.eof
        BY <3>3 DEF Fresh, Caches
      <4> QED BY <3>1, <3>3, <4>1 DEF LeavesForward
    <3> QED BY <3>2, <3>3
  <2>3. Ends(q, o)
    BY <1>1, <2>1, <2>2 DEF Ends
  <2> QED BY <2>3 DEF Moves
<1> QED BY <1>2, <1>3

-----------------------------------------------------------------------------
(***************************************************************************)
(* The steps that ask the server for nothing.                              *)
(***************************************************************************)
LEMMA CacheHas ==
    ASSUME ScrollInv, NEW i \in Int, i >= 0, i < Filled
    PROVE  CacheRow(res, i) = Origin + i /\ Origin + i < server.n
<1>1. Caches(res, Origin, server) /\ Filled = Len(res.cache)
  BY CachesNow DEF ScrollInv, Filled
<1>2. res.cache \in Seq(Nat) /\ Origin \in Int /\ server.n \in Nat
  BY <1>1 DEF Caches, Res, Server
<1>3. DOMAIN res.cache = 1 .. Filled /\ Filled \in Nat
  BY <1>1, <1>2, LenProperties
<1>4. PICK j \in Int : j = i + 1
  OBVIOUS
<1>5. j \in 1 .. Filled
  BY <1>3, <1>4
<1>6. CacheRow(res, i) = res.cache[j]
  BY <1>3, <1>4, <1>5 DEF CacheRow
<1>7. res.cache[j] = Origin + j - 1 /\ Origin + Filled <= server.n
  BY <1>1, <1>3, <1>5 DEF Caches
<1> QED BY <1>2, <1>3, <1>4, <1>5, <1>6, <1>7

LEMMA FetchWholeMoves == ASSUME ScrollInv, FetchWhole PROVE Moves /\ UNCHANGED asked
<1>1. call.pc = "rows" /\ ~Complete /\ ~res.curs /\ UNCHANGED <<server, asked>>
  BY DEF FetchWhole
<1>2. AtRow /\ res.kind = "whole" /\ res \in Res
  BY <1>1, AtRowNow, RowsNow, Between1 DEF Bounds
<1>3. Fresh(res, Origin) /\ Origin \in Int
  <2>1. res.next >= 0
    BY DEF ScrollInv, CacheInv, Cached
  <2> QED BY <1>1, <1>2, <2>1, SameCache
<1>4. TotalTuples(res) = server.n /\ Origin = 0 /\ Filled = server.n
  BY <1>1, <1>2 DEF ScrollInv, CacheInv, Ended, TotalTuples
<1>5. CASE stmt.curr >= TotalTuples(res) - 1
  <2>1. PICK c \in Int : c = TotalTuples(res)
    BY <1>2, <1>4 DEF AtRow
  <2>2. PICK s : s = [stmt EXCEPT !.curr = c]
    OBVIOUS
  <2>3. Finish(res, s, "ok")
    BY <1>5, <2>1, <2>2 DEF FetchWhole
  <2>4. s \in Stmt /\ s.start = stmt.start /\ s.saved = -1
    BY <1>1, <2>2, RowsNow DEF Stmt
  <2>5. stmt.start + Got >= server.n
    BY <1>2, <1>4, <1>5 DEF AtRow
  <2>6. LeavesForward(res, Origin) /\ Over
    BY <1>2, <2>5 DEF LeavesForward, Over
  <2>7. Ends(res, Origin)
    BY <2>3, <2>4, <2>6 DEF Ends
  <2> QED BY <1>1, <1>3, <2>7 DEF Moves
<1>6. CASE ~(stmt.curr >= TotalTuples(res) - 1)
  <2>1. stmt.start + Got < server.n /\ stmt.curr + 1 = stmt.start + Got
    BY <1>2, <1>4, <1>6 DEF AtRow
  <2>2. /\ res.valid /\ Origin = stmt.start - res.base /\ res.base \in Int
        /\ Filled = Len(res.cache)
    BY <1>1, RowsNow
  <2>3. CacheIdx(res, stmt, stmt.curr + 1) = stmt.start + Got
    BY <1>2, <1>4, <2>1, <2>2 DEF CacheIdx, AtRow
  <2>4. CacheRow(res, stmt.start + Got) = stmt.start + Got
    <3>1. PICK i \in Int : i = stmt.start + Got /\ i >= 0 /\ i < Filled
      BY <1>2, <1>4, <2>1 DEF AtRow
    <3>2. CacheRow(res, i) = Origin + i
      BY <3>1, CacheHas
    <3> QED BY <1>2, <1>4, <3>1, <3>2 DEF AtRow
  <2>5. GotRow(res, stmt.start + Got)
    BY <1>6, <2>3, <2>4 DEF FetchWhole
  <2>6. Gets(res, Origin)
    BY <1>1, <1>2, <2>1, <2>5 DEF Gets
  <2> QED BY <1>1, <1>3, <2>6 DEF Moves
<1> QED BY <1>5, <1>6

LEMMA FetchCachedMoves == ASSUME ScrollInv, FetchCached PROVE Moves /\ UNCHANGED asked
<1>1. /\ call.pc = "rows" /\ ~Complete /\ res.curs /\ UNCHANGED <<server, asked>>
      /\ res.off = 0 /\ res.next < Len(res.cache)
  BY DEF FetchCached
<1>2. AtRow /\ res \in Res /\ Filled \in Nat /\ Filled = Len(res.cache) /\ res.next >= 0
  BY <1>1, AtRowNow, RowsNow, Between1 DEF Bounds, ScrollInv, CacheInv, Cached
<1>3. res.base \in 0 .. Filled /\ res.next = res.base + Got /\ res.req = call.r
  <2>1. res.next \in Int
    BY <1>2 DEF Res
  <2> QED BY <1>1, <1>2, <2>1, RowsCurs
<1>4. PICK b \in Int, x \in Int : b = res.next /\ x = res.next + 1
  BY <1>2 DEF Res
<1>5. PICK q : q = [res EXCEPT !.tuple = b, !.next = x]
  OBVIOUS
<1>6. /\ q \in Res /\ q.kind = res.kind /\ q.fetchMax = res.fetchMax /\ q.curs = res.curs
      /\ q.eof = res.eof /\ q.valid = res.valid /\ q.total = res.total /\ q.cursT = res.cursT
      /\ q.cache = res.cache /\ q.base = res.base /\ q.next = x /\ q.req = res.req
      /\ q.off = res.off
  BY <1>2, <1>5 DEF Res
<1>7. Fresh(q, Origin) /\ Origin \in Int
  <2>1. q.next >= 0 /\ server' = server
    BY <1>1, <1>2, <1>4, <1>6
  <2> QED BY <1>1, <1>6, <2>1, SameCache
<1>8. Origin = stmt.start - res.base
  BY <1>1, RowsNow
<1>9. stmt.start + Got < server.n /\ CacheRow(res, res.next) = stmt.start + Got
  <2>1. CacheRow(res, b) = Origin + b /\ Origin + b < server.n
    BY <1>1, <1>2, <1>4, CacheHas
  <2>2. Origin + b = stmt.start + Got
    <3>1. PICK y \in Int : y = res.base
      BY <1>3
    <3>2. Origin = stmt.start - y /\ b = y + Got
      BY <1>3, <1>4, <1>8, <3>1
    <3> QED BY <1>2, <3>2 DEF AtRow
  <2> QED BY <1>4, <2>1, <2>2
<1>10. GotRow(q, stmt.start + Got)
  <2>1. q = [res EXCEPT !.tuple = res.next, !.next = @ + 1]
    BY <1>4, <1>5
  <2> QED BY <1>9, <2>1, Zenon DEF FetchCached
<1>11. /\ q.req = call.r /\ q.off = 0 /\ q.base \in 0 .. Len(q.cache)
       /\ q.next = q.base + (Got + 1) /\ q.next <= Len(q.cache)
  BY <1>1, <1>2, <1>3, <1>4, <1>6 DEF AtRow
<1>12. res.kind = "forward" => q.curs /\ (q.eof => Origin + Len(q.cache) = server.n /\ q.base >= 0)
  BY <1>1, <1>2, <1>6, RowsNow DEF OpenForward
<1>13. Gets(q, Origin)
  BY <1>1, <1>9, <1>10, <1>11, <1>12 DEF Gets
<1> QED BY <1>1, <1>7, <1>13 DEF Moves

LEMMA FetchAtEndMoves == ASSUME ScrollInv, FetchAtEnd PROVE Moves /\ UNCHANGED asked
<1>1. /\ call.pc = "rows" /\ ~Complete /\ res.curs /\ UNCHANGED <<server, asked>>
      /\ res.off = 0 /\ res.eof /\ stmt.curr + 1 >= TotalTuples(res)
  BY DEF FetchAtEnd, Misses, AtEnd
<1>2. AtRow /\ res \in Res /\ res.next >= 0 /\ TotalTuples(res) = server.n
  BY <1>1, AtRowNow, Between1 DEF Bounds, ScrollInv, CacheInv, Cached, TotalTuples
<1>3. PICK t \in Int : t = -1
  OBVIOUS
<1>4. PICK q : q = [res EXCEPT !.tuple = t]
  OBVIOUS
<1>5. /\ q \in Res /\ q.kind = res.kind /\ q.fetchMax = res.fetchMax /\ q.curs = res.curs
      /\ q.eof = res.eof /\ q.valid = res.valid /\ q.total = res.total /\ q.cursT = res.cursT
      /\ q.cache = res.cache /\ q.base = res.base /\ q.next = res.next /\ q.req = res.req
  BY <1>2, <1>4 DEF Res
<1>6. Fresh(q, Origin) /\ Origin \in Int
  BY <1>1, <1>2, <1>5, SameCache
<1>7. stmt.start + Got >= server.n /\ stmt.start + call.r >= server.n
  BY <1>1, <1>2 DEF AtRow
<1>8. NoRow(q) /\ Over
  BY <1>3, <1>4, <1>7 DEF FetchAtEnd, Over
<1>9. PICK o \in Int : o = Origin
  BY <1>6
<1>10. Fresh(q, o) /\ q.eof
  BY <1>1, <1>5, <1>6, <1>9
<1> QED BY <1>1, <1>7, <1>8, <1>10, NoRowEnds

LEMMA DoneMoves == ASSUME ScrollInv, Done PROVE Moves /\ UNCHANGED asked
<1>1. call.pc = "rows" /\ Complete /\ Finish(res, stmt, "ok") /\ UNCHANGED <<server, asked>>
  BY DEF Done
<1>2. AtRow /\ res \in Res /\ res.next >= 0
  BY <1>1, AtRowNow, Between1 DEF Bounds, ScrollInv, CacheInv, Cached
<1>3. Fresh(res, Origin) /\ Origin \in Int
  BY <1>1, <1>2, SameCache
<1>4. LeavesForward(res, Origin)
  <2>1. SUFFICES ASSUME res.kind = "forward" PROVE LeavesForward(res, Origin)
    BY DEF LeavesForward
  <2>2. res.curs /\ OpenForward /\ Filled = Len(res.cache) /\ Filled \in Nat /\ res.base \in Int
    BY <1>1, <2>1, RowsNow
  <2>3. ~server'.dead => res.base >= 0 /\ res.base + call.r <= Len(res.cache)
    <3>1. SUFFICES ASSUME ~server.dead PROVE res.base >= 0 /\ res.base + call.r <= Len(res.cache)
      BY <1>1
    <3>2. res.off = 0 /\ Got = call.r
      BY <1>1, <1>2, <2>2, <3>1 DEF OpenForward, AtRow
    <3>3. res.base \in 0 .. Filled /\ res.next = res.base + Got /\ res.next <= Filled
      BY <1>1, <2>2, <3>1, <3>2, RowsCurs
    <3> QED BY <1>2, <2>2, <3>2, <3>3 DEF AtRow
  <2> QED BY <1>1, <2>1, <2>2, <2>3 DEF LeavesForward, OpenForward
<1>5. stmt \in Stmt /\ stmt.saved = -1
  BY <1>1, RowsNow
<1>6. Ends(res, Origin)
  BY <1>1, <1>4, <1>5 DEF Ends, Over
<1> QED BY <1>1, <1>3, <1>6 DEF Moves

-----------------------------------------------------------------------------
(***************************************************************************)
(* A new cache.                                                            *)
(***************************************************************************)
AreFetched(rows, n, p, k) ==
    /\ rows \in Seq(Nat) /\ Len(rows) = Yield(n, p, k) /\ Len(rows) \in Nat
    /\ DOMAIN rows = 1 .. Len(rows)
    /\ \A i \in 1 .. Len(rows) : rows[i] = p + i - 1

LEMMA FetchedAre ==
    ASSUME NEW n \in Nat, NEW p \in Nat, NEW k \in Nat, NEW rows, rows = Fetched(n, p, k)
    PROVE  AreFetched(rows, n, p, k)
<1>1. /\ Fetched(n, p, k) \in Seq(Nat)
      /\ Len(Fetched(n, p, k)) = Yield(n, p, k)
      /\ \A i \in 1 .. Len(Fetched(n, p, k)) : Fetched(n, p, k)[i] = p + i - 1
  BY FetchedRows
<1>2. /\ rows \in Seq(Nat) /\ Len(rows) = Yield(n, p, k)
      /\ \A i \in 1 .. Len(rows) : rows[i] = p + i - 1
  BY <1>1, Zenon
<1> QED BY <1>2, LenProperties DEF AreFetched

\* What QR_next_tuple reads into a new cache from position pos on, for the rowset
\* that begins at offset in it.
Refilled(x, q, n, pos, offset, k) ==
    /\ x.q \in Res /\ x.q.total <= n /\ (x.q.eof => x.q.total = n)
    /\ x.q.eof <=> q.eof \/ pos + k > n
    /\ x.q.cursT = x.pos - 1 /\ x.pos = Min2(pos + k, n + 1)
    /\ Len(x.q.cache) = Yield(n, pos, k) /\ Len(x.q.cache) \in Nat
    /\ \A i \in 1 .. Len(x.q.cache) : x.q.cache[i] = pos + i - 1
    /\ x.q.base = offset /\ x.q.next = offset + 1 /\ x.q.off = 0
    /\ x.q.kind = q.kind /\ x.q.fetchMax = q.fetchMax /\ x.q.curs = q.curs
    /\ x.q.valid = q.valid /\ x.q.req = q.req
    /\ x.got <=> offset < Len(x.q.cache)
    /\ x.got => x.row = pos + offset

LEMMA RefillTells ==
    ASSUME NEW q \in Res, NEW n \in Nat, n = server.n, NEW pos \in Nat, pos <= n + 1,
           NEW offset \in Nat, NEW k \in Nat, k = Size(q), k >= 1,
           NEW x, x = Refill(q, offset, pos),
           q.cursT = pos - 1, q.total <= n, q.eof => q.total = n, pos = n + 1 => q.eof
    PROVE  Refilled(x, q, n, pos, offset, k)
<1>1. PICK rows : rows = Fetched(n, pos, k)
  OBVIOUS
<1>2. /\ rows \in Seq(Nat) /\ Len(rows) = Yield(n, pos, k) /\ Len(rows) \in Nat
      /\ DOMAIN rows = 1 .. Len(rows)
      /\ \A i \in 1 .. Len(rows) : rows[i] = pos + i - 1
  <2>1. AreFetched(rows, n, pos, k)
    BY <1>1, FetchedAre
  <2> QED BY <2>1, Zenon DEF AreFetched
<1>3. PICK next \in Int : next = offset + 1
  OBVIOUS
<1>16. PICK z \in Nat : z = 0
  OBVIOUS
<1>17. PICK e : e = <<>>
  OBVIOUS
<1>4. PICK c : c = [q EXCEPT !.cache = <<>>, !.base = offset, !.next = offset + 1,
                             !.move = "none", !.off = 0]
  OBVIOUS
<1>5. /\ c \in Res /\ c.cache = <<>> /\ c.base = offset /\ c.next = next /\ c.off = z
      /\ c.kind = q.kind /\ c.fetchMax = q.fetchMax /\ c.curs = q.curs
      /\ c.valid = q.valid /\ c.req = q.req /\ c.eof = q.eof /\ c.total = q.total
      /\ c.cursT = q.cursT
  <2>1. <<>> \in Seq(Nat) /\ offset \in Int
    BY EmptySeq
  <2>2. c = [q EXCEPT !.cache = e, !.base = offset, !.next = next, !.move = "none", !.off = z]
    BY <1>3, <1>4, <1>16, <1>17, Zenon
  <2> QED BY <1>17, <2>1, <2>2 DEF Res
<1>6. PICK p : p = ReadTuples(c, rows, k)
  OBVIOUS
<1>7. Reads(p, c, n, pos, k)
  <2>1. /\ pos \in 0 .. n + 1 /\ c.cursT = pos - 1 /\ c.total <= n
        /\ c.eof => c.total = n
        /\ pos = n + 1 => c.eof
    BY <1>5
  <2> QED BY <1>1, <1>5, <1>6, <2>1, ReadTuplesKeeps
<1>8. p.cache = rows
  <2>1. p.cache = c.cache \o rows
    BY <1>1, <1>7 DEF Reads
  <2> QED BY <1>2, <1>5, <2>1, ConcatEmptySeq
<1>9. PICK t \in Int : t = IF offset < Len(rows) THEN offset ELSE -1
  <2>1. offset \in Int /\ -1 \in Int
    OBVIOUS
  <2> QED BY <2>1
<1>10. PICK y : y = [p EXCEPT !.tuple = t]
  OBVIOUS
<1>11. x = [q |-> y, got |-> offset < Len(rows), row |-> CacheRow(p, offset),
            pos |-> Min2(pos + k, n + 1)]
  BY <1>1, <1>4, <1>6, <1>9, <1>10, Zenon DEF Refill
<1>12. /\ y \in Res /\ y.cache = rows /\ y.total = p.total /\ y.eof = p.eof /\ y.cursT = p.cursT
       /\ y.kind = p.kind /\ y.fetchMax = p.fetchMax /\ y.curs = p.curs /\ y.valid = p.valid
       /\ y.base = p.base /\ y.next = p.next /\ y.req = p.req /\ y.off = p.off
  <2>1. p \in Res
    BY <1>7 DEF Reads
  <2> QED BY <1>8, <1>10, <2>1 DEF Res
<1>13. ASSUME offset < Len(rows) PROVE CacheRow(p, offset) = pos + offset
  <2>1. PICK i \in Int : i = offset + 1
    OBVIOUS
  <2>2. i \in 1 .. Len(rows)
    BY <1>2, <1>13, <2>1
  <2>3. CacheRow(p, offset) = rows[i]
    BY <1>2, <1>8, <2>1, <2>2 DEF CacheRow
  <2> QED BY <1>2, <2>1, <2>2, <2>3
<1>14. /\ x.q = y /\ (x.got <=> offset < Len(rows)) /\ x.row = CacheRow(p, offset)
       /\ x.pos = Min2(pos + k, n + 1)
  <2>1. x.q = y /\ x.row = CacheRow(p, offset) /\ x.pos = Min2(pos + k, n + 1)
    BY <1>11
  <2>2. x.got = (offset < Len(rows))
    BY <1>11
  <2> QED BY <2>1, <2>2, Zenon
<1>15. /\ p.total <= n /\ (p.eof => p.total = n) /\ (p.eof <=> q.eof \/ pos + k > n)
       /\ p.cursT = Min2(pos + k, n + 1) - 1
       /\ p.kind = q.kind /\ p.fetchMax = q.fetchMax /\ p.curs = q.curs /\ p.valid = q.valid
       /\ p.base = offset /\ p.next = next /\ p.req = q.req /\ p.off = z
  BY <1>5, <1>7 DEF Reads
<1>18. /\ y.total <= n /\ (y.eof => y.total = n) /\ (y.eof <=> q.eof \/ pos + k > n)
       /\ y.cursT = x.pos - 1 /\ y.base = offset /\ y.next = offset + 1 /\ y.off = 0
       /\ y.kind = q.kind /\ y.fetchMax = q.fetchMax /\ y.curs = q.curs
       /\ y.valid = q.valid /\ y.req = q.req
  BY <1>3, <1>12, <1>14, <1>15, <1>16, Zenon
<1> QED BY <1>2, <1>12, <1>13, <1>14, <1>18, Zenon DEF Refilled

\* How many rows those are, and where the rowset begins in them.
FillPlace(n, pos, offset, start, len, end, eof, all) ==
    /\ len > 0 => pos + len <= n
    /\ \/ end = pos + len /\ end <= n
       \/ end = n + 1 /\ eof /\ (pos + len = n \/ pos >= n)
    /\ offset >= len => eof /\ (start >= n \/ all)
    /\ pos + offset = start \/ (all /\ end = n + 1)
    /\ len > 0 => pos + offset = start

LEMMA FillPlaces ==
    ASSUME NEW n \in Nat, NEW pos \in Nat, pos <= n + 1, NEW offset \in Nat, NEW k \in Nat,
           k >= 1, NEW start \in Nat, NEW all \in BOOLEAN, NEW eof \in BOOLEAN, NEW len \in Nat, len = Yield(n, pos, k),
           NEW end, end = Min2(pos + k, n + 1), pos + k > n => eof,
           \/ pos + offset = start /\ (offset < k \/ pos = n + 1)
           \/ pos = n + 1 /\ all
    PROVE  FillPlace(n, pos, offset, start, len, end, eof, all)
<1>1. CASE pos + k <= n
  BY <1>1 DEF Yield, Min2, FillPlace
<1>2. CASE pos + k > n /\ pos < n
  BY <1>2 DEF Yield, Min2, FillPlace
<1>3. CASE pos >= n
  BY <1>3 DEF Yield, Min2, FillPlace
<1> QED BY <1>1, <1>2, <1>3

\* A rowset that begins in it, or none where the result has ended.
LEMMA RefillMoves ==
    ASSUME ScrollInv, call.pc = "rows", ~Complete, Got = 0, ~server.dead,
           NEW q \in Res, NEW pos \in Nat, pos <= server.n + 1, NEW offset \in Nat,
           q.cursT = pos - 1, q.total <= server.n, q.eof => q.total = server.n,
           pos = server.n + 1 => q.eof, q.curs, q.valid, q.kind = res.kind,
           q.req = call.r, q.fetchMax = res.fetchMax, res.curs,
           \/ pos + offset = stmt.start /\ (offset < Size(q) \/ pos = server.n + 1)
           \/ pos = server.n + 1 /\ server.all,
           res.kind = "forward" => ~q.eof,
           Answered(Refill(q, offset, pos))
    PROVE  Moves
<1>1. AtRow
  BY AtRowNow
<1>2. PICK k \in Nat : k = Size(q) /\ k >= call.r
  <2>1. q.req \in Nat /\ q.fetchMax \in Nat
    BY DEF Res
  <2>2. Size(q) \in Nat /\ Size(q) >= q.req
    BY <2>1 DEF Size
  <2> QED BY <2>2
<1>3. k >= 1 /\ server.n \in Nat
  BY <1>1, <1>2 DEF AtRow
<1>4. PICK x : x = Refill(q, offset, pos)
  OBVIOUS
<1>15. PICK n \in Nat : n = server.n
  BY <1>3
<1>5. Refilled(x, q, n, pos, offset, k)
  BY <1>2, <1>3, <1>4, <1>15, RefillTells
<1>6. server \in Server /\ x.pos \in Nat /\ x.pos <= server.n + 1
  <2>1. x.pos \in Nat /\ x.pos <= server.n + 1
    BY <1>5, <1>15 DEF Min2, Refilled
  <2> QED BY <2>1 DEF ScrollInv, CacheInv, TypeOK
<1>7. /\ server' \in Server /\ server'.n = server.n /\ server'.pos = x.pos
      /\ server'.all = server.all /\ server'.dead = server.dead
  <2>1. server' = [server EXCEPT !.pos = x.pos]
    BY <1>4 DEF Answered
  <2> QED BY <1>6, <2>1 DEF Server
<1>8. PICK len \in Nat : len = Len(x.q.cache)
  BY <1>5 DEF Refilled
<1>9. FillPlace(n, pos, offset, stmt.start, len, x.pos, x.q.eof, server.all)
  <2>1. /\ len = Yield(n, pos, k) /\ x.pos = Min2(pos + k, n + 1)
        /\ pos + k > n => x.q.eof
    BY <1>5, <1>8 DEF Refilled
  <2>2. stmt.start \in Nat
    BY <1>1 DEF AtRow
  <2>3. \/ pos + offset = stmt.start /\ (offset < k \/ pos = n + 1)
        \/ pos = n + 1 /\ server.all
    BY <1>2, <1>15
  <2>4. server.all \in BOOLEAN /\ x.q.eof \in BOOLEAN
    BY <1>5 DEF Refilled, Res, ScrollInv, CacheInv, TypeOK, Server
  <2>5. PICK all \in BOOLEAN : all = server.all
    BY <2>4
  <2>6. PICK eof \in BOOLEAN : eof = x.q.eof
    BY <2>4
  <2>7. PICK start \in Nat : start = stmt.start
    BY <2>2
  <2>8. PICK end : end = x.pos
    OBVIOUS
  <2>9. FillPlace(n, pos, offset, start, len, end, eof, all)
    <3>1. /\ len = Yield(n, pos, k) /\ end = Min2(pos + k, n + 1) /\ (pos + k > n => eof)
          /\ pos <= n + 1 /\ k >= 1
          /\ \/ pos + offset = start /\ (offset < k \/ pos = n + 1)
             \/ pos = n + 1 /\ all
      BY <1>3, <1>15, <2>1, <2>3, <2>5, <2>6, <2>7, <2>8
    <3> QED BY <3>1, FillPlaces
  <2> QED BY <2>5, <2>6, <2>7, <2>8, <2>9, Zenon
<1>10. PICK o \in Int : o = stmt.start - offset
  BY <1>1 DEF AtRow
<1>16. stmt.start \in Nat /\ Got = 0 /\ (len > 0 => o = pos)
  BY <1>1, <1>9, <1>10 DEF AtRow, FillPlace
<1>11. Caches(x.q, o, server')
  <2>1. \A i \in 1 .. len : x.q.cache[i] = o + i - 1
    BY <1>5, <1>8, <1>16 DEF Refilled
  <2>2. len > 0 => o >= 0 /\ o + len <= n
    BY <1>9, <1>15, <1>16 DEF FillPlace
  <2>3. \/ x.pos = o + len
        \/ x.pos = n + 1 /\ (server.all \/ o + len >= n)
    <3>1. CASE len > 0
      BY <1>3, <1>9, <1>15, <1>16, <3>1 DEF FillPlace
    <3>2. CASE len = 0
      <4>1. o = pos \/ (server.all /\ x.pos = n + 1)
        BY <1>1, <1>9, <1>10 DEF FillPlace, AtRow
      <4>2. \/ x.pos = pos + len
            \/ x.pos = n + 1 /\ (pos + len = n \/ pos >= n)
        BY <1>9 DEF FillPlace
      <4> QED BY <1>15, <3>2, <4>1, <4>2
    <3> QED BY <3>1, <3>2
  <2>4. /\ x.q.next >= 0 /\ x.q.req >= 1 /\ x.q.fetchMax >= 1
        /\ x.pos = n + 1 => x.q.eof
    <3>1. res.fetchMax >= 1 /\ call.r >= 1
      BY <1>1 DEF ScrollInv, CacheInv, Cached, AtRow
    <3>2. x.pos = n + 1 => x.q.eof
      BY <1>9 DEF FillPlace
    <3> QED BY <3>1, <3>2, <1>5 DEF Refilled
  <2>5. x.q.kind # "whole" /\ x.q.curs
    BY <1>5, Between1 DEF Refilled
  <2>6. /\ x.q \in Res /\ x.q.total <= n /\ (x.q.eof => x.q.total = n) /\ x.q.cursT = x.pos - 1
    BY <1>5 DEF Refilled
  <2> QED BY <1>6, <1>7, <1>8, <1>15, <2>1, <2>2, <2>3, <2>4, <2>5, <2>6 DEF Caches
<1>12. Fresh(x.q, o)
  BY <1>1, <1>5, <1>7, <1>10, <1>11 DEF Fresh, AtRow, Refilled
<1>13. CASE x.got
  <2>1. pos + offset = stmt.start /\ stmt.start < n /\ offset < len
    BY <1>3, <1>5, <1>8, <1>9, <1>13, <1>15 DEF FillPlace, Refilled
  <2>2. PICK row : row = stmt.start + Got
    OBVIOUS
  <2>3. row = pos + offset /\ row < n
    BY <1>16, <2>1, <2>2
  <2>4. GotRow(x.q, stmt.start + Got)
    BY <1>4, <1>5, <1>13, <2>2, <2>3 DEF Answered, Refilled
  <2>5. /\ x.q.req = call.r /\ x.q.off = 0 /\ x.q.base \in 0 .. len
        /\ x.q.next = x.q.base + (Got + 1) /\ x.q.next <= len
    BY <1>5, <1>8, <1>16, <2>1 DEF Refilled
  <2>6. res.kind = "forward" => (x.q.eof => o + len = n /\ x.q.base >= 0)
    <3>1. SUFFICES ASSUME res.kind = "forward", x.q.eof PROVE o + len = n
      BY <1>5 DEF Refilled
    <3>2. pos + k > n
      BY <1>5, <3>1 DEF Refilled
    <3>3. len = Yield(n, pos, k) /\ o = pos
      BY <1>5, <1>8, <1>16, <2>1 DEF Refilled
    <3> QED BY <2>1, <3>2, <3>3 DEF Yield, Min2
  <2>7. Gets(x.q, o)
    BY <1>5, <1>7, <1>8, <1>15, <2>2, <2>3, <2>4, <2>5, <2>6 DEF Gets, Refilled
  <2> QED BY <1>12, <2>7 DEF Moves
<1>14. CASE ~x.got
  <2>1. NoRow(x.q)
    BY <1>4, <1>14 DEF Answered
  <2>2. offset >= len
    BY <1>5, <1>8, <1>14 DEF Refilled
  <2>3. x.q.eof /\ (stmt.start >= n \/ server.all)
    BY <1>9, <2>2 DEF FillPlace
  <2>4. Over
    BY <1>15, <1>16, <2>3 DEF Over
  <2>5. res.kind = "forward" => ~server.all
    BY RowsNow
  <2> QED BY <1>12, <1>15, <2>1, <2>3, <2>4, <2>5, NoRowEnds
<1> QED BY <1>13, <1>14

LEMMA FetchNewMoves == ASSUME ScrollInv, FetchNew PROVE Moves /\ UNCHANGED asked
<1>1. /\ call.pc = "rows" /\ ~Complete /\ res.curs /\ res.off = 0 /\ ~AtEnd /\ ~server.dead
      /\ res.base >= Len(res.cache) /\ UNCHANGED asked
      /\ Answered(Refill(res, 0, server.pos))
  BY DEF FetchNew, Misses
<1>2. AtRow
  BY <1>1, AtRowNow
<1>3. /\ res \in Res /\ server.pos \in Nat /\ server.pos <= server.n + 1
      /\ res.total <= server.n /\ res.cursT = server.pos - 1
      /\ server.pos = server.n + 1 => res.eof
      /\ res.eof => res.total = server.n
  BY <1>1 DEF ScrollInv, CacheInv, TypeOK, Synced, Ended, Server
<1>4. /\ res.valid /\ Filled \in Nat /\ Filled = Len(res.cache) /\ res.base \in Int
      /\ Origin = stmt.start - res.base
      /\ res.kind = "forward" => OpenForward
  BY <1>1, RowsNow
<1>5. res.req = call.r /\ Got = 0 /\ res.base = Filled
  <2>1. res.next \in Int
    BY <1>3 DEF Res
  <2>2. res.base \in 0 .. Filled /\ res.next = res.base + Got
    BY <1>1, RowsCurs
  <2>3. res.next >= Filled
    BY <1>1, <1>4 DEF FetchNew, Misses
  <2>4. res.next <= Filled /\ res.req = call.r
    BY <1>1, RowsCurs
  <2> QED BY <1>1, <1>2, <1>4, <2>1, <2>2, <2>3, <2>4 DEF AtRow
<1>6. res.eof => stmt.start < server.n
  <2>1. res.eof => stmt.curr + 1 < server.n
    <3>1. SUFFICES ASSUME res.eof PROVE stmt.curr + 1 < server.n
      OBVIOUS
    <3>2. ~(stmt.curr + 1 >= res.total)
      BY <1>1, <3>1 DEF AtEnd, TotalTuples
    <3> QED BY <1>2, <1>3, <3>1, <3>2 DEF AtRow
  <2> QED BY <1>2, <1>5, <2>1 DEF AtRow
<1>7. Origin + Filled = stmt.start
  <2>1. PICK b \in Int : b = res.base
    BY <1>4
  <2> QED BY <1>2, <1>4, <1>5, <2>1 DEF AtRow
<1>8. server.pos = stmt.start \/ (server.pos = server.n + 1 /\ server.all)
  <2>1. \/ server.pos = Origin + Filled
        \/ server.pos = server.n + 1 /\ (server.all \/ Origin + Filled >= server.n)
    BY <1>1 DEF ScrollInv, CacheInv, Synced
  <2> QED BY <1>2, <1>3, <1>6, <1>7, <2>1 DEF AtRow
<1>9. res.kind = "forward" => ~res.eof
  <2>1. SUFFICES ASSUME res.kind = "forward", res.eof PROVE FALSE
    OBVIOUS
  <2>2. Origin + Filled = server.n
    BY <1>4, <2>1 DEF OpenForward
  <2>3. stmt.start < server.n
    BY <1>6, <2>1
  <2> QED BY <1>2, <1>7, <2>2, <2>3 DEF AtRow
<1>10. PICK z \in Nat : z = 0
  OBVIOUS
<1>11. Size(res) >= 1
  <2>1. res.req \in Nat /\ res.fetchMax \in Nat
    BY <1>3 DEF Res
  <2> QED BY <1>2, <1>5, <2>1 DEF Size, AtRow
<1>12. PICK pos \in Nat : pos = server.pos
  BY <1>3
<1>13. Answered(Refill(res, z, pos))
  BY <1>1, <1>10, <1>12
<1>14. \/ pos + z = stmt.start /\ (z < Size(res) \/ pos = server.n + 1)
       \/ pos = server.n + 1 /\ server.all
  <2>1. z < Size(res)
    <3>1. Size(res) \in Nat
      BY <1>3 DEF Size, Res
    <3> QED BY <1>10, <1>11, <3>1
  <2>2. pos + z = pos
    BY <1>10
  <2> QED BY <1>8, <1>12, <2>1, <2>2
<1>15. /\ pos <= server.n + 1 /\ res.cursT = pos - 1 /\ (pos = server.n + 1 => res.eof)
  BY <1>3, <1>12
<1> QED BY <1>1, <1>3, <1>4, <1>5, <1>9, <1>13, <1>14, <1>15, RefillMoves

-----------------------------------------------------------------------------
(***************************************************************************)
(* A MOVE in front of the FETCH.                                           *)
(***************************************************************************)
\* The MOVE leads to the rowset, or as near to it as the result goes.
LeadsTo(m, q, n, start) ==
    /\ m.q \in Res /\ m.pos \in Nat /\ m.pos <= n + 1 /\ m.offset \in Nat
    /\ m.q.cursT = m.pos - 1 /\ m.q.total <= n /\ (m.q.eof => m.q.total = n)
    /\ m.pos = n + 1 => m.q.eof
    /\ m.pos + m.offset = start /\ (m.offset < Size(q) \/ m.pos = n + 1)
    /\ m.q.kind = q.kind /\ m.q.fetchMax = q.fetchMax /\ m.q.curs = q.curs
    /\ m.q.valid = q.valid /\ m.q.req = q.req

\* How far it goes.
MoveOf(q, pos, start) == \/ q.move = "forward" /\ q.off = start - pos
                         \/ q.move = "backward" /\ q.off = pos - start

LEMMA MovedTo ==
    ASSUME NEW q \in Res, NEW n \in Nat, n = server.n, NEW pos \in Nat, pos = server.pos,
           pos <= n + 1, q.cursT = pos - 1, q.total <= n, q.eof => q.total = n,
           pos = n + 1 => q.eof, NEW start \in Nat, q.off > 0, q.eof => start < n \/ start = 0,
           MoveOf(q, pos, start), q.req >= 1, NEW m, m = Moved(q)
    PROVE  LeadsTo(m, q, n, start)
<1>1. /\ q.off \in Nat /\ q.req \in Nat /\ q.fetchMax \in Nat /\ q.total \in Nat
      /\ Size(q) \in Nat /\ Size(q) >= q.req
  <2>1. q.off \in Nat /\ q.req \in Nat /\ q.fetchMax \in Nat /\ q.total \in Nat
    BY DEF Res
  <2> QED BY <2>1 DEF Size
<1>2. CASE q.move = "backward"
  <2>1. q.off = pos - start /\ pos >= 1 /\ q.off <= pos
    BY <1>1, <1>2 DEF MoveOf
  <2>2. PICK b \in Nat : b = BackBy(q) /\ b >= q.off /\ b <= pos
                         /\ (b - q.off < Size(q))
    <3>1. CASE Size(q) > q.req
      <4>1. PICK s \in Nat : s = Size(q)
        BY <1>1
      <4>2. BackBy(q) = Min2(q.off + s - q.req, pos)
        BY <3>1, <4>1 DEF BackBy
      <4> QED BY <1>1, <2>1, <3>1, <4>1, <4>2 DEF Min2
    <3>2. CASE ~(Size(q) > q.req)
      BY <1>1, <2>1, <3>2 DEF BackBy
    <3> QED BY <3>1, <3>2
  <2>3. Passed(q, Back(b), b) = b /\ AfterBackward(b) = pos - b
    <3>1. CASE b < pos
      <4>1. Back(b) = b
        BY <2>1, <2>2, <3>1 DEF Back, Min2
      <4> QED BY <2>1, <2>2, <3>1, <4>1 DEF Passed, AfterBackward
    <3>2. CASE b = pos
      <4>1. Back(b) = b - 1 /\ b >= 1
        BY <2>1, <2>2, <3>2 DEF Back, Min2
      <4>2. ~(q.move = "backward" /\ q.cursT < 0) /\ q.move # "forward"
        BY <1>2, <2>1
      <4>4. PICK a \in Nat : a = Back(b) /\ a + 1 = b /\ a # b
        BY <4>1
      <4>5. Passed(q, a, b) = a + 1
        BY <4>2, <4>4 DEF Passed
      <4>3. AfterBackward(b) = 0
        BY <2>2, <3>2 DEF AfterBackward
      <4> QED BY <2>2, <3>2, <4>3, <4>4, <4>5
    <3> QED BY <2>2, <3>1, <3>2
  <2>4. PICK t \in Int : t = q.cursT - b
    BY <2>2
  <2>5. PICK x : x = [q EXCEPT !.cursT = t]
    OBVIOUS
  <2>6. m = [q |-> x, offset |-> b - q.off, pos |-> pos - b]
    BY <1>2, <2>2, <2>3, <2>4, <2>5, Zenon DEF Moved, MovedBack
  <2>7. m.q = x /\ m.offset = b - q.off /\ m.pos = pos - b
    BY <2>6
  <2>8. /\ x \in Res /\ x.cursT = t /\ x.total = q.total /\ x.eof = q.eof /\ x.kind = q.kind
        /\ x.fetchMax = q.fetchMax /\ x.curs = q.curs /\ x.valid = q.valid /\ x.req = q.req
    BY <2>5 DEF Res
  <2> QED BY <1>1, <2>1, <2>2, <2>4, <2>7, <2>8 DEF LeadsTo
<1>3. CASE q.move # "backward"
  <2>1. q.off = start - pos /\ pos <= n /\ start > pos
    BY <1>1, <1>3 DEF MoveOf
  <2>2. PICK f \in Nat : f = q.off
    BY <1>1
  <2>3. PICK a \in Nat : a = Ahead(f) /\ a = IF f <= n - pos THEN f ELSE n - pos
    BY <2>1, <2>2 DEF Ahead, Min2
  <2>4. PICK k \in Nat : k = Passed(q, a, f) /\ k = IF f <= n - pos THEN f ELSE n - pos + 1
    <3>1. CASE f <= n - pos
      BY <2>3, <3>1 DEF Passed
    <3>2. CASE ~(f <= n - pos)
      <4>1. a = n - pos /\ a # f
        BY <2>1, <2>3, <3>2
      <4>2. ~(q.eof /\ q.cursT >= q.total)
        BY <2>1
      <4>3. Passed(q, a, f) = a + 1
        BY <1>3, <4>1, <4>2 DEF Passed
      <4> QED BY <2>1, <3>2, <4>1, <4>3
    <3> QED BY <3>1, <3>2
  <2>5. PICK t \in Int : t = q.cursT + k
    BY <2>1
  <2>6. PICK total \in Nat : total = IF a < f /\ ~q.eof THEN t ELSE q.total
    <3>1. t \in Nat
      BY <2>1, <2>2, <2>4, <2>5
    <3> QED BY <1>1, <3>1
  <2>7. PICK eof \in BOOLEAN : eof <=> q.eof \/ a < f
    OBVIOUS
  <2>8. PICK x : x = [q EXCEPT !.cursT = t, !.eof = eof, !.total = total]
    OBVIOUS
  <2>9. x = [q EXCEPT !.cursT = t, !.eof = @ \/ a < f,
                      !.total = IF a < f /\ ~q.eof THEN t ELSE @]
    <3>1. q.eof \in BOOLEAN
      BY DEF Res
    <3>2. eof = (q.eof \/ a < f)
      BY <2>7, <3>1
    <3> QED BY <2>6, <2>8, <3>2, Zenon
  <2>10. m = [q |-> x, offset |-> f - k, pos |-> AfterForward(f)]
    BY <1>3, <2>2, <2>3, <2>4, <2>5, <2>9, Zenon DEF Moved, MovedOn
  <2>11. m.q = x /\ m.offset = f - k /\ m.pos = AfterForward(f)
    BY <2>10
  <2>12. /\ x \in Res /\ x.cursT = t /\ x.total = total /\ x.eof = eof /\ x.kind = q.kind
         /\ x.fetchMax = q.fetchMax /\ x.curs = q.curs /\ x.valid = q.valid /\ x.req = q.req
    BY <2>8 DEF Res
  <2>13. CASE f <= n - pos
    <3>1. a = f /\ k = f /\ t = start - 1 /\ total = q.total /\ (eof <=> q.eof)
      BY <2>1, <2>2, <2>3, <2>4, <2>5, <2>6, <2>7, <2>13
    <3>2. AfterForward(f) = start /\ start <= n /\ f - k = 0
      BY <2>1, <2>2, <2>13, <3>1 DEF AfterForward, Min2
    <3>3. 0 < Size(q)
      BY <1>1
    <3> QED BY <1>1, <2>11, <2>12, <3>1, <3>2, <3>3 DEF LeadsTo
  <2>14. CASE ~(f <= n - pos)
    <3>1. a = n - pos /\ k = n - pos + 1 /\ a < f /\ t = n /\ total = n /\ eof
      BY <2>1, <2>3, <2>4, <2>5, <2>6, <2>7, <2>14
    <3>2. AfterForward(f) = n + 1 /\ start >= n + 1 /\ f - k = start - n - 1
      BY <2>1, <2>2, <2>14, <3>1 DEF AfterForward, Min2
    <3> QED BY <1>1, <2>11, <2>12, <3>1, <3>2 DEF LeadsTo
  <2> QED BY <2>13, <2>14
<1> QED BY <1>2, <1>3

LEMMA FetchMovedMoves == ASSUME ScrollInv, FetchMoved PROVE Moves /\ UNCHANGED asked
<1>1. /\ call.pc = "rows" /\ ~Complete /\ res.curs /\ res.off > 0 /\ ~server.dead
      /\ UNCHANGED asked
  BY DEF FetchMoved, Misses
<1>2. AtRow
  BY <1>1, AtRowNow
<1>3. /\ res \in Res /\ server.pos \in Nat /\ server.pos <= server.n + 1
      /\ res.total <= server.n /\ res.cursT = server.pos - 1
      /\ server.pos = server.n + 1 => res.eof
      /\ res.eof => res.total = server.n
  BY <1>1 DEF ScrollInv, CacheInv, TypeOK, Synced, Ended, Server
<1>4. res.valid /\ (res.kind = "forward" => OpenForward)
  BY <1>1, RowsNow
<1>5. res.kind # "forward"
  BY <1>1, <1>4 DEF OpenForward
<1>6. /\ Got = 0 /\ res.req = call.r
      /\ \/ res.move = "forward" /\ res.off = stmt.curr - res.cursT
         \/ res.move = "backward" /\ res.off = res.cursT - stmt.curr
      /\ res.eof => stmt.start < server.n \/ stmt.start = 0
  BY <1>1, RowsCurs
<1>7. PICK n \in Nat, pos \in Nat, start \in Nat :
        n = server.n /\ pos = server.pos /\ start = stmt.start
  BY <1>2, <1>3 DEF AtRow
<1>8. MoveOf(res, pos, start) /\ res.req >= 1
  BY <1>2, <1>3, <1>6, <1>7 DEF AtRow, MoveOf
<1>9. PICK m : m = Moved(res)
  OBVIOUS
<1>10. LeadsTo(m, res, n, start)
  <2>1. /\ pos <= n + 1 /\ res.cursT = pos - 1 /\ res.total <= n /\ (res.eof => res.total = n)
        /\ pos = n + 1 => res.eof
        /\ res.eof => start < n \/ start = 0
    BY <1>3, <1>6, <1>7
  <2> QED BY <1>1, <1>3, <1>7, <1>8, <1>9, <2>1, MovedTo
<1>11. Answered(Refill(m.q, m.offset, m.pos))
  BY <1>9 DEF FetchMoved
<1>12. PICK q \in Res, pos1 \in Nat, offset \in Nat :
         q = m.q /\ pos1 = m.pos /\ offset = m.offset
  BY <1>10 DEF LeadsTo
<1>13. Answered(Refill(q, offset, pos1)) /\ Size(q) = Size(res)
  BY <1>10, <1>11, <1>12 DEF Size, LeadsTo
<1>14. /\ pos1 <= server.n + 1 /\ q.cursT = pos1 - 1 /\ q.total <= server.n
       /\ q.eof => q.total = server.n
       /\ pos1 = server.n + 1 => q.eof
  BY <1>7, <1>10, <1>12 DEF LeadsTo
<1>15. /\ pos1 + offset = stmt.start /\ (offset < Size(q) \/ pos1 = server.n + 1)
       /\ q.kind = res.kind /\ q.fetchMax = res.fetchMax /\ q.curs /\ q.valid /\ q.req = call.r
  BY <1>1, <1>4, <1>6, <1>7, <1>10, <1>12, <1>13 DEF LeadsTo
<1> QED BY <1>1, <1>5, <1>6, <1>13, <1>14, <1>15, RefillMoves

-----------------------------------------------------------------------------
(***************************************************************************)
(* The rest of a rowset the cache begins with.                             *)
(***************************************************************************)
\* The cache has rows of the rowset already, the next one is right behind it.
LEMMA MoreTells ==
    ASSUME ScrollInv, call.pc = "rows", ~Complete, res.curs, res.off = 0, ~server.dead,
           res.next >= Len(res.cache), res.base < Len(res.cache), ~AtEnd
    PROVE  /\ res.base >= 0 /\ res.next = Filled /\ Filled = res.base + Got /\ res.req = call.r
           /\ Got >= 1 /\ Got < call.r /\ Origin + Filled = stmt.start + Got
           /\ res.eof => stmt.start + Got < server.n
           /\ \/ server.pos = stmt.start + Got
              \/ server.pos = server.n + 1 /\ server.all
           /\ res.kind = "forward" => ~res.eof
<1>1. AtRow /\ res \in Res
  BY AtRowNow DEF ScrollInv, CacheInv, TypeOK
<1>2. /\ Filled \in Nat /\ Filled = Len(res.cache) /\ res.base \in Int
      /\ Origin = stmt.start - res.base
      /\ res.kind = "forward" => OpenForward
  BY RowsNow
<1>3. /\ res.base >= 0 /\ res.next = Filled /\ Filled = res.base + Got /\ res.req = call.r
      /\ Got >= 1 /\ Got < call.r
  <2>1. res.next \in Int
    BY <1>1 DEF Res
  <2>2. res.base \in 0 .. Filled /\ res.next = res.base + Got /\ res.next <= Filled
        /\ res.req = call.r
    BY RowsCurs
  <2> QED BY <1>1, <1>2, <2>1, <2>2 DEF AtRow
<1>4. Origin + Filled = stmt.start + Got
  <2>1. PICK b \in Int : b = res.base
    BY <1>2
  <2>2. Origin = stmt.start - b /\ Filled = b + Got
    BY <1>2, <1>3, <2>1
  <2>3. stmt.start \in Int /\ Got \in Int
    BY <1>1 DEF AtRow
  <2> QED BY <2>2, <2>3
<1>5. /\ server.pos \in Nat /\ server.pos <= server.n + 1
      /\ server.pos = server.n + 1 => res.eof
      /\ res.eof => res.total = server.n
      /\ \/ server.pos = Origin + Filled
         \/ server.pos = server.n + 1 /\ (server.all \/ Origin + Filled >= server.n)
  <2>1. Filled # 0
    BY <1>1, <1>2, <1>3 DEF AtRow
  <2> QED BY <2>1 DEF ScrollInv, CacheInv, TypeOK, Synced, Ended, Server
<1>6. res.eof => stmt.start + Got < server.n
  <2>1. SUFFICES ASSUME res.eof PROVE stmt.start + Got < server.n
    OBVIOUS
  <2>2. ~(stmt.curr + 1 >= res.total)
    BY <2>1 DEF AtEnd, TotalTuples
  <2> QED BY <1>1, <1>5, <2>1, <2>2 DEF AtRow
<1>7. res.kind = "forward" => ~res.eof
  <2>1. SUFFICES ASSUME res.kind = "forward", res.eof PROVE FALSE
    OBVIOUS
  <2>2. Origin + Filled = server.n
    BY <1>2, <2>1 DEF OpenForward
  <2>3. stmt.start + Got < server.n
    BY <1>6, <2>1
  <2> QED BY <1>1, <1>4, <2>2, <2>3 DEF AtRow
<1>8. \/ server.pos = stmt.start + Got
      \/ server.pos = server.n + 1 /\ server.all
  <2>1. CASE server.pos = Origin + Filled
    BY <1>4, <2>1
  <2>2. CASE server.pos = server.n + 1
    <3>1. stmt.start + Got < server.n
      BY <1>5, <1>6, <2>2
    <3>2. \/ server.pos = stmt.start + Got
          \/ server.all \/ stmt.start + Got >= server.n
      BY <1>4, <1>5
    <3> QED BY <1>1, <2>2, <3>1, <3>2 DEF AtRow
  <2> QED BY <1>5, <2>1, <2>2
<1> QED BY <1>3, <1>4, <1>6, <1>7, <1>8

\* The rows the FETCH appends to the cache, of l rows, are len rows from pos on.
Extended(x, q, n, pos, k, l, len) ==
    /\ len = Yield(n, pos, k) /\ x.q \in Res /\ Len(x.q.cache) = l + len
    /\ \A i \in 1 .. l : x.q.cache[i] = q.cache[i]
    /\ \A i \in l + 1 .. l + len : x.q.cache[i] = pos + (i - l) - 1
    /\ x.q.total <= n /\ (x.q.eof => x.q.total = n)
    /\ x.q.eof <=> q.eof \/ pos + k > n
    /\ x.q.cursT = x.pos - 1 /\ x.pos = Min2(pos + k, n + 1)
    /\ x.q.base = q.base /\ x.q.next = q.next + 1 /\ x.q.off = q.off
    /\ x.q.kind = q.kind /\ x.q.fetchMax = q.fetchMax /\ x.q.curs = q.curs
    /\ x.q.valid = q.valid /\ x.q.req = q.req
    /\ x.got <=> len > 0
    /\ x.got => x.row = pos

LEMMA ExtendTells ==
    ASSUME NEW q \in Res, NEW n \in Nat, n = server.n, NEW pos \in Nat, pos = server.pos,
           pos <= n + 1, NEW k \in Nat, k = q.req + q.base - Len(q.cache), k >= 1,
           NEW l \in Nat, l = Len(q.cache), q.next = l, NEW x, x = Extend(q),
           q.cursT = pos - 1, q.total <= n, q.eof => q.total = n, pos = n + 1 => q.eof
    PROVE  \E len \in Nat : Extended(x, q, n, pos, k, l, len)
<1>1. PICK rows : rows = Fetched(n, pos, k)
  OBVIOUS
<1>2. AreFetched(rows, n, pos, k)
  BY <1>1, FetchedAre
<1>3. q.cache \in Seq(Nat) /\ l = Len(q.cache) /\ l = q.next
  BY DEF Res
<1>4. PICK next \in Int : next = l + 1
  OBVIOUS
<1>5. PICK c : c = [q EXCEPT !.next = next]
  OBVIOUS
<1>6. /\ c \in Res /\ c.cache = q.cache /\ c.base = q.base /\ c.next = next /\ c.off = q.off
      /\ c.kind = q.kind /\ c.fetchMax = q.fetchMax /\ c.curs = q.curs
      /\ c.valid = q.valid /\ c.req = q.req /\ c.eof = q.eof /\ c.total = q.total
      /\ c.cursT = q.cursT
  BY <1>5 DEF Res
<1>7. PICK p : p = ReadTuples(c, rows, k)
  OBVIOUS
<1>8. Reads(p, c, n, pos, k)
  <2>1. /\ pos \in 0 .. n + 1 /\ c.cursT = pos - 1 /\ c.total <= n
        /\ c.eof => c.total = n
        /\ pos = n + 1 => c.eof
    BY <1>6
  <2> QED BY <1>1, <1>6, <1>7, <2>1, ReadTuplesKeeps
<1>9. p.cache = q.cache \o rows
  BY <1>1, <1>6, <1>8 DEF Reads
<1>26. PICK len \in Nat : len = Len(rows)
  BY <1>2 DEF AreFetched
<1>10. /\ Len(p.cache) = l + len
       /\ \A i \in 1 .. l + len : p.cache[i] = IF i <= l THEN q.cache[i] ELSE rows[i - l]
       /\ DOMAIN p.cache = 1 .. l + len
  <2>1. rows \in Seq(Nat)
    BY <1>2 DEF AreFetched
  <2> QED BY <1>3, <1>9, <1>26, <2>1, ConcatProperties, LenProperties
<1>11. (l < Len(p.cache)) <=> len > 0
  BY <1>10
<1>12. PICK t \in Int : t = IF l < Len(p.cache) THEN l ELSE -1
  <2>1. l \in Int /\ -1 \in Int
    OBVIOUS
  <2> QED BY <2>1
<1>13. PICK y : y = [p EXCEPT !.tuple = t]
  OBVIOUS
<1>14. PICK got : got = (l < Len(p.cache))
  OBVIOUS
<1>15. x = [q |-> y, got |-> got, row |-> CacheRow(p, l), pos |-> AfterForward(k)]
  <2>1. c = [q EXCEPT !.next = @ + 1]
    BY <1>3, <1>4, <1>5
  <2> QED BY <1>1, <1>3, <1>7, <1>12, <1>13, <1>14, <2>1, Zenon DEF Extend
<1>16. /\ x.q = y /\ x.row = CacheRow(p, l) /\ x.pos = AfterForward(k) /\ x.got = got
  BY <1>15
<1>17. AfterForward(k) = Min2(pos + k, n + 1)
  BY DEF AfterForward
<1>27. ASSUME NEW i \in l + 1 .. l + len PROVE p.cache[i] = pos + (i - l) - 1
  <2>1. PICK j : j = i - l
    OBVIOUS
  <2>2. j \in 1 .. len /\ i \in 1 .. l + len /\ ~(i <= l)
    <3>1. i \in Int /\ i >= l + 1 /\ i <= l + len
      BY <1>27
    <3> QED BY <2>1, <3>1
  <2>3. rows[j] = pos + j - 1
    BY <1>2, <1>26, <2>2 DEF AreFetched
  <2>4. p.cache[i] = rows[j]
    BY <1>10, <2>1, <2>2
  <2> QED BY <2>1, <2>3, <2>4
<1>18. ASSUME len > 0 PROVE CacheRow(p, l) = pos
  <2>1. PICK i \in Int : i = l + 1
    OBVIOUS
  <2>2. i \in l + 1 .. l + len /\ i - l = 1 /\ i \in DOMAIN p.cache
    BY <1>10, <1>18, <2>1
  <2>3. CacheRow(p, l) = p.cache[i]
    BY <2>1, <2>2 DEF CacheRow
  <2>4. p.cache[i] = pos + (i - l) - 1
    BY <1>27, <2>2
  <2> QED BY <2>2, <2>3, <2>4
<1>19. /\ y \in Res /\ y.cache = p.cache /\ y.total = p.total /\ y.eof = p.eof /\ y.cursT = p.cursT
       /\ y.kind = p.kind /\ y.fetchMax = p.fetchMax /\ y.curs = p.curs /\ y.valid = p.valid
       /\ y.base = p.base /\ y.next = p.next /\ y.req = p.req /\ y.off = p.off
  <2>1. p \in Res
    BY <1>8 DEF Reads
  <2> QED BY <1>13, <2>1 DEF Res
<1>20. /\ p.total <= n /\ (p.eof => p.total = n) /\ (p.eof <=> q.eof \/ pos + k > n)
       /\ p.cursT = Min2(pos + k, n + 1) - 1
       /\ p.kind = q.kind /\ p.fetchMax = q.fetchMax /\ p.curs = q.curs /\ p.valid = q.valid
       /\ p.base = q.base /\ p.next = next /\ p.req = q.req /\ p.off = q.off
  BY <1>6, <1>8 DEF Reads
<1>21. q.next + 1 = next
  BY <1>3, <1>4
<1>22. (x.got <=> len > 0) /\ (x.got => x.row = pos)
  BY <1>11, <1>14, <1>16, <1>18, Zenon
<1>23. /\ x.q.total <= n /\ (x.q.eof => x.q.total = n)
       /\ x.q.cursT = x.pos - 1 /\ x.pos = Min2(pos + k, n + 1)
  <2>1. x.q.total = p.total /\ x.q.eof = p.eof /\ x.q.cursT = p.cursT
        /\ x.pos = Min2(pos + k, n + 1)
    BY <1>16, <1>17, <1>19, Zenon
  <2>2. x.q.cursT = x.pos - 1
    BY <1>20, <2>1, Zenon
  <2>3. x.q.total <= n /\ (x.q.eof => x.q.total = n)
    BY <1>20, <2>1, Zenon
  <2> QED BY <2>1, <2>2, <2>3
<1>28. x.q.eof <=> q.eof \/ pos + k > n
  BY <1>16, <1>19, <1>20, Zenon
<1>24. /\ x.q \in Res /\ x.q.cache = p.cache
       /\ x.q.base = q.base /\ x.q.next = q.next + 1 /\ x.q.off = q.off
       /\ x.q.kind = q.kind /\ x.q.fetchMax = q.fetchMax /\ x.q.curs = q.curs
       /\ x.q.valid = q.valid /\ x.q.req = q.req
  BY <1>16, <1>19, <1>20, <1>21, Zenon
<1>29. ASSUME NEW i \in 1 .. l PROVE p.cache[i] = q.cache[i]
  <2>1. i \in 1 .. l + len /\ i <= l
    OBVIOUS
  <2> QED BY <1>10, <2>1
<1>30. /\ len = Yield(n, pos, k) /\ Len(x.q.cache) = l + len
       /\ \A i \in 1 .. l : x.q.cache[i] = q.cache[i]
       /\ \A i \in l + 1 .. l + len : x.q.cache[i] = pos + (i - l) - 1
  BY <1>2, <1>10, <1>24, <1>26, <1>27, <1>29 DEF AreFetched
<1>25. Extended(x, q, n, pos, k, l, len)
  BY <1>22, <1>23, <1>24, <1>28, <1>30, Zenon DEF Extended
<1> QED BY <1>25

LEMMA FetchMoreMoves == ASSUME ScrollInv, FetchMore PROVE Moves /\ UNCHANGED asked
<1>1. /\ call.pc = "rows" /\ ~Complete /\ res.curs /\ res.off = 0 /\ ~AtEnd /\ ~server.dead
      /\ res.base < Len(res.cache) /\ res.next >= Len(res.cache) /\ UNCHANGED asked
  BY DEF FetchMore, Misses
<1>2. /\ res.base >= 0 /\ res.next = Filled /\ Filled = res.base + Got /\ res.req = call.r
      /\ Got >= 1 /\ Got < call.r /\ Origin + Filled = stmt.start + Got
      /\ res.eof => stmt.start + Got < server.n
      /\ \/ server.pos = stmt.start + Got
         \/ server.pos = server.n + 1 /\ server.all
      /\ res.kind = "forward" => ~res.eof
  BY <1>1, MoreTells
<1>3. AtRow /\ Caches(res, Origin, server) /\ res \in Res /\ server \in Server
  BY <1>1, AtRowNow, CachesNow DEF ScrollInv, CacheInv, TypeOK
<1>4. /\ res.valid /\ Filled = Len(res.cache) /\ Filled \in Nat /\ res.base \in Int
      /\ Origin = stmt.start - res.base /\ Origin \in Int /\ res.cache \in Seq(Nat)
      /\ res.kind = "forward" => ~server.all
  BY <1>1, <1>3, RowsNow DEF Res
<1>5. PICK n \in Nat, pos \in Nat, start \in Nat, g \in Nat, r \in Nat, b \in Int, l \in Nat,
           o \in Int :
        /\ n = server.n /\ pos = server.pos /\ start = stmt.start /\ g = Got /\ r = call.r
        /\ b = res.base /\ l = Filled /\ o = Origin
  <2>1. /\ server.n \in Nat /\ server.pos \in Nat /\ stmt.start \in Nat /\ Got \in Nat
        /\ call.r \in Nat /\ res.base \in Int /\ Filled \in Nat /\ Origin \in Int
    BY <1>3, <1>4 DEF AtRow, Server
  <2> QED BY <2>1, Zenon
<1>6. /\ b >= 0 /\ l = b + g /\ g >= 1 /\ g < r /\ o = start - b /\ o + l = start + g
      /\ res.req = r /\ l = Len(res.cache) /\ res.next = l
      /\ pos = start + g \/ (pos = n + 1 /\ server.all)
      /\ pos <= n + 1 /\ res.cursT = pos - 1 /\ res.total <= n /\ (res.eof => res.total = n)
      /\ pos = n + 1 => res.eof
      /\ o >= 0 /\ o + l <= n
  <2>1. /\ b >= 0 /\ l = b + g /\ g >= 1 /\ g < r /\ o = start - b /\ o + l = start + g
        /\ res.req = r /\ l = Len(res.cache) /\ res.next = l
        /\ pos = start + g \/ (pos = n + 1 /\ server.all)
    BY <1>2, <1>4, <1>5
  <2>2. l > 0
    BY <2>1
  <2> QED BY <1>1, <1>3, <1>5, <2>1, <2>2 DEF Caches
<1>7. PICK x : x = Extend(res)
  OBVIOUS
<1>8. Answered(x)
  <2>1. r + b > l
    BY <1>6
  <2>2. res.req + res.base > Len(res.cache)
    BY <1>5, <1>6, <2>1
  <2> QED BY <1>7, <2>2 DEF FetchMore
<1>9. PICK k \in Nat : k = r - g /\ k >= 1
  BY <1>6
<1>10. PICK len \in Nat : Extended(x, res, n, pos, k, l, len)
  <2>1. k = r + b - l
    BY <1>6, <1>9
  <2>2. k = res.req + res.base - Len(res.cache)
    BY <1>5, <1>6, <2>1
  <2> QED BY <1>3, <1>5, <1>6, <1>7, <1>9, <2>2, ExtendTells
<1>11. /\ x.q \in Res /\ x.q.total <= n /\ (x.q.eof => x.q.total = n) /\ x.q.cursT = x.pos - 1
       /\ x.q.base = b /\ x.q.next = l + 1 /\ x.q.off = res.off
       /\ x.q.kind = res.kind /\ x.q.fetchMax = res.fetchMax /\ x.q.curs = res.curs
       /\ x.q.valid = res.valid /\ x.q.req = r /\ Len(x.q.cache) = l + len
       /\ x.got <=> len > 0
       /\ x.got => x.row = pos
  BY <1>5, <1>6, <1>10 DEF Extended
<1>12. PICK at \in Nat, end \in Nat : at = start + g /\ end = x.pos /\ end <= n + 1
                                   /\ end = Min2(pos + k, n + 1)
  <2>1. x.pos = Min2(pos + k, n + 1)
    BY <1>10 DEF Extended
  <2> QED BY <2>1 DEF Min2
<1>13. PICK all \in BOOLEAN, eof \in BOOLEAN : all = server.all /\ eof = x.q.eof
  BY <1>3, <1>11 DEF Res, Server
<1>14. /\ len > 0 => pos = at /\ pos + len <= n
       /\ \/ end = pos + len /\ end <= n
          \/ end = n + 1 /\ eof /\ (pos + len = n \/ pos >= n)
       /\ len = 0 => eof /\ (at >= n \/ all)
       /\ pos = at \/ (all /\ end = n + 1)
  <2>1. PICK z \in Nat : z = 0
    OBVIOUS
  <2>2. \/ pos + z = at /\ (z < k \/ pos = n + 1)
        \/ pos = n + 1 /\ all
    BY <1>6, <1>9, <1>12, <1>13, <2>1
  <2>3. len = Yield(n, pos, k) /\ (pos + k > n => eof)
    BY <1>10, <1>13 DEF Extended
  <2>4. /\ len = Yield(n, pos, k) /\ end = Min2(pos + k, n + 1) /\ (pos + k > n => eof)
        /\ pos <= n + 1 /\ k >= 1
        /\ \/ pos + z = at /\ (z < k \/ pos = n + 1)
           \/ pos = n + 1 /\ all
    BY <1>6, <1>9, <1>12, <2>2, <2>3
  <2>5. FillPlace(n, pos, z, at, len, end, eof, all)
    BY <2>4, FillPlaces
  <2> QED BY <2>1, <2>5 DEF FillPlace
<1>15. /\ server' \in Server /\ server'.n = n /\ server'.pos = end
       /\ server'.all = server.all /\ server'.dead = server.dead
  <2>1. server' = [server EXCEPT !.pos = end]
    BY <1>8, <1>12 DEF Answered
  <2> QED BY <1>3, <1>5, <2>1 DEF Server
<1>16. \A i \in 1 .. l + len : x.q.cache[i] = o + i - 1
  <2>1. SUFFICES ASSUME NEW i \in 1 .. l + len PROVE x.q.cache[i] = o + i - 1
    OBVIOUS
  <2>2. CASE i \in 1 .. l
    <3>1. res.cache[i] = o + i - 1
      BY <1>3, <1>5, <1>6, <2>2 DEF Caches
    <3> QED BY <1>10, <2>2, <3>1 DEF Extended
  <2>3. CASE i \in l + 1 .. l + len
    <3>1. x.q.cache[i] = pos + (i - l) - 1
      BY <1>10, <2>3 DEF Extended
    <3>2. pos = o + l
      BY <1>6, <1>12, <1>14, <2>3
    <3> QED BY <3>1, <3>2
  <2> QED BY <2>2, <2>3
<1>17. Caches(x.q, o, server')
  <2>1. o + (l + len) <= n
    BY <1>6, <1>12, <1>14
  <2>2. \/ end = o + (l + len)
        \/ end = n + 1 /\ (all \/ o + (l + len) >= n)
    BY <1>6, <1>12, <1>14
  <2>3. x.q.next >= 0 /\ x.q.req >= 1 /\ x.q.fetchMax >= 1 /\ (end = n + 1 => x.q.eof)
    <3>1. res.fetchMax >= 1
      BY <1>3 DEF Caches
    <3>2. r >= 1 /\ l + 1 >= 0 /\ (end = n + 1 => eof)
      BY <1>6, <1>14
    <3> QED BY <1>11, <1>13, <3>1, <3>2
  <2>4. x.q.kind # "whole" /\ x.q.curs
    BY <1>1, <1>3, <1>11 DEF Caches
  <2> QED BY <1>6, <1>11, <1>12, <1>13, <1>15, <1>16, <2>1, <2>2, <2>3, <2>4 DEF Caches
<1>18. Fresh(x.q, o)
  BY <1>4, <1>5, <1>6, <1>11, <1>15, <1>17 DEF Fresh
<1>19. CASE x.got
  <2>9. len > 0 /\ x.row = pos
    BY <1>11, <1>19, Zenon
  <2>1. pos = at /\ at < n /\ len > 0 /\ x.row = stmt.start + Got
    BY <1>5, <1>12, <1>14, <2>9
  <2>2. GotRow(x.q, stmt.start + Got)
    BY <1>8, <1>19, <2>1 DEF Answered
  <2>3. b \in 0 .. l + len /\ l + 1 = b + (g + 1) /\ l + 1 <= l + len
    BY <1>6, <2>1
  <2>4. res.kind = "forward" => (x.q.eof => o + (l + len) = n)
    <3>1. SUFFICES ASSUME res.kind = "forward", x.q.eof PROVE o + (l + len) = n
      OBVIOUS
    <3>2. pos + k > n /\ len = Yield(n, pos, k)
      BY <1>2, <1>10, <3>1 DEF Extended
    <3>3. pos + len = n
      BY <1>12, <2>1, <3>2 DEF Yield, Min2
    <3> QED BY <1>6, <1>12, <2>1, <3>3
  <2>5. stmt.start + Got < server.n
    BY <1>5, <1>12, <2>1
  <2>6. /\ x.q.req = call.r /\ x.q.off = 0 /\ x.q.base \in 0 .. Len(x.q.cache)
        /\ x.q.next = x.q.base + (Got + 1) /\ x.q.next <= Len(x.q.cache)
    BY <1>1, <1>5, <1>11, <2>3
  <2>7. res.kind = "forward" =>
          x.q.curs /\ (x.q.eof => o + Len(x.q.cache) = server.n /\ x.q.base >= 0)
    BY <1>1, <1>5, <1>6, <1>11, <2>4
  <2>8. Gets(x.q, o)
    BY <1>1, <1>15, <2>2, <2>5, <2>6, <2>7 DEF Gets
  <2> QED BY <1>1, <1>18, <2>8 DEF Moves
<1>20. CASE ~x.got
  <2>1. NoRow(x.q)
    BY <1>8, <1>20 DEF Answered
  <2>2. eof /\ (at >= n \/ all)
    BY <1>11, <1>14, <1>20
  <2>3. stmt.start + Got >= server.n \/ server.all
    BY <1>5, <1>12, <1>13, <2>2
  <2>4. Over
    BY <2>3 DEF Over
  <2>5. res.kind = "forward" => stmt.start + call.r >= server.n
    <3>1. SUFFICES ASSUME ~server.all PROVE start + r >= n
      BY <1>4, <1>5
    <3>2. start + g >= n /\ g < r
      BY <1>6, <1>12, <1>13, <2>2, <3>1
    <3> QED BY <3>2
  <2>6. x.q.eof
    BY <1>13, <2>2
  <2> QED BY <1>1, <1>18, <2>1, <2>4, <2>5, <2>6, NoRowEnds
<1> QED BY <1>19, <1>20

-----------------------------------------------------------------------------
(***************************************************************************)
(* The server refuses.                                                     *)
(***************************************************************************)
\* A MOVE that is refused is reported like the end of the result, a FETCH as an error,
\* which empties a cache that has nothing of the rowset.
LEMMA FetchRefusedMoves == ASSUME ScrollInv, FetchRefused PROVE Moves /\ UNCHANGED asked
<1>1. /\ call.pc = "rows" /\ ~Complete /\ res.curs /\ ~AtEnd /\ UNCHANGED asked
      /\ server' = [server EXCEPT !.dead = TRUE]
  BY DEF FetchRefused, Misses
<1>2. AtRow /\ Caches(res, Origin, server) /\ res \in Res /\ server \in Server
  BY <1>1, AtRowNow, CachesNow DEF ScrollInv, CacheInv, TypeOK
<1>3. /\ res.valid /\ Filled = Len(res.cache) /\ Filled \in Nat /\ res.base \in Int
      /\ Origin = stmt.start - res.base /\ Origin \in Int /\ stmt \in Stmt /\ stmt.saved = -1
      /\ res.kind = "forward" => OpenForward
  BY <1>1, RowsNow
<1>4. /\ server' \in Server /\ server'.n = server.n /\ server'.pos = server.pos
      /\ server'.all = server.all /\ server'.dead = TRUE
  BY <1>1, <1>2 DEF Server
<1>5. Over
  BY <1>4 DEF Over
<1>6. Fresh(res, Origin) /\ res.next >= 0
  <2>1. res.next >= 0
    BY <1>2 DEF Caches
  <2> QED BY <1>1, <1>2, <2>1, SameCache
<1>7. res.off \in Nat
  BY <1>2 DEF Res
<1>8. CASE res.off > 0
  <2>1. NoRow(res)
    BY <1>8 DEF FetchRefused
  <2>2. ASSUME res.kind = "forward", res.eof PROVE stmt.start >= server.n
    <3>1. Origin + Filled = server.n /\ res.base >= 0
      BY <1>3, <2>2 DEF OpenForward
    <3>2. res.base \notin 0 .. Filled
      BY <1>1, <1>8, RowsCurs
    <3>3. res.base > Filled
      BY <1>3, <3>1, <3>2
    <3>4. PICK b \in Int, f \in Int : b = res.base /\ f = Filled
      BY <1>3
    <3>5. stmt.start - b + f = server.n /\ b > f
      BY <1>3, <3>1, <3>3, <3>4
    <3>6. stmt.start \in Int /\ server.n \in Int
      BY <1>2 DEF AtRow
    <3> QED BY <3>5, <3>6
  <2> QED BY <1>1, <1>3, <1>4, <1>5, <1>6, <2>1, <2>2, NoRowEnds
<1>9. CASE res.off = 0 /\ res.base < Len(res.cache)
  <2>1. PICK t \in Int, next \in Int : t = -1 /\ next = res.next + 1
    BY <1>2 DEF Res
  <2>2. PICK q : q = [res EXCEPT !.tuple = t, !.next = next]
    OBVIOUS
  <2>3. /\ q \in Res /\ q.kind = res.kind /\ q.fetchMax = res.fetchMax /\ q.curs = res.curs
        /\ q.eof = res.eof /\ q.valid = res.valid /\ q.total = res.total /\ q.cursT = res.cursT
        /\ q.cache = res.cache /\ q.base = res.base /\ q.req = res.req /\ q.next = next
    BY <1>2, <2>2 DEF Res
  <2>4. q.next >= 0
    <3>1. res.next \in Int
      BY <1>2 DEF Res
    <3> QED BY <1>6, <2>1, <2>3, <3>1
  <2>5. Fresh(q, Origin)
    BY <1>1, <2>3, <2>4, SameCache
  <2>6. q = [res EXCEPT !.tuple = -1, !.cache = IF res.base >= Len(@) THEN <<>> ELSE @,
                        !.next = IF res.base >= Len(res.cache) THEN 1 ELSE @ + 1,
                        !.base = IF @ >= Len(res.cache) THEN 0 ELSE @]
    <3>1. ~(res.base >= Len(res.cache))
      BY <1>3, <1>9
    <3>2. q.cache = (IF res.base >= Len(res.cache) THEN <<>> ELSE res.cache)
      BY <2>3, <3>1
    <3> QED BY <1>2, <2>1, <2>2, <3>1 DEF Res
  <2>7. Finish(q, stmt, "error")
    BY <1>7, <1>9, <2>6 DEF FetchRefused
  <2>8. LeavesForward(q, Origin)
    BY <1>1, <1>3, <1>4, <2>3 DEF LeavesForward, OpenForward
  <2>9. Ends(q, Origin)
    BY <1>1, <1>3, <1>4, <1>5, <2>3, <2>7, <2>8 DEF Ends
  <2> QED BY <1>1, <1>3, <2>5, <2>9 DEF Moves
<1>10. CASE res.off = 0 /\ res.base >= Len(res.cache)
  <2>13. PICK e \in Seq(Nat) : e = <<>>
    BY EmptySeq
  <2>14. PICK t \in Int, next \in Int, z \in Int : t = -1 /\ next = 1 /\ z = 0
    OBVIOUS
  <2>1. t = -1 /\ next = 1 /\ z = 0 /\ e = <<>>
    BY <2>13, <2>14
  <2>2. PICK q : q = [res EXCEPT !.tuple = t, !.cache = e, !.next = next, !.base = z]
    OBVIOUS
  <2>3. /\ q \in Res /\ q.kind = res.kind /\ q.fetchMax = res.fetchMax /\ q.curs = res.curs
        /\ q.eof = res.eof /\ q.valid = res.valid /\ q.total = res.total /\ q.cursT = res.cursT
        /\ q.cache = e /\ q.base = z /\ q.req = res.req /\ q.next = next
    BY <1>2, <2>2 DEF Res
  <2>4. PICK o \in Int : o = stmt.start
    BY <1>2 DEF AtRow
  <2>5. Len(q.cache) = 0
    BY <2>1, <2>3, EmptySeq
  <2>6. Caches(q, o, server')
    <3>1. /\ res.total <= server.n /\ server.pos <= server.n + 1 /\ res.req >= 1
          /\ res.fetchMax >= 1 /\ res.cursT = server.pos - 1
          /\ server.pos = server.n + 1 => res.eof
          /\ res.eof => res.total = server.n
          /\ res.kind # "whole"
      BY <1>1, <1>2 DEF Caches
    <3> QED BY <1>1, <1>4, <2>1, <2>3, <2>5, <3>1 DEF Caches
  <2>7. Fresh(q, o)
    <3>1. o = stmt.start - q.base
      BY <2>1, <2>3, <2>4
    <3> QED BY <1>3, <1>4, <2>3, <2>6, <3>1 DEF Fresh
  <2>8. q = [res EXCEPT !.tuple = -1, !.cache = IF res.base >= Len(@) THEN <<>> ELSE @,
                        !.next = IF res.base >= Len(res.cache) THEN 1 ELSE @ + 1,
                        !.base = IF @ >= Len(res.cache) THEN 0 ELSE @]
    <3>1. /\ t = -1 /\ e = (IF res.base >= Len(res.cache) THEN <<>> ELSE res.cache)
          /\ next = (IF res.base >= Len(res.cache) THEN 1 ELSE res.next + 1)
          /\ z = (IF res.base >= Len(res.cache) THEN 0 ELSE res.base)
      BY <1>10, <2>1, Zenon
    <3> QED BY <2>2, <3>1, Zenon
  <2>9. Finish(q, stmt, "error")
    BY <1>7, <1>10, <2>8 DEF FetchRefused
  <2>10. ASSUME res.kind = "forward", res.eof PROVE FALSE
    <3>1. Origin + Filled = server.n /\ res.base >= 0
      BY <1>3, <2>10 DEF OpenForward
    <3>2. PICK b \in Int, f \in Int : b = res.base /\ f = Filled
      BY <1>3
    <3>3. stmt.start - b + f = server.n /\ b >= f
      BY <1>3, <1>10, <3>1, <3>2
    <3>4. stmt.start >= server.n
      BY <1>2, <3>3 DEF AtRow
    <3>5. stmt.curr + 1 >= res.total
      BY <1>2, <2>10, <3>4 DEF AtRow, Caches
    <3> QED BY <1>1, <1>10, <2>10, <3>5 DEF AtEnd, TotalTuples
  <2>11. LeavesForward(q, o)
    BY <1>1, <1>4, <2>3, <2>10 DEF LeavesForward
  <2>12. Ends(q, o)
    BY <1>1, <1>3, <1>4, <1>5, <2>3, <2>9, <2>11 DEF Ends
  <2> QED BY <1>1, <2>7, <2>12 DEF Moves
<1>11. \/ res.off > 0
       \/ res.off = 0 /\ res.base < Len(res.cache)
       \/ res.off = 0 /\ res.base >= Len(res.cache)
  BY <1>3, <1>7
<1> QED BY <1>8, <1>9, <1>10, <1>11

-----------------------------------------------------------------------------
(***************************************************************************)
(* Every step.                                                             *)
(***************************************************************************)
LEMMA RowStep ==
    ASSUME ScrollInv,
           \/ FetchWhole \/ FetchCached \/ FetchAtEnd \/ FetchMoved \/ FetchNew \/ FetchMore
           \/ FetchRefused \/ Done
    PROVE  Moves /\ call.pc = "rows" /\ UNCHANGED asked
<1>1. Moves /\ UNCHANGED asked
  BY FetchWholeMoves, FetchCachedMoves, FetchAtEndMoves, FetchMovedMoves, FetchNewMoves,
     FetchMoreMoves, FetchRefusedMoves, DoneMoves
<1>2. call.pc = "rows"
  BY DEF FetchWhole, FetchCached, FetchAtEnd, FetchMoved, FetchNew, FetchMore, FetchRefused,
         Done, Misses
<1> QED BY <1>1, <1>2

LEMMA StepKeeps == ScrollInv /\ [Next]_vars => ScrollInv'
<1>1. SUFFICES ASSUME ScrollInv, [Next]_vars PROVE ScrollInv'
  OBVIOUS
<1>2. CASE \E ask \in Asks, r \in Sizes : ExtendedFetch(ask, r)
  BY <1>1, <1>2, AskKeeps
<1>3. CASE \/ FetchWhole \/ FetchCached \/ FetchAtEnd \/ FetchMoved \/ FetchNew \/ FetchMore
           \/ FetchRefused \/ Done
  <2>1. Moves /\ call.pc = "rows" /\ UNCHANGED asked
    BY <1>1, <1>3, RowStep
  <2> QED BY <1>1, <2>1, MovesKeeps
<1>4. CASE UNCHANGED vars
  <2>1. /\ server' = server /\ res' = res /\ stmt' = stmt /\ call' = call /\ out' = out
        /\ asked' = asked
    BY <1>4 DEF vars
  <2>2. CacheInv'
    BY <1>1, <2>1 DEF ScrollInv, CacheInv, TypeOK, Cached, Synced, Ended, Origin, Filled
  <2>3. InRows'
    BY <1>1, <2>1 DEF ScrollInv, InRows, Filled, Contract!Target, Contract!Reached,
                      Contract!Absolute, Contract!FromBefore
  <2>4. Between' /\ ForwardOnly'
    BY <1>1, <2>1 DEF ScrollInv, Between, ForwardOnly, OpenForward, ClosedForward, Origin, Filled
  <2>5. HandedOut'
    BY <1>1, <2>1, HandedStays
  <2> QED BY <2>2, <2>3, <2>4, <2>5 DEF ScrollInv
<1> QED BY <1>1, <1>2, <1>3, <1>4 DEF Next


-----------------------------------------------------------------------------
(***************************************************************************)
(* The rows that are handed out.                                           *)
(***************************************************************************)
LEMMA RowsOfLength ==
    ASSUME server.n \in Nat, NEW p \in Nat, NEW r \in Nat, p < server.n
    PROVE  /\ Contract!RowsOf(p, r) \in Seq(Nat)
           /\ Len(Contract!RowsOf(p, r)) = IF p + r > server.n THEN server.n - p ELSE r
           /\ \A i \in 1 .. Len(Contract!RowsOf(p, r)) : Contract!RowsOf(p, r)[i] = p + i - 1
<1> DEFINE m == IF p + r > server.n THEN server.n - p ELSE r
           t == [i \in 1 .. m |-> p + i - 1]
<1>1. m \in Nat /\ Contract!RowsOf(p, r) = t
  BY DEF Contract!RowsOf
<1>2. t \in Seq(Nat) /\ Len(t) = m /\ \A i \in 1 .. m : t[i] = p + i - 1
  <2> HIDE DEF m
  <2>1. t \in [1 .. m -> Nat]
    BY <1>1
  <2>2. t \in Seq(Nat)
    BY <1>1, <2>1, SeqDef
  <2>3. Len(t) \in Nat /\ DOMAIN t = 1 .. Len(t)
    BY <2>2, LenProperties
  <2>4. Len(t) = m
    BY <1>1, <2>1, <2>3
  <2>5. \A i \in 1 .. m : t[i] = p + i - 1
    OBVIOUS
  <2> QED BY <2>2, <2>4, <2>5
<1> HIDE DEF t
<1> QED BY <1>1, <1>2

\* Nothing is always allowed where nothing is.
LEMMA NothingGiven ==
    ASSUME server.n \in Nat, NEW p \in Int, NEW r, p < 0 \/ p >= server.n
    PROVE  <<>> \in Contract!Given(Contract!RowsOf(p, r))
<1>1. Contract!RowsOf(p, r) = <<>>
  BY RowsOfNothing
<1>2. PICK e \in Seq(Nat) : e = <<>> /\ Len(e) = 0
  BY EmptySeq
<1>3. e \in Contract!Prefixes(e)
  <2>1. PICK z \in 0 .. Len(e) : z = 0
    BY <1>2
  <2>2. PICK one \in Nat : one = 1
    OBVIOUS
  <2>3. SubSeq(e, 1, z) = <<>>
    BY <1>2, <2>1, SubSeqProperties, EmptySeq
  <2> QED BY <1>2, <2>1, <2>3 DEF Contract!Prefixes
<1> QED BY <1>1, <1>2, <1>3 DEF Contract!Given

\* The first rows of a rowset.
LEMMA FirstRows ==
    ASSUME server.n \in Nat, NEW s \in Seq(Nat), NEW p \in Nat, NEW r \in Nat, Len(s) <= r,
           Len(s) > 0 => p + Len(s) <= server.n,
           \A i \in 1 .. Len(s) : s[i] = p + i - 1
    PROVE  /\ s \in Contract!Prefixes(Contract!RowsOf(p, r))
           /\ Len(s) = r \/ p + Len(s) >= server.n => s = Contract!RowsOf(p, r)
<1>1. Len(s) \in Nat /\ (Len(s) = 0 => s = <<>>)
  BY LenProperties, EmptySeq
<1>2. CASE p >= server.n
  <2>1. s = <<>>
    BY <1>1, <1>2
  <2>2. Contract!RowsOf(p, r) = <<>>
    BY <1>2, RowsOfNothing
  <2>3. PICK z \in 0 .. Len(s) : z = 0
    BY <1>1
  <2>4. SubSeq(s, 1, z) = <<>>
    BY <1>1, <2>3, SubSeqProperties, EmptySeq
  <2> QED BY <2>1, <2>2, <2>3, <2>4 DEF Contract!Prefixes
<1>3. CASE p < server.n
  <2>1. PICK t : t = Contract!RowsOf(p, r)
    OBVIOUS
  <2>2. /\ t \in Seq(Nat) /\ Len(t) \in Nat
        /\ Len(t) = IF p + r > server.n THEN server.n - p ELSE r
        /\ \A i \in 1 .. Len(t) : t[i] = p + i - 1
    <3>1. /\ Contract!RowsOf(p, r) \in Seq(Nat)
          /\ Len(Contract!RowsOf(p, r)) = IF p + r > server.n THEN server.n - p ELSE r
          /\ \A i \in 1 .. Len(Contract!RowsOf(p, r)) : Contract!RowsOf(p, r)[i] = p + i - 1
      BY <1>3, RowsOfLength
    <3>2. /\ t \in Seq(Nat)
          /\ Len(t) = IF p + r > server.n THEN server.n - p ELSE r
          /\ \A i \in 1 .. Len(t) : t[i] = p + i - 1
      BY <2>1, <3>1, Zenon
    <3> QED BY <3>2, LenProperties
  <2>3. PICK k \in Nat : k = Len(s)
    BY <1>1
  <2>4. k \in 0 .. Len(t)
    BY <1>3, <2>2, <2>3
  <2>5. SubSeq(t, 1, k) = s
    <3>1. /\ SubSeq(t, 1, k) \in Seq(Nat) /\ Len(SubSeq(t, 1, k)) = k
          /\ \A i \in 1 .. k : SubSeq(t, 1, k)[i] = t[i]
      <4>1. PICK one \in Int : one = 1
        OBVIOUS
      <4>2. \A i \in one .. k : t[i] \in Nat
        <5>1. SUFFICES ASSUME NEW i \in one .. k PROVE t[i] \in Nat
          OBVIOUS
        <5>2. i \in 1 .. Len(t) /\ p + i - 1 \in Nat
          BY <2>2, <2>4, <4>1
        <5> QED BY <2>2, <5>2
      <4>3. /\ SubSeq(t, one, k) \in Seq(Nat)
            /\ Len(SubSeq(t, one, k)) = IF one <= k THEN k - one + 1 ELSE 0
            /\ \A i \in 1 .. k - one + 1 : SubSeq(t, one, k)[i] = t[one + i - 1]
        BY <4>2, SubSeqProperties
      <4>4. Len(SubSeq(t, one, k)) = k /\ \A i \in 1 .. k : SubSeq(t, one, k)[i] = t[i]
        <5>1. k - one + 1 = k
          BY <4>1
        <5>2. (IF one <= k THEN k - one + 1 ELSE 0) = k
          BY <4>1, <5>1
        <5>3. ASSUME NEW i \in 1 .. k PROVE SubSeq(t, one, k)[i] = t[i]
          <6>1. one + i - 1 = i
            BY <4>1
          <6>2. SubSeq(t, one, k)[i] = t[one + i - 1]
            BY <4>3, <5>1
          <6> QED BY <6>1, <6>2
        <5>4. Len(SubSeq(t, one, k)) = k
          BY <4>3, <5>2, SMTT(30)
        <5> QED BY <5>3, <5>4, ZenonT(30)
      <4> QED BY <4>1, <4>3, <4>4
    <3>2. \A i \in 1 .. k : SubSeq(t, 1, k)[i] = s[i]
      BY <2>2, <2>3, <2>4, <3>1
    <3> QED BY <2>3, <3>1, <3>2, SeqEqual
  <2>6. s \in Contract!Prefixes(t)
    BY <2>4, <2>5 DEF Contract!Prefixes
  <2>7. ASSUME Len(s) = r \/ p + Len(s) >= server.n PROVE s = t
    <3>1. Len(s) = Len(t)
      BY <1>3, <2>2, <2>3, <2>7
    <3>2. \A i \in 1 .. Len(s) : s[i] = t[i]
      BY <2>2, <3>1
    <3> QED BY <2>2, <3>1, <3>2, SeqEqual
  <2> QED BY <2>1, <2>6, <2>7
<1> QED BY <1>2, <1>3

-----------------------------------------------------------------------------
(***************************************************************************)
(* The contract, step by step.                                             *)
(***************************************************************************)
\* Whatever the server has refused, rows that were read are handed out in order.
LEMMA Loses ==
    ASSUME ScrollInv', server'.n = server.n, server'.dead
    PROVE  Contract!Lose
<1>1. PICK k \in 0 .. server'.n : out'.rows = Contract!RowsOf(out.at, k)'
  BY DEF ScrollInv, HandedOut
<1>2. Contract!RowsOf(out.at, k)' = Contract!RowsOf(out'.at, k)
  BY DEF Contract!RowsOf
<1> QED BY <1>1, <1>2 DEF Contract!Lose

LEMMA AskImplements ==
    ASSUME ScrollInv, ScrollInv', NEW ask \in Asks, NEW r \in Sizes, ExtendedFetch(ask, r)
    PROVE  Contract!CNext
<1>1. Lands(ask, r) /\ asked' = <<ask, r>>
  BY AskLands
<1>2. PICK q : Sought(q) /\ \E start \in Int :
        /\ LandsAt(q, start, r) /\ (server'.all => server.all \/ Contract!FromEnd(ask))
        /\ ~server'.dead => start \in Contract!Target(ask, r)
  BY <1>1 DEF Lands
<1>3. PICK start \in Int :
        /\ LandsAt(q, start, r) /\ (server'.all => server.all \/ Contract!FromEnd(ask))
        /\ ~server'.dead => start \in Contract!Target(ask, r)
  BY <1>2
<1>4. server \in Server /\ server' \in Server /\ server.n \in Nat /\ server'.n = server.n
  <2>1. server \in Server /\ server' \in Server
    BY DEF ScrollInv, CacheInv, TypeOK
  <2> QED BY <1>2, <2>1, SoughtKeeps DEF Server
<1>5. (server.dead => server'.dead) /\ (server.all => server'.all)
  <2>1. CASE server' = server
    BY <2>1
  <2>2. CASE server' = [server EXCEPT !.dead = TRUE]
    BY <1>4, <2>2 DEF Server
  <2>3. CASE ~server.dead /\ server' = [server EXCEPT !.pos = server.n + 1, !.all = TRUE]
    <3>1. PICK p : p = server.n + 1
      OBVIOUS
    <3>2. server' = [server EXCEPT !.pos = p, !.all = TRUE]
      BY <2>3, <3>1
    <3> QED BY <1>4, <2>3, <3>2 DEF Server
  <2> QED BY <1>2, <2>1, <2>2, <2>3 DEF Sought
<1>6. CASE server'.dead
  BY <1>4, <1>6, Loses DEF Contract!CNext
<1>7. CASE ~server'.dead
  <2>1. asked'[1] = ask /\ asked'[2] = r /\ asked' \in Asks \X Sizes
    BY <1>1
  <2>2. UNCHANGED <<server.n, server.dead>>
    BY <1>4, <1>5, <1>7 DEF Server
  <2>3. Contract!Asked
    BY <1>3, <1>4, <1>5, <2>1, <2>2 DEF Contract!Asked, Server
  <2>4. CASE FetchFrom(q, start, r)
    <3>1. UNCHANGED out
      BY <2>4 DEF FetchFrom
    <3>2. Contract!Ask
      BY <2>3, <3>1 DEF Contract!Ask
    <3> QED BY <1>5, <1>7, <3>2 DEF Contract!CNext
  <2>5. CASE NoRows(q, start, r) /\ Outside(q, start)
    <3>1. out' = [ret |-> "nodata", rows |-> <<>>, size |-> r, at |-> start]
      BY <2>5 DEF NoRows
    <3>2. out'.ret = "nodata" /\ out'.rows = <<>> /\ out'.size = r /\ out'.at = start
      BY <3>1
    <3>3. start < 0 \/ start >= server.n
      BY <1>4, <2>5 DEF Outside
    <3>4. <<>> \in Contract!Given(Contract!RowsOf(start, r))
      BY <1>4, <3>3, NothingGiven
    <3>5. start \in Contract!Target(ask, r)
      BY <1>3, <1>7
    <3>6. Contract!Fetch
      BY <2>1, <2>3, <3>2, <3>4, <3>5 DEF Contract!Fetch
    <3> QED BY <1>5, <1>7, <3>6 DEF Contract!CNext
  <2> QED BY <1>3, <2>4, <2>5 DEF LandsAt
<1> QED BY <1>6, <1>7

LEMMA MovesImplements ==
    ASSUME ScrollInv, ScrollInv', call.pc = "rows", UNCHANGED asked, Moves
    PROVE  Contract!CNext \/ UNCHANGED Contract!cvars
<1>1. PICK q : \E o \in Int : Fresh(q, o) /\ (Gets(q, o) \/ Ends(q, o))
  BY DEF Moves
<1>2. PICK o \in Int : Fresh(q, o) /\ (Gets(q, o) \/ Ends(q, o))
  BY <1>1
<1>3. server'.n = server.n /\ server'.all = server.all /\ (server.dead => server'.dead)
  BY <1>2 DEF Fresh
<1>4. CASE Gets(q, o)
  <2>1. server'.dead = server.dead /\ UNCHANGED out
    BY <1>4 DEF Gets, GotRow
  <2> QED BY <1>3, <2>1 DEF Contract!cvars
<1>5. CASE server'.dead
  BY <1>3, <1>5, Loses DEF Contract!CNext
<1>6. CASE Ends(q, o) /\ ~server'.dead
  <2>1. PICK s \in Stmt, ret \in {"ok", "error"} :
          /\ s.start = stmt.start /\ s.saved = -1 /\ Finish(q, s, ret)
          /\ ret = "error" => server'.dead /\ q.curs
    BY <1>6 DEF Ends
  <2>2. ret = "ok"
    BY <1>6, <2>1
  <2>3. /\ out'.at = stmt.start /\ out'.size = call.r
        /\ out'.rows = (IF ret = "error" THEN <<>> ELSE call.got)
        /\ ret = "ok" => out'.ret = IF out'.rows = <<>> THEN "nodata" ELSE "ok"
    BY <1>2, <2>1, FinishTells
  <2>4. out'.rows = call.got /\ out'.ret = IF out'.rows = <<>> THEN "nodata" ELSE "ok"
    BY <2>2, <2>3
  <2>5. /\ server.n \in Nat /\ stmt.start \in Nat /\ call.got \in Seq(Nat) /\ call.r \in Nat
        /\ Len(call.got) <= call.r /\ Got = Len(call.got)
        /\ Len(call.got) > 0 => stmt.start + Len(call.got) <= server.n
        /\ \A i \in 1 .. Len(call.got) : call.got[i] = stmt.start + i - 1
        /\ asked \in Asks \X Sizes /\ asked[2] = call.r
        /\ ~server.dead => stmt.start \in Contract!Target(asked[1], asked[2])
        /\ Complete <=> Got = call.r
    BY RowsNow DEF Got
  <2>6. call.got \in Contract!Given(Contract!RowsOf(stmt.start, call.r))
    <3>1. PICK p \in Nat, r \in Nat, got \in Seq(Nat) :
            p = stmt.start /\ r = call.r /\ got = call.got
      BY <2>5
    <3>2. /\ got \in Contract!Prefixes(Contract!RowsOf(p, r))
          /\ Len(got) = r \/ p + Len(got) >= server.n => got = Contract!RowsOf(p, r)
      BY <2>5, <3>1, FirstRows
    <3>3. Len(got) = r \/ p + Len(got) >= server.n \/ server'.all
      BY <1>3, <1>6, <2>5, <3>1 DEF Ends, Over
    <3> QED BY <3>1, <3>2, <3>3 DEF Contract!Given
  <2>7. ~server.dead
    BY <1>3, <1>6
  <2>8. Contract!Asked
    <3>1. server \in Server /\ server' \in Server
      BY DEF ScrollInv, CacheInv, TypeOK
    <3> QED BY <1>3, <1>6, <2>5, <2>7, <3>1 DEF Contract!Asked, Server
  <2>9. Contract!Fetch
    BY <2>3, <2>4, <2>5, <2>6, <2>7, <2>8 DEF Contract!Fetch
  <2> QED BY <2>7, <2>9 DEF Contract!CNext
<1> QED BY <1>2, <1>4, <1>5, <1>6

LEMMA StepImplements == ScrollInv /\ ScrollInv' /\ [Next]_vars => [Contract!CNext]_(Contract!cvars)
<1>1. SUFFICES ASSUME ScrollInv, ScrollInv', [Next]_vars
               PROVE Contract!CNext \/ UNCHANGED Contract!cvars
  OBVIOUS
<1>2. CASE \E ask \in Asks, r \in Sizes : ExtendedFetch(ask, r)
  BY <1>1, <1>2, AskImplements
<1>3. CASE \/ FetchWhole \/ FetchCached \/ FetchAtEnd \/ FetchMoved \/ FetchNew \/ FetchMore
           \/ FetchRefused \/ Done
  <2>1. Moves /\ call.pc = "rows" /\ UNCHANGED asked
    BY <1>1, <1>3, RowStep
  <2> QED BY <1>1, <2>1, MovesImplements
<1>4. CASE UNCHANGED vars
  BY <1>4 DEF vars, Contract!cvars
<1> QED BY <1>1, <1>2, <1>3, <1>4 DEF Next

-----------------------------------------------------------------------------
(***************************************************************************)
(* The theorems.                                                           *)
(***************************************************************************)
\* The cursor's counters keep to the result's bounds, and the cache holds rows of the
\* result and nothing else, for results and rowsets of any size: what
\* PGAPI_ExtendedFetch and QR_next_tuple index the tuples by.
THEOREM ScrollTyped == Spec => []TypeOK
<1>1. ScrollInv => TypeOK
  BY DEF ScrollInv, CacheInv
<1> QED BY <1>1, InitKeeps, StepKeeps, PTL DEF Spec

\* The tuple cache is a part of the result without gaps and base says where in it the
\* rowset begins, through every MOVE and FETCH of QR_next_tuple, refused ones included.
THEOREM CacheTruthAlways == Spec => []CacheTruth
<1>1. ScrollInv => CacheTruth
  <2>1. SUFFICES ASSUME ScrollInv PROVE CacheTruth
    OBVIOUS
  <2>2. Caches(res, Origin, server) /\ res \in Res
    BY <2>1, CachesNow DEF ScrollInv, Caches
  <2>3. res.cache \in Seq(Nat) /\ Origin \in Int
    BY <2>2 DEF Caches, Res
  <2>4. PICK l \in Nat : l = Len(res.cache) /\ DOMAIN res.cache = 1 .. l
    BY <2>3, LenProperties
  <2>5. \A i \in 1 .. l : res.cache[i] = Origin + i - 1
    BY <2>2, <2>4 DEF Caches
  <2>6. CASE l = 0
    <3>1. res.cache = <<>>
      BY <2>3, <2>4, <2>6, EmptySeq
    <3> QED BY <2>4, <2>6, <3>1 DEF CacheTruth
  <2>7. CASE l # 0
    <3>1. res.cache[1] = Origin
      <4>1. PICK one \in 1 .. l : one = 1
        BY <2>4, <2>7
      <4>2. res.cache[one] = Origin + one - 1
        BY <2>5, <4>1
      <4> QED BY <2>3, <4>1, <4>2
    <3>2. \A i \in DOMAIN res.cache : res.cache[i] = res.cache[1] + i - 1
      BY <2>4, <2>5, <3>1
    <3>3. res.valid => res.cache[1] = stmt.start - res.base
      BY <3>1 DEF Origin
    <3> QED BY <3>2, <3>3 DEF CacheTruth
  <2> QED BY <2>4, <2>6, <2>7
<1> QED BY <1>1, InitKeeps, StepKeeps, PTL DEF Spec

\* SQLFetch and SQLFetchScroll keep the contract of a scrolled result: each fetch goes
\* where it was asked to and hands out the rows of the rowset there, all of them unless
\* a fetch was counted from the end, however the rows are read from the server; once it
\* refuses, rows that were read, in their order.
THEOREM RowsetContractKept == Spec => ImplementsContract
<1>1. Init => Contract!CInit(Totals)
  BY DEF Init, Contract!CInit
<1>2. ScrollInv /\ [Next]_vars => ScrollInv' /\ [Contract!CNext]_(Contract!cvars)
  BY StepKeeps, StepImplements
<1> QED BY <1>1, <1>2, InitKeeps, PTL DEF Spec, ImplementsContract
==============================================================================
