--------------------------- MODULE RowsetContract ---------------------------
(***************************************************************************)
(* What a scrolled result promises the application, however the driver     *)
(* reads it from the server: the result has a number of rows, the cursor   *)
(* stands on a rowset of it, before its first or behind its last row, and  *)
(* a fetch moves it and hands out the rows of the new rowset.              *)
(***************************************************************************)
EXTENDS Integers, Sequences

CONSTANTS
    Asks,        \* the fetches there are: <<orientation, offset>>
    Sizes        \* the rowset sizes

VARIABLES
    asked,       \* the fetch the application has asked for, and its rowset size
    n,           \* the number of rows of the result, numbered from 0
    at,          \* the first row of the rowset; -1 before, n or more behind the result
    size,        \* the size of the rowset it stands on
    rows,        \* the rows the last fetch has handed out
    ret,         \* and what it returned
    jumped,      \* a fetch was counted from the end
    lost         \* the server has failed the transaction of the cursor

cvars == <<asked, n, at, size, rows, ret, jumped, lost>>

\* Behind the result the place it counts from is not fixed.
Reached(p) == IF p > n THEN n .. p ELSE {p}

\* Where an absolute position is: counted from the end when it is negative; in
\* front of the first row the result starts.
Absolute(k) == CASE k = 0 -> {-1}
                 [] k > 0 -> Reached(k - 1)
                 [] OTHER -> {IF n = 0 THEN -1 ELSE IF n + k < 0 THEN 0 ELSE n + k}

\* Backward or nowhere from before the result: this driver hands out the first
\* rowset unless it is a single row, where the standard has it stay.
FromBefore(r) == IF r > 1 THEN 0 ELSE -1

\* Where the first row of the next rowset of r rows may be.
Target(ask, r) ==
    LET k == ask[2]
    IN  CASE ask[1] = "next" -> IF at < 0 THEN {0} ELSE Reached(at + size)
          [] ask[1] = "prior" ->
               Reached(IF at <= 0 THEN -1 ELSE IF at < r THEN 0 ELSE at - r)
                 \cup {p \in {0} : at >= n /\ n > 0 /\ r > n}
          [] ask[1] = "first" -> {0}
          [] ask[1] = "last" -> Absolute(-r)
          [] ask[1] = "absolute" -> Absolute(k)
          [] ask[1] = "relative" ->
               Reached(IF k > 0 THEN at + k
                       ELSE IF at < 0 THEN FromBefore(r)
                       ELSE IF k = 0 THEN at
                       ELSE IF at = 0 THEN -1 ELSE IF at + k < 0 THEN 0 ELSE at + k)

RowsOf(p, r) ==
    IF p < 0 \/ p >= n THEN <<>>
    ELSE [i \in 1 .. IF p + r > n THEN n - p ELSE r |-> p + i - 1]

CInit(N) ==
    /\ n \in N /\ at = -1 /\ size = 0 /\ rows = <<>> /\ ret = "none"
    /\ jumped = FALSE /\ lost = FALSE /\ asked = <<>>

\* Once a fetch was counted from the end, a rowset may lack its last rows: this
\* is weaker than what the application expects.
FromEnd(ask) == ask[1] = "last" \/ (ask[1] = "absolute" /\ ask[2] < 0)
Prefixes(s) == {SubSeq(s, 1, k) : k \in 0 .. Len(s)}
Given(all) == IF jumped' THEN Prefixes(all) ELSE {all}

Asked ==
    /\ asked' \in Asks \X Sizes
    /\ jumped' \in BOOLEAN /\ (jumped => jumped')
    /\ jumped' => jumped \/ FromEnd(asked'[1])
    /\ UNCHANGED <<n, lost>>

Ask == Asked /\ UNCHANGED <<at, size, rows, ret>>

Fetch ==
    /\ Asked
    /\ at' \in Target(asked'[1], asked'[2])
    /\ rows' \in Given(RowsOf(at', asked'[2]))
    /\ ret' = IF rows' = <<>> THEN "nodata" ELSE "ok"
    /\ size' = asked'[2]

\* The server refuses a MOVE or FETCH.  What is handed out then and later are
\* rows that were read before, in their order.
Lose ==
    /\ lost'
    /\ \E k \in 0 .. n : rows' = RowsOf(at', k)
    /\ UNCHANGED n

CNext == (~lost /\ (Ask \/ Fetch)) \/ Lose

=============================================================================
