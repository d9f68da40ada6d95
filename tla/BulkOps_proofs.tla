--------------------------- MODULE BulkOps_proofs ---------------------------
(***************************************************************************)
(* What SQLBulkOperations and SQLSetPos guarantee for rowsets of any size: *)
(* the connection's autocommit setting comes back; the rows are processed  *)
(* in order, each once, however often the operation is left for data at    *)
(* execution and resumed from the queue of callbacks; and an operation     *)
(* that succeeds has written every row it was to write, and says so.       *)
(*                                                                         *)
(* The argument.  As long as no dialogue was given up, the queue holds the *)
(* two callbacks of the row that waits, or nothing, and there is one loop  *)
(* in progress: that of the call, or the one queued (Current).  It knows   *)
(* whether autocommit has to come back (ModeOf), which rows it has behind  *)
(* it (PlacedOf, DoneBefore, AtRank), and what was written of each and     *)
(* told of it (Truthful, the second layer of the invariant).               *)
(***************************************************************************)
EXTENDS BulkOps, FiniteSetTheorems, TLAPS

-----------------------------------------------------------------------------
(***************************************************************************)
(* The type invariant.  A loop of SQLBulkOperations numbers its rows as it *)
(* goes, and one of SQLSetPos ends with the last row of the rowset.        *)
(***************************************************************************)
WellLoop == {l \in Loop : l.last < Rows /\ (l.api = "bulk" => l.nrow = l.idx)}
WellCallback == [kind : {"row", "loop"}, loop : WellLoop]

StmtOK == /\ stmt \in [queue : Seq(WellCallback), delegate : Delegate, curr : Nat,
                       live : SUBSET (0 .. Tuples - 1)]
          /\ stmt.delegate.dae # -1 =>
               stmt.delegate.n \in 1 .. MaxOps /\ stmt.delegate.row \in RowIds
CallOK == call \in [pc : {"idle", "loop", "resume", "finish", "crashed"},
                    loop : WellLoop, ret : {"ok", "error", "need"},
                    info : BOOLEAN, direct : BOOLEAN, exec : (0 .. MaxOps) \X Nat]
AppOK == app \in App
HistOK == hist \in Hist
ConnOK == conn \in Conn

Typed == ConnOK /\ StmtOK /\ CallOK /\ AppOK /\ HistOK

LEMMA TypedTypeOK == Typed => TypeOK
<1> SUFFICES ASSUME Typed PROVE TypeOK
  OBVIOUS
<1>1. WellLoop \subseteq Loop /\ WellCallback \subseteq Callback
  BY DEF WellLoop, WellCallback, Callback
<1>2. stmt.queue \in Seq(Callback)
  BY <1>1 DEF Typed, StmtOK
<1>3. stmt \in Stmt
  BY <1>2 DEF Typed, StmtOK, Stmt
<1>4. call \in Call
  BY <1>1 DEF Typed, CallOK, Call
<1> QED BY <1>3, <1>4 DEF Typed, TypeOK, ConnOK, AppOK, HistOK

-----------------------------------------------------------------------------
(***************************************************************************)
(* The transaction.                                                        *)
(***************************************************************************)
LEMMA StartStmtConn ==
    ASSUME NEW c \in Conn
    PROVE  /\ StartStmt(c) \in Conn
           /\ StartStmt(c).auto = c.auto /\ StartStmt(c).public = c.public
           /\ StartStmt(c).tx = c.tx /\ StartStmt(c).pending = c.pending
           /\ StartStmt(c).durable = c.durable
BY DEF Conn, StartStmt

\* COMMIT and ROLLBACK leave the mode alone.
LEMMA CommitConn ==
    ASSUME NEW c \in Conn, NEW taken
    PROVE  /\ Commit(c, taken) \in Conn /\ Commit(c, taken).auto = c.auto
           /\ Commit(c, taken).public = c.public
           /\ Commit(c, taken).tx = "idle" /\ (c.tx # "idle" => Commit(c, taken).pending = {})
           /\ c.tx = "idle" => Commit(c, taken) = c
           /\ Commit(c, taken).durable =
                IF c.tx = "open" /\ taken THEN c.durable \cup c.pending ELSE c.durable
<1>1. CASE c.tx = "idle"
  BY <1>1 DEF Commit
<1>2. CASE c.tx # "idle"
  <2> DEFINE made == IF c.tx = "open" /\ taken THEN c.durable \cup c.pending ELSE c.durable
             d == [c EXCEPT !.tx = "idle", !.pending = {}, !.durable = made]
  <2>1. made \in SUBSET Writes
    BY DEF Conn
  <2>2. Commit(c, taken) = StartStmt(d)
    BY <1>2 DEF Commit
  <2>3. made = IF c.tx = "open" /\ taken THEN c.durable \cup c.pending ELSE c.durable
    OBVIOUS
  <2> HIDE DEF made
  <2>4. /\ d \in Conn /\ d.auto = c.auto /\ d.public = c.public /\ d.tx = "idle"
        /\ d.pending = {} /\ d.durable = made
    BY <2>1 DEF Conn
  <2> HIDE DEF d
  <2> QED BY <1>2, <2>2, <2>3, <2>4, StartStmtConn
<1> QED BY <1>1, <1>2

LEMMA AbortConn ==
    ASSUME NEW c \in Conn
    PROVE  /\ Abort(c) \in Conn /\ Abort(c).auto = c.auto /\ Abort(c).public = c.public
           /\ Abort(c).tx = "idle"
<1>1. CASE c.tx = "idle"
  BY <1>1 DEF Abort
<1>2. CASE c.tx # "idle"
  <2> DEFINE d == [c EXCEPT !.tx = "idle", !.pending = {}]
  <2>1. d \in Conn /\ d.auto = c.auto /\ d.public = c.public /\ d.tx = "idle"
    BY DEF Conn
  <2>2. Abort(c) = StartStmt(d)
    BY <1>2 DEF Abort
  <2> HIDE DEF d
  <2> QED BY <2>1, <2>2, StartStmtConn
<1> QED BY <1>1, <1>2

LEMMA SetAutocommitConn ==
    ASSUME NEW c \in Conn, NEW on \in BOOLEAN, NEW taken
    PROVE  /\ SetAutocommit(c, on, taken) \in Conn /\ SetAutocommit(c, on, taken).auto = on
           /\ SetAutocommit(c, on, taken).public = c.public
           /\ c.auto # on =>
                /\ SetAutocommit(c, on, taken).tx = "idle"
                /\ SetAutocommit(c, on, taken).pending = Commit(c, taken).pending
                /\ SetAutocommit(c, on, taken).durable = Commit(c, taken).durable
<1>1. CASE c.auto = on
  BY <1>1 DEF SetAutocommit
<1>2. CASE c.auto # on
  <2>1. PICK d \in Conn : d = Commit(c, taken) /\ d.public = c.public /\ d.tx = "idle"
    BY CommitConn
  <2>2. SetAutocommit(c, on, taken) = [d EXCEPT !.auto = on]
    BY <1>2, <2>1 DEF SetAutocommit
  <2> QED BY <1>2, <2>1, <2>2 DEF Conn
<1> QED BY <1>1, <1>2

\* What the switching of the mode at the start of an operation leaves.
LEMMA SwitchedOffConn ==
    ASSUME Typed, NEW l, NEW taken
    PROVE  SwitchedOff(l, taken) \in Conn
BY SetAutocommitConn DEF SwitchedOff, Typed, ConnOK

\* The end of an API call leaves the mode alone.
LEMMA DiscardConn ==
    ASSUME NEW c \in Conn, NEW ret
    PROVE  /\ Discard(c, ret) \in Conn /\ Discard(c, ret).auto = c.auto
           /\ Discard(c, ret).public = c.public
           /\ ret # "error" => /\ Discard(c, ret).tx = c.tx
                               /\ Discard(c, ret).pending = c.pending
                               /\ Discard(c, ret).durable = c.durable
<1>1. CASE ret = "need"
  BY <1>1 DEF Discard
<1>2. CASE ret = "error" /\ c.accessed /\ c.tx # "idle" /\ c.svp
  <2> DEFINE d == [c EXCEPT !.tx = "open", !.pending = c.saved]
  <2>1. d \in Conn /\ d.auto = c.auto /\ d.public = c.public
    BY DEF Conn
  <2>2. Discard(c, ret) = StartStmt(d)
    BY <1>2 DEF Discard
  <2> HIDE DEF d
  <2> QED BY <1>2, <2>1, <2>2, StartStmtConn
<1>3. CASE ret = "error" /\ c.accessed /\ c.tx # "idle" /\ ~c.svp
  <2>1. Discard(c, ret) = Abort(c)
    BY <1>3 DEF Discard
  <2> QED BY <1>3, <2>1, AbortConn
<1>4. CASE ret # "need" /\ ~(ret = "error" /\ c.accessed /\ c.tx # "idle")
  <2>1. Discard(c, ret) = StartStmt(c)
    BY <1>4 DEF Discard
  <2> QED BY <2>1, StartStmtConn
<1> QED BY <1>1, <1>2, <1>3, <1>4

\* The savepoint of a row changes neither the mode nor what was written.
LEMMA RowSvpsConn ==
    ASSUME NEW c \in Conn, NEW d \in RowSvps(c)
    PROVE  /\ d \in Conn /\ d.auto = c.auto /\ d.public = c.public
           /\ d.tx = c.tx /\ d.pending = c.pending /\ d.durable = c.durable
<1> DEFINE acc == [c EXCEPT !.accessed = TRUE]
<1>1. /\ acc \in Conn /\ acc.auto = c.auto /\ acc.public = c.public
      /\ acc.tx = c.tx /\ acc.pending = c.pending /\ acc.durable = c.durable
  BY DEF Conn
<1> DEFINE sav == [acc EXCEPT !.svp = TRUE, !.saved = c.pending]
<1>2. d = c \/ d = acc \/ d = sav
  BY DEF RowSvps
<1>3. c.pending \subseteq Writes
  BY DEF Conn
<1> HIDE DEF acc
<1>4. /\ sav \in Conn /\ sav.auto = acc.auto /\ sav.public = acc.public
      /\ sav.tx = acc.tx /\ sav.pending = acc.pending /\ sav.durable = acc.durable
  BY <1>1, <1>3 DEF Conn
<1> QED BY <1>1, <1>2, <1>4

LEMMA BegunConn ==
    ASSUME NEW c \in Conn, NEW op
    PROVE  /\ Begun(c, op) \in Conn /\ Begun(c, op).auto = c.auto
           /\ Begun(c, op).public = c.public
           /\ Begun(c, op).pending = c.pending /\ Begun(c, op).durable = c.durable
           /\ Begun(c, op).tx = "failed" <=> c.tx = "failed"
           /\ Begun(c, op).tx = "idle" => c.tx = "idle"
<1> DEFINE d == [c EXCEPT !.tx = "open"]
<1>1. /\ d \in Conn /\ d.auto = c.auto /\ d.public = c.public /\ d.tx = "open"
      /\ d.pending = c.pending /\ d.durable = c.durable
  BY DEF Conn
<1>2. Begun(c, op) = c \/ (Begun(c, op) = d /\ c.tx = "idle")
  BY DEF Begun
<1> HIDE DEF d
<1> QED BY <1>1, <1>2

\* What one row's command makes of the transaction.
RowOutcome(c, op, w, x) ==
    /\ x.conn \in Conn /\ x.conn.auto = c.auto /\ x.conn.public = c.public
    /\ x.ret \in {"ok", "error"} /\ x.info \in BOOLEAN /\ x.hit \in BOOLEAN
    /\ c.pending \subseteq x.conn.pending /\ x.conn.pending \subseteq c.pending \cup {w}
    /\ c.durable \subseteq x.conn.durable /\ x.conn.durable \subseteq c.durable \cup {w}
    /\ IF x.hit THEN w \in x.conn.pending \cup x.conn.durable
       ELSE x.conn.pending = c.pending /\ x.conn.durable = c.durable
    /\ x.ret = "ok" /\ op = "update" /\ ~x.info => x.hit
    /\ x.conn.tx = "idle" => c.tx = "idle" /\ x.conn.pending = c.pending
    /\ x.conn.saved \subseteq c.saved \cup c.pending

\* What the row leaves of the transaction, whether it was written or not.
Leaves(c, w, hit, d) ==
    /\ d \in Conn /\ d.auto = c.auto /\ d.public = c.public
    /\ c.pending \subseteq d.pending /\ d.pending \subseteq c.pending \cup {w}
    /\ c.durable \subseteq d.durable /\ d.durable \subseteq c.durable \cup {w}
    /\ IF hit THEN w \in d.pending \cup d.durable
       ELSE d.pending = c.pending /\ d.durable = c.durable
    /\ d.tx = "idle" => c.tx = "idle" /\ d.pending = c.pending
    /\ d.saved \subseteq c.saved \cup c.pending

\* A transaction that breaks keeps what was written in it, for a ROLLBACK TO.
LEMMA BrokenLeaves ==
    ASSUME NEW c, NEW w, NEW hit, NEW d, Leaves(c, w, hit, d)
    PROVE  Leaves(c, w, hit, Broken(d))
<1>1. /\ Broken(d) \in Conn /\ Broken(d).auto = d.auto /\ Broken(d).public = d.public
      /\ Broken(d).pending = d.pending /\ Broken(d).durable = d.durable
      /\ Broken(d).tx = "idle" => d.tx = "idle"
      /\ Broken(d).saved = d.saved
  BY DEF Leaves, Broken, Conn
<1> QED BY <1>1 DEF Leaves

LEMMA WrittenLeaves ==
    ASSUME NEW c, NEW w \in Writes, NEW d, Leaves(c, w, FALSE, d)
    PROVE  Leaves(c, w, TRUE, Written(d, w))
<1>1. CASE d.tx = "idle"
  <2> DEFINE e == [d EXCEPT !.durable = @ \cup {w}]
  <2>1. /\ e \in Conn /\ e.auto = d.auto /\ e.public = d.public /\ e.tx = d.tx
        /\ e.pending = d.pending /\ e.durable = d.durable \cup {w} /\ e.saved = d.saved
    BY DEF Leaves, Conn
  <2>2. Written(d, w) = e
    BY <1>1 DEF Written
  <2> HIDE DEF e
  <2> QED BY <1>1, <2>1, <2>2 DEF Leaves
<1>2. CASE d.tx # "idle"
  <2> DEFINE e == [d EXCEPT !.pending = @ \cup {w}]
  <2>1. /\ e \in Conn /\ e.auto = d.auto /\ e.public = d.public /\ e.tx = d.tx
        /\ e.pending = d.pending \cup {w} /\ e.durable = d.durable /\ e.saved = d.saved
    BY DEF Leaves, Conn
  <2>2. Written(d, w) = e
    BY <1>2 DEF Written
  <2> HIDE DEF e
  <2> QED BY <1>2, <2>1, <2>2 DEF Leaves
<1> QED BY <1>1, <1>2

LEMMA RowSvpsLeaves ==
    ASSUME NEW c \in Conn, NEW op, NEW w, NEW d \in RowSvps(Begun(c, op))
    PROVE  Leaves(c, w, FALSE, d)
<1> DEFINE b == Begun(c, op)
<1>1. /\ b \in Conn /\ b.auto = c.auto /\ b.public = c.public
      /\ b.pending = c.pending /\ b.durable = c.durable
      /\ b.tx = "idle" => c.tx = "idle"
      /\ b.saved = c.saved
  <2>1. b.saved = c.saved
    BY DEF Begun, Conn
  <2> QED BY <2>1, BegunConn
<1> HIDE DEF b
<1>2. d \in RowSvps(b)
  BY DEF b
<1>3. d.saved \in {b.saved, b.pending}
  BY <1>1, <1>2 DEF RowSvps, Conn
<1> QED BY <1>1, <1>2, <1>3, RowSvpsConn DEF Leaves

LEMMA ResultsConn ==
    ASSUME NEW c \in Conn, NEW op, NEW w \in Writes, NEW x \in Results(c, op, w)
    PROVE  RowOutcome(c, op, w, x)
<1> DEFINE svps == RowSvps(Begun(c, op))
<1>1. /\ x.ret \in {"ok", "error"} /\ x.info \in BOOLEAN /\ x.hit \in BOOLEAN
      /\ x.ret = "ok" /\ op = "update" /\ ~x.info => x.hit
      /\ \/ \E d \in svps : x.conn \in {d, Broken(d)} /\ x.hit = FALSE
         \/ \E d \in svps : x.conn \in {Written(d, w), Broken(Written(d, w))} /\ x.hit = TRUE
         \/ x.conn = c /\ x.hit = FALSE
  <2> DEFINE sound == {d \in svps : d.tx # "failed"}
             wrote == {Written(d, w) : d \in sound}
             OrBroken(ds) == ds \cup {Broken(d) : d \in ds}
             Reply(ds, ret, infos, hit) == [conn : ds, ret : {ret}, info : infos, hit : {hit}]
  <2>1. \/ x \in Reply(OrBroken(svps), "error", {FALSE}, FALSE)
        \/ x \in Reply(OrBroken(wrote), "error", {FALSE}, TRUE)
        \/ x \in Reply(wrote, "ok", IF op = "delete" THEN {FALSE} ELSE BOOLEAN, TRUE)
        \/ op = "add" /\ x \in Reply(sound, "ok", BOOLEAN, FALSE)
        \/ op # "add" /\ x \in Reply(OrBroken(sound), "ok", {TRUE}, FALSE)
        \/ x \in Reply({c}, "ok", {TRUE}, FALSE)
    BY DEF Results
  <2> HIDE DEF svps
  <2> QED BY <2>1
<1> HIDE DEF svps
<1>2. \A d \in svps : Leaves(c, w, FALSE, d)
  BY RowSvpsLeaves DEF svps
<1>3. Leaves(c, w, FALSE, c)
  BY DEF Leaves
<1>4. Leaves(c, w, x.hit, x.conn)
  <2>1. CASE \E d \in svps : x.conn \in {d, Broken(d)} /\ x.hit = FALSE
    BY <1>2, <2>1, BrokenLeaves
  <2>2. CASE \E d \in svps : x.conn \in {Written(d, w), Broken(Written(d, w))} /\ x.hit = TRUE
    BY <1>2, <2>2, WrittenLeaves, BrokenLeaves
  <2>3. CASE x.conn = c /\ x.hit = FALSE
    BY <1>3, <2>3
  <2> QED BY <1>1, <2>1, <2>2, <2>3
<1> QED BY <1>1, <1>4 DEF RowOutcome, Leaves

-----------------------------------------------------------------------------
(***************************************************************************)
(* The loop.                                                               *)
(***************************************************************************)
LEMMA LoopFields ==
    ASSUME NEW l \in WellLoop
    PROVE  /\ l.api \in {"bulk", "setpos"} /\ l.op \in Ops /\ l.n \in 1 .. MaxOps
           /\ l.acNeeded \in BOOLEAN /\ l.idx \in Nat /\ l.nrow \in Nat
           /\ l.processed \in Nat /\ l.irow \in 0 .. Rows /\ l.first \in Nat
           /\ l.last \in Int /\ l.last < Rows /\ l.pos \in Nat /\ l.reached \in BOOLEAN
           /\ l.api = "bulk" => l.nrow = l.idx
BY DEF WellLoop, Loop

\* What a loop is about does not change while it runs.
SameLoop(m, l) ==
    /\ m.api = l.api /\ m.op = l.op /\ m.n = l.n /\ m.acNeeded = l.acNeeded
    /\ m.irow = l.irow /\ m.first = l.first /\ m.last = l.last

LEMMA SkippedLoop ==
    ASSUME NEW l \in WellLoop, NotInRowset(l) \/ NotWanted(l)
    PROVE  /\ Skipped(l) \in WellLoop /\ SameLoop(Skipped(l), l)
           /\ Skipped(l).idx = l.idx + 1
           /\ Skipped(l).nrow = IF NotInRowset(l) THEN l.nrow ELSE l.nrow + 1
           /\ Skipped(l).processed = l.processed /\ Skipped(l).reached = l.reached
<1>1. l.api = "setpos"
  BY DEF NotInRowset, NotWanted
<1> DEFINE n == IF NotInRowset(l) THEN l.nrow ELSE l.nrow + 1
           i == l.idx + 1
           m == [l EXCEPT !.processed = l.processed, !.idx = i, !.nrow = n]
<1>2. n \in Nat /\ l \in Loop /\ l.processed \in Nat /\ i \in Nat /\ l.last < Rows
  BY LoopFields DEF WellLoop
<1>3. Skipped(l) = m
  <2>1. l.processed = l.processed /\ l = [l EXCEPT !.processed = l.processed]
    BY <1>2 DEF Loop
  <2>2. l.nrow + 1 = n \/ (NotInRowset(l) /\ n = l.nrow /\ l = [l EXCEPT !.nrow = l.nrow])
    BY <1>2 DEF Loop
  <2> QED BY <1>2, <2>1, <2>2 DEF Skipped, Loop
<1> HIDE DEF n, i
<1>4. m \in Loop
  BY <1>2 DEF Loop
<1>5. m.reached = l.reached /\ m.processed = l.processed /\ m.idx = i /\ m.nrow = n
  BY <1>2 DEF Loop
<1>6. SameLoop(m, l)
  BY <1>2 DEF Loop, SameLoop
<1> HIDE DEF m
<1> QED BY <1>1, <1>2, <1>3, <1>4, <1>5, <1>6 DEF WellLoop, SameLoop, n, i

LEMMA CountedLoop ==
    ASSUME NEW l \in WellLoop, NEW ret
    PROVE  /\ Counted(l, ret) \in WellLoop /\ SameLoop(Counted(l, ret), l)
           /\ Counted(l, ret).idx = l.idx + 1
           /\ ret # "error" => Counted(l, ret).nrow = l.nrow + 1
           /\ Counted(l, ret).processed = l.processed + 1
<1>1. l \in Loop /\ l.last < Rows /\ (l.api = "bulk" => l.nrow = l.idx)
  BY DEF WellLoop
<1> DEFINE n == IF l.api = "setpos" /\ ret = "error" THEN l.nrow ELSE l.nrow + 1
           a == l.processed + 1
           i == l.idx + 1
           m == [l EXCEPT !.processed = a, !.idx = i, !.nrow = n]
<1>2. n \in Nat /\ a \in Nat /\ i \in Nat
  BY LoopFields
<1>3. Counted(l, ret) = m
  BY DEF Counted
<1>4. (l.api = "bulk" => n = i) /\ (ret # "error" => n = l.nrow + 1)
  BY <1>1
<1> HIDE DEF n, a, i
<1>5. m \in Loop
  BY <1>1, <1>2 DEF Loop
<1>6. m.processed = a /\ m.idx = i /\ m.nrow = n
  BY <1>1, <1>2 DEF Loop
<1>7. SameLoop(m, l)
  BY <1>1, <1>2 DEF Loop, SameLoop
<1> HIDE DEF m
<1> QED BY <1>1, <1>3, <1>4, <1>5, <1>6, <1>7 DEF WellLoop, SameLoop, a, i

LEMMA ReachedLoop ==
    ASSUME NEW l \in WellLoop
    PROVE  /\ Reached(l) \in WellLoop /\ SameLoop(Reached(l), l)
           /\ Reached(l).idx = l.idx /\ Reached(l).nrow = l.nrow
           /\ Reached(l).processed = l.processed
<1>1. l \in Loop /\ l.last < Rows /\ (l.api = "bulk" => l.nrow = l.idx)
  BY DEF WellLoop
<1>2. Reached(l) \in Loop
  BY <1>1 DEF Reached, Loop
<1>3. /\ SameLoop(Reached(l), l) /\ Reached(l).idx = l.idx /\ Reached(l).nrow = l.nrow
      /\ Reached(l).processed = l.processed
  BY <1>1 DEF Reached, Loop, SameLoop
<1> QED BY <1>1, <1>2, <1>3 DEF WellLoop, SameLoop

LEMMA ResumedLoop ==
    ASSUME NEW l \in WellLoop
    PROVE  /\ Resumed(l) \in WellLoop /\ SameLoop(Resumed(l), l)
           /\ Resumed(l).idx = l.idx + 1
           /\ call.ret # "error" => Resumed(l).nrow = l.nrow + 1
           /\ Resumed(l).processed = l.processed + 1
<1> DEFINE m == Counted(l, call.ret)
<1>1. /\ m \in WellLoop /\ SameLoop(m, l) /\ m.idx = l.idx + 1
      /\ call.ret # "error" => m.nrow = l.nrow + 1
      /\ m.processed = l.processed + 1
  BY CountedLoop
<1>2. Resumed(l) = [m EXCEPT !.pos = 0]
  BY DEF Resumed
<1> HIDE DEF m
<1> QED BY <1>1, <1>2 DEF WellLoop, Loop, SameLoop

LEMMA NewLoopWell ==
    ASSUME Typed, NEW api \in {"bulk", "setpos"}, NEW op \in Ops, NEW irow \in 0 .. Rows,
           hist.n < MaxOps
    PROVE  /\ NewLoop(api, op, irow) \in WellLoop
           /\ NewLoop(api, op, irow).api = api /\ NewLoop(api, op, irow).op = op
           /\ NewLoop(api, op, irow).n = hist.n + 1
           /\ NewLoop(api, op, irow).acNeeded = (conn.auto /\ op \in Writing)
           /\ NewLoop(api, op, irow).irow = irow
           /\ NewLoop(api, op, irow).idx = 0 /\ NewLoop(api, op, irow).nrow = 0
           /\ NewLoop(api, op, irow).processed = 0
           /\ NewLoop(api, op, irow).first = (IF irow = 0 THEN 0 ELSE irow - 1)
           /\ NewLoop(api, op, irow).last = (IF irow = 0 THEN Rows - 1 ELSE irow - 1)
<1>1. hist.n \in Nat /\ MaxOps \in Nat /\ Rows \in Nat \ {0} /\ conn.auto \in BOOLEAN
  BY BulkAssumption DEF Typed, HistOK, Hist, ConnOK, Conn
<1> DEFINE l == NewLoop(api, op, irow)
<1>2. l \in Loop
  <2> DEFINE first == IF irow = 0 THEN 0 ELSE irow - 1
             last == IF irow = 0 THEN Rows - 1 ELSE irow - 1
             ac == conn.auto /\ op \in Writing
             n == hist.n + 1
  <2>1. first \in Nat /\ last \in Int /\ n \in 1 .. MaxOps /\ irow \in 0 .. Rows
    BY <1>1
  <2>2. ac \in BOOLEAN
    OBVIOUS
  <2>3. l = [IdleLoop EXCEPT !.api = api, !.op = op, !.n = n, !.acNeeded = ac, !.irow = irow,
                             !.first = first, !.last = last]
    BY DEF NewLoop
  <2> HIDE DEF first, last, ac, n
  <2> DEFINE x == [IdleLoop EXCEPT !.api = api, !.op = op, !.n = n]
             y == [x EXCEPT !.acNeeded = ac, !.irow = irow]
             z == [y EXCEPT !.first = first, !.last = last]
  <2>4. x \in Loop
    <3>1. 1 \in 1 .. MaxOps /\ 0 \in 0 .. Rows /\ "add" \in Ops
      BY <1>1 DEF Ops
    <3>2. IdleLoop \in Loop
      BY <3>1 DEF IdleLoop, Loop
    <3> QED BY <2>1, <3>2 DEF Loop
  <2>5. l = z
    BY <2>3
  <2> HIDE DEF x
  <2>6. y \in Loop
    BY <2>1, <2>2, <2>4 DEF Loop
  <2> HIDE DEF y
  <2>7. z \in Loop
    BY <2>1, <2>6 DEF Loop
  <2> QED BY <2>5, <2>7
<1>3. /\ l.api = api /\ l.op = op /\ l.n = hist.n + 1
      /\ l.acNeeded = (conn.auto /\ op \in Writing) /\ l.irow = irow
      /\ l.idx = 0 /\ l.nrow = 0 /\ l.processed = 0
      /\ l.first = (IF irow = 0 THEN 0 ELSE irow - 1)
      /\ l.last = (IF irow = 0 THEN Rows - 1 ELSE irow - 1)
  BY <1>1 DEF NewLoop, IdleLoop
<1>4. l.last < Rows
  BY <1>1, <1>3
<1> QED BY <1>2, <1>3, <1>4 DEF WellLoop

LEMMA IdleWell == IdleLoop \in WellLoop
<1>1. 1 \in 1 .. MaxOps /\ 0 \in 0 .. Rows /\ "add" \in Ops /\ 0 < Rows
  BY BulkAssumption DEF Ops
<1>2. IdleLoop \in Loop
  BY <1>1 DEF IdleLoop, Loop
<1> QED BY <1>1, <1>2 DEF IdleLoop, WellLoop

\* The row at hand is a row of the rowset.
LEMMA RowInSet ==
    ASSUME Typed, AtRow
    PROVE  /\ call.loop.nrow \in RowIds /\ call.loop \in WellLoop
           /\ <<call.loop.n, call.loop.nrow>> \in Writes
<1>1. call.loop \in WellLoop
  BY DEF Typed, CallOK
<1>2. call.loop.nrow \in RowIds
  BY <1>1, LoopFields, BulkAssumption DEF AtRow, LoopOver, RowIds
<1>3. call.loop.n \in 1 .. MaxOps
  BY <1>1, LoopFields
<1> QED BY <1>1, <1>2, <1>3 DEF Writes

-----------------------------------------------------------------------------
(***************************************************************************)
(* Every step keeps the types.                                             *)
(***************************************************************************)
LEMMA Untouched ==
    ASSUME Typed
    PROVE  /\ conn' = conn => ConnOK'
           /\ stmt' = stmt => StmtOK'
           /\ call' = call => CallOK'
           /\ app' = app => AppOK'
           /\ hist' = hist => HistOK'
<1>1. conn' = conn => ConnOK'
  BY DEF Typed, ConnOK
<1>2. stmt' = stmt => StmtOK'
  BY DEF Typed, StmtOK
<1>3. call' = call => CallOK'
  BY DEF Typed, CallOK
<1>4. app' = app => AppOK'
  BY DEF Typed, AppOK
<1>5. hist' = hist => HistOK'
  BY DEF Typed, HistOK
<1> QED BY <1>1, <1>2, <1>3, <1>4, <1>5

CallRec == [pc : {"idle", "loop", "resume", "finish", "crashed"},
            loop : WellLoop, ret : {"ok", "error", "need"},
            info : BOOLEAN, direct : BOOLEAN, exec : (0 .. MaxOps) \X Nat]

LEMMA IdleCallRec == IdleCall \in CallRec
<1>1. MaxOps \in Nat
  BY BulkAssumption
<1> QED BY <1>1, IdleWell DEF IdleCall, CallRec

LEMMA IdleCallOK ==
    ASSUME call' = IdleCall
    PROVE  CallOK'
BY IdleCallRec DEF CallOK, CallRec

LEMMA ReturnTyped ==
    ASSUME NEW c \in Conn, NEW ret, Return(c, ret)
    PROVE  ConnOK' /\ CallOK'
BY DiscardConn, IdleCallOK DEF Return, ConnOK

\* A loop that begins or goes on.
LEMMA LoopingOK ==
    ASSUME Typed, NEW l \in WellLoop, call' = [call EXCEPT !.loop = l]
    PROVE  CallOK'
BY DEF Typed, CallOK

\* The records of the history.
LEMMA MissingHist ==
    ASSUME NEW h \in Hist, NEW r \in RowIds, NEW hit \in BOOLEAN
    PROVE  /\ Missing(h, r, hit) \in Hist
           /\ Missing(h, r, hit).n = h.n /\ Missing(h, r, hit).done = h.done
           /\ Missing(h, r, hit).left = h.left /\ Missing(h, r, hit).given = h.given
           /\ Missing(h, r, hit).missed = IF hit THEN h.missed ELSE h.missed \cup {r}
BY DEF Missing, Hist

LEMMA AnewHist ==
    ASSUME NEW h \in Hist, h.n < MaxOps
    PROVE  /\ Anew(h) \in Hist
           /\ Anew(h).n = h.n + 1 /\ Anew(h).done = <<>> /\ Anew(h).missed = {}
           /\ Anew(h).left = h.left /\ Anew(h).given = h.given
<1>1. h.n + 1 \in 0 .. MaxOps
  BY BulkAssumption DEF Hist
<1>2. <<>> \in Seq(Nat \X Nat)
  OBVIOUS
<1> QED BY <1>1, <1>2 DEF Anew, Hist

LEMMA BeginTyped ==
    ASSUME Typed, NEW l \in WellLoop, hist.n < MaxOps, Begin(l)
    PROVE  Typed'
<1>1. ConnOK'
  BY SwitchedOffConn DEF Begin, ConnOK
<1>2. CallOK'
  <2>1. call' = [IdleCall EXCEPT !.pc = "loop", !.loop = l]
    BY DEF Begin
  <2> QED BY <2>1, IdleCallRec DEF CallOK, CallRec
<1>3. HistOK'
  BY AnewHist DEF Begin, Typed, HistOK
<1> QED BY <1>1, <1>2, <1>3, Untouched DEF Begin, Typed

LEMMA RowStatusType ==
    ASSUME NEW op \in Ops, NEW ret, NEW info
    PROVE  RowStatus(op, ret, info) \in {"old", "added", "updated", "deleted", "info", "error"}
BY DEF RowStatus, Mark, Ops

LEMMA StatusTyped ==
    ASSUME Typed, NEW r, NEW st \in {"old", "added", "updated", "deleted", "info", "error"},
           app' = [app EXCEPT !.status[r] = st]
    PROVE  AppOK'
BY DEF Typed, AppOK, App

LEMMA DoneTyped ==
    ASSUME NEW h \in Hist, NEW l \in WellLoop,
           hist' = [h EXCEPT !.done = Append(@, <<l.nrow, l.idx>>)]
    PROVE  HistOK'
<1>1. <<l.nrow, l.idx>> \in Nat \X Nat
  BY LoopFields
<1>2. Append(h.done, <<l.nrow, l.idx>>) \in Seq(Nat \X Nat)
  BY <1>1 DEF Hist
<1> QED BY <1>2 DEF HistOK, Hist

LEMMA RowDoneTyped ==
    ASSUME Typed, AtRow, NEW ret \in {"ok", "error"}, NEW info, NEW hit \in BOOLEAN,
           RowDone(ret, info, hit)
    PROVE  CallOK' /\ HistOK' /\ AppOK'
<1> DEFINE l == call.loop
<1>0. l \in WellLoop
  BY RowInSet
<1>1. CallOK'
  <2>1. Reached(l) \in WellLoop
    BY <1>0, ReachedLoop
  <2> DEFINE m == Counted(Reached(l), ret)
             pc == IF ret = "error" THEN "finish" ELSE "loop"
  <2>2. m \in WellLoop /\ pc \in {"finish", "loop"}
    BY <2>1, CountedLoop
  <2>3. call' = [call EXCEPT !.pc = pc, !.ret = ret, !.loop = m]
    BY DEF RowDone
  <2> HIDE DEF m, pc
  <2> QED BY <2>2, <2>3 DEF Typed, CallOK
<1>2. HistOK'
  <2> DEFINE h == Missing(hist, l.nrow, hit)
  <2>1. hist' = [h EXCEPT !.done = Append(@, <<l.nrow, l.idx>>)]
    BY DEF RowDone
  <2>2. h \in Hist
    BY RowInSet, MissingHist DEF Typed, HistOK
  <2> HIDE DEF l, h
  <2> QED BY <1>0, <2>1, <2>2, DoneTyped
<1>3. AppOK'
  <2>1. l.op \in Ops
    BY <1>0, LoopFields
  <2>2. app' = app \/ app' = [app EXCEPT !.status[l.nrow] = RowStatus(l.op, ret, info)]
    BY DEF RowDone
  <2> QED BY <2>1, <2>2, RowStatusType, StatusTyped, Untouched
<1> QED BY <1>1, <1>2, <1>3

\* Dropping the delegated handle.
LEMMA NoDelegateTyped ==
    ASSUME Typed, NEW q \in Seq(WellCallback),
           stmt' = [stmt EXCEPT !.queue = q, !.delegate = NoDelegate]
    PROVE  StmtOK'
<1>1. NoDelegate \in Delegate /\ NoDelegate.dae = -1
  BY BulkAssumption DEF NoDelegate, Delegate
<1> QED BY <1>1 DEF Typed, StmtOK

\* What is asked of the delegated handle changes.
LEMMA DelegateTyped ==
    ASSUME Typed, NEW x \in -1 .. 1, NEW y \in -1 .. 0,
           x # -1 => stmt.delegate.dae # -1,
           stmt' = [stmt EXCEPT !.delegate.dae = x, !.delegate.cur = y]
    PROVE  StmtOK'
<1> DEFINE d == [stmt.delegate EXCEPT !.dae = x, !.cur = y]
<1>1. d \in Delegate
  BY DEF Typed, StmtOK, Delegate
<1>2. stmt' = [stmt EXCEPT !.delegate = d]
  BY DEF Typed, StmtOK, Delegate
<1>3. d.n = stmt.delegate.n /\ d.row = stmt.delegate.row /\ d.dae = x /\ d.cur = y
  BY DEF Typed, StmtOK, Delegate
<1> HIDE DEF d
<1> QED BY <1>1, <1>2, <1>3 DEF Typed, StmtOK

LEMMA QueueTyped ==
    ASSUME Typed, NEW q \in Seq(WellCallback), stmt' = [stmt EXCEPT !.queue = q]
    PROVE  StmtOK'
BY DEF Typed, StmtOK

LEMMA QueueTail ==
    ASSUME Typed, stmt.queue # <<>>
    PROVE  /\ Head(stmt.queue) \in WellCallback /\ Head(stmt.queue).loop \in WellLoop
           /\ Tail(stmt.queue) \in Seq(WellCallback)
<1>1. Head(stmt.queue) \in WellCallback /\ Tail(stmt.queue) \in Seq(WellCallback)
  BY DEF Typed, StmtOK
<1> QED BY <1>1 DEF WellCallback

\* The end of an operation, and whether the COMMIT of its last step is taken.
FinishAs(taken) ==
    LET l == call.loop
        c == IF Restored(l) THEN SetAutocommit(conn, TRUE, taken) ELSE conn
        none == call.direct /\ l.api = "setpos" /\ l.processed = 0
        ret == IF none THEN "error" ELSE call.ret
        counted == IF l.irow = 0 THEN [app EXCEPT !.fetched = l.processed] ELSE app
    IN  /\ call.pc = "finish"
        /\ stmt' = IF l.irow > 0 /\ l.op # "add" /\ l.reached
                   THEN [stmt EXCEPT !.curr = l.pos] ELSE stmt
        /\ IF ~call.direct /\ stmt.queue # <<>>
           THEN /\ call' = [call EXCEPT !.pc = "resume", !.ret = ret]
                /\ conn' = c /\ app' = counted
           ELSE /\ Return(c, ret)
                /\ app' = [counted EXCEPT !.dialogue = FALSE, !.ret = ret,
                               !.last = IF call.direct THEN "op" ELSE "param"]
        /\ hist' = [hist EXCEPT !.refused = l.acNeeded /\ ~taken]

LEMMA EndTranConn ==
    ASSUME Typed, NEW commit, EndTran(commit)
    PROVE  conn' \in Conn /\ conn'.auto = conn.auto /\ conn'.public = conn.public
<1>1. conn \in Conn
  BY DEF Typed, ConnOK
<1>2. CASE commit
  <2>1. PICK taken : conn' = Commit(conn, taken)
    BY <1>2 DEF EndTran
  <2> QED BY <1>1, <2>1, CommitConn
<1>3. CASE ~commit
  <2>1. conn' = Abort(conn)
    BY <1>3 DEF EndTran
  <2> QED BY <1>1, <2>1, AbortConn
<1> QED BY <1>2, <1>3

LEMMA StepTyped ==
    ASSUME Typed, [Next]_vars
    PROVE  Typed'
<1>1. ASSUME NEW op \in Writing, NEW bound \in BOOLEAN, BulkOperations(op, bound) PROVE Typed'
  <2> DEFINE l == NewLoop("bulk", op, 0)
  <2>1. l \in WellLoop /\ hist.n < MaxOps
    BY <1>1, NewLoopWell, BulkAssumption DEF BulkOperations, Writing, Ops
  <2>2. CASE Begin(l)
    BY <2>1, <2>2, BeginTyped
  <2>3. CASE /\ \E taken \in BOOLEAN : Return(SwitchedOff(l, taken), "error")
             /\ app' = [app EXCEPT !.last = "op", !.ret = "error"]
             /\ hist' = [Anew(hist) EXCEPT !.given = @ \/ l.acNeeded]
             /\ UNCHANGED stmt
    <3>2. ConnOK' /\ CallOK'
      BY <2>3, SwitchedOffConn, ReturnTyped
    <3>3. AppOK'
      BY <2>3 DEF Typed, AppOK, App
    <3>4. HistOK'
      <4> DEFINE given == Anew(hist).given \/ l.acNeeded
      <4>1. Anew(hist) \in Hist /\ given \in BOOLEAN
        BY <2>1, AnewHist DEF Typed, HistOK
      <4>2. hist' = [Anew(hist) EXCEPT !.given = given]
        BY <2>3
      <4> HIDE DEF given
      <4> QED BY <4>1, <4>2 DEF HistOK, Hist
    <3> QED BY <2>3, <3>2, <3>3, <3>4, Untouched DEF Typed
  <2> QED BY <1>1, <2>2, <2>3 DEF BulkOperations
<1>2. ASSUME NEW op \in Ops, NEW irow \in 0 .. Rows, SetPos(op, irow) PROVE Typed'
  <2>1. NewLoop("setpos", op, irow) \in WellLoop /\ hist.n < MaxOps
    BY <1>2, NewLoopWell DEF SetPos
  <2> QED BY <1>2, <2>1, BeginTyped DEF SetPos
<1>3. CASE PassOver
  <2>1. call.loop \in WellLoop
    BY DEF Typed, CallOK
  <2>2. Skipped(call.loop) \in WellLoop
    BY <1>3, <2>1, SkippedLoop DEF PassOver
  <2>3. CallOK'
    BY <1>3, <2>2, LoopingOK DEF PassOver
  <2> QED BY <1>3, <2>3, Untouched DEF PassOver, Typed
<1>4. CASE ExecuteRow
  <2> DEFINE w == <<call.loop.n, call.loop.nrow>>
  <2>1. AtRow /\ w \in Writes
    BY <1>4, RowInSet DEF ExecuteRow
  <2>2. PICK x \in Results(conn, call.loop.op, w) :
          conn' = x.conn /\ RowDone(x.ret, x.info, x.hit)
    BY <1>4 DEF ExecuteRow
  <2> HIDE DEF w
  <2>3. x.conn \in Conn /\ x.ret \in {"ok", "error"} /\ x.hit \in BOOLEAN
    BY <2>1, <2>2, ResultsConn DEF Typed, ConnOK, RowOutcome
  <2>4. CallOK' /\ HistOK' /\ AppOK'
    BY <2>1, <2>2, <2>3, RowDoneTyped
  <2>5. StmtOK'
    <3>1. stmt.queue \in Seq(WellCallback) /\ stmt = [stmt EXCEPT !.queue = stmt.queue]
      BY DEF Typed, StmtOK
    <3>2. stmt' = stmt \/ stmt' = [stmt EXCEPT !.queue = stmt.queue, !.delegate = NoDelegate]
      BY <1>4, <3>1 DEF ExecuteRow
    <3> QED BY <3>1, <3>2, NoDelegateTyped, Untouched
  <2> QED BY <2>2, <2>3, <2>4, <2>5 DEF Typed, ConnOK
<1>5. CASE PositionRow
  <2>1. CallOK' /\ HistOK' /\ AppOK'
    BY <1>5, RowDoneTyped DEF PositionRow
  <2> QED BY <1>5, <2>1, Untouched DEF PositionRow, Typed
<1>6. CASE RefuseRow
  <2> DEFINE m == Counted(Reached(call.loop), "error")
  <2>1. m \in WellLoop
    BY <1>6, RowInSet, ReachedLoop, CountedLoop DEF RefuseRow
  <2>2. call' = [call EXCEPT !.pc = "finish", !.ret = "error", !.loop = m]
    BY <1>6 DEF RefuseRow
  <2> HIDE DEF m
  <2>3. CallOK'
    BY <2>1, <2>2 DEF Typed, CallOK
  <2> QED BY <1>6, <2>3, Untouched DEF RefuseRow, Typed
<1>7. CASE RowNeedsData
  <2> DEFINE l == Reached(call.loop)
             d == [n |-> l.n, row |-> l.nrow, dae |-> 1, cur |-> -1]
  <2>1. l \in WellLoop /\ l.nrow \in RowIds /\ l.n \in 1 .. MaxOps
    BY <1>7, RowInSet, ReachedLoop, LoopFields DEF RowNeedsData, SameLoop
  <2>2. d \in Delegate /\ d.dae # -1 /\ d.n \in 1 .. MaxOps /\ d.row \in RowIds
    BY <2>1, BulkAssumption DEF Delegate, RowIds
  <2>3. stmt.queue \o Waiting(l) \in Seq(WellCallback)
    <3>1. Waiting(l) \in Seq(WellCallback)
      BY <2>1 DEF Waiting, WellCallback
    <3> QED BY <3>1 DEF Typed, StmtOK
  <2>4. stmt' = [stmt EXCEPT !.queue = @ \o Waiting(l), !.delegate = d]
    BY <1>7 DEF RowNeedsData
  <2> HIDE DEF l, d
  <2>5. StmtOK'
    BY <2>2, <2>3, <2>4 DEF Typed, StmtOK
  <2>6. ConnOK' /\ CallOK'
    BY <1>7, ReturnTyped DEF RowNeedsData, Typed, ConnOK
  <2>7. AppOK'
    BY <1>7 DEF RowNeedsData, Typed, AppOK, App
  <2> QED BY <1>7, <2>5, <2>6, <2>7, Untouched DEF RowNeedsData, Typed
<1>8. CASE LoopEnds
  <2>1. CallOK'
    BY <1>8 DEF LoopEnds, Typed, CallOK
  <2> QED BY <1>8, <2>1, Untouched DEF LoopEnds, Typed
<1>9. CASE Finish
  <2>15. PICK taken \in BOOLEAN : FinishAs(taken)
    BY <1>9 DEF Finish, FinishAs
  <2> DEFINE l == call.loop
             c == IF Restored(l) THEN SetAutocommit(conn, TRUE, taken) ELSE conn
             none == call.direct /\ l.api = "setpos" /\ l.processed = 0
             ret == IF none THEN "error" ELSE call.ret
             counted == IF l.irow = 0 THEN [app EXCEPT !.fetched = l.processed] ELSE app
  <2>0. l \in WellLoop /\ l.pos \in Nat /\ l.processed \in Nat
    BY LoopFields DEF Typed, CallOK
  <2>1. c \in Conn /\ ret \in {"ok", "error", "need"} /\ counted \in App
    BY <2>0, SetAutocommitConn DEF Typed, ConnOK, CallOK, AppOK, App
  <2>2. stmt' = stmt \/ stmt' = [stmt EXCEPT !.curr = l.pos]
    BY <2>15 DEF FinishAs
  <2>3. \/ call' = [call EXCEPT !.pc = "resume", !.ret = ret] /\ conn' = c /\ app' = counted
        \/ /\ Return(c, ret)
           /\ app' = [counted EXCEPT !.dialogue = FALSE, !.ret = ret,
                                     !.last = IF call.direct THEN "op" ELSE "param"]
    BY <2>15 DEF FinishAs
  <2>4. StmtOK'
    BY <2>0, <2>2, Untouched DEF Typed, StmtOK
  <2>5. HistOK'
    BY <2>15, LoopFields DEF FinishAs, Typed, CallOK, HistOK, Hist
  <2> HIDE DEF c, ret, counted, l
  <2>6. CASE call' = [call EXCEPT !.pc = "resume", !.ret = ret] /\ conn' = c /\ app' = counted
    <3>1. CallOK'
      BY <2>1, <2>6 DEF Typed, CallOK
    <3> QED BY <2>1, <2>4, <2>5, <2>6, <3>1, Untouched DEF Typed, ConnOK, AppOK
  <2>7. CASE /\ Return(c, ret)
             /\ app' = [counted EXCEPT !.dialogue = FALSE, !.ret = ret,
                                       !.last = IF call.direct THEN "op" ELSE "param"]
    <3>1. ConnOK' /\ CallOK'
      BY <2>1, <2>7, ReturnTyped
    <3>2. AppOK'
      BY <2>1, <2>7 DEF AppOK, App
    <3> QED BY <2>4, <2>5, <3>1, <3>2, Untouched DEF Typed
  <2> QED BY <2>3, <2>6, <2>7
<1>10. CASE ResumeLoop
  <2> DEFINE m == Resumed(Head(stmt.queue).loop)
             pc == IF call.ret = "error" THEN "finish" ELSE "loop"
  <2>1. m \in WellLoop /\ Tail(stmt.queue) \in Seq(WellCallback) /\ pc \in {"finish", "loop"}
    BY <1>10, QueueTail, ResumedLoop DEF ResumeLoop
  <2>2. call' = [call EXCEPT !.pc = pc, !.loop = m] /\ stmt' = [stmt EXCEPT !.queue = Tail(@)]
    BY <1>10 DEF ResumeLoop
  <2> HIDE DEF m, pc
  <2>3. CallOK' /\ StmtOK'
    BY <2>1, <2>2, QueueTyped DEF Typed, CallOK
  <2> QED BY <1>10, <2>3, Untouched DEF ResumeLoop, Typed
<1>11. CASE ResumeRow
  <2> DEFINE l == Head(stmt.queue).loop
  <2>1. l \in WellLoop /\ Tail(stmt.queue) \in Seq(WellCallback)
    BY <1>11, QueueTail DEF ResumeRow
  <2>2. StmtOK'
    BY <1>11, <2>1, NoDelegateTyped DEF ResumeRow
  <2>3. CallOK'
    BY <1>11, Untouched DEF ResumeRow, Typed, CallOK
  <2>4. AppOK'
    <3>1. app' = app \/ app' = [app EXCEPT !.status[l.nrow] = RowStatus(l.op, call.ret, call.info)]
      BY <1>11 DEF ResumeRow
    <3>2. RowStatus(l.op, call.ret, call.info)
             \in {"old", "added", "updated", "deleted", "info", "error"}
      BY <2>1, LoopFields, RowStatusType
    <3> HIDE DEF l
    <3> QED BY <3>1, <3>2, StatusTyped, Untouched
  <2>5. HistOK'
    <3>1. hist' = hist \/ hist' = [hist EXCEPT !.done = Append(@, <<l.nrow, l.idx>>)]
      BY <1>11 DEF ResumeRow
    <3> HIDE DEF l
    <3> QED BY <2>1, <3>1, DoneTyped, Untouched DEF Typed, HistOK
  <2> QED BY <1>11, <2>2, <2>3, <2>4, <2>5, Untouched DEF ResumeRow, Typed
<1>12. CASE ParamToken
  <2>1. StmtOK'
    BY <1>12, DelegateTyped DEF ParamToken
  <2>2. AppOK'
    BY <1>12 DEF ParamToken, Typed, AppOK, App
  <2> QED BY <1>12, <2>1, <2>2, Untouched DEF ParamToken, Typed
<1>13. CASE ParamExecute
  <2> DEFINE d == stmt.delegate
             w == <<d.n, d.row>>
  <2>1. w \in Writes /\ w \in (0 .. MaxOps) \X Nat
    BY <1>13, BulkAssumption DEF ParamExecute, Typed, StmtOK, Writes, RowIds
  <2>2. PICK x \in Results(conn, Head(stmt.queue).loop.op, w) :
          /\ conn' = x.conn
          /\ call' = [IdleCall EXCEPT !.pc = "resume", !.ret = x.ret, !.info = x.info,
                                      !.direct = FALSE, !.exec = w]
          /\ hist' = Missing(hist, d.row, x.hit)
    BY <1>13 DEF ParamExecute
  <2> HIDE DEF w
  <2>3. /\ x.conn \in Conn /\ x.ret \in {"ok", "error"} /\ x.info \in BOOLEAN
        /\ x.hit \in BOOLEAN
    BY <2>1, <2>2, ResultsConn DEF Typed, ConnOK, RowOutcome
  <2>4. CallOK'
    BY <2>1, <2>2, <2>3, IdleWell DEF IdleCall, CallOK
  <2>5. HistOK'
    <3>1. d.row \in RowIds /\ hist \in Hist
      BY <1>13 DEF ParamExecute, Typed, StmtOK, HistOK
    <3> HIDE DEF d
    <3> QED BY <2>2, <2>3, <3>1, MissingHist DEF HistOK
  <2> QED BY <1>13, <2>2, <2>3, <2>4, <2>5, Untouched DEF ParamExecute, Typed, ConnOK
<1>14. ASSUME NEW last \in {"put"}, Refuse(last) PROVE Typed'
  <2>1. ConnOK' /\ CallOK'
    BY <1>14, ReturnTyped DEF Refuse, Typed, ConnOK
  <2>2. AppOK'
    BY <1>14 DEF Refuse, Typed, AppOK, App
  <2>3. HistOK'
    BY <1>14 DEF Refuse, GivenUp, Typed, HistOK, Hist
  <2> QED BY <1>14, <2>1, <2>2, <2>3, Untouched DEF Refuse, Typed
<1>15. CASE PutData
  <2>1. CASE app' = [app EXCEPT !.last = "put"] /\ UNCHANGED <<conn, stmt, call, hist>>
    <3>1. AppOK'
      BY <2>1 DEF Typed, AppOK, App
    <3> QED BY <2>1, <3>1, Untouched DEF Typed
  <2> QED BY <1>14, <1>15, <2>1 DEF PutData
<1>16. CASE Cancel
  <2>1. StmtOK'
    BY <1>16, DelegateTyped DEF Cancel
  <2>2. AppOK'
    BY <1>16 DEF Cancel, Typed, AppOK, App
  <2>3. HistOK'
    BY <1>16 DEF Cancel, GivenUp, Typed, HistOK, Hist
  <2> QED BY <1>16, <2>1, <2>2, <2>3, Untouched DEF Cancel, Typed
<1>17. CASE Reopen
  <2>1. PICK live \in Lives :
          stmt' = [queue |-> <<>>, delegate |-> NoDelegate, curr |-> 0, live |-> live]
    BY <1>17 DEF Reopen
  <2>2. live \in SUBSET (0 .. Tuples - 1) /\ IsFiniteSet(live)
    BY BulkAssumption
  <2>3. Cardinality(live) \in Nat /\ stmt'.live = live
    BY <2>1, <2>2, FS_CardinalityType
  <2>4. NoDelegate \in Delegate /\ NoDelegate.dae = -1 /\ <<>> \in Seq(WellCallback)
    BY BulkAssumption DEF NoDelegate, Delegate
  <2>5. StmtOK'
    BY <2>1, <2>2, <2>4 DEF StmtOK
  <2>6. ConnOK'
    <3> DEFINE c == [conn EXCEPT !.tx = IF conn.auto THEN @ ELSE "open"]
    <3>1. c \in Conn
      BY DEF Typed, ConnOK, Conn
    <3>2. conn' = StartStmt(c)
      BY <1>17 DEF Reopen
    <3> HIDE DEF c
    <3> QED BY <3>1, <3>2, StartStmtConn DEF ConnOK
  <2>7. HistOK'
    <3> DEFINE given == hist.given \/ hist.left
    <3>1. given \in BOOLEAN
      OBVIOUS
    <3>2. hist' = [hist EXCEPT !.left = FALSE, !.given = given, !.done = <<>>,
                               !.missed = {}]
      BY <1>17 DEF Reopen
    <3>3. <<>> \in Seq(Nat \X Nat)
      OBVIOUS
    <3> HIDE DEF given
    <3> QED BY <3>1, <3>2, <3>3 DEF Typed, HistOK, Hist
  <2>8. AppOK'
    <3> DEFINE st == [r \in RowIds |-> "old"]
    <3>1. st \in [RowIds -> {"old", "added", "updated", "deleted", "info", "error"}]
      OBVIOUS
    <3>2. app' = [app EXCEPT !.last = "none", !.ret = "ok", !.fetched = Cardinality(live),
                             !.status = st]
      BY <1>17, <2>3 DEF Reopen
    <3> HIDE DEF st
    <3> QED BY <2>3, <3>1, <3>2 DEF Typed, AppOK, App
  <2> QED BY <1>17, <2>5, <2>6, <2>7, <2>8, Untouched DEF Reopen, Typed
<1>18. CASE OtherWrites
  <2> DEFINE w == <<0, hist.others + 1>>
             c == [conn EXCEPT !.tx = IF conn.auto THEN @ ELSE "open"]
  <2>1. c \in Conn
    BY DEF Typed, ConnOK, Conn
  <2>2. w \in Writes /\ hist.others + 1 \in 0 .. MaxOthers
    BY <1>18, BulkAssumption DEF OtherWrites, Typed, HistOK, Hist, Writes
  <2>3. conn' = StartStmt(Written(c, w)) /\ hist' = [hist EXCEPT !.others = @ + 1]
    BY <1>18 DEF OtherWrites
  <2> HIDE DEF c, w
  <2>4. Written(c, w) \in Conn
    BY <2>1, <2>2 DEF Written, Conn
  <2>5. ConnOK'
    BY <2>3, <2>4, StartStmtConn DEF ConnOK
  <2>6. HistOK'
    BY <2>2, <2>3 DEF Typed, HistOK, Hist
  <2> QED BY <1>18, <2>5, <2>6, Untouched DEF OtherWrites, Typed
<1>19. ASSUME NEW on \in BOOLEAN, SetAutocommitOption(on) PROVE Typed'
  <2>2. PICK taken \in BOOLEAN : conn' = [SetAutocommit(conn, on, taken) EXCEPT !.public = on]
    BY <1>19 DEF SetAutocommitOption
  <2>1. SetAutocommit(conn, on, taken) \in Conn
    BY SetAutocommitConn DEF Typed, ConnOK
  <2>3. ConnOK'
    <3>1. PICK c \in Conn : c = SetAutocommit(conn, on, taken)
      BY <2>1
    <3>2. conn' = [c EXCEPT !.public = on]
      BY <2>2, <3>1
    <3> QED BY <3>2 DEF ConnOK, Conn
  <2>4. HistOK'
    BY <1>19 DEF SetAutocommitOption, Typed, HistOK, Hist
  <2> QED BY <1>19, <2>3, <2>4, Untouched DEF SetAutocommitOption, Typed
<1>20. ASSUME NEW commit \in BOOLEAN, EndTran(commit) PROVE Typed'
  <2>1. ConnOK'
    BY <1>20, EndTranConn DEF ConnOK
  <2> QED BY <1>20, <2>1, Untouched DEF EndTran, Typed
<1>21. CASE UNCHANGED vars
  BY <1>21, Untouched DEF vars, Typed
<1> QED
  <2>1. \A op \in Writing, bound \in {TRUE} \cup {"unbound" \notin Faults} :
           BulkOperations(op, bound) => Typed'
    BY <1>1
  <2> QED BY <2>1, <1>2, <1>3, <1>4, <1>5, <1>6, <1>7, <1>8, <1>9, <1>10, <1>11, <1>12, <1>13,
             <1>15, <1>16, <1>17, <1>18, <1>19, <1>20, <1>21 DEF Next

\* What the steps leave of the history.
LEMMA RowDoneHist ==
    ASSUME Typed, AtRow, NEW ret, NEW info, NEW hit \in BOOLEAN, RowDone(ret, info, hit)
    PROVE  /\ hist'.done = Append(hist.done, <<call.loop.nrow, call.loop.idx>>)
           /\ hist'.n = hist.n /\ hist'.left = hist.left /\ hist'.given = hist.given
           /\ hist'.missed = IF hit THEN hist.missed ELSE hist.missed \cup {call.loop.nrow}
<1>1. call.loop.nrow \in RowIds /\ hist \in Hist
  BY RowInSet DEF Typed, HistOK
<1>2. PICK r, t : r \in RowIds /\ r = call.loop.nrow /\ t = call.loop.idx
  BY <1>1
<1> DEFINE m == IF hit THEN hist.missed ELSE hist.missed \cup {r}
<1>3. PICK h \in Hist :
        /\ h = Missing(hist, r, hit) /\ h.n = hist.n /\ h.done = hist.done
        /\ h.left = hist.left /\ h.given = hist.given /\ h.missed = m
  <2>1. PICK h : h = Missing(hist, r, hit)
    OBVIOUS
  <2>2. /\ h \in Hist /\ h.n = hist.n /\ h.done = hist.done
        /\ h.left = hist.left /\ h.given = hist.given
    BY ZenonT(60), <1>1, <1>2, <2>1, MissingHist
  <2>3. h.missed = m
    <3>1. CASE hit
      BY <2>1, <3>1 DEF Missing
    <3>2. CASE ~hit
      BY <1>1, <2>1, <3>2 DEF Missing, Hist
    <3> QED BY <3>1, <3>2
  <2> HIDE DEF m
  <2> QED BY <2>1, <2>2, <2>3
<1>4. hist' = [h EXCEPT !.done = Append(@, <<r, t>>)]
  BY <1>2, <1>3 DEF RowDone
<1> QED BY <1>2, <1>3, <1>4 DEF Hist

LEMMA ParamHist ==
    ASSUME Typed, ParamExecute
    PROVE  /\ hist'.done = hist.done /\ hist'.n = hist.n
           /\ hist'.left = hist.left /\ hist'.given = hist.given
<1>1. stmt.delegate.row \in RowIds /\ hist \in Hist
  BY DEF ParamExecute, Typed, StmtOK, HistOK
<1>2. PICK r \in RowIds : r = stmt.delegate.row
  BY <1>1
<1>3. \E hit : hist' = Missing(hist, r, hit)
  BY <1>2 DEF ParamExecute
<1> QED BY <1>1, <1>3 DEF Missing, Hist

LEMMA FinishHist ==
    ASSUME Typed, Finish
    PROVE  /\ hist'.done = hist.done /\ hist'.n = hist.n /\ hist'.missed = hist.missed
           /\ hist'.left = hist.left /\ hist'.given = hist.given
BY DEF Finish, Typed, HistOK, Hist

LEMMA BeginHist ==
    ASSUME Typed, hist.n < MaxOps, NEW l, Begin(l)
    PROVE  /\ hist'.done = <<>> /\ hist'.n = hist.n + 1 /\ hist'.missed = {}
           /\ hist'.left = hist.left /\ hist'.given = hist.given
BY AnewHist DEF Begin, Typed, HistOK

LEMMA InitTyped == Init => Typed
<1> SUFFICES ASSUME Init PROVE Typed
  OBVIOUS
<1>1. ConnOK
  BY DEF Init, ConnOK, Conn
<1>2. StmtOK
  <2>1. PICK live \in Lives :
          stmt = [queue |-> <<>>, delegate |-> NoDelegate, curr |-> 0, live |-> live]
    BY DEF Init
  <2>2. live \in SUBSET (0 .. Tuples - 1)
    BY BulkAssumption
  <2>3. NoDelegate \in Delegate /\ NoDelegate.dae = -1 /\ <<>> \in Seq(WellCallback)
    BY BulkAssumption DEF NoDelegate, Delegate
  <2> QED BY <2>1, <2>2, <2>3 DEF StmtOK
<1>3. CallOK
  BY IdleWell, BulkAssumption DEF Init, IdleCall, CallOK
<1>4. AppOK
  <2>1. PICK ign \in Ignores :
          app = [dialogue |-> FALSE, last |-> "none", ret |-> "ok",
                 status |-> [r \in RowIds |-> "old"], fetched |-> 0, ignore |-> ign]
    BY DEF Init
  <2>2. ign \in SUBSET RowIds
    BY BulkAssumption DEF RowIds
  <2> QED BY <2>1, <2>2 DEF AppOK, App
<1>5. HistOK
  BY BulkAssumption DEF Init, HistOK, Hist
<1> QED BY <1>1, <1>2, <1>3, <1>4, <1>5 DEF Typed

\* Every variable keeps its type, for rowsets, results and queues of any length: the row
\* a delegated handle was made for is a row of the rowset, the loop of SQLBulkOperations
\* numbers its rows as it goes, and no index leaves its range.
THEOREM BulkTyped == Spec => []TypeOK
BY InitTyped, StepTyped, TypedTypeOK, PTL DEF Spec

-----------------------------------------------------------------------------
(***************************************************************************)
(* The numbering of the rows: a row of the rowset is the number of tuples  *)
(* of the rowset before it.                                                *)
(***************************************************************************)
Rank(live, t) == Cardinality({u \in live : u < t})

LEMMA LiveNat ==
    ASSUME NEW live \in SUBSET (0 .. Tuples - 1)
    PROVE  \A u \in live : u \in Nat /\ u \in 0 .. Tuples - 1
<1>1. Tuples \in Nat
  BY BulkAssumption
<1> QED BY <1>1

LEMMA RankType ==
    ASSUME NEW live \in SUBSET (0 .. Tuples - 1), NEW t \in Nat
    PROVE  /\ IsFiniteSet(live) /\ IsFiniteSet({u \in live : u < t})
           /\ Rank(live, t) \in Nat /\ Cardinality(live) \in Nat
<1>1. IsFiniteSet(0 .. Tuples - 1)
  BY BulkAssumption, FS_Interval
<1>2. IsFiniteSet(live)
  BY <1>1, FS_Subset
<1>3. {u \in live : u < t} \in SUBSET live
  OBVIOUS
<1>4. IsFiniteSet({u \in live : u < t})
  BY <1>2, <1>3, FS_Subset
<1> QED BY <1>2, <1>4, FS_CardinalityType DEF Rank

LEMMA RankZero ==
    ASSUME NEW live \in SUBSET (0 .. Tuples - 1)
    PROVE  Rank(live, 0) = 0
<1>0. \A u \in live : u \in Nat
  BY LiveNat
<1>1. {u \in live : u < 0} = {}
  <2>1. \A u \in live : ~(u < 0)
    BY <1>0
  <2> QED BY <2>1, Zenon
<1> QED BY <1>1, FS_EmptySet DEF Rank

\* The next tuple is the next row if this one is in the rowset.
LEMMA RankStep ==
    ASSUME NEW live \in SUBSET (0 .. Tuples - 1), NEW t \in Nat
    PROVE  Rank(live, t + 1) = IF t \in live THEN Rank(live, t) + 1 ELSE Rank(live, t)
<1> DEFINE S == {u \in live : u < t}
<1>0. \A u \in live : u \in Nat
  BY LiveNat
<1>1. IsFiniteSet(S) /\ t \notin S
  BY RankType
<1>2. CASE t \in live
  <2>1. {u \in live : u < t + 1} = S \cup {t}
    <3>1. \A u \in live : u < t + 1 <=> u < t \/ u = t
      BY <1>0
    <3> QED BY <1>2, <3>1, Zenon
  <2>2. Cardinality(S \cup {t}) = Cardinality(S) + 1
    BY <1>1, FS_AddElement
  <2> QED BY <1>2, <2>1, <2>2 DEF Rank
<1>3. CASE t \notin live
  <2>1. {u \in live : u < t + 1} = S
    <3>1. \A u \in live : u < t + 1 <=> u < t
      BY <1>0, <1>3
    <3> QED BY <3>1, Zenon
  <2> QED BY <1>3, <2>1 DEF Rank
<1> QED BY <1>2, <1>3

\* Two tuples of the rowset are two rows.
LEMMA RankStrict ==
    ASSUME NEW live \in SUBSET (0 .. Tuples - 1), NEW t \in live, NEW u \in live, t < u
    PROVE  Rank(live, t) < Rank(live, u)
<1> DEFINE S == {v \in live : v < t}
           T == {v \in live : v < u}
<1>0. \A v \in live : v \in Nat
  BY LiveNat
<1>1. t \in Nat /\ u \in Nat
  BY <1>0
<1>2. S \in SUBSET T /\ t \in T /\ t \notin S
  <2>1. \A v \in live : v < t => v < u
    BY <1>0, <1>1
  <2>2. ~(t < t)
    BY <1>1
  <2> QED BY <2>1, <2>2, Zenon
<1>3. IsFiniteSet(T)
  BY <1>1, RankType
<1>4. Cardinality(S) <= Cardinality(T) /\ Cardinality(S) # Cardinality(T)
  <2> HIDE DEF S, T
  <2> QED BY <1>2, <1>3, FS_Subset
<1>5. Rank(live, t) \in Nat /\ Rank(live, u) \in Nat
  BY <1>1, RankType
<1> QED BY <1>4, <1>5 DEF Rank

LEMMA RankTuple ==
    ASSUME stmt.live \in SUBSET (0 .. Tuples - 1), NEW t \in stmt.live, NEW row,
           Rank(stmt.live, t) = row
    PROVE  TupleOf(row) = t
<1>1. \A u \in stmt.live : Rank(stmt.live, u) = row => u = t
  <2> SUFFICES ASSUME NEW u \in stmt.live, Rank(stmt.live, u) = row
               PROVE  u = t
    OBVIOUS
  <2>1. t \in Nat /\ u \in Nat
    BY LiveNat
  <2>2. Rank(stmt.live, t) \in Nat
    BY <2>1, RankType
  <2>3. ~(t < u) /\ ~(u < t)
    BY <2>2, RankStrict
  <2> QED BY <2>1, <2>3
<1> QED BY <1>1 DEF TupleOf, Rank

-----------------------------------------------------------------------------
(***************************************************************************)
(* The queue of a loop that waits, and the list of the rows done.          *)
(***************************************************************************)
RowCallback(l) == [kind |-> "row", loop |-> l]
LoopCallback(l) == [kind |-> "loop", loop |-> l]

LEMMA WaitingQueue ==
    ASSUME NEW l
    PROVE  /\ Head(Waiting(l)) = RowCallback(l) /\ Tail(Waiting(l)) = <<LoopCallback(l)>>
           /\ Waiting(l) # <<>> /\ <<>> \o Waiting(l) = Waiting(l)
           /\ Head(<<LoopCallback(l)>>) = LoopCallback(l) /\ Tail(<<LoopCallback(l)>>) = <<>>
           /\ <<LoopCallback(l)>> # <<>>
           /\ RowCallback(l).kind = "row" /\ RowCallback(l).loop = l
           /\ LoopCallback(l).kind = "loop" /\ LoopCallback(l).loop = l
BY DEF Waiting, RowCallback, LoopCallback

Increasing(s) == \A i, j \in DOMAIN s : i < j => s[i][1] < s[j][1]

LEMMA DoneAppend ==
    ASSUME NEW s \in Seq(Nat \X Nat), NEW r \in Nat, NEW t \in Nat
    PROVE  /\ DOMAIN Append(s, <<r, t>>) = 1 .. Len(s) + 1
           /\ DOMAIN s = 1 .. Len(s) /\ Len(s) \in Nat
           /\ \A i \in DOMAIN s : Append(s, <<r, t>>)[i] = s[i]
           /\ Append(s, <<r, t>>)[Len(s) + 1] = <<r, t>>
           /\ \A i \in DOMAIN s : s[i][1] \in Nat /\ s[i][2] \in Nat
OBVIOUS

LEMMA IncreasingAppend ==
    ASSUME NEW s \in Seq(Nat \X Nat), NEW r \in Nat, NEW t \in Nat,
           Increasing(s), \A i \in DOMAIN s : s[i][1] < r
    PROVE  /\ Increasing(Append(s, <<r, t>>))
           /\ \A i \in DOMAIN Append(s, <<r, t>>) : Append(s, <<r, t>>)[i][1] <= r
<1> DEFINE a == Append(s, <<r, t>>)
<1>1. /\ DOMAIN a = 1 .. Len(s) + 1 /\ DOMAIN s = 1 .. Len(s) /\ Len(s) \in Nat
      /\ \A i \in DOMAIN s : a[i] = s[i] /\ s[i][1] \in Nat
      /\ a[Len(s) + 1][1] = r
  BY DoneAppend
<1> HIDE DEF a
<1>2. Increasing(a)
  <2> SUFFICES ASSUME NEW i \in DOMAIN a, NEW j \in DOMAIN a, i < j
               PROVE  a[i][1] < a[j][1]
    BY DEF Increasing
  <2>1. i \in DOMAIN s /\ a[i][1] = s[i][1]
    BY <1>1
  <2>2. CASE j \in DOMAIN s
    BY <1>1, <2>1, <2>2 DEF Increasing
  <2>3. CASE j = Len(s) + 1
    BY <1>1, <2>1, <2>3
  <2> QED BY <1>1, <2>2, <2>3
<1>3. \A i \in DOMAIN a : a[i][1] <= r
  BY <1>1
<1> QED BY <1>2, <1>3 DEF a

-----------------------------------------------------------------------------
(***************************************************************************)
(* The inductive invariant.  ModeOf: the loop in progress knows whether    *)
(* autocommit was on.  PlacedOf, DoneBefore and AtRank: the rows it has    *)
(* behind it are before the row it is at, and each was processed with the  *)
(* tuple it stands for.  Waits and Rejoins say that the loop the callbacks *)
(* carry is the one that was left: without them nothing is known of the    *)
(* loop that goes on after the dialogue.                                   *)
(***************************************************************************)
ModeOf(l) == IF l.acNeeded THEN ~conn.auto /\ (hist.given \/ conn.public)
             ELSE hist.given \/ conn.auto = conn.public

PlacedOf(l) ==
    Positioned(l) =>
      \A i \in DOMAIN hist.done : /\ hist.done[i][2] \in stmt.live
                                  /\ Rank(stmt.live, hist.done[i][2]) = hist.done[i][1]

DoneBefore(l) == \A i \in DOMAIN hist.done : hist.done[i][1] < l.nrow
DoneUpTo(l) == \A i \in DOMAIN hist.done : hist.done[i][1] <= l.nrow
AtRank(l) == Positioned(l) => l.nrow = Rank(stmt.live, l.idx)
OnTuple(l) == Positioned(l) => l.idx \in stmt.live

\* The callbacks of a row that waits for its data, and of its loop.
Waits(l) == /\ stmt.queue = Waiting(l) /\ ModeOf(l) /\ PlacedOf(l)
            /\ DoneBefore(l) /\ AtRank(l) /\ OnTuple(l)

\* The callback of the loop, once the row is done.
Rejoins(l) == /\ stmt.queue = <<LoopCallback(l)>> /\ ModeOf(l) /\ PlacedOf(l)
              /\ DoneUpTo(l) /\ AtRank(l) /\ OnTuple(l)

Serial ==
    /\ Increasing(hist.done) /\ call.pc # "crashed"
    /\ Ready => stmt.queue = <<>> /\ (hist.given \/ conn.auto = conn.public)
    /\ call.pc \in {"loop", "finish"} =>
         stmt.queue = <<>> /\ ModeOf(call.loop) /\ PlacedOf(call.loop)
    /\ call.pc = "loop" => DoneBefore(call.loop) /\ AtRank(call.loop)
    /\ InDialogue =>
         \E l \in WellLoop : Waits(l) /\ stmt.delegate.n = l.n /\ stmt.delegate.row = l.nrow
    /\ call.pc = "resume" =>
         \E l \in WellLoop : (Waits(l) /\ call.exec = <<l.n, l.nrow>>) \/ Rejoins(l)

BulkInv == Typed /\ (hist.left \/ Serial)

\* A step that touches neither the loop nor its rows nor the mode.
LEMMA SerialSame ==
    ASSUME Serial, call' = call, app'.dialogue = app.dialogue,
           stmt'.queue = stmt.queue, stmt'.live = stmt.live,
           stmt'.delegate.n = stmt.delegate.n, stmt'.delegate.row = stmt.delegate.row,
           conn'.auto = conn.auto, conn'.public = conn.public,
           hist'.given = hist.given, hist'.done = hist.done
    PROVE  Serial'
<1>1. \A l : ModeOf(l)' = ModeOf(l)
  BY DEF ModeOf
<1>2. \A l : /\ PlacedOf(l)' = PlacedOf(l) /\ DoneBefore(l)' = DoneBefore(l)
             /\ DoneUpTo(l)' = DoneUpTo(l) /\ AtRank(l)' = AtRank(l) /\ OnTuple(l)' = OnTuple(l)
  BY DEF PlacedOf, DoneBefore, DoneUpTo, AtRank, OnTuple
<1>3. \A l : Waits(l)' = Waits(l) /\ Rejoins(l)' = Rejoins(l)
  BY <1>1, <1>2 DEF Waits, Rejoins
<1>4. InDialogue' = InDialogue /\ Ready' = Ready
  BY DEF InDialogue, Ready
<1>5. (\E l \in WellLoop : Waits(l) /\ stmt.delegate.n = l.n /\ stmt.delegate.row = l.nrow)'
      = (\E l \in WellLoop : Waits(l) /\ stmt.delegate.n = l.n /\ stmt.delegate.row = l.nrow)
  BY <1>3
<1>6. (\E l \in WellLoop : (Waits(l) /\ call.exec = <<l.n, l.nrow>>) \/ Rejoins(l))'
      = (\E l \in WellLoop : (Waits(l) /\ call.exec = <<l.n, l.nrow>>) \/ Rejoins(l))
  BY <1>3
<1>7. /\ ModeOf(call.loop)' = ModeOf(call.loop) /\ PlacedOf(call.loop)' = PlacedOf(call.loop)
      /\ DoneBefore(call.loop)' = DoneBefore(call.loop) /\ AtRank(call.loop)' = AtRank(call.loop)
  BY DEF ModeOf, PlacedOf, DoneBefore, AtRank
<1> QED BY <1>4, <1>5, <1>6, <1>7 DEF Serial

\* A state in the loop.
LEMMA SerialLoop ==
    ASSUME NEW m, call'.loop = m, call'.pc \in {"loop", "finish"}, stmt'.queue = <<>>,
           Increasing(hist'.done), ModeOf(m)', PlacedOf(m)',
           call'.pc = "loop" => DoneBefore(m)' /\ AtRank(m)'
    PROVE  Serial'
<1>1. ModeOf(call.loop)' /\ PlacedOf(call.loop)'
  BY DEF ModeOf, PlacedOf
<1>2. call'.pc = "loop" => DoneBefore(call.loop)' /\ AtRank(call.loop)'
  BY DEF DoneBefore, AtRank
<1> QED BY <1>1, <1>2 DEF Serial, Ready, InDialogue

\* A state between two operations.
LEMMA SerialIdle ==
    ASSUME call'.pc = "idle", ~app'.dialogue, stmt'.queue = <<>>, Increasing(hist'.done),
           hist'.given \/ conn'.auto = conn'.public
    PROVE  Serial'
BY DEF Serial, Ready, InDialogue

\* What the loop in progress is known by.
LEMMA LoopKnown ==
    ASSUME Typed, Serial, call.pc \in {"loop", "finish"}
    PROVE  \E l \in WellLoop :
             /\ l = call.loop /\ stmt.queue = <<>> /\ ModeOf(l) /\ PlacedOf(l)
             /\ Increasing(hist.done)
             /\ call.pc = "loop" => DoneBefore(l) /\ AtRank(l)
BY DEF Typed, CallOK, Serial

LEMMA LoopTail ==
    ASSUME Typed
    PROVE  /\ stmt.live \in SUBSET (0 .. Tuples - 1) /\ hist.done \in Seq(Nat \X Nat)
           /\ conn.auto \in BOOLEAN /\ conn.public \in BOOLEAN /\ hist.given \in BOOLEAN
           /\ \A i \in DOMAIN hist.done : hist.done[i][1] \in Nat /\ hist.done[i][2] \in Nat
BY DEF Typed, StmtOK, HistOK, Hist, ConnOK, Conn

-----------------------------------------------------------------------------
(***************************************************************************)
(* What a row that is done, passed over or left does to the invariant.     *)
(***************************************************************************)
LEMMA ModeKept ==
    ASSUME NEW l, NEW m, ModeOf(l), m.acNeeded = l.acNeeded,
           conn'.auto = conn.auto, conn'.public = conn.public, hist'.given = hist.given
    PROVE  ModeOf(m)'
BY DEF ModeOf

LEMMA PositionedSame ==
    ASSUME NEW l, NEW m, SameLoop(m, l)
    PROVE  Positioned(m) <=> Positioned(l)
BY DEF SameLoop, Positioned

LEMMA PlacedKept ==
    ASSUME NEW l, NEW m, SameLoop(m, l), PlacedOf(l),
           hist'.done = hist.done, stmt'.live = stmt.live
    PROVE  PlacedOf(m)'
BY PositionedSame DEF PlacedOf, Positioned

\* A row is added to those done.
LEMMA DoneGrows ==
    ASSUME Typed, NEW l \in WellLoop, Increasing(hist.done), DoneBefore(l),
           hist'.done = Append(hist.done, <<l.nrow, l.idx>>)
    PROVE  /\ Increasing(hist'.done) /\ DoneUpTo(l)'
           /\ \A m : m.nrow = l.nrow + 1 => DoneBefore(m)'
<1> DEFINE a == Append(hist.done, <<l.nrow, l.idx>>)
<1>1. hist.done \in Seq(Nat \X Nat) /\ l.nrow \in Nat /\ l.idx \in Nat
  BY LoopTail, LoopFields
<1>2. Increasing(a) /\ \A i \in DOMAIN a : a[i][1] <= l.nrow
  BY <1>1, IncreasingAppend DEF DoneBefore
<1>3. \A i \in DOMAIN a : a[i][1] \in Nat
  <2>1. a \in Seq(Nat \X Nat)
    BY <1>1
  <2> HIDE DEF a
  <2> QED BY <2>1
<1>4. hist'.done = a
  OBVIOUS
<1> HIDE DEF a
<1>5. DoneUpTo(l)'
  BY <1>2, <1>4 DEF DoneUpTo
<1>6. \A m : m.nrow = l.nrow + 1 => DoneBefore(m)'
  BY <1>1, <1>2, <1>3, <1>4, SMTT(30) DEF DoneBefore
<1> QED BY <1>2, <1>4, <1>5, <1>6

LEMMA PlacedGrows ==
    ASSUME Typed, NEW l \in WellLoop, PlacedOf(l), AtRank(l), OnTuple(l), NEW m,
           SameLoop(m, l), stmt'.live = stmt.live,
           hist'.done = Append(hist.done, <<l.nrow, l.idx>>)
    PROVE  PlacedOf(m)'
<1> SUFFICES ASSUME Positioned(m), NEW i \in DOMAIN hist'.done
             PROVE  /\ hist'.done[i][2] \in stmt'.live
                    /\ Rank(stmt'.live, hist'.done[i][2]) = hist'.done[i][1]
  BY DEF PlacedOf, Positioned
<1>1. Positioned(l)
  BY PositionedSame
<1>2. PICK s \in Seq(Nat \X Nat), r \in Nat, t \in Nat :
        s = hist.done /\ r = l.nrow /\ t = l.idx
  BY LoopTail, LoopFields
<1>3. PICK a : a = Append(s, <<r, t>>)
  OBVIOUS
<1>4. hist'.done = a
  BY <1>2, <1>3
<1>5. /\ DOMAIN a = 1 .. Len(s) + 1 /\ DOMAIN s = 1 .. Len(s) /\ Len(s) \in Nat
      /\ \A j \in DOMAIN s : a[j] = s[j]
      /\ a[Len(s) + 1] = <<r, t>>
  <2>1. Append(s, <<r, t>>)[Len(s) + 1] = <<r, t>>
    BY DoneAppend
  <2>2. \A j \in DOMAIN s : Append(s, <<r, t>>)[j] = s[j]
    BY DoneAppend
  <2>3. DOMAIN Append(s, <<r, t>>) = 1 .. Len(s) + 1
    BY DoneAppend
  <2>4. DOMAIN s = 1 .. Len(s) /\ Len(s) \in Nat
    OBVIOUS
  <2> QED BY <1>3, <2>1, <2>2, <2>3, <2>4
<1>6. CASE i \in DOMAIN s
  BY <1>1, <1>2, <1>4, <1>5, <1>6 DEF PlacedOf
<1>7. CASE i = Len(s) + 1
  <2>1. hist'.done[i][1] = l.nrow /\ hist'.done[i][2] = l.idx
    BY <1>2, <1>4, <1>5, <1>7
  <2> QED BY <1>1, <2>1 DEF AtRank, OnTuple
<1> QED BY <1>4, <1>5, <1>6, <1>7, SMTT(30)

\* The row after a row of the rowset.
LEMMA RankNext ==
    ASSUME Typed, NEW l \in WellLoop, AtRank(l), OnTuple(l), NEW m, SameLoop(m, l),
           m.nrow = l.nrow + 1, m.idx = l.idx + 1, stmt'.live = stmt.live
    PROVE  AtRank(m)'
<1> SUFFICES ASSUME Positioned(m) PROVE m.nrow = Rank(stmt.live, m.idx)
  BY DEF AtRank, Positioned
<1>1. Positioned(l) /\ l.idx \in Nat /\ stmt.live \in SUBSET (0 .. Tuples - 1)
  BY PositionedSame, LoopFields, LoopTail
<1>2. Rank(stmt.live, l.idx + 1) = Rank(stmt.live, l.idx) + 1
  BY <1>1, RankStep DEF OnTuple
<1> QED BY <1>1, <1>2 DEF AtRank

LEMMA RankSkips ==
    ASSUME Typed, NEW l \in WellLoop, AtRank(l), NEW m, SameLoop(m, l), NotInRowset(l),
           m.nrow = l.nrow, m.idx = l.idx + 1, stmt'.live = stmt.live
    PROVE  AtRank(m)'
<1> SUFFICES ASSUME Positioned(m) PROVE m.nrow = Rank(stmt.live, m.idx)
  BY DEF AtRank, Positioned
<1>1. Positioned(l) /\ l.idx \in Nat /\ stmt.live \in SUBSET (0 .. Tuples - 1)
  BY PositionedSame, LoopFields, LoopTail
<1>2. Rank(stmt.live, l.idx + 1) = Rank(stmt.live, l.idx)
  BY <1>1, RankStep DEF NotInRowset
<1> QED BY <1>1, <1>2 DEF AtRank

-----------------------------------------------------------------------------
(***************************************************************************)
(* The steps of the loop.                                                  *)
(***************************************************************************)
LEMMA SerialBegin ==
    ASSUME Typed, Serial, Ready, hist.n < MaxOps, NEW l \in WellLoop, Begin(l),
           l.acNeeded => conn.auto, l.idx = 0, l.nrow = 0
    PROVE  Serial'
<1>1. stmt.queue = <<>> /\ (hist.given \/ conn.auto = conn.public)
  BY DEF Serial
<1>2. call'.loop = l /\ call'.pc = "loop"
  BY DEF Begin, IdleCall
<1>3. stmt' = stmt /\ hist'.done = <<>> /\ hist'.given = hist.given
  BY BeginHist DEF Begin
<1>4. PICK taken : conn' = IF l.acNeeded THEN SetAutocommit(conn, FALSE, taken) ELSE conn
  BY DEF Begin, SwitchedOff
<1>5. ModeOf(l)'
  BY <1>1, <1>3, <1>4, SetAutocommitConn DEF ModeOf, Typed, ConnOK, Conn
<1>6. Increasing(hist'.done) /\ PlacedOf(l)' /\ DoneBefore(l)'
  BY <1>3 DEF Increasing, PlacedOf, DoneBefore
<1>7. AtRank(l)'
  BY <1>3, RankZero, LoopTail DEF AtRank
<1> QED BY <1>1, <1>2, <1>3, <1>5, <1>6, <1>7, SerialLoop

LEMMA SerialPassOver ==
    ASSUME Typed, Serial, PassOver
    PROVE  Serial'
<1>1. PICK l \in WellLoop :
        /\ l = call.loop /\ stmt.queue = <<>> /\ ModeOf(l) /\ PlacedOf(l)
        /\ Increasing(hist.done) /\ DoneBefore(l) /\ AtRank(l)
  BY LoopKnown DEF PassOver
<1>2. NotInRowset(l) \/ NotWanted(l)
  BY <1>1 DEF PassOver
<1>3. PICK m : m = Skipped(l)
  OBVIOUS
<1>4. /\ m \in WellLoop /\ SameLoop(m, l) /\ m.idx = l.idx + 1
      /\ m.nrow = IF NotInRowset(l) THEN l.nrow ELSE l.nrow + 1
  BY <1>2, <1>3, SkippedLoop
<1>5. call'.loop = m /\ call'.pc = "loop" /\ UNCHANGED <<conn, stmt, app, hist>>
  BY <1>1, <1>3 DEF PassOver, Typed, CallOK
<1>6. m.acNeeded = l.acNeeded
  BY <1>4 DEF SameLoop
<1>7. ModeOf(m)' /\ PlacedOf(m)'
  BY <1>1, <1>4, <1>5, <1>6, ModeKept, PlacedKept
<1>8. DoneBefore(m)'
  BY <1>1, <1>4, <1>5, LoopTail, LoopFields DEF DoneBefore
<1>9. AtRank(m)'
  <2>1. CASE NotInRowset(l)
    BY <1>1, <1>4, <1>5, <2>1, RankSkips
  <2>2. CASE ~NotInRowset(l)
    <3>1. OnTuple(l)
      BY <2>2 DEF NotInRowset, OnTuple, Positioned
    <3> QED BY <1>1, <1>4, <1>5, <2>2, <3>1, RankNext
  <2> QED BY <2>1, <2>2
<1> QED BY <1>1, <1>5, <1>7, <1>8, <1>9, SerialLoop

\* A row is done, whatever came of it.
LEMMA SerialRowDone ==
    ASSUME Typed, Serial, AtRow, NEW ret, NEW info, NEW hit \in BOOLEAN,
           RowDone(ret, info, hit),
           conn'.auto = conn.auto, conn'.public = conn.public,
           stmt'.queue = stmt.queue, stmt'.live = stmt.live
    PROVE  Serial'
<1>1. PICK l \in WellLoop :
        /\ l = call.loop /\ stmt.queue = <<>> /\ ModeOf(l) /\ PlacedOf(l)
        /\ Increasing(hist.done) /\ DoneBefore(l) /\ AtRank(l)
  BY LoopKnown DEF AtRow
<1>2. OnTuple(l)
  BY <1>1 DEF AtRow, NotInRowset, OnTuple, Positioned
<1>3. PICK k : k = Reached(l)
  OBVIOUS
<1>4. PICK m : m = Counted(k, ret)
  OBVIOUS
<1>5. k \in WellLoop /\ SameLoop(k, l) /\ k.idx = l.idx /\ k.nrow = l.nrow
  BY <1>3, ReachedLoop
<1>6. /\ m \in WellLoop /\ SameLoop(m, l) /\ m.idx = l.idx + 1
      /\ ret # "error" => m.nrow = l.nrow + 1
  BY <1>4, <1>5, CountedLoop DEF SameLoop
<1>7. call'.loop = m /\ call'.pc = IF ret = "error" THEN "finish" ELSE "loop"
  BY <1>1, <1>3, <1>4 DEF RowDone, Typed, CallOK
<1>8. hist'.done = Append(hist.done, <<l.nrow, l.idx>>) /\ hist'.given = hist.given
  BY <1>1, RowDoneHist
<1>9. m.acNeeded = l.acNeeded
  BY <1>6 DEF SameLoop
<1>10. ModeOf(m)' /\ PlacedOf(m)'
  BY <1>1, <1>2, <1>6, <1>8, <1>9, ModeKept, PlacedGrows
<1>11. Increasing(hist'.done)
  BY <1>1, <1>8, DoneGrows
<1>12. call'.pc = "loop" => DoneBefore(m)' /\ AtRank(m)'
  BY <1>1, <1>2, <1>6, <1>7, <1>8, DoneGrows, RankNext
<1> QED BY <1>1, <1>7, <1>10, <1>11, <1>12, SerialLoop

\* The loop ends where it is.
LEMMA SerialStops ==
    ASSUME Typed, Serial, call.pc = "loop", NEW m \in WellLoop, SameLoop(m, call.loop),
           call'.loop = m, call'.pc = "finish", UNCHANGED <<conn, stmt, app, hist>>
    PROVE  Serial'
<1>1. PICK l \in WellLoop :
        /\ l = call.loop /\ stmt.queue = <<>> /\ ModeOf(l) /\ PlacedOf(l)
        /\ Increasing(hist.done)
  BY LoopKnown
<1>2. m.acNeeded = l.acNeeded /\ SameLoop(m, l)
  BY <1>1 DEF SameLoop
<1>3. ModeOf(m)' /\ PlacedOf(m)'
  BY <1>1, <1>2, ModeKept, PlacedKept
<1> QED BY <1>1, <1>3, SerialLoop

-----------------------------------------------------------------------------
(***************************************************************************)
(* The dialogue for the data, and the way back into the loop.              *)
(***************************************************************************)
LEMMA SerialNeedsData ==
    ASSUME Typed, Serial, RowNeedsData
    PROVE  Serial'
<1>1. PICK l \in WellLoop :
        /\ l = call.loop /\ stmt.queue = <<>> /\ ModeOf(l) /\ PlacedOf(l)
        /\ Increasing(hist.done) /\ DoneBefore(l) /\ AtRank(l)
  BY LoopKnown DEF RowNeedsData, AtRow
<1>2. OnTuple(l)
  BY <1>1 DEF RowNeedsData, AtRow, NotInRowset, OnTuple, Positioned
<1>3. PICK k : k = Reached(l)
  OBVIOUS
<1>4. k \in WellLoop /\ SameLoop(k, l) /\ k.idx = l.idx /\ k.nrow = l.nrow
  BY <1>3, ReachedLoop
<1>5. stmt' = [stmt EXCEPT !.queue = @ \o Waiting(k),
                           !.delegate = [n |-> k.n, row |-> k.nrow, dae |-> 1, cur |-> -1]]
  BY <1>1, <1>3 DEF RowNeedsData
<1>6. /\ stmt'.queue = Waiting(k) /\ stmt'.live = stmt.live
      /\ stmt'.delegate.n = k.n /\ stmt'.delegate.row = k.nrow
  BY <1>1, <1>5, WaitingQueue DEF Typed, StmtOK
<1>7. conn'.auto = conn.auto /\ conn'.public = conn.public /\ hist' = hist
  BY DiscardConn DEF RowNeedsData, Return, Typed, ConnOK
<1>8. call'.pc = "idle" /\ app'.dialogue
  BY DEF RowNeedsData, Return, IdleCall, Typed, AppOK, App
<1>9. ModeOf(k)' /\ PlacedOf(k)'
  <2>1. k.acNeeded = l.acNeeded
    BY <1>4 DEF SameLoop
  <2> QED BY <1>1, <1>4, <1>6, <1>7, <2>1, ModeKept, PlacedKept
<1>10. DoneBefore(k)'
  BY <1>1, <1>4, <1>7 DEF DoneBefore
<1>11. AtRank(k)' /\ OnTuple(k)'
  BY <1>1, <1>2, <1>4, <1>6, PositionedSame DEF AtRank, OnTuple, Positioned
<1>12. Waits(k)'
  BY <1>6, <1>9, <1>10, <1>11 DEF Waits
<1> QED BY <1>1, <1>4, <1>6, <1>7, <1>8, <1>12 DEF Serial, Ready, InDialogue

LEMMA SerialParamExecute ==
    ASSUME Typed, Serial, ParamExecute, conn'.auto = conn.auto, conn'.public = conn.public
    PROVE  Serial'
<1>1. PICK l \in WellLoop :
        Waits(l) /\ stmt.delegate.n = l.n /\ stmt.delegate.row = l.nrow
  BY DEF Serial, ParamExecute
<1>2. /\ call'.exec = <<l.n, l.nrow>> /\ call'.pc = "resume" /\ UNCHANGED <<stmt, app>>
      /\ hist'.done = hist.done /\ hist'.given = hist.given
  BY <1>1, ParamHist DEF ParamExecute, IdleCall
<1>3. ModeOf(l)'
  BY <1>1, <1>2, ModeKept DEF Waits
<1>4. Waits(l)'
  BY <1>1, <1>2, <1>3 DEF Waits, PlacedOf, DoneBefore, AtRank, OnTuple
<1>5. Increasing(hist'.done)
  BY <1>2 DEF Serial
<1> QED BY <1>2, <1>4, <1>5 DEF Serial, Ready, InDialogue

\* The callback of the row runs first: it is the row the handle executed.
LEMMA ResumedRow ==
    ASSUME Typed, Serial, ResumeRow
    PROVE  \E l \in WellLoop :
             /\ l = Head(stmt.queue).loop /\ Waits(l) /\ Own(l)
             /\ app' = [app EXCEPT !.status[l.nrow] = RowStatus(l.op, call.ret, call.info)]
             /\ hist' = [hist EXCEPT !.done = Append(@, <<l.nrow, l.idx>>)]
             /\ stmt' = [stmt EXCEPT !.queue = <<LoopCallback(l)>>, !.delegate = NoDelegate]
             /\ UNCHANGED <<conn, call>>
<1>1. PICK l \in WellLoop : (Waits(l) /\ call.exec = <<l.n, l.nrow>>) \/ Rejoins(l)
  BY DEF Serial, ResumeRow
<1>2. ~Rejoins(l)
  BY WaitingQueue DEF ResumeRow, Rejoins, LoopCallback
<1>3. /\ Head(stmt.queue) = RowCallback(l) /\ Tail(stmt.queue) = <<LoopCallback(l)>>
      /\ Head(stmt.queue).loop = l
  BY <1>1, <1>2, WaitingQueue DEF Waits
<1>4. Own(l)
  BY <1>1, <1>2 DEF Own
<1> QED BY <1>1, <1>2, <1>3, <1>4 DEF ResumeRow

LEMMA SerialResumeRow ==
    ASSUME Typed, Serial, ResumeRow
    PROVE  Serial'
<1>1. PICK l \in WellLoop :
        /\ l = Head(stmt.queue).loop /\ Waits(l) /\ Own(l)
        /\ hist' = [hist EXCEPT !.done = Append(@, <<l.nrow, l.idx>>)]
        /\ stmt' = [stmt EXCEPT !.queue = <<LoopCallback(l)>>, !.delegate = NoDelegate]
        /\ UNCHANGED <<conn, call>>
  BY ResumedRow
<1>2. hist'.done = Append(hist.done, <<l.nrow, l.idx>>) /\ hist'.given = hist.given
  BY <1>1 DEF Typed, HistOK, Hist
<1>3. stmt'.queue = <<LoopCallback(l)>> /\ stmt'.live = stmt.live
  BY <1>1 DEF Typed, StmtOK
<1>4. SameLoop(l, l)
  BY DEF SameLoop
<1>5. Increasing(hist.done)
  BY DEF Serial
<1>6. Increasing(hist'.done) /\ DoneUpTo(l)'
  BY <1>1, <1>2, <1>5, DoneGrows DEF Waits
<1>7. ModeOf(l)' /\ PlacedOf(l)'
  BY <1>1, <1>2, <1>3, <1>4, ModeKept, PlacedGrows DEF Waits
<1>8. AtRank(l)' /\ OnTuple(l)'
  BY <1>1, <1>3 DEF Waits, AtRank, OnTuple
<1>9. Rejoins(l)'
  BY <1>3, <1>6, <1>7, <1>8 DEF Rejoins
<1>10. call'.pc = "resume"
  BY <1>1 DEF ResumeRow
<1> QED BY <1>6, <1>9, <1>10 DEF Serial, Ready, InDialogue

\* Then the callback of the loop: it goes on with the row behind.
LEMMA ResumedAgain ==
    ASSUME Typed, Serial, ResumeLoop
    PROVE  \E l \in WellLoop :
             /\ l = Head(stmt.queue).loop /\ Rejoins(l) /\ stmt'.queue = <<>>
             /\ stmt'.live = stmt.live /\ stmt'.delegate = stmt.delegate
             /\ call' = [call EXCEPT !.pc = IF call.ret = "error" THEN "finish" ELSE "loop",
                                     !.loop = Resumed(l)]
             /\ UNCHANGED <<conn, app, hist>>
<1>1. PICK l \in WellLoop : (Waits(l) /\ call.exec = <<l.n, l.nrow>>) \/ Rejoins(l)
  BY DEF Serial, ResumeLoop
<1>2. ~Waits(l)
  BY WaitingQueue DEF ResumeLoop, Waits, RowCallback
<1>3. Head(stmt.queue).loop = l /\ Tail(stmt.queue) = <<>>
  BY <1>1, <1>2, WaitingQueue DEF Rejoins
<1>4. stmt'.queue = <<>> /\ stmt'.live = stmt.live /\ stmt'.delegate = stmt.delegate
  BY <1>3 DEF ResumeLoop, Typed, StmtOK
<1> QED BY <1>1, <1>2, <1>3, <1>4 DEF ResumeLoop

LEMMA SerialResumeLoop ==
    ASSUME Typed, Serial, ResumeLoop
    PROVE  Serial'
<1>1. PICK l \in WellLoop :
        /\ l = Head(stmt.queue).loop /\ Rejoins(l) /\ stmt'.queue = <<>>
        /\ stmt'.live = stmt.live
        /\ call' = [call EXCEPT !.pc = IF call.ret = "error" THEN "finish" ELSE "loop",
                                !.loop = Resumed(l)]
        /\ UNCHANGED <<conn, app, hist>>
  BY ResumedAgain
<1>2. PICK m : m = Resumed(l)
  OBVIOUS
<1>3. /\ m \in WellLoop /\ SameLoop(m, l) /\ m.idx = l.idx + 1
      /\ call.ret # "error" => m.nrow = l.nrow + 1
  BY <1>2, ResumedLoop
<1>4. call'.loop = m /\ call'.pc = IF call.ret = "error" THEN "finish" ELSE "loop"
  BY <1>1, <1>2 DEF Typed, CallOK
<1>5. ModeOf(m)' /\ PlacedOf(m)'
  <2>1. m.acNeeded = l.acNeeded
    BY <1>3 DEF SameLoop
  <2> QED BY <1>1, <1>3, <2>1, ModeKept, PlacedKept DEF Rejoins
<1>6. call'.pc = "loop" => DoneBefore(m)' /\ AtRank(m)'
  <2>1. SUFFICES ASSUME call'.pc = "loop" PROVE DoneBefore(m)' /\ AtRank(m)'
    OBVIOUS
  <2>2. m.nrow = l.nrow + 1 /\ m.idx = l.idx + 1
    BY <1>3, <1>4, <2>1
  <2>3. DoneBefore(m)'
    <3>1. \A i \in DOMAIN hist.done : hist.done[i][1] \in Nat /\ hist.done[i][1] <= l.nrow
      BY <1>1, LoopTail DEF Rejoins, DoneUpTo
    <3>2. l.nrow \in Nat /\ hist' = hist
      BY <1>1, LoopFields
    <3> QED BY <2>2, <3>1, <3>2 DEF DoneBefore
  <2> QED BY <1>1, <1>3, <2>2, <2>3, RankNext DEF Rejoins
<1>7. Increasing(hist'.done)
  BY <1>1 DEF Serial
<1> QED BY <1>1, <1>4, <1>5, <1>6, <1>7, SerialLoop

\* The operation ends, and the mode is the one before it.
LEMMA SerialFinish ==
    ASSUME Typed, Serial, Finish
    PROVE  Serial'
<1>1. PICK l \in WellLoop :
        l = call.loop /\ stmt.queue = <<>> /\ ModeOf(l) /\ Increasing(hist.done)
  BY LoopKnown DEF Finish
<1>10. PICK taken \in BOOLEAN : FinishAs(taken)
  BY DEF Finish, FinishAs
<1>2. PICK c : c = IF Restored(l) THEN SetAutocommit(conn, TRUE, taken) ELSE conn
  OBVIOUS
<1>3. /\ c \in Conn /\ c.auto = (IF l.acNeeded THEN TRUE ELSE conn.auto)
      /\ c.public = conn.public
  BY <1>2, SetAutocommitConn, LoopFields DEF Restored, Typed, ConnOK
<1> DEFINE a == IF l.irow = 0 THEN [app EXCEPT !.fetched = l.processed] ELSE app
           ret == IF call.direct /\ l.api = "setpos" /\ l.processed = 0 THEN "error"
                  ELSE call.ret
           last == IF call.direct THEN "op" ELSE "param"
<1>4. /\ Return(c, ret)
      /\ app' = [a EXCEPT !.dialogue = FALSE, !.ret = ret, !.last = last]
  BY <1>1, <1>2, <1>10 DEF FinishAs
<1> HIDE DEF ret, last
<1>5. call'.pc = "idle" /\ conn'.auto = c.auto /\ conn'.public = c.public
  <2>1. conn' = Discard(c, ret) /\ call' = IdleCall
    BY <1>4 DEF Return
  <2> QED BY <1>3, <2>1, DiscardConn DEF IdleCall
<1>6. ~app'.dialogue
  <2>1. a \in App
    BY LoopFields DEF Typed, AppOK, App
  <2> HIDE DEF a
  <2> QED BY <1>4, <2>1 DEF App
<1>7. stmt'.queue = <<>> /\ hist'.done = hist.done /\ hist'.given = hist.given
  BY <1>1, FinishHist DEF Finish, Typed, StmtOK
<1>8. hist'.given \/ conn'.auto = conn'.public
  BY <1>1, <1>3, <1>5, <1>7, LoopTail DEF ModeOf
<1> QED BY <1>1, <1>5, <1>6, <1>7, <1>8, SerialIdle

\* SQLFreeStmt(SQL_CLOSE) drops what was left in the queue.
LEMMA SerialReopen ==
    ASSUME Typed, hist.left \/ Serial, Reopen
    PROVE  Serial'
<1>1. call'.pc = "idle" /\ stmt'.queue = <<>> /\ ~app'.dialogue
  BY DEF Reopen, Ready, Typed, AppOK, App
<1>2. hist'.done = <<>> /\ hist'.given = (hist.given \/ hist.left)
  BY DEF Reopen, Typed, HistOK, Hist
<1>3. conn'.auto = conn.auto /\ conn'.public = conn.public
  <2>1. PICK c \in Conn : c.auto = conn.auto /\ c.public = conn.public /\ conn' = StartStmt(c)
    <3> DEFINE c == [conn EXCEPT !.tx = IF conn.auto THEN @ ELSE "open"]
    <3>1. c \in Conn /\ c.auto = conn.auto /\ c.public = conn.public
      BY DEF Typed, ConnOK, Conn
    <3>2. conn' = StartStmt(c)
      BY DEF Reopen
    <3> HIDE DEF c
    <3> QED BY <3>1, <3>2
  <2> QED BY <2>1, StartStmtConn
<1>4. hist'.given \/ conn'.auto = conn'.public
  BY <1>2, <1>3 DEF Reopen, Serial
<1>5. Increasing(hist'.done)
  BY <1>2 DEF Increasing
<1> QED BY <1>1, <1>4, <1>5, SerialIdle

\* The write of another statement handle leaves the mode alone.
LEMMA OtherWritesMode ==
    ASSUME Typed, OtherWrites
    PROVE  conn'.auto = conn.auto /\ conn'.public = conn.public
<1> DEFINE w == <<0, hist.others + 1>>
           c == [conn EXCEPT !.tx = IF conn.auto THEN @ ELSE "open"]
<1>1. c \in Conn /\ c.auto = conn.auto /\ c.public = conn.public
  BY DEF Typed, ConnOK, Conn
<1>2. conn' = StartStmt(Written(c, w))
  BY DEF OtherWrites
<1>3. w \in Writes
  BY BulkAssumption DEF OtherWrites, Typed, HistOK, Hist, Writes
<1> HIDE DEF c, w
<1>4. Written(c, w) \in Conn /\ Written(c, w).auto = c.auto /\ Written(c, w).public = c.public
  BY <1>1, <1>3 DEF Written, Conn
<1> QED BY <1>1, <1>2, <1>4, StartStmtConn

\* A row's command leaves the mode alone.
LEMMA RowMode ==
    ASSUME Typed
    PROVE  /\ ExecuteRow => conn'.auto = conn.auto /\ conn'.public = conn.public
           /\ ParamExecute => conn'.auto = conn.auto /\ conn'.public = conn.public
<1>1. ASSUME ExecuteRow PROVE conn'.auto = conn.auto /\ conn'.public = conn.public
  <2>1. <<call.loop.n, call.loop.nrow>> \in Writes
    BY <1>1, RowInSet DEF ExecuteRow
  <2>2. PICK w \in Writes : \E op : \E x \in Results(conn, op, w) : conn' = x.conn
    BY <1>1, <2>1 DEF ExecuteRow
  <2> QED BY <2>2, ResultsConn DEF RowOutcome, Typed, ConnOK
<1>2. ASSUME ParamExecute PROVE conn'.auto = conn.auto /\ conn'.public = conn.public
  <2>1. <<stmt.delegate.n, stmt.delegate.row>> \in Writes
    BY <1>2, BulkAssumption DEF ParamExecute, Typed, StmtOK, Writes, RowIds
  <2>2. PICK w \in Writes : \E op : \E x \in Results(conn, op, w) : conn' = x.conn
    BY <1>2, <2>1 DEF ParamExecute
  <2> QED BY <2>2, ResultsConn DEF RowOutcome, Typed, ConnOK
<1> QED BY <1>1, <1>2

\* Whatever came of the row of ExecuteRow, it is done.
LEMMA RowReplies ==
    ASSUME Typed, ExecuteRow
    PROVE  \E ret, info : \E hit \in BOOLEAN : RowDone(ret, info, hit)
<1>1. PICK w \in Writes : w = <<call.loop.n, call.loop.nrow>>
  BY RowInSet DEF ExecuteRow
<1>2. PICK x \in Results(conn, call.loop.op, w) : RowDone(x.ret, x.info, x.hit)
  BY <1>1 DEF ExecuteRow
<1>3. x.hit \in BOOLEAN
  BY <1>2, ResultsConn DEF RowOutcome, Typed, ConnOK
<1> QED BY <1>2, <1>3

LEMMA StepSerial ==
    ASSUME Typed, Serial, [Next]_vars, ~hist'.left
    PROVE  Serial'
<1>1. ASSUME NEW op \in Writing, NEW bound, BulkOperations(op, bound) PROVE Serial'
  <2>1. PICK l : l = NewLoop("bulk", op, 0)
    OBVIOUS
  <2>2. /\ l \in WellLoop /\ l.acNeeded = (conn.auto /\ op \in Writing)
        /\ l.idx = 0 /\ l.nrow = 0
    BY <1>1, <2>1, NewLoopWell, BulkAssumption DEF BulkOperations, Writing, Ops
  <2>3. CASE Begin(l)
    BY <1>1, <2>2, <2>3, SerialBegin DEF BulkOperations
  <2>4. CASE ~Begin(l)
    <3>1. /\ \E taken \in BOOLEAN : Return(SwitchedOff(l, taken), "error")
          /\ app' = [app EXCEPT !.last = "op", !.ret = "error"]
          /\ hist' = [Anew(hist) EXCEPT !.given = @ \/ l.acNeeded]
          /\ UNCHANGED stmt
      BY <1>1, <2>1, <2>4 DEF BulkOperations
    <3>9. PICK taken \in BOOLEAN : Return(SwitchedOff(l, taken), "error")
      BY <3>1
    <3>2. PICK c : c = SwitchedOff(l, taken)
      OBVIOUS
    <3>3. /\ c \in Conn /\ c.public = conn.public
          /\ c.auto = IF l.acNeeded THEN FALSE ELSE conn.auto
      BY <2>2, <3>2, SetAutocommitConn DEF SwitchedOff, Typed, ConnOK
    <3>4. conn'.auto = c.auto /\ conn'.public = c.public /\ call'.pc = "idle"
      BY <3>9, <3>2, <3>3, DiscardConn DEF Return, IdleCall
    <3>5. ~app'.dialogue
      BY <1>1, <3>1 DEF BulkOperations, Ready, Typed, AppOK, App
    <3>6. hist'.done = <<>> /\ hist'.given = (hist.given \/ l.acNeeded)
      <4>1. PICK h \in Hist : h = Anew(hist) /\ h.done = <<>> /\ h.given = hist.given
        BY <1>1, AnewHist DEF BulkOperations, Typed, HistOK
      <4>2. hist' = [h EXCEPT !.given = @ \/ l.acNeeded]
        BY <3>1, <4>1
      <4> QED BY <4>1, <4>2 DEF Hist
    <3>7. stmt'.queue = <<>> /\ (hist'.given \/ conn'.auto = conn'.public)
      BY <1>1, <3>1, <3>3, <3>4, <3>6 DEF BulkOperations, Serial
    <3>8. Increasing(hist'.done)
      BY <3>6 DEF Increasing
    <3> QED BY <3>4, <3>5, <3>7, <3>8, SerialIdle
  <2> QED BY <2>3, <2>4
<1>2. ASSUME NEW op \in Ops, NEW irow \in 0 .. Rows, SetPos(op, irow) PROVE Serial'
  <2>1. PICK l : l = NewLoop("setpos", op, irow)
    OBVIOUS
  <2>2. /\ l \in WellLoop /\ l.acNeeded = (conn.auto /\ op \in Writing)
        /\ l.idx = 0 /\ l.nrow = 0
    BY <1>2, <2>1, NewLoopWell DEF SetPos
  <2> QED BY <1>2, <2>1, <2>2, SerialBegin DEF SetPos
<1>3. CASE PassOver
  BY <1>3, SerialPassOver
<1>4. CASE ExecuteRow
  <2>1. stmt'.queue = stmt.queue /\ stmt'.live = stmt.live
    BY <1>4 DEF ExecuteRow, Typed, StmtOK
  <2>2. \E ret, info : \E hit \in BOOLEAN : RowDone(ret, info, hit)
    BY <1>4, RowReplies
  <2> QED BY <1>4, <2>1, <2>2, RowMode, SerialRowDone DEF ExecuteRow
<1>5. CASE PositionRow
  BY <1>5, SerialRowDone DEF PositionRow
<1>6. CASE RefuseRow
  <2>1. PICK l \in WellLoop : l = call.loop
    BY DEF Typed, CallOK
  <2>2. PICK k, m : k = Reached(l) /\ m = Counted(k, "error")
    OBVIOUS
  <2>3. m \in WellLoop /\ SameLoop(m, l)
    BY <2>2, ReachedLoop, CountedLoop DEF SameLoop
  <2>4. call'.loop = m /\ call'.pc = "finish"
    BY <1>6, <2>1, <2>2 DEF RefuseRow, Typed, CallOK
  <2> QED BY <1>6, <2>1, <2>3, <2>4, SerialStops DEF RefuseRow, AtRow
<1>7. CASE RowNeedsData
  BY <1>7, SerialNeedsData
<1>8. CASE LoopEnds
  <2>1. PICK l \in WellLoop : l = call.loop
    BY DEF Typed, CallOK
  <2>2. SameLoop(l, call.loop)
    BY <2>1 DEF SameLoop
  <2>3. call'.loop = l /\ call'.pc = "finish"
    BY <1>8, <2>1 DEF LoopEnds, Typed, CallOK
  <2> QED BY <1>8, <2>2, <2>3, SerialStops DEF LoopEnds
<1>9. CASE Finish
  BY <1>9, SerialFinish
<1>10. CASE ResumeLoop
  BY <1>10, SerialResumeLoop
<1>11. CASE ResumeRow
  BY <1>11, SerialResumeRow
<1>12. CASE ParamToken
  <2>1. /\ stmt'.queue = stmt.queue /\ stmt'.live = stmt.live
        /\ stmt'.delegate.n = stmt.delegate.n /\ stmt'.delegate.row = stmt.delegate.row
    BY <1>12 DEF ParamToken, Typed, StmtOK, Delegate
  <2>2. app'.dialogue = app.dialogue /\ UNCHANGED <<conn, call, hist>>
    BY <1>12 DEF ParamToken, Typed, AppOK, App
  <2> QED BY <2>1, <2>2, SerialSame
<1>13. CASE ParamExecute
  BY <1>13, RowMode, SerialParamExecute
<1>14. CASE PutData \/ Cancel
  <2>1. InDialogue => stmt.queue # <<>>
    BY WaitingQueue DEF Serial, Waits
  <2>2. GivenUp(hist).left = (hist.left \/ stmt.queue # <<>>)
    BY DEF GivenUp, Typed, HistOK, Hist
  <2>3. hist' # GivenUp(hist)
    BY <1>14, <2>1, <2>2 DEF PutData, Cancel
  <2>4. app' = [app EXCEPT !.last = "put"] /\ UNCHANGED <<conn, stmt, call, hist>>
    BY <1>14, <2>3 DEF PutData, Cancel, Refuse
  <2>5. app'.dialogue = app.dialogue
    BY <2>4 DEF Typed, AppOK, App
  <2> QED BY <2>4, <2>5, SerialSame
<1>15. CASE Reopen
  BY <1>15, SerialReopen
<1>16. CASE OtherWrites
  <2>1. UNCHANGED <<stmt, call, app>> /\ hist'.done = hist.done /\ hist'.given = hist.given
    BY <1>16 DEF OtherWrites, Typed, HistOK, Hist
  <2> QED BY <1>16, <2>1, OtherWritesMode, SerialSame
<1>17. ASSUME NEW on \in BOOLEAN, SetAutocommitOption(on) PROVE Serial'
  <2>1. /\ stmt' = stmt /\ call' = call /\ app' = app /\ hist'.done = hist.done
        /\ call.pc = "idle" /\ ~app.dialogue
    BY <1>17 DEF SetAutocommitOption, Ready, Typed, HistOK, Hist
  <2>2. conn'.auto = on /\ conn'.public = on
    <3>3. PICK taken \in BOOLEAN : conn' = [SetAutocommit(conn, on, taken) EXCEPT !.public = on]
      BY <1>17 DEF SetAutocommitOption
    <3>1. PICK c \in Conn : c = SetAutocommit(conn, on, taken) /\ c.auto = on
      BY SetAutocommitConn DEF Typed, ConnOK
    <3>2. conn' = [c EXCEPT !.public = on]
      BY <3>1, <3>3
    <3> QED BY <3>1, <3>2 DEF Conn
  <2>3. stmt'.queue = <<>> /\ Increasing(hist'.done)
    BY <2>1 DEF Serial, Ready
  <2> QED BY <2>1, <2>2, <2>3, SerialIdle
<1>18. ASSUME NEW on \in BOOLEAN, EndTran(on) PROVE Serial'
  <2>1. conn'.auto = conn.auto /\ conn'.public = conn.public
    BY <1>18, EndTranConn
  <2> QED BY <1>18, <2>1, SerialSame DEF EndTran
<1>19. CASE UNCHANGED vars
  BY <1>19, SerialSame DEF vars
<1> QED BY <1>1, <1>2, <1>3, <1>4, <1>5, <1>6, <1>7, <1>8, <1>9, <1>10, <1>11, <1>12,
           <1>13, <1>14, <1>15, <1>16, <1>17, <1>18, <1>19 DEF Next

\* Callbacks that are left in the queue stay there until the statement is closed.
LEMMA LeftKept ==
    ASSUME Typed, hist.left, [Next]_vars, ~Reopen
    PROVE  hist'.left
<1>1. GivenUp(hist).left
  BY DEF GivenUp, Typed, HistOK, Hist
<1>2. ASSUME AtRow, NEW ret, NEW info, NEW hit \in BOOLEAN, RowDone(ret, info, hit)
      PROVE  hist'.left
  BY <1>2, RowDoneHist
<1>3. ASSUME hist.n < MaxOps, NEW l, Begin(l) PROVE hist'.left
  BY <1>3, BeginHist
<1>4. ASSUME NEW op, NEW bound, BulkOperations(op, bound) PROVE hist'.left
  <2>1. hist.n < MaxOps
    BY <1>4 DEF BulkOperations
  <2>2. CASE \E l : Begin(l)
    BY <1>3, <2>1, <2>2
  <2>3. CASE \E l : hist' = [Anew(hist) EXCEPT !.given = @ \/ l.acNeeded]
    BY <2>1, <2>3, AnewHist DEF Typed, HistOK, Hist
  <2> QED BY <1>4, <2>2, <2>3 DEF BulkOperations
<1>5. ResumeRow => hist'.left
  BY DEF ResumeRow, Typed, HistOK, Hist
<1>6. OtherWrites => hist'.left
  BY DEF OtherWrites, Typed, HistOK, Hist
<1>7. ASSUME NEW on, SetAutocommitOption(on) \/ EndTran(on) PROVE hist'.left
  BY <1>7 DEF SetAutocommitOption, EndTran, Typed, HistOK, Hist
<1>8. PutData \/ Cancel => hist'.left
  BY <1>1 DEF PutData, Cancel, Refuse
<1>9. ExecuteRow \/ PositionRow => hist'.left
  BY <1>2, RowReplies DEF ExecuteRow, PositionRow
<1>10. ASSUME NEW op, NEW irow, SetPos(op, irow) PROVE hist'.left
  BY <1>3, <1>10 DEF SetPos
<1>11. PassOver \/ RefuseRow \/ RowNeedsData \/ LoopEnds \/ ResumeLoop
          \/ ParamToken \/ UNCHANGED vars => hist'.left
  BY DEF PassOver, RefuseRow, RowNeedsData, LoopEnds, ResumeLoop, ParamToken, vars
<1>12. Finish \/ ParamExecute => hist'.left
  BY FinishHist, ParamHist
<1> QED BY <1>4, <1>5, <1>6, <1>7, <1>8, <1>9, <1>10, <1>11, <1>12 DEF Next

LEMMA StepInv ==
    ASSUME BulkInv, [Next]_vars
    PROVE  BulkInv'
<1>1. Typed /\ Typed'
  BY StepTyped DEF BulkInv
<1>2. CASE Serial
  BY <1>1, <1>2, StepSerial DEF BulkInv
<1>3. CASE ~Serial
  <2>1. hist.left
    BY <1>3 DEF BulkInv
  <2>2. CASE Reopen
    BY <1>1, <2>1, <2>2, SerialReopen DEF BulkInv
  <2>3. CASE ~Reopen
    BY <1>1, <2>1, <2>3, LeftKept DEF BulkInv
  <2> QED BY <2>2, <2>3
<1> QED BY <1>2, <1>3

LEMMA InitInv ==
    ASSUME Init
    PROVE  BulkInv
<1>1. Typed
  BY InitTyped
<1>2. Serial
  BY DEF Init, IdleCall, Serial, Ready, InDialogue, Increasing
<1> QED BY <1>1, <1>2 DEF BulkInv

LEMMA Invariance == Spec => []BulkInv
BY InitInv, StepInv, PTL DEF Spec

-----------------------------------------------------------------------------
(***************************************************************************)
(* What follows from it.                                                   *)
(***************************************************************************)

\* The connection is in the mode the application set whenever no operation is in
\* progress and none was given up half way: bulk_ope_callback and spos_callback switch
\* autocommit on again on every way out, in the call that began the operation or in the
\* SQLParamData that ends it.
THEOREM SettingKeptAlways == Spec => []SettingKept
<1>1. BulkInv => SettingKept
  BY DEF BulkInv, Serial, SettingKept, Ready
<1> QED BY <1>1, Invariance, PTL

\* However often an operation is left for data and resumed from its callbacks, its rows
\* are processed in order, each once, and SQLSetPos processes each row with the tuple
\* the row stands for.
THEOREM RowsOnceAlways == Spec => []RowsOnce
<1>1. BulkInv => RowsOnce
  <2> SUFFICES ASSUME BulkInv, ~hist.left
               PROVE  /\ \A i, j \in DOMAIN hist.done :
                           i < j => hist.done[i][1] < hist.done[j][1]
                      /\ call.pc \in {"loop", "finish"} /\ Positioned(call.loop) =>
                           \A i \in DOMAIN hist.done :
                             hist.done[i][2] = TupleOf(hist.done[i][1])
    BY DEF RowsOnce
  <2>1. Serial /\ Typed
    BY DEF BulkInv
  <2>2. ASSUME call.pc \in {"loop", "finish"}, Positioned(call.loop),
               NEW i \in DOMAIN hist.done
        PROVE  hist.done[i][2] = TupleOf(hist.done[i][1])
    <3>1. /\ hist.done[i][2] \in stmt.live
          /\ Rank(stmt.live, hist.done[i][2]) = hist.done[i][1]
      BY <2>1, <2>2 DEF Serial, PlacedOf
    <3> QED BY <2>1, <3>1, RankTuple, LoopTail
  <2> QED BY <2>1, <2>2 DEF Serial, Increasing
<1> QED BY <1>1, Invariance, PTL

-----------------------------------------------------------------------------
(***************************************************************************)
(* What a successful operation has written.  The invariant keeps account   *)
(* of the rows done: which they are, how many, which of them were written  *)
(* (Held, and hist.missed for the others) and what their statuses say      *)
(* (Told).  It needs the loop's number to be new (Numbered), and that      *)
(* nothing is pending without a transaction (Orderly).                     *)
(***************************************************************************)
Held == conn.pending \cup conn.durable
DoneRows == {hist.done[i][1] : i \in DOMAIN hist.done}
Before(l) == {r \in Due(l) : r < l.nrow}

Known(l) == /\ l.n = hist.n /\ ~conn.auto
            /\ l.api = "bulk" => l.first = 0 /\ l.last = Rows - 1
\* The writes held of the rows D are those not missed, and the statuses tell of them;
\* nothing is held or missed of another row.
ToldOf(D, status, held, missed, n, op) ==
    \A r \in D : /\ <<n, r>> \in held <=> r \notin missed
                 /\ status[r] = Mark[op] \/ (status[r] = "info" /\ op # "delete")
                 /\ status[r] = "updated" => r \notin missed
FreshOf(D, held, missed, n) ==
    \A r \in RowIds : <<n, r>> \in held \/ r \in missed => r \in D

Told(l) == ToldOf(DoneRows, app.status, Held, hist.missed, l.n, l.op)
Reckoned(l) == DoneRows = Before(l) /\ l.processed = Cardinality(DoneRows)
Fresh(l, S) == FreshOf(DoneRows \cup S, Held, hist.missed, l.n)
RowDue(l) == l.op \in {"add", "update"} /\ l.nrow \in Due(l)

Looping(l) == l.op \in Writing => Known(l) /\ Told(l) /\ Reckoned(l) /\ Fresh(l, {})
Ending(l) == l.op \in Writing =>
               /\ Known(l)
               /\ call.ret = "ok" =>
                    Told(l) /\ DoneRows = Due(l) /\ l.processed = Cardinality(DoneRows)
Asking(l) == Known(l) /\ RowDue(l) /\ Told(l) /\ Reckoned(l) /\ Fresh(l, {})
RowBack(l) ==
    /\ Known(l) /\ RowDue(l)
    /\ call.ret = "ok" => /\ Told(l) /\ Reckoned(l) /\ Fresh(l, {l.nrow})
                          /\ <<l.n, l.nrow>> \in Held <=> l.nrow \notin hist.missed
                          /\ l.op = "update" /\ ~call.info => l.nrow \notin hist.missed
LoopBack(l) ==
    /\ Known(l) /\ RowDue(l)
    /\ call.ret = "ok" => /\ Told(l) /\ Fresh(l, {}) /\ DoneRows = Before(l) \cup {l.nrow}
                          /\ l.processed + 1 = Cardinality(DoneRows)

Queued == Head(stmt.queue)

Truthful ==
    /\ call.pc = "loop" => Looping(call.loop)
    /\ call.pc = "finish" => Ending(call.loop)
    /\ InDialogue => Asking(Queued.loop)
    /\ call.pc = "resume" /\ Queued.kind = "row" => RowBack(Queued.loop)
    /\ call.pc = "resume" /\ Queued.kind = "loop" => LoopBack(Queued.loop)

Orderly ==
    /\ conn.tx = "idle" => conn.pending = {}
    /\ call.pc = "loop" => call.ret = "ok"
    /\ call.pc \in {"resume", "finish"} => call.ret \in {"ok", "error"}

Numbered ==
    /\ \A w \in Held \cup conn.saved : w[1] <= hist.n
    /\ call.pc \in {"loop", "finish"} => call.loop.n <= hist.n
    /\ stmt.delegate.n <= hist.n
    /\ \A i \in DOMAIN stmt.queue : stmt.queue[i].loop.n <= hist.n

TruthInv == BulkInv /\ Orderly /\ Numbered /\ (hist.left \/ Truthful)

\* What the end of an API call makes of the transaction.
Settled(c, d) ==
    /\ d.pending \subseteq c.pending \cup c.saved /\ d.durable = c.durable
    /\ d.saved \subseteq c.saved

LEMMA StartStmtSettled ==
    ASSUME NEW c \in Conn
    PROVE  /\ StartStmt(c).tx = c.tx /\ StartStmt(c).pending = c.pending
           /\ StartStmt(c).durable = c.durable /\ StartStmt(c).saved = {}
           /\ StartStmt(c).accessed = FALSE
BY DEF StartStmt, Conn

LEMMA DiscardSettled ==
    ASSUME NEW c \in Conn, NEW ret, c.tx = "idle" => c.pending = {}
    PROVE  /\ Settled(c, Discard(c, ret))
           /\ Discard(c, ret).tx = "idle" => Discard(c, ret).pending = {}
<1>1. CASE ret = "need"
  BY <1>1 DEF Discard, Settled
<1>2. CASE ret = "error" /\ c.accessed /\ c.tx # "idle" /\ c.svp
  <2> DEFINE d == [c EXCEPT !.tx = "open", !.pending = c.saved]
  <2>1. d \in Conn /\ d.tx = "open" /\ d.pending = c.saved /\ d.durable = c.durable
    BY DEF Conn
  <2>2. Discard(c, ret) = StartStmt(d)
    BY <1>2 DEF Discard
  <2> HIDE DEF d
  <2> QED BY <2>1, <2>2, StartStmtSettled DEF Settled
<1>3. CASE ret = "error" /\ c.accessed /\ c.tx # "idle" /\ ~c.svp
  <2> DEFINE d == [c EXCEPT !.tx = "idle", !.pending = {}]
  <2>1. d \in Conn /\ d.tx = "idle" /\ d.pending = {} /\ d.durable = c.durable
    BY DEF Conn
  <2>2. Discard(c, ret) = StartStmt(d)
    BY <1>3 DEF Discard, Abort
  <2> HIDE DEF d
  <2> QED BY <2>1, <2>2, StartStmtSettled DEF Settled
<1>4. CASE ret # "need" /\ ~(ret = "error" /\ c.accessed /\ c.tx # "idle")
  <2>1. Discard(c, ret) = StartStmt(c)
    BY <1>4 DEF Discard
  <2> QED BY <1>4, <2>1, StartStmtSettled DEF Settled
<1> QED BY <1>1, <1>2, <1>3, <1>4

\* What a change of the mode makes of it.
SettingMade(c, d) ==
    /\ d.pending \cup d.durable \subseteq c.pending \cup c.durable /\ d.saved \subseteq c.saved
    /\ d.tx = "idle" => d.pending = {}

LEMMA CommitSettled ==
    ASSUME NEW c \in Conn, NEW on \in BOOLEAN, NEW taken, c.tx = "idle" => c.pending = {}
    PROVE  /\ Commit(c, taken).tx = "idle" /\ Commit(c, taken).pending = {} /\ Abort(c).pending = {}
           /\ Abort(c).tx = "idle" /\ Abort(c).durable = c.durable
           /\ Commit(c, taken).durable \subseteq c.durable \cup c.pending
           /\ Commit(c, taken).saved \subseteq c.saved /\ Abort(c).saved \subseteq c.saved
           /\ SettingMade(c, SetAutocommit(c, on, taken))
<1>1. CASE c.tx = "idle"
  <2>1. Commit(c, taken) = c /\ Abort(c) = c
    BY <1>1 DEF Commit, Abort
  <2>2. SetAutocommit(c, on, taken) = c \/ SetAutocommit(c, on, taken) = [c EXCEPT !.auto = on]
    BY <2>1 DEF SetAutocommit
  <2>3. SettingMade(c, SetAutocommit(c, on, taken))
    BY <1>1, <2>2 DEF SettingMade, Conn
  <2> QED BY <1>1, <2>1, <2>3
<1>2. CASE c.tx # "idle"
  <2> DEFINE d == [c EXCEPT !.tx = "idle", !.pending = {},
                            !.durable = IF c.tx = "open" /\ taken THEN @ \cup c.pending ELSE @]
             e == [c EXCEPT !.tx = "idle", !.pending = {}]
  <2>1. d \in Conn /\ e \in Conn
    BY DEF Conn
  <2>2. /\ d.tx = "idle" /\ d.pending = {}
        /\ d.durable = IF c.tx = "open" /\ taken THEN c.durable \cup c.pending ELSE c.durable
        /\ e.tx = "idle" /\ e.pending = {} /\ e.durable = c.durable
    BY DEF Conn
  <2>3. Commit(c, taken) = StartStmt(d) /\ Abort(c) = StartStmt(e)
    BY <1>2 DEF Commit, Abort
  <2> HIDE DEF d, e
  <2>4. /\ Commit(c, taken).tx = "idle" /\ Commit(c, taken).pending = {} /\ Commit(c, taken).durable = d.durable
        /\ Commit(c, taken).saved = {} /\ Abort(c).tx = "idle" /\ Abort(c).pending = {}
        /\ Abort(c).durable = c.durable /\ Abort(c).saved = {}
        /\ Commit(c, taken) \in Conn
    <3>1. /\ StartStmt(d).tx = "idle" /\ StartStmt(d).pending = {}
          /\ StartStmt(d).durable = d.durable /\ StartStmt(d).saved = {}
          /\ StartStmt(d) \in Conn
      <4>1. d \in Conn /\ d.tx = "idle" /\ d.pending = {}
        BY <2>1, <2>2
      <4> QED BY <4>1, StartStmtSettled, StartStmtConn
    <3>2. /\ StartStmt(e).tx = "idle" /\ StartStmt(e).pending = {}
          /\ StartStmt(e).durable = c.durable /\ StartStmt(e).saved = {}
      <4>1. e \in Conn /\ e.tx = "idle" /\ e.pending = {} /\ e.durable = c.durable
        BY <2>1, <2>2
      <4> QED BY <4>1, StartStmtSettled
    <3> QED BY <2>3, <3>1, <3>2
  <2>5. SetAutocommit(c, on, taken) = c \/ SetAutocommit(c, on, taken) = [Commit(c, taken) EXCEPT !.auto = on]
    BY DEF SetAutocommit
  <2>6. SettingMade(c, SetAutocommit(c, on, taken))
    <3>1. PICK f : f = SetAutocommit(c, on, taken)
      OBVIOUS
    <3>2. CASE f = c
      BY <1>2, <3>1, <3>2 DEF SettingMade
    <3>3. CASE f = [Commit(c, taken) EXCEPT !.auto = on]
      <4>1. f.tx = "idle" /\ f.pending = {} /\ f.durable = d.durable /\ f.saved = {}
        BY <2>4, <3>3 DEF Conn
      <4> QED BY <2>2, <3>1, <4>1 DEF SettingMade, Conn
    <3> QED BY <2>5, <3>1, <3>2, <3>3
  <2> QED BY <2>2, <2>4, <2>6
<1> QED BY <1>1, <1>2

-----------------------------------------------------------------------------
(***************************************************************************)
(* What the steps do to the transaction, by name.                          *)
(***************************************************************************)
LEMMA RowConn ==
    ASSUME Typed, ExecuteRow \/ ParamExecute
    PROVE  \E op, w, x :
             /\ w \in Writes /\ RowOutcome(conn, op, w, x) /\ conn' = x.conn
             /\ ExecuteRow =>
                  /\ op = call.loop.op /\ w = <<call.loop.n, call.loop.nrow>>
                  /\ RowDone(x.ret, x.info, x.hit)
             /\ ParamExecute =>
                  /\ op = Head(stmt.queue).loop.op
                  /\ w = <<stmt.delegate.n, stmt.delegate.row>>
                  /\ call'.pc = "resume" /\ call'.ret = x.ret /\ call'.info = x.info
                  /\ hist' = Missing(hist, stmt.delegate.row, x.hit)
<1>1. CASE ExecuteRow
  <2>1. PICK w \in Writes : w = <<call.loop.n, call.loop.nrow>>
    BY <1>1, RowInSet DEF ExecuteRow
  <2>2. PICK op : op = call.loop.op
    OBVIOUS
  <2>3. PICK x \in Results(conn, op, w) : conn' = x.conn /\ RowDone(x.ret, x.info, x.hit)
    BY <1>1, <2>1, <2>2 DEF ExecuteRow
  <2>4. RowOutcome(conn, op, w, x)
    BY <2>3, ResultsConn DEF Typed, ConnOK
  <2>6. ~ParamExecute
    BY <1>1 DEF ExecuteRow, AtRow, ParamExecute, InDialogue
  <2> QED BY <2>1, <2>2, <2>3, <2>4, <2>6
<1>2. CASE ParamExecute
  <2>1. PICK w \in Writes : w = <<stmt.delegate.n, stmt.delegate.row>>
    <3>1. stmt.delegate.dae = 0
      BY <1>2 DEF ParamExecute
    <3>2. stmt.delegate.n \in 1 .. MaxOps /\ stmt.delegate.row \in RowIds
      BY <3>1 DEF Typed, StmtOK
    <3> QED BY <3>2 DEF Writes
  <2>2. PICK op : op = Head(stmt.queue).loop.op
    OBVIOUS
  <2>3. PICK x \in Results(conn, op, w) :
          /\ conn' = x.conn
          /\ call' = [IdleCall EXCEPT !.pc = "resume", !.ret = x.ret, !.info = x.info,
                                      !.direct = FALSE, !.exec = w]
          /\ hist' = Missing(hist, stmt.delegate.row, x.hit)
    BY <1>2, <2>1, <2>2 DEF ParamExecute
  <2>4. RowOutcome(conn, op, w, x)
    BY <2>3, ResultsConn DEF Typed, ConnOK
  <2>6. call'.pc = "resume" /\ call'.ret = x.ret /\ call'.info = x.info
    BY <2>3 DEF IdleCall
  <2>7. ~ExecuteRow
    BY <1>2 DEF ExecuteRow, AtRow, ParamExecute, InDialogue
  <2> QED BY <2>1, <2>2, <2>3, <2>4, <2>6, <2>7
<1> QED BY <1>1, <1>2

\* Where SetAutocommit is called, and what the rest of the call leaves.
LEMMA ReturnSettled ==
    ASSUME NEW c \in Conn, NEW ret, Return(c, ret), c.tx = "idle" => c.pending = {}
    PROVE  Orderly' /\ Settled(c, conn')
<1>1. conn' = Discard(c, ret) /\ call'.pc = "idle"
  BY DEF Return, IdleCall
<1>2. Settled(c, conn') /\ (conn'.tx = "idle" => conn'.pending = {})
  BY <1>1, DiscardSettled
<1> QED BY <1>1, <1>2 DEF Orderly

\* What Finish does, by name.
LEMMA FinishMade ==
    ASSUME Typed, Orderly, Finish
    PROVE  \E l \in WellLoop, c \in Conn, ret \in {"ok", "error"}, taken \in BOOLEAN :
             /\ l = call.loop
             /\ c = IF l.acNeeded THEN SetAutocommit(conn, TRUE, taken) ELSE conn
             /\ hist'.refused = (l.acNeeded /\ ~taken)
             /\ ret = "ok" => call.ret = "ok"
             /\ call.ret = "error" => ret = "error"
             /\ \/ /\ call' = [call EXCEPT !.pc = "resume", !.ret = ret] /\ conn' = c
                   /\ stmt.queue # <<>>
                \/ /\ Return(c, ret) /\ app'.ret = ret /\ ~app'.dialogue
                   /\ l.irow = 0 => app'.fetched = l.processed
                   /\ app'.status = app.status
             /\ c.tx = "idle" => c.pending = {}
             /\ stmt'.queue = stmt.queue /\ stmt'.delegate = stmt.delegate
<1>1. PICK l \in WellLoop : l = call.loop
  BY DEF Typed, CallOK
<1>12. PICK taken \in BOOLEAN : FinishAs(taken)
  BY DEF Finish, FinishAs
<1>2. PICK c : c = IF l.acNeeded THEN SetAutocommit(conn, TRUE, taken) ELSE conn
  OBVIOUS
<1>3. c \in Conn
  BY <1>2, SetAutocommitConn DEF Typed, ConnOK
<1> DEFINE a == IF l.irow = 0 THEN [app EXCEPT !.fetched = l.processed] ELSE app
           none == call.direct /\ l.api = "setpos" /\ l.processed = 0
           ret == IF none THEN "error" ELSE call.ret
           last == IF call.direct THEN "op" ELSE "param"
<1>4. \/ /\ call' = [call EXCEPT !.pc = "resume", !.ret = ret] /\ conn' = c
         /\ stmt.queue # <<>>
      \/ /\ Return(c, ret)
         /\ app' = [a EXCEPT !.dialogue = FALSE, !.ret = ret, !.last = last]
  BY <1>1, <1>2, <1>12 DEF FinishAs, Restored
<1>5. call.ret \in {"ok", "error"}
  BY DEF Orderly, Finish
<1>6. ret \in {"ok", "error"} /\ (ret = "ok" => call.ret = "ok")
      /\ (call.ret = "error" => ret = "error")
  BY <1>5
<1>7. stmt'.queue = stmt.queue /\ stmt'.delegate = stmt.delegate
  BY <1>1, <1>12 DEF FinishAs, Typed, StmtOK
<1>8. hist'.refused = (l.acNeeded /\ ~taken)
  BY <1>1, <1>12 DEF FinishAs, Typed, HistOK, Hist
<1>9. c.tx = "idle" => c.pending = {}
  <2>1. CASE l.acNeeded
    <3>1. SettingMade(conn, c)
      BY <1>2, <2>1, CommitSettled DEF Orderly, Typed, ConnOK
    <3> QED BY <3>1 DEF SettingMade
  <2>2. CASE ~l.acNeeded
    BY <1>2, <2>2 DEF Orderly
  <2> QED BY <2>1, <2>2
<1>10. a \in App /\ a.status = app.status /\ (l.irow = 0 => a.fetched = l.processed)
  BY LoopFields DEF Typed, AppOK, App
<1> HIDE DEF a, ret, last
<1>11. \/ /\ call' = [call EXCEPT !.pc = "resume", !.ret = ret] /\ conn' = c
          /\ stmt.queue # <<>>
       \/ /\ Return(c, ret) /\ app'.ret = ret /\ ~app'.dialogue
          /\ l.irow = 0 => app'.fetched = l.processed
          /\ app'.status = app.status
  BY <1>4, <1>10 DEF App
<1> QED BY ZenonT(60), <1>1, <1>2, <1>3, <1>6, <1>7, <1>8, <1>9, <1>11

LEMMA BeginSettled ==
    ASSUME Typed, Orderly, NEW l \in WellLoop, Begin(l)
    PROVE  /\ conn'.pending \cup conn'.durable \subseteq Held /\ conn'.saved \subseteq conn.saved
           /\ conn'.tx = "idle" => conn'.pending = {}
           /\ l.acNeeded => ~conn'.auto
           /\ ~l.acNeeded => conn'.auto = conn.auto
<1>1. conn \in Conn /\ l.acNeeded \in BOOLEAN
  BY LoopFields DEF Typed, ConnOK
<1>2. CASE l.acNeeded
  <2>1. PICK taken : conn' = SetAutocommit(conn, FALSE, taken)
    BY <1>2 DEF Begin, SwitchedOff
  <2>2. conn.tx = "idle" => conn.pending = {}
    BY DEF Orderly
  <2>3. SettingMade(conn, conn')
    BY <1>1, <2>1, <2>2, CommitSettled
  <2>4. conn'.auto = FALSE
    BY <1>1, <2>1, SetAutocommitConn
  <2> QED BY <1>2, <2>3, <2>4 DEF Held, SettingMade
<1>3. CASE ~l.acNeeded
  BY <1>1, <1>3 DEF Begin, SwitchedOff, Orderly, Held
<1> QED BY <1>1, <1>2, <1>3

LEMMA UnboundMade ==
    ASSUME Typed, Orderly, NEW op \in Writing, NEW bound, BulkOperations(op, bound)
    PROVE  \E l \in WellLoop :
             /\ l = NewLoop("bulk", op, 0) /\ l.n = hist.n + 1 /\ l.idx = 0 /\ l.nrow = 0
             /\ l.acNeeded = conn.auto /\ l.op = op /\ l.first = 0 /\ l.last = Rows - 1
             /\ l.processed = 0
             /\ \/ Begin(l)
                \/ /\ \E taken : \E c \in Conn : c = SwitchedOff(l, taken) /\ Return(c, "error")
                   /\ app'.dialogue = app.dialogue /\ stmt' = stmt
                   /\ hist'.n = hist.n + 1 /\ hist'.done = <<>> /\ hist'.left = hist.left
<1>1. PICK l : l = NewLoop("bulk", op, 0)
  OBVIOUS
<1>2. /\ l \in WellLoop /\ l.acNeeded = conn.auto
      /\ l.idx = 0 /\ l.nrow = 0 /\ l.n = hist.n + 1 /\ l.op = op /\ l.first = 0
      /\ l.last = Rows - 1 /\ l.processed = 0
  <2>1. op \in Ops /\ 0 \in 0 .. Rows /\ hist.n < MaxOps /\ conn.auto \in BOOLEAN
    BY BulkAssumption DEF BulkOperations, Writing, Ops, Typed, ConnOK, Conn
  <2> QED BY <1>1, <2>1, NewLoopWell
<1>3. CASE Begin(l)
  BY <1>1, <1>2, <1>3
<1>4. CASE ~Begin(l)
  <2>1. /\ \E taken \in BOOLEAN : Return(SwitchedOff(l, taken), "error")
        /\ app' = [app EXCEPT !.last = "op", !.ret = "error"]
        /\ hist' = [Anew(hist) EXCEPT !.given = @ \/ l.acNeeded]
        /\ UNCHANGED stmt
    BY <1>1, <1>4 DEF BulkOperations
  <2>2. PICK taken : Return(SwitchedOff(l, taken), "error")
    BY <2>1
  <2>3. PICK c \in Conn : c = SwitchedOff(l, taken)
    BY SwitchedOffConn
  <2>4. app'.dialogue = app.dialogue
    BY <2>1 DEF Typed, AppOK, App
  <2>5. hist'.n = hist.n + 1 /\ hist'.done = <<>> /\ hist'.left = hist.left
    <3>1. PICK h \in Hist : /\ h = Anew(hist) /\ h.n = hist.n + 1 /\ h.done = <<>>
                            /\ h.left = hist.left
      BY <1>1, AnewHist DEF BulkOperations, Typed, HistOK
    <3>2. hist' = [h EXCEPT !.given = @ \/ l.acNeeded]
      BY <2>1, <3>1
    <3> QED BY <3>1, <3>2 DEF Hist
  <2> QED BY <1>1, <1>2, <2>1, <2>2, <2>3, <2>4, <2>5
<1> QED BY <1>3, <1>4

LEMMA OtherWritesSettled ==
    ASSUME Typed, Orderly, OtherWrites
    PROVE  \E k \in Nat : /\ conn'.pending \cup conn'.durable = Held \cup {<<0, k>>}
                          /\ conn'.saved = {}
                          /\ conn'.tx = "idle" => conn'.pending = {}
<1> DEFINE w == <<0, hist.others + 1>>
           c == [conn EXCEPT !.tx = IF conn.auto THEN @ ELSE "open"]
<1>1. c \in Conn /\ c.pending = conn.pending /\ c.durable = conn.durable
  BY DEF Typed, ConnOK, Conn
<1>2. c.tx = "idle" => c.pending = {}
  BY DEF Orderly, OtherWrites, Typed, ConnOK, Conn
<1>3. conn' = StartStmt(Written(c, w))
  BY DEF OtherWrites
<1>4. w \in Writes /\ hist.others + 1 \in Nat
  BY BulkAssumption DEF OtherWrites, Typed, HistOK, Hist, Writes
<1>5. PICK k \in Nat : w = <<0, k>>
  BY <1>4
<1> HIDE DEF c, w
<1>6. PICK d : d = Written(c, w)
  OBVIOUS
<1>7. /\ d \in Conn /\ d.tx = c.tx
      /\ c.tx = "idle" => d.durable = c.durable \cup {w} /\ d.pending = c.pending
      /\ c.tx # "idle" => d.pending = c.pending \cup {w} /\ d.durable = c.durable
  BY <1>1, <1>4, <1>6 DEF Written, Conn
<1>8. /\ conn'.tx = d.tx /\ conn'.pending = d.pending /\ conn'.durable = d.durable
      /\ conn'.saved = {}
  BY <1>3, <1>6, <1>7, StartStmtSettled
<1> QED BY <1>1, <1>2, <1>5, <1>7, <1>8 DEF Held

LEMMA ReopenSettled ==
    ASSUME Typed, Orderly, Reopen
    PROVE  /\ conn'.pending \cup conn'.durable = Held /\ conn'.saved = {}
           /\ conn'.tx = "idle" => conn'.pending = {}
<1> DEFINE c == [conn EXCEPT !.tx = IF conn.auto THEN @ ELSE "open"]
<1>1. c \in Conn /\ c.pending = conn.pending /\ c.durable = conn.durable
  BY DEF Typed, ConnOK, Conn
<1>2. c.tx = "idle" => c.pending = {}
  BY DEF Orderly, Reopen, Ready, Typed, ConnOK, Conn
<1>3. conn' = StartStmt(c)
  BY DEF Reopen
<1> HIDE DEF c
<1> QED BY <1>1, <1>2, <1>3, StartStmtSettled DEF Held

\* The application's own changes of the transaction.
LEMMA OptionSettled ==
    ASSUME Typed, Orderly, NEW on \in BOOLEAN, SetAutocommitOption(on) \/ EndTran(on)
    PROVE  /\ conn'.pending \cup conn'.durable \subseteq Held /\ conn'.saved \subseteq conn.saved
           /\ conn'.tx = "idle" => conn'.pending = {}
<1>1. conn \in Conn
  BY DEF Typed, ConnOK
<1>2. conn.tx = "idle" => conn.pending = {}
  BY DEF Orderly
<1>3. CASE SetAutocommitOption(on)
  <2>5. PICK taken : conn' = [SetAutocommit(conn, on, taken) EXCEPT !.public = on]
    BY <1>3 DEF SetAutocommitOption
  <2>1. PICK c \in Conn : c = SetAutocommit(conn, on, taken)
    BY <1>1, SetAutocommitConn
  <2>2. /\ c.pending \cup c.durable \subseteq Held /\ c.saved \subseteq conn.saved
        /\ c.tx = "idle" => c.pending = {}
    <3>1. SettingMade(conn, c)
      BY <1>1, <1>2, <2>1, CommitSettled
    <3> QED BY <3>1 DEF SettingMade, Held
  <2>3. conn' = [c EXCEPT !.public = on]
    BY <2>1, <2>5
  <2>4. /\ conn'.pending = c.pending /\ conn'.durable = c.durable /\ conn'.saved = c.saved
        /\ conn'.tx = c.tx
    BY <2>1, <2>3 DEF Conn
  <2> QED BY <2>2, <2>4
<1>4. CASE EndTran(on)
  <2>4. PICK taken : conn' = Commit(conn, taken) \/ conn' = Abort(conn)
    BY <1>4 DEF EndTran
  <2>1. conn' = Commit(conn, taken) \/ conn' = Abort(conn)
    BY <2>4
  <2>2. /\ Commit(conn, taken).tx = "idle" /\ Commit(conn, taken).pending = {}
        /\ Commit(conn, taken).durable \subseteq conn.durable \cup conn.pending
        /\ Commit(conn, taken).saved \subseteq conn.saved
    BY <1>1, <1>2, CommitSettled
  <2>3. /\ Abort(conn).tx = "idle" /\ Abort(conn).pending = {}
        /\ Abort(conn).durable = conn.durable /\ Abort(conn).saved \subseteq conn.saved
    BY <1>1, <1>2, CommitSettled
  <2> QED BY <2>1, <2>2, <2>3 DEF Held
<1> QED BY <1>3, <1>4

\* The calls that set a loop going.
LEMMA BeginMade ==
    ASSUME NEW l, Begin(l)
    PROVE  /\ call'.pc = "loop" /\ call'.ret = "ok" /\ call'.loop = l
           /\ stmt' = stmt /\ app' = app
BY DEF Begin, IdleCall

LEMMA RowDoneMade ==
    ASSUME Typed, AtRow, NEW ret, NEW info, NEW hit \in BOOLEAN, RowDone(ret, info, hit)
    PROVE  /\ call'.ret = ret /\ call'.pc = (IF ret = "error" THEN "finish" ELSE "loop")
           /\ call'.loop = Counted(Reached(call.loop), ret)
           /\ hist'.done = Append(hist.done, <<call.loop.nrow, call.loop.idx>>)
           /\ hist'.n = hist.n /\ hist'.left = hist.left /\ hist'.given = hist.given
           /\ hist'.missed = IF hit THEN hist.missed ELSE hist.missed \cup {call.loop.nrow}
<1>1. PICK m, pc : /\ m = Counted(Reached(call.loop), ret)
                   /\ pc = IF ret = "error" THEN "finish" ELSE "loop"
  OBVIOUS
<1>2. call' = [call EXCEPT !.pc = pc, !.ret = ret, !.loop = m]
  BY <1>1 DEF RowDone
<1>3. call'.ret = ret /\ call'.pc = pc /\ call'.loop = m
  BY <1>2 DEF Typed, CallOK
<1> QED BY <1>1, <1>3, RowDoneHist

\* Nothing is pending without a transaction, and a loop goes on only after success.
LEMMA StepOrderly ==
    ASSUME Typed, Orderly, [Next]_vars
    PROVE  Orderly'
<1>0. conn \in Conn /\ conn.tx \in {"idle", "open", "failed"}
  BY DEF Typed, ConnOK, Conn
<1>1. ASSUME NEW op \in Writing, NEW bound, BulkOperations(op, bound) PROVE Orderly'
  <2>1. PICK l \in WellLoop :
          \/ Begin(l)
          \/ \E taken : \E c \in Conn : c = SwitchedOff(l, taken) /\ Return(c, "error")
    BY <1>1, UnboundMade
  <2>3. CASE Begin(l)
    BY <2>3, BeginSettled, BeginMade DEF Orderly
  <2>4. CASE ~Begin(l)
    <3>1. PICK taken : \E c \in Conn : c = SwitchedOff(l, taken) /\ Return(c, "error")
      BY <2>1, <2>4
    <3>4. PICK c \in Conn : c = SwitchedOff(l, taken) /\ Return(c, "error")
      BY <3>1
    <3>2. SettingMade(conn, c) \/ c = conn
      BY <1>0, <3>4, CommitSettled DEF SwitchedOff, Orderly
    <3>3. c.tx = "idle" => c.pending = {}
      BY <3>2 DEF SettingMade, Orderly
    <3> QED BY <3>3, <3>4, ReturnSettled
  <2> QED BY <2>3, <2>4
<1>2. ASSUME NEW op \in Ops, NEW irow \in 0 .. Rows, SetPos(op, irow) PROVE Orderly'
  <2>1. PICK l \in WellLoop : Begin(l)
    BY <1>2, NewLoopWell DEF SetPos
  <2> QED BY <2>1, BeginSettled, BeginMade DEF Orderly
<1>3. CASE ExecuteRow
  <2>1. PICK op, w, x :
          RowOutcome(conn, op, w, x) /\ conn' = x.conn /\ RowDone(x.ret, x.info, x.hit)
    BY <1>3, RowConn
  <2>3. AtRow /\ x.hit \in BOOLEAN
    BY <1>3, <2>1 DEF ExecuteRow, RowOutcome
  <2>2. call'.ret = x.ret /\ call'.pc = IF x.ret = "error" THEN "finish" ELSE "loop"
    BY <2>1, <2>3, RowDoneMade
  <2> QED BY <2>1, <2>2 DEF RowOutcome, Orderly
<1>4. CASE ParamExecute
  <2>1. PICK op, w, x :
          /\ RowOutcome(conn, op, w, x) /\ conn' = x.conn
          /\ call'.pc = "resume" /\ call'.ret = x.ret
    BY <1>4, RowConn
  <2> QED BY <2>1 DEF RowOutcome, Orderly
<1>5. CASE Finish
  <2>1. PICK l \in WellLoop, c \in Conn, ret \in {"ok", "error"} :
          /\ \/ call' = [call EXCEPT !.pc = "resume", !.ret = ret] /\ conn' = c
             \/ Return(c, ret)
          /\ c.tx = "idle" => c.pending = {}
    BY <1>5, FinishMade
  <2>2. CASE call' = [call EXCEPT !.pc = "resume", !.ret = ret] /\ conn' = c
    <3>1. call'.pc = "resume" /\ call'.ret = ret
      BY <2>2 DEF Typed, CallOK
    <3> QED BY <2>1, <2>2, <3>1 DEF Orderly
  <2>3. CASE Return(c, ret)
    BY <2>1, <2>3, ReturnSettled
  <2> QED BY <2>1, <2>2, <2>3
<1>6. CASE PositionRow
  <2>1. call'.ret = "ok" /\ call'.pc = "loop" /\ conn' = conn /\ call.pc = "loop"
    <3>1. AtRow /\ RowDone("ok", FALSE, TRUE) /\ conn' = conn /\ call.pc = "loop"
      BY <1>6 DEF PositionRow, AtRow
    <3>2. call'.ret = "ok" /\ call'.pc = IF "ok" = "error" THEN "finish" ELSE "loop"
      BY <3>1, RowDoneMade
    <3> QED BY <3>1, <3>2
  <2> QED BY <2>1 DEF Orderly
<1>7. CASE RefuseRow
  <2>1. call'.ret = "error" /\ call'.pc = "finish" /\ conn' = conn /\ call.pc = "loop"
    BY <1>7 DEF RefuseRow, AtRow, Typed, CallOK
  <2> QED BY <2>1 DEF Orderly
<1>8. CASE RowNeedsData \/ (InDialogue /\ Refuse("put"))
  <2>1. Return(conn, "need") \/ Return(conn, "error")
    BY <1>8 DEF RowNeedsData, Refuse
  <2> QED BY <1>0, <2>1, ReturnSettled DEF Orderly
<1>9. CASE LoopEnds \/ PassOver
  <2>1. /\ conn' = conn /\ call'.ret = call.ret /\ call.pc = "loop"
        /\ call'.pc \in {"loop", "finish"}
    BY <1>9 DEF LoopEnds, PassOver, Typed, CallOK
  <2> QED BY <2>1 DEF Orderly
<1>10. CASE ResumeLoop
  <2>1. /\ conn' = conn /\ call'.ret = call.ret /\ call.pc = "resume"
        /\ call'.pc = IF call.ret = "error" THEN "finish" ELSE "loop"
    <3>1. PICK m, pc : /\ pc = IF call.ret = "error" THEN "finish" ELSE "loop"
                       /\ call' = [call EXCEPT !.pc = pc, !.loop = m]
      BY <1>10 DEF ResumeLoop
    <3> QED BY <1>10, <3>1 DEF ResumeLoop, Typed, CallOK
  <2> QED BY <2>1 DEF Orderly
<1>11. CASE ResumeRow
  <2>1. /\ conn' = conn /\ call'.ret = call.ret /\ call.pc = "resume"
        /\ call'.pc \in {"resume", "crashed"}
    BY <1>11 DEF ResumeRow, Typed, CallOK
  <2> QED BY <2>1 DEF Orderly
<1>12. CASE OtherWrites
  BY <1>12, OtherWritesSettled DEF Orderly, OtherWrites
<1>13. CASE Reopen
  BY <1>13, ReopenSettled DEF Orderly, Reopen, Ready
<1>14. ASSUME NEW on \in BOOLEAN, SetAutocommitOption(on) \/ EndTran(on) PROVE Orderly'
  <2>1. call' = call /\ call.pc = "idle"
    BY <1>14 DEF SetAutocommitOption, EndTran, Ready
  <2> QED BY <1>14, <2>1, OptionSettled DEF Orderly
<1>15. CASE conn' = conn /\ call' = call
  BY <1>15 DEF Orderly
<1>16. CASE PutData
  BY <1>8, <1>15, <1>16 DEF PutData
<1> QED BY <1>1, <1>2, <1>3, <1>4, <1>5, <1>6, <1>7, <1>8, <1>9, <1>10, <1>11, <1>12,
           <1>13, <1>14, <1>15, <1>16 DEF Next, vars, ParamToken, Cancel

\* No row is numbered for an operation that has not begun.
LEMMA StepNumbered ==
    ASSUME Typed, Orderly, Numbered, [Next]_vars
    PROVE  Numbered'
<1> DEFINE Ws == \A w \in Held \cup conn.saved : w[1] <= hist.n
           Qs == \A i \in DOMAIN stmt.queue : stmt.queue[i].loop.n <= hist.n
           Ds == stmt.delegate.n <= hist.n
           Cs == call.pc \in {"loop", "finish"} => call.loop.n <= hist.n
<1>0. /\ Ws /\ Qs /\ Ds /\ Cs /\ hist.n \in Nat
      /\ \A w \in Held \cup conn.saved : w[1] \in Nat
      /\ \A i \in DOMAIN stmt.queue : stmt.queue[i].loop.n \in Nat
      /\ stmt.delegate.n \in Nat /\ call.loop.n \in Nat
  <2>1. \A w \in Writes : w[1] \in Nat
    BY BulkAssumption DEF Writes
  <2>2. \A w \in Held \cup conn.saved : w[1] \in Nat
    BY <2>1 DEF Held, Typed, ConnOK, Conn
  <2>3. \A i \in DOMAIN stmt.queue : stmt.queue[i] \in WellCallback
    BY DEF Typed, StmtOK
  <2>4. \A i \in DOMAIN stmt.queue : stmt.queue[i].loop.n \in Nat
    BY <2>3, LoopFields, BulkAssumption DEF WellCallback
  <2>5. stmt.delegate.n \in Nat /\ hist.n \in Nat
    BY BulkAssumption DEF Typed, StmtOK, Delegate, HistOK, Hist
  <2>6. call.loop.n \in Nat
    BY LoopFields, BulkAssumption DEF Typed, CallOK
  <2> QED BY <2>2, <2>4, <2>5, <2>6 DEF Numbered
\* The sets of writes that a step can make.
<1>1. ASSUME NEW c \in Conn, c.pending \cup c.durable \subseteq Held, c.saved \subseteq conn.saved,
             hist'.n \in {hist.n, hist.n + 1}, Settled(c, conn')
      PROVE  Ws'
  BY <1>0, <1>1 DEF Settled, Held
<1>2. ASSUME (conn'.pending \cup conn'.durable) \cup conn'.saved \subseteq Held \cup conn.saved,
             hist'.n \in {hist.n, hist.n + 1}
      PROVE  Ws'
  BY <1>0, <1>2 DEF Held
<1>3. ASSUME NEW w, (conn'.pending \cup conn'.durable) \cup conn'.saved \subseteq (Held \cup conn.saved) \cup {w},
             w[1] <= hist.n, hist'.n = hist.n
      PROVE  Ws'
  BY <1>0, <1>3 DEF Held
<1>4. ASSUME stmt'.queue = stmt.queue, stmt'.delegate = stmt.delegate,
             hist'.n \in {hist.n, hist.n + 1}
      PROVE  Qs' /\ Ds'
  BY <1>0, <1>4
<1>5. ASSUME NEW l, call'.loop = l \/ call'.pc \notin {"loop", "finish"}, l.n <= hist'.n
      PROVE  Cs'
  BY <1>5
<1>6. Ws' /\ Qs' /\ Ds' /\ Cs' => Numbered'
  BY DEF Numbered
<1> HIDE DEF Ws, Qs, Ds, Cs
<1>11. ASSUME NEW op \in Writing, NEW bound, BulkOperations(op, bound) PROVE Numbered'
  <2>1. PICK l \in WellLoop :
          /\ l.n = hist.n + 1
          /\ \/ Begin(l)
             \/ /\ \E taken : \E c \in Conn : c = SwitchedOff(l, taken) /\ Return(c, "error")
                /\ stmt' = stmt /\ hist'.n = hist.n + 1
    BY <1>11, UnboundMade
  <2>2. CASE Begin(l)
    <3>1. hist'.n = hist.n + 1 /\ stmt' = stmt /\ call'.loop = l
      BY <1>11, <2>2, BeginMade, BeginHist DEF BulkOperations
    <3>2. Ws'
      BY <1>2, <2>2, <3>1, BeginSettled
    <3>3. Cs'
      BY <1>0, <1>5, <2>1, <3>1
    <3> QED BY <1>4, <1>6, <3>1, <3>2, <3>3
  <2>3. CASE ~Begin(l)
    <3>9. PICK taken : \E c \in Conn : c = SwitchedOff(l, taken) /\ Return(c, "error")
      BY <2>1, <2>3
    <3>1. PICK c \in Conn : c = SwitchedOff(l, taken) /\ Return(c, "error")
      BY <3>9
    <3>2. conn \in Conn /\ (conn.tx = "idle" => conn.pending = {})
      BY DEF Typed, ConnOK, Orderly
    <3>3. SettingMade(conn, c) \/ c = conn
      BY <3>1, <3>2, CommitSettled DEF SwitchedOff
    <3>4. c.tx = "idle" => c.pending = {}
      BY <3>2, <3>3 DEF SettingMade
    <3>5. Settled(c, conn') /\ call'.pc = "idle"
      BY <3>1, <3>4, ReturnSettled DEF Return, IdleCall
    <3>6. c.pending \cup c.durable \subseteq Held /\ c.saved \subseteq conn.saved
      BY <3>3 DEF SettingMade, Held
    <3>7. Ws'
      BY <1>1, <2>1, <2>3, <3>5, <3>6
    <3>8. Cs' /\ stmt' = stmt /\ hist'.n = hist.n + 1
      BY <2>1, <2>3, <3>5 DEF Cs
    <3> QED BY <1>4, <1>6, <3>7, <3>8
  <2> QED BY <2>2, <2>3
<1>12. ASSUME NEW op \in Ops, NEW irow \in 0 .. Rows, SetPos(op, irow) PROVE Numbered'
  <2>1. PICK l \in WellLoop : Begin(l) /\ l.n = hist.n + 1
    BY <1>12, NewLoopWell DEF SetPos
  <2>2. hist'.n = hist.n + 1 /\ stmt' = stmt /\ call'.loop = l
    BY <1>12, <2>1, BeginMade, BeginHist DEF SetPos
  <2>3. Ws'
    BY <1>2, <2>1, <2>2, BeginSettled
  <2>4. Cs'
    BY <1>0, <1>5, <2>1, <2>2
  <2> QED BY <1>4, <1>6, <2>2, <2>3, <2>4
\* Where the loop, the queue and the number stay what they are.
<1>7. ASSUME stmt'.queue = stmt.queue, stmt'.delegate = stmt.delegate, hist'.n = hist.n,
             call'.loop = call.loop \/ call'.pc \notin {"loop", "finish"},
             call'.pc \in {"loop", "finish"} => call.pc \in {"loop", "finish"}
      PROVE  Qs' /\ Ds' /\ Cs'
  <2>1. Cs'
    BY <1>0, <1>7 DEF Cs
  <2> QED BY <1>4, <1>7, <2>1
<1>8. ASSUME conn' = conn, hist'.n = hist.n PROVE Ws'
  BY <1>0, <1>8 DEF Ws, Held
\* The head of the queue leaves it.
<1>9. ASSUME stmt'.queue = Tail(stmt.queue), stmt.queue # <<>>,
             stmt'.delegate.n \in {0, stmt.delegate.n}, hist'.n = hist.n
      PROVE  Qs' /\ Ds'
  <2>1. stmt.queue \in Seq(WellCallback) /\ Len(stmt.queue) \in Nat
    BY DEF Typed, StmtOK
  <2>2. \A i \in DOMAIN Tail(stmt.queue) :
          i + 1 \in DOMAIN stmt.queue /\ Tail(stmt.queue)[i] = stmt.queue[i + 1]
    BY <1>9, <2>1
  <2> QED BY <1>0, <1>9, <2>2 DEF Qs, Ds
<1>13. CASE ExecuteRow
  <2>1. PICK op, w, x :
          /\ RowOutcome(conn, op, w, x) /\ conn' = x.conn /\ RowDone(x.ret, x.info, x.hit)
          /\ w = <<call.loop.n, call.loop.nrow>>
    BY <1>13, RowConn
  <2>8. AtRow /\ x.hit \in BOOLEAN
    BY <1>13, <2>1 DEF ExecuteRow, RowOutcome
  <2>2. call.loop.n <= hist.n /\ w[1] = call.loop.n
    BY <1>0, <1>13, <2>1 DEF ExecuteRow, AtRow, Cs
  <2>3. hist'.n = hist.n /\ call'.loop.n = call.loop.n
    <3>1. PICK l \in WellLoop : l = call.loop
      BY DEF Typed, CallOK
    <3>2. Counted(Reached(l), x.ret).n = l.n
      BY ReachedLoop, CountedLoop DEF SameLoop
    <3> QED BY <2>1, <2>8, <3>1, <3>2, RowDoneMade
  <2>4. Ws'
    BY <1>3, <2>1, <2>2, <2>3 DEF RowOutcome, Held
  <2>5. Cs'
    BY <2>2, <2>3 DEF Cs
  <2>6. stmt'.queue = stmt.queue /\ stmt'.delegate \in {stmt.delegate, NoDelegate}
    BY <1>13 DEF ExecuteRow, Typed, StmtOK
  <2>7. Qs' /\ Ds'
    BY <1>0, <2>3, <2>6 DEF Qs, Ds, NoDelegate
  <2> QED BY <1>6, <2>4, <2>5, <2>7
<1>14. CASE ParamExecute
  <2>1. PICK op, w, x :
          /\ RowOutcome(conn, op, w, x) /\ conn' = x.conn /\ call'.pc = "resume"
          /\ w = <<stmt.delegate.n, stmt.delegate.row>>
    BY <1>14, RowConn
  <2>2. stmt' = stmt /\ hist'.n = hist.n /\ w[1] <= hist.n
    BY <1>0, <1>14, <2>1, ParamHist DEF ParamExecute, Ds
  <2>3. Ws'
    BY <1>3, <2>1, <2>2 DEF RowOutcome, Held
  <2> QED BY <1>6, <1>7, <2>1, <2>2, <2>3
<1>15. CASE Finish
  <2>1. PICK c \in Conn, ret \in {"ok", "error"}, taken \in BOOLEAN :
          /\ \/ call' = [call EXCEPT !.pc = "resume", !.ret = ret] /\ conn' = c
             \/ Return(c, ret)
          /\ c = (IF call.loop.acNeeded THEN SetAutocommit(conn, TRUE, taken) ELSE conn)
          /\ c.tx = "idle" => c.pending = {}
          /\ stmt'.queue = stmt.queue /\ stmt'.delegate = stmt.delegate
    BY ZenonT(60), <1>15, FinishMade
  <2>4. hist'.n = hist.n
    BY <1>15, FinishHist
  <2>2. c.pending \cup c.durable \subseteq Held /\ c.saved \subseteq conn.saved
    <3>1. SettingMade(conn, c) \/ c = conn
      BY <2>1, CommitSettled DEF Orderly, Typed, ConnOK
    <3> QED BY <3>1 DEF SettingMade, Held
  <2>3. Ws' /\ call'.pc \in {"idle", "resume"}
    <3>1. CASE Return(c, ret)
      BY <1>1, <2>1, <2>2, <2>4, <3>1, ReturnSettled DEF Return, IdleCall
    <3>2. CASE call' = [call EXCEPT !.pc = "resume", !.ret = ret] /\ conn' = c
      BY <1>2, <2>1, <2>2, <2>4, <3>2 DEF Typed, CallOK
    <3> QED BY <2>1, <3>1, <3>2
  <2> QED BY <1>6, <1>7, <2>1, <2>3, <2>4
<1>16. CASE RowNeedsData
  <2>1. PICK l \in WellLoop : l = call.loop
    BY DEF Typed, CallOK
  <2>2. PICK k : k = Reached(l) /\ k.n = l.n
    BY <2>1, ReachedLoop DEF SameLoop
  <2>3. stmt' = [stmt EXCEPT !.queue = @ \o Waiting(k),
                             !.delegate = [n |-> k.n, row |-> k.nrow, dae |-> 1, cur |-> -1]]
    BY <1>16, <2>1, <2>2 DEF RowNeedsData
  <2>4. stmt'.queue = stmt.queue \o Waiting(k) /\ stmt'.delegate.n = k.n
    BY <2>3 DEF Typed, StmtOK
  <2>5. l.n <= hist.n /\ hist' = hist
    BY <1>0, <1>16, <2>1 DEF RowNeedsData, AtRow, Cs
  <2>6. Qs'
    <3>1. PICK q : q = stmt.queue \o Waiting(k)
      OBVIOUS
    <3>2. stmt.queue \in Seq(WellCallback) /\ Len(stmt.queue) \in Nat
      BY DEF Typed, StmtOK
    <3>3. /\ DOMAIN q = 1 .. Len(stmt.queue) + 2
          /\ \A i \in 1 .. Len(stmt.queue) : q[i] = stmt.queue[i]
          /\ q[Len(stmt.queue) + 1] = RowCallback(k) /\ q[Len(stmt.queue) + 2] = LoopCallback(k)
      BY <3>1, <3>2 DEF Waiting, RowCallback, LoopCallback
    <3>4. \A i \in DOMAIN q : q[i].loop.n <= hist.n
      <4> SUFFICES ASSUME NEW i \in DOMAIN q PROVE q[i].loop.n <= hist.n
        OBVIOUS
      <4>1. i \in 1 .. Len(stmt.queue) \/ i = Len(stmt.queue) + 1 \/ i = Len(stmt.queue) + 2
        BY <3>2, <3>3
      <4>2. CASE i \in 1 .. Len(stmt.queue)
        BY <1>0, <3>2, <3>3, <4>2 DEF Qs
      <4>3. CASE i = Len(stmt.queue) + 1
        <5>1. q[i].loop = k
          BY <3>3, <4>3 DEF RowCallback
        <5> QED BY <2>2, <2>5, <5>1
      <4>4. CASE i = Len(stmt.queue) + 2
        <5>1. q[i].loop = k
          BY <3>3, <4>4 DEF LoopCallback
        <5> QED BY <2>2, <2>5, <5>1
      <4> QED BY <4>1, <4>2, <4>3, <4>4
    <3> QED BY <2>4, <2>5, <3>1, <3>4 DEF Qs
  <2>7. (conn.tx = "idle" => conn.pending = {}) /\ conn \in Conn
    BY DEF Orderly, Typed, ConnOK
  <2>8. Ws' /\ call'.pc = "idle"
    <3>1. Return(conn, "need") /\ conn.pending \cup conn.durable \subseteq Held
      BY <1>16 DEF RowNeedsData, Held
    <3>2. Settled(conn, conn')
      BY <2>7, <3>1, ReturnSettled
    <3> QED BY <1>1, <2>5, <2>7, <3>1, <3>2 DEF Return, IdleCall
  <2>9. Ds' /\ Cs'
    BY <2>2, <2>4, <2>5, <2>8 DEF Ds, Cs
  <2> QED BY <1>6, <2>6, <2>8, <2>9
<1>17. CASE PutData
  <2>1. CASE UNCHANGED <<conn, stmt, call, hist>>
    BY <1>6, <1>7, <1>8, <2>1
  <2>2. CASE Refuse("put")
    <3>1. hist'.n = hist.n /\ stmt' = stmt /\ call'.pc = "idle"
      BY <2>2 DEF Refuse, GivenUp, Return, IdleCall, Typed, HistOK, Hist
    <3>2. (conn.tx = "idle" => conn.pending = {}) /\ conn \in Conn
      BY DEF Orderly, Typed, ConnOK
    <3>3. Settled(conn, conn') /\ conn.pending \cup conn.durable \subseteq Held
      BY <2>2, <3>2, ReturnSettled DEF Refuse, Held
    <3>4. Ws'
      BY <1>1, <3>1, <3>2, <3>3
    <3> QED BY <1>6, <1>7, <3>1, <3>4
  <2> QED BY <1>17, <2>1, <2>2 DEF PutData
<1>18. CASE PassOver \/ LoopEnds \/ RefuseRow \/ PositionRow
  <2>1. PICK l \in WellLoop : l = call.loop
    BY DEF Typed, CallOK
  <2>2. conn' = conn /\ stmt' = stmt /\ call.pc = "loop" /\ hist'.n = hist.n
    BY <1>18, RowDoneMade DEF PassOver, LoopEnds, RefuseRow, PositionRow, AtRow
  <2>3. call'.loop.n = l.n
    <3>1. CASE PassOver
      <4>1. call'.loop = Skipped(l)
        BY <2>1, <3>1 DEF PassOver, Typed, CallOK
      <4> QED BY <2>1, <3>1, <4>1, SkippedLoop DEF PassOver, SameLoop
    <3>2. CASE LoopEnds
      BY <2>1, <3>2 DEF LoopEnds, Typed, CallOK
    <3>3. CASE RefuseRow
      <4>1. PICK m : m = Counted(Reached(l), "error")
        OBVIOUS
      <4>2. call'.loop = m
        BY <2>1, <3>3, <4>1 DEF RefuseRow, Typed, CallOK
      <4> QED BY <4>1, <4>2, ReachedLoop, CountedLoop DEF SameLoop
    <3>4. CASE PositionRow
      <4>1. PICK m : m = Counted(Reached(l), "ok")
        OBVIOUS
      <4>2. call'.loop = m
        BY <2>1, <3>4, <4>1, RowDoneMade DEF PositionRow
      <4> QED BY <4>1, <4>2, ReachedLoop, CountedLoop DEF SameLoop
    <3> QED BY <1>18, <3>1, <3>2, <3>3, <3>4
  <2>4. Cs'
    BY <1>0, <2>1, <2>2, <2>3 DEF Cs
  <2> QED BY <1>4, <1>6, <1>8, <2>2, <2>4
<1>19. CASE ResumeLoop
  <2>1. PICK l \in WellLoop : l = Head(stmt.queue).loop
    BY <1>19, QueueTail DEF ResumeLoop
  <2>2. PICK m : m = Resumed(l) /\ m.n = l.n
    BY <2>1, ResumedLoop DEF SameLoop
  <2>3. call'.loop = m
    BY <1>19, <2>1, <2>2 DEF ResumeLoop, Typed, CallOK
  <2>4. l.n <= hist.n
    <3>1. stmt.queue \in Seq(WellCallback) /\ stmt.queue # <<>>
      BY <1>19 DEF ResumeLoop, Typed, StmtOK
    <3>2. 1 \in DOMAIN stmt.queue /\ stmt.queue[1] = Head(stmt.queue)
      BY <3>1
    <3> QED BY <1>0, <2>1, <3>2 DEF Qs
  <2>5. conn' = conn /\ hist' = hist
    BY <1>19 DEF ResumeLoop
  <2>6. Qs' /\ Ds'
    BY <1>0, <1>9, <1>19, <2>5 DEF ResumeLoop, Typed, StmtOK
  <2>7. Cs'
    BY <1>5, <2>2, <2>3, <2>4, <2>5
  <2> QED BY <1>6, <1>8, <2>5, <2>6, <2>7
<1>20. CASE ResumeRow
  <2>1. conn' = conn /\ hist'.n = hist.n
    BY <1>20 DEF ResumeRow, Typed, HistOK, Hist
  <2>2. stmt'.queue = Tail(stmt.queue) /\ stmt'.delegate.n = 0 /\ stmt.queue # <<>>
    BY <1>20 DEF ResumeRow, NoDelegate, Typed, StmtOK
  <2>3. Qs' /\ Ds'
    BY <1>0, <1>9, <2>1, <2>2
  <2>4. Cs'
    BY <1>0, <1>20 DEF Cs, ResumeRow, Typed, CallOK
  <2> QED BY <1>6, <1>8, <2>1, <2>3, <2>4
<1>21. CASE ParamToken
  <2>1. stmt'.queue = stmt.queue /\ stmt'.delegate.n = stmt.delegate.n
    BY <1>21 DEF ParamToken, Typed, StmtOK, Delegate
  <2>2. UNCHANGED <<conn, call, hist>>
    BY <1>21 DEF ParamToken
  <2>3. Qs' /\ Ds' /\ Cs'
    BY <1>0, <2>1, <2>2 DEF Qs, Ds, Cs
  <2> QED BY <1>6, <1>8, <2>2, <2>3
<1>22. CASE Cancel
  <2>1. stmt'.queue = stmt.queue /\ stmt'.delegate.n = stmt.delegate.n
    BY <1>22 DEF Cancel, Typed, StmtOK, Delegate
  <2>2. UNCHANGED <<conn, call>> /\ hist'.n = hist.n
    BY <1>22 DEF Cancel, GivenUp, Typed, HistOK, Hist
  <2>3. Qs' /\ Ds' /\ Cs'
    BY <1>0, <2>1, <2>2 DEF Qs, Ds, Cs
  <2> QED BY <1>6, <1>8, <2>2, <2>3
<1>23. CASE Reopen
  <2>1. stmt'.queue = <<>> /\ stmt'.delegate.n = 0 /\ call' = call /\ call.pc = "idle"
    BY <1>23 DEF Reopen, NoDelegate, Ready
  <2>2. hist'.n = hist.n
    BY <1>23 DEF Reopen, Typed, HistOK, Hist
  <2>3. Qs' /\ Ds' /\ Cs'
    BY <1>0, <2>1, <2>2 DEF Qs, Ds, Cs
  <2>4. Ws'
    BY <1>2, <1>23, <2>2, ReopenSettled
  <2> QED BY <1>6, <2>3, <2>4
<1>24. CASE OtherWrites
  <2>1. UNCHANGED <<stmt, call>> /\ hist'.n = hist.n
    BY <1>24 DEF OtherWrites, Typed, HistOK, Hist
  <2>2. PICK k \in Nat : /\ conn'.pending \cup conn'.durable = Held \cup {<<0, k>>}
                         /\ conn'.saved = {}
    BY <1>24, OtherWritesSettled
  <2>3. PICK w : w = <<0, k>> /\ w[1] = 0
    <3>1. <<0, k>>[1] = 0
      OBVIOUS
    <3> QED BY <3>1
  <2>4. Ws'
    BY <1>0, <1>3, <2>1, <2>2, <2>3
  <2> QED BY <1>6, <1>7, <2>1, <2>4
<1>25. ASSUME NEW on \in BOOLEAN, SetAutocommitOption(on) \/ EndTran(on) PROVE Numbered'
  <2>1. UNCHANGED <<stmt, call>> /\ hist'.n = hist.n
    BY <1>25 DEF SetAutocommitOption, EndTran, Typed, HistOK, Hist
  <2>2. Ws'
    BY <1>2, <1>25, <2>1, OptionSettled
  <2> QED BY <1>6, <1>7, <2>1, <2>2
<1>26. CASE UNCHANGED vars
  BY <1>6, <1>7, <1>8, <1>26 DEF vars
<1> QED BY <1>11, <1>12, <1>13, <1>14, <1>15, <1>16, <1>17, <1>18, <1>19, <1>20, <1>21, <1>22,
           <1>23, <1>24, <1>25, <1>26 DEF Next

-----------------------------------------------------------------------------
(***************************************************************************)
(* The account of the rows.                                                *)
(***************************************************************************)
LEMMA RankAll ==
    ASSUME NEW live \in SUBSET (0 .. Tuples - 1), NEW t \in Nat
    PROVE  /\ t >= Tuples => Rank(live, t) = Cardinality(live)
           /\ t \in live => Rank(live, t) < Cardinality(live)
<1>0. \A u \in live : u \in Nat /\ u \in 0 .. Tuples - 1
  BY LiveNat
<1>1. ASSUME t >= Tuples PROVE Rank(live, t) = Cardinality(live)
  <2>1. \A u \in live : u < t
    BY <1>0, <1>1, BulkAssumption
  <2>2. {u \in live : u < t} = live
    BY <2>1, Zenon
  <2> QED BY <2>2 DEF Rank
<1>2. ASSUME t \in live PROVE Rank(live, t) < Cardinality(live)
  <2>1. {u \in live : u < t} \in SUBSET live
    OBVIOUS
  <2>2. t \notin {u \in live : u < t}
    OBVIOUS
  <2>3. IsFiniteSet(live) /\ Rank(live, t) \in Nat /\ Cardinality(live) \in Nat
    BY RankType
  <2>4. Rank(live, t) <= Cardinality(live) /\ Rank(live, t) # Cardinality(live)
    <3>1. PICK S \in SUBSET live : S = {u \in live : u < t}
      BY <2>1
    <3> QED BY <1>2, <2>2, <2>3, <3>1, FS_Subset DEF Rank
  <2> QED BY <2>3, <2>4
<1> QED BY <1>1, <1>2

LEMMA DueFinite ==
    ASSUME NEW l
    PROVE  /\ Due(l) \subseteq RowIds /\ Before(l) \subseteq Due(l)
           /\ IsFiniteSet(Before(l)) /\ IsFiniteSet(Due(l))
<1>1. IsFiniteSet(RowIds)
  <2>1. 0 \in Int /\ Rows - 1 \in Int
    BY BulkAssumption
  <2> QED BY <2>1, FS_Interval DEF RowIds
<1>2. Due(l) \in SUBSET RowIds /\ Before(l) \in SUBSET Due(l)
  BY DEF Due, Before
<1> QED BY <1>1, <1>2, FS_Subset

Bulk(l) == l.api = "bulk" => l.first = 0 /\ l.last = Rows - 1

\* A row that is processed was due.
LEMMA AtRowDue ==
    ASSUME Typed, AtRow, NEW l \in WellLoop, l = call.loop, AtRank(l), OnTuple(l), Bulk(l)
    PROVE  l.nrow \in Due(l) /\ l.nrow \in RowIds
<1>1. l.nrow \in RowIds
  BY RowInSet
<1>2. /\ l.api \in {"bulk", "setpos"} /\ l.nrow \in Nat /\ l.idx \in Nat /\ l.first \in Nat
      /\ l.last \in Int /\ l.irow \in 0 .. Rows
  BY LoopFields
<1>3. /\ ~LoopOver(l) /\ ~NotInRowset(l) /\ ~NotWanted(l)
  BY DEF AtRow
<1>4. l.first <= l.nrow /\ l.nrow <= l.last
  <2>1. CASE l.api = "bulk"
    BY <1>1, <1>2, <2>1, BulkAssumption DEF Bulk, RowIds
  <2>2. CASE l.api = "setpos"
    BY <1>2, <1>3, <2>2 DEF LoopOver, NotWanted
  <2> QED BY <1>2, <2>1, <2>2
<1>5. l.api = "bulk" \/ l.irow > 0 \/ l.nrow \notin app.ignore
  BY <1>2, <1>3 DEF NotWanted
<1>6. Positioned(l) => l.nrow < Cardinality(stmt.live)
  BY <1>2, RankAll, LoopTail DEF AtRank, OnTuple
<1> QED BY <1>1, <1>4, <1>5, <1>6 DEF Due

\* The loop is over when no row is left to do.
LEMMA OverDone ==
    ASSUME Typed, NEW l \in WellLoop, LoopOver(l), AtRank(l), Bulk(l)
    PROVE  Before(l) = Due(l)
<1>1. /\ l.api \in {"bulk", "setpos"} /\ l.nrow \in Nat /\ l.idx \in Nat
      /\ l.last \in Int /\ (l.api = "bulk" => l.nrow = l.idx)
  BY LoopFields
<1>2. ASSUME NEW r \in Due(l) PROVE r < l.nrow
  <2>1. /\ r \in RowIds /\ r <= l.last /\ r \in Nat /\ r < Rows
        /\ Positioned(l) => r < Cardinality(stmt.live)
    BY <1>2, BulkAssumption DEF Due, RowIds
  <2>2. CASE l.api = "bulk" /\ l.idx >= Rows
    BY <1>1, <2>1, <2>2, BulkAssumption
  <2>3. CASE l.api = "setpos" /\ l.nrow > l.last
    BY <1>1, <2>1, <2>3
  <2>4. CASE l.api = "setpos" /\ l.op # "add" /\ l.idx >= Tuples
    <3>1. Positioned(l)
      BY <2>4 DEF Positioned
    <3>2. l.nrow = Cardinality(stmt.live)
      BY <1>1, <2>4, <3>1, RankAll, LoopTail DEF AtRank
    <3> QED BY <2>1, <3>1, <3>2
  <2> QED BY <2>2, <2>3, <2>4 DEF LoopOver
<1> QED BY <1>2 DEF Before

LEMMA DueSame ==
    ASSUME NEW l, NEW m, SameLoop(m, l), stmt'.live = stmt.live, app'.ignore = app.ignore
    PROVE  Due(m)' = Due(l)
BY DEF SameLoop, Due, Positioned

LEMMA BeforeSame ==
    ASSUME NEW l, NEW m, SameLoop(m, l), stmt'.live = stmt.live, app'.ignore = app.ignore,
           m.nrow = l.nrow
    PROVE  Before(m)' = Before(l)
<1>1. Due(m)' = Due(l)
  BY DueSame
<1> QED BY <1>1 DEF Before

LEMMA BeforeNext ==
    ASSUME NEW l \in WellLoop, NEW m, SameLoop(m, l), stmt'.live = stmt.live,
           app'.ignore = app.ignore, m.nrow = l.nrow + 1
    PROVE  Before(m)' = IF l.nrow \in Due(l) THEN Before(l) \cup {l.nrow} ELSE Before(l)
<1>1. Due(m)' = Due(l) /\ l.nrow \in Nat
  BY DueSame, LoopFields
<1>2. \A r \in Due(l) : r \in Nat
  BY BulkAssumption DEF Due, RowIds
<1>3. \A r \in Due(l) : r < l.nrow + 1 <=> r < l.nrow \/ r = l.nrow
  BY <1>1, <1>2
<1>4. Before(m)' = {r \in Due(l) : r < l.nrow + 1}
  BY <1>1 DEF Before
<1> QED BY <1>3, <1>4 DEF Before

\* A row that is passed over was not due.
LEMMA PassedOver ==
    ASSUME NEW l \in WellLoop, NotWanted(l)
    PROVE  l.nrow \notin Due(l)
BY LoopFields DEF NotWanted, Due

LEMMA DoneRowsGrow ==
    ASSUME Typed, NEW l \in WellLoop,
           hist'.done = Append(hist.done, <<l.nrow, l.idx>>)
    PROVE  DoneRows' = DoneRows \cup {l.nrow}
<1>1. PICK s \in Seq(Nat \X Nat), r \in Nat, t \in Nat :
        s = hist.done /\ r = l.nrow /\ t = l.idx
  BY LoopTail, LoopFields
<1>2. PICK a : a = Append(s, <<r, t>>)
  OBVIOUS
<1>3. /\ DOMAIN a = 1 .. Len(s) + 1 /\ DOMAIN s = 1 .. Len(s) /\ Len(s) \in Nat
      /\ \A j \in DOMAIN s : a[j] = s[j]
      /\ a[Len(s) + 1] = <<r, t>>
  <2>1. Append(s, <<r, t>>)[Len(s) + 1] = <<r, t>>
    BY DoneAppend
  <2>2. \A j \in DOMAIN s : Append(s, <<r, t>>)[j] = s[j]
    BY DoneAppend
  <2>3. DOMAIN Append(s, <<r, t>>) = 1 .. Len(s) + 1
    BY DoneAppend
  <2>4. DOMAIN s = 1 .. Len(s) /\ Len(s) \in Nat
    OBVIOUS
  <2> QED BY <1>2, <2>1, <2>2, <2>3, <2>4
<1>4. {a[i][1] : i \in DOMAIN a} = {s[i][1] : i \in DOMAIN s} \cup {r}
  <2>1. \A i \in DOMAIN a : i \in DOMAIN s \/ i = Len(s) + 1
    BY <1>3
  <2>2. a[Len(s) + 1][1] = r /\ Len(s) + 1 \in DOMAIN a /\ DOMAIN s \subseteq DOMAIN a
    BY <1>3
  <2>3. \A i \in DOMAIN s : a[i][1] = s[i][1]
    BY <1>3
  <2>4. ASSUME NEW i \in DOMAIN a PROVE a[i][1] \in {s[j][1] : j \in DOMAIN s} \cup {r}
    BY <2>1, <2>2, <2>3
  <2>5. ASSUME NEW i \in DOMAIN s PROVE s[i][1] \in {a[j][1] : j \in DOMAIN a}
    <3>1. i \in DOMAIN a /\ a[i][1] = s[i][1]
      BY <2>2, <2>3
    <3> QED BY <3>1
  <2>6. r \in {a[j][1] : j \in DOMAIN a}
    BY <2>2
  <2>7. {a[i][1] : i \in DOMAIN a} \subseteq {s[i][1] : i \in DOMAIN s} \cup {r}
    BY <2>4, Zenon
  <2>8. {s[i][1] : i \in DOMAIN s} \subseteq {a[i][1] : i \in DOMAIN a}
    BY <2>5, Zenon
  <2>9. PICK A, B : A = {a[i][1] : i \in DOMAIN a} /\ B = {s[i][1] : i \in DOMAIN s}
    OBVIOUS
  <2>10. A = B \cup {r}
    BY <2>6, <2>7, <2>8, <2>9
  <2> QED BY <2>9, <2>10
<1>5. hist'.done = a
  BY <1>1, <1>2
<1>6. DoneRows' = {a[i][1] : i \in DOMAIN a}
  BY <1>5, Zenon DEF DoneRows
<1>7. DoneRows = {s[i][1] : i \in DOMAIN s}
  BY <1>1, Zenon DEF DoneRows
<1> QED BY <1>1, <1>4, <1>6, <1>7, Zenon

-----------------------------------------------------------------------------
\* A row is written or missed: the others are held as before.
LEMMA RowWritten ==
    ASSUME NEW D, NEW status, NEW held, NEW more, NEW missed, NEW misses, NEW n, NEW op,
           NEW r, r \notin D,
           held \subseteq more, more \subseteq held \cup {<<n, r>>},
           missed \subseteq misses, misses \subseteq missed \cup {r}
    PROVE  /\ ToldOf(D, status, held, missed, n, op) => ToldOf(D, status, more, misses, n, op)
           /\ FreshOf(D, held, missed, n) => FreshOf(D \cup {r}, more, misses, n)
<1>1. \A q : q # r => <<n, q>> # <<n, r>>
  OBVIOUS
<1>2. \A q : q # r => (<<n, q>> \in held <=> <<n, q>> \in more) /\ (q \in missed <=> q \in misses)
  BY <1>1
<1>3. \A q \in D : q # r
  OBVIOUS
<1> QED BY <1>2, <1>3 DEF ToldOf, FreshOf

\* Its status is told.
LEMMA RowTold ==
    ASSUME NEW D \in SUBSET RowIds, NEW status, NEW held, NEW missed, NEW n, NEW op \in Writing,
           NEW r \in RowIds, r \notin D, DOMAIN status = RowIds, NEW info \in BOOLEAN,
           <<n, r>> \in held <=> r \notin missed,
           op = "update" /\ ~info => r \notin missed,
           ToldOf(D, status, held, missed, n, op)
    PROVE  ToldOf(D \cup {r}, [status EXCEPT ![r] = RowStatus(op, "ok", info)],
                  held, missed, n, op)
<1>1. PICK st : st = [status EXCEPT ![r] = RowStatus(op, "ok", info)]
  OBVIOUS
<1>2. /\ st[r] = (IF info /\ op # "delete" THEN "info" ELSE Mark[op])
      /\ \A q \in D : st[q] = status[q]
  BY <1>1 DEF RowStatus
<1>3. Mark[op] = "updated" => op = "update"
  BY DEF Mark, Writing
<1>4. /\ st[r] = Mark[op] \/ (st[r] = "info" /\ op # "delete")
      /\ st[r] = "updated" => r \notin missed
  <2>1. CASE info /\ op # "delete"
    BY <1>2, <2>1
  <2>2. CASE ~(info /\ op # "delete")
    BY <1>2, <1>3, <2>2
  <2> QED BY <2>1, <2>2
<1>5. ToldOf(D \cup {r}, st, held, missed, n, op)
  BY <1>2, <1>4 DEF ToldOf
<1> QED BY <1>1, <1>5

LEMMA MoreDone ==
    ASSUME NEW D, IsFiniteSet(D), NEW r, r \notin D
    PROVE  /\ IsFiniteSet(D \cup {r}) /\ Cardinality(D) \in Nat
           /\ Cardinality(D \cup {r}) = Cardinality(D) + 1
BY FS_AddElement, FS_CardinalityType

\* A step that leaves the account of the rows as it is.
SameRows(l) ==
    /\ hist'.done = hist.done /\ hist'.n = hist.n /\ app'.status = app.status
    /\ app'.ignore = app.ignore /\ stmt'.live = stmt.live /\ conn'.auto = conn.auto
    /\ hist'.missed = hist.missed
    /\ \A r : <<l.n, r>> \in Held' <=> <<l.n, r>> \in Held

LEMMA RowsKept ==
    ASSUME NEW l, NEW m, SameLoop(m, l), SameRows(l)
    PROVE  /\ Known(l) => Known(m)'
           /\ Told(l) => Told(m)'
           /\ \A S : Fresh(l, S) => Fresh(m, S)'
           /\ DoneRows' = DoneRows /\ Due(m)' = Due(l)
           /\ m.nrow = l.nrow => /\ Before(m)' = Before(l)
                                 /\ RowDue(l) => RowDue(m)'
           /\ m.nrow = l.nrow /\ m.processed = l.processed /\ Reckoned(l) => Reckoned(m)'
<1>1. Known(l) => Known(m)'
  BY DEF Known, SameLoop, SameRows
<1>2. DoneRows' = DoneRows
  BY DEF DoneRows, SameRows
<1>3. Told(l) => Told(m)'
  BY <1>2 DEF Told, ToldOf, SameLoop, SameRows
<1>4. ASSUME NEW S, Fresh(l, S) PROVE Fresh(m, S)'
  BY <1>2, <1>4 DEF Fresh, FreshOf, SameLoop, SameRows
<1>5. Due(m)' = Due(l)
  BY DueSame DEF SameRows
<1>6. m.nrow = l.nrow => Before(m)' = Before(l)
  BY BeforeSame DEF SameRows
<1>7. m.nrow = l.nrow /\ RowDue(l) => RowDue(m)'
  BY <1>5 DEF RowDue, SameLoop
<1>8. m.nrow = l.nrow /\ m.processed = l.processed /\ Reckoned(l) => Reckoned(m)'
  BY <1>2, <1>6 DEF Reckoned
<1> QED BY <1>1, <1>2, <1>3, <1>4, <1>5, <1>6, <1>7, <1>8

-----------------------------------------------------------------------------
(***************************************************************************)
(* Each step keeps the account.                                            *)
(***************************************************************************)
LEMMA TruthLoop ==
    ASSUME NEW m, call'.loop = m, call'.pc = "loop", Looping(m)'
    PROVE  Truthful'
<1>1. Looping(call.loop)'
  BY DEF Looping, Known, Told, Reckoned, Fresh, Before, Due, Positioned
<1> QED BY <1>1 DEF Truthful, InDialogue

LEMMA TruthFinish ==
    ASSUME NEW m, call'.loop = m, call'.pc = "finish", Ending(m)'
    PROVE  Truthful'
<1>1. Ending(call.loop)'
  BY DEF Ending, Known, Told, Due, Positioned
<1> QED BY <1>1 DEF Truthful, InDialogue

LEMMA TruthIdle ==
    ASSUME call'.pc = "idle", ~app'.dialogue
    PROVE  Truthful'
BY DEF Truthful, InDialogue

LEMMA TruthBegin ==
    ASSUME Typed, Orderly, Numbered, NEW l \in WellLoop, Begin(l), hist.n < MaxOps,
           l.acNeeded = (conn.auto /\ l.op \in Writing), l.nrow = 0, l.processed = 0,
           l.n = hist.n + 1, Bulk(l)
    PROVE  Truthful'
<1>1. call'.loop = l /\ call'.pc = "loop" /\ stmt' = stmt /\ app' = app
  BY BeginMade
<1>2. hist'.n = l.n /\ hist'.done = <<>> /\ hist'.missed = {}
  BY BeginHist
<1>3. DoneRows' = {}
  BY <1>2 DEF DoneRows
<1>4. ASSUME l.op \in Writing PROVE ~conn'.auto
  BY <1>4, BeginSettled DEF Typed, ConnOK, Conn
<1>5. Known(l)' \/ l.op \notin Writing
  BY <1>2, <1>4 DEF Known, Bulk
<1>6. Told(l)'
  BY <1>3 DEF Told, ToldOf
<1>7. Reckoned(l)'
  <2>1. \A r \in RowIds : ~(r < 0)
    BY BulkAssumption DEF RowIds
  <2>2. Before(l)' = {}
    BY <2>1 DEF Before, Due
  <2> QED BY <1>3, <2>2, FS_EmptySet DEF Reckoned
<1>8. Fresh(l, {})'
  <2>1. Held' \subseteq Held
    BY BeginSettled DEF Held
  <2>2. ASSUME NEW r \in RowIds, <<l.n, r>> \in Held' PROVE FALSE
    <3>1. l.n <= hist.n /\ hist.n \in Nat
      BY <2>1, <2>2 DEF Numbered, Typed, HistOK, Hist
    <3> QED BY <3>1
  <2> QED BY <1>2, <2>2 DEF Fresh, FreshOf
<1>9. Looping(l)'
  BY <1>5, <1>6, <1>7, <1>8 DEF Looping
<1> QED BY <1>1, <1>9, TruthLoop

\* The loop in progress, with its account.
LEMMA LoopTrue ==
    ASSUME Typed, Serial, Truthful, call.pc = "loop"
    PROVE  \E l \in WellLoop : l = call.loop /\ AtRank(l) /\ Looping(l) /\ DoneBefore(l)
<1>1. PICK l \in WellLoop : l = call.loop /\ AtRank(l) /\ DoneBefore(l)
  BY LoopKnown
<1>2. Looping(l)
  BY <1>1 DEF Truthful
<1> QED BY <1>1, <1>2

LEMMA TruthPassOver ==
    ASSUME Typed, Serial, Truthful, PassOver
    PROVE  Truthful'
<1>1. PICK l \in WellLoop : l = call.loop /\ Looping(l)
  BY LoopTrue DEF PassOver
<1>2. NotInRowset(l) \/ NotWanted(l)
  BY <1>1 DEF PassOver
<1>3. PICK m : m = Skipped(l)
  OBVIOUS
<1>4. /\ m \in WellLoop /\ SameLoop(m, l) /\ m.processed = l.processed
      /\ m.nrow = IF NotInRowset(l) THEN l.nrow ELSE l.nrow + 1
  BY <1>2, <1>3, SkippedLoop
<1>5. call'.loop = m /\ call'.pc = "loop" /\ UNCHANGED <<conn, stmt, app, hist>>
  BY <1>1, <1>3 DEF PassOver, Typed, CallOK
<1>6. SUFFICES ASSUME m.op \in Writing
               PROVE  Known(m)' /\ Told(m)' /\ Reckoned(m)' /\ Fresh(m, {})'
  BY <1>5, TruthLoop DEF Looping
<1>7. Known(l) /\ Told(l) /\ Reckoned(l) /\ Fresh(l, {})
  BY <1>1, <1>4, <1>6 DEF Looping, SameLoop
<1>8. SameRows(l)
  BY <1>5 DEF SameRows, Held
<1>9. Known(m)' /\ Told(m)' /\ Fresh(m, {})' /\ DoneRows' = DoneRows
  BY <1>4, <1>7, <1>8, RowsKept
<1>10. Before(m)' = Before(l)
  <2>1. CASE NotInRowset(l)
    BY <1>4, <1>5, <2>1, BeforeSame
  <2>2. CASE ~NotInRowset(l)
    BY <1>2, <1>4, <1>5, <2>2, BeforeNext, PassedOver
  <2> QED BY <2>1, <2>2
<1> QED BY <1>4, <1>7, <1>9, <1>10 DEF Reckoned

LEMMA TruthLoopEnds ==
    ASSUME Typed, Serial, Truthful, LoopEnds
    PROVE  Truthful'
<1>1. PICK l \in WellLoop : l = call.loop /\ Looping(l) /\ AtRank(l)
  BY LoopTrue DEF LoopEnds
<1>2. call'.loop = l /\ call'.pc = "finish" /\ UNCHANGED <<conn, stmt, app, hist>>
  BY <1>1 DEF LoopEnds, Typed, CallOK
<1>3. SUFFICES ASSUME l.op \in Writing
               PROVE  /\ Known(l)' /\ Told(l)' /\ DoneRows' = Due(l)'
                      /\ l.processed = Cardinality(DoneRows')
  BY <1>2, TruthFinish DEF Ending
<1>4. Known(l) /\ Told(l) /\ Reckoned(l)
  BY <1>1, <1>3 DEF Looping
<1>5. SameRows(l) /\ SameLoop(l, l)
  BY <1>2 DEF SameRows, SameLoop, Held
<1>6. Known(l)' /\ Told(l)' /\ DoneRows' = DoneRows /\ Due(l)' = Due(l)
  BY <1>4, <1>5, RowsKept
<1>7. Before(l) = Due(l)
  BY <1>1, <1>4, OverDone DEF LoopEnds, Known, Bulk
<1> QED BY <1>4, <1>6, <1>7 DEF Reckoned

-----------------------------------------------------------------------------
\* What the command of a row does to what is held of the operation's writes.
LEMMA RowHeld ==
    ASSUME NEW op, NEW w, NEW x, RowOutcome(conn, op, w, x), conn' = x.conn, w \notin Held
    PROVE  /\ conn'.auto = conn.auto /\ Held \subseteq Held' /\ Held' \subseteq Held \cup {w}
           /\ w \in Held' <=> x.hit
           /\ x.ret = "ok" /\ op = "update" /\ ~x.info => x.hit
           /\ x.info \in BOOLEAN /\ x.ret \in {"ok", "error"} /\ x.hit \in BOOLEAN
BY DEF RowOutcome, Held

\* The row the loop is at has not been done, and nothing is held or missed of it.
LEMMA RowNew ==
    ASSUME Typed, NEW l \in WellLoop, Reckoned(l), Fresh(l, {}), l.nrow \in RowIds
    PROVE  /\ l.nrow \notin DoneRows /\ <<l.n, l.nrow>> \notin Held
           /\ l.nrow \notin hist.missed
           /\ IsFiniteSet(DoneRows) /\ DoneRows \in SUBSET RowIds
<1>1. ~(l.nrow < l.nrow)
  BY LoopFields
<1>2. l.nrow \notin DoneRows
  BY <1>1 DEF Reckoned, Before
<1>3. <<l.n, l.nrow>> \notin Held /\ l.nrow \notin hist.missed
  BY <1>2 DEF Fresh, FreshOf
<1>4. IsFiniteSet(DoneRows) /\ DoneRows \in SUBSET RowIds
  BY DueFinite DEF Reckoned
<1> QED BY <1>2, <1>3, <1>4

\* A row is done: it is one of those before the next.
LEMMA ReckonedNext ==
    ASSUME Typed, NEW l \in WellLoop, Reckoned(l), l.nrow \in Due(l), l.nrow \notin DoneRows,
           NEW m, SameLoop(m, l), m.nrow = l.nrow + 1, m.processed = l.processed + 1,
           stmt'.live = stmt.live, app'.ignore = app.ignore,
           DoneRows' = DoneRows \cup {l.nrow}
    PROVE  Reckoned(m)'
<1>1. Before(m)' = Before(l) \cup {l.nrow}
  BY BeforeNext
<1>2. IsFiniteSet(DoneRows)
  BY DueFinite DEF Reckoned
<1>3. Cardinality(DoneRows \cup {l.nrow}) = Cardinality(DoneRows) + 1
  BY <1>2, MoreDone
<1> QED BY <1>1, <1>3 DEF Reckoned

LEMMA TruthExecuteRow ==
    ASSUME Typed, Serial, Truthful, ExecuteRow
    PROVE  Truthful'
<1>1. PICK l \in WellLoop : l = call.loop /\ Looping(l) /\ AtRank(l)
  BY LoopTrue DEF ExecuteRow, AtRow
<1>2. l.op \in Writing /\ AtRow
  BY <1>1 DEF ExecuteRow
<1>3. Known(l) /\ Told(l) /\ Reckoned(l) /\ Fresh(l, {})
  BY <1>1, <1>2 DEF Looping
<1>4. OnTuple(l)
  BY <1>1, <1>2 DEF AtRow, NotInRowset, OnTuple, Positioned
<1>5. l.nrow \in Due(l) /\ l.nrow \in RowIds
  BY <1>1, <1>2, <1>3, <1>4, AtRowDue DEF Known, Bulk
<1>6. PICK w, x : /\ w = <<l.n, l.nrow>> /\ RowOutcome(conn, l.op, w, x) /\ conn' = x.conn
                  /\ RowDone(x.ret, x.info, x.hit)
  BY <1>1, RowConn
<1>7. PICK k, m : k = Reached(l) /\ m = Counted(k, x.ret)
  OBVIOUS
<1>8. /\ SameLoop(m, l) /\ m.processed = l.processed + 1
      /\ x.ret # "error" => m.nrow = l.nrow + 1
  <2>1. k \in WellLoop /\ SameLoop(k, l) /\ k.nrow = l.nrow /\ k.processed = l.processed
    BY <1>7, ReachedLoop
  <2> QED BY <1>7, <2>1, CountedLoop DEF SameLoop
<1>9. /\ call'.ret = x.ret /\ call'.pc = (IF x.ret = "error" THEN "finish" ELSE "loop")
      /\ call'.loop = m /\ hist'.n = hist.n
      /\ hist'.done = Append(hist.done, <<l.nrow, l.idx>>)
      /\ hist'.missed = IF x.hit THEN hist.missed ELSE hist.missed \cup {l.nrow}
  <2>1. x.hit \in BOOLEAN
    BY <1>6 DEF RowOutcome
  <2> QED BY ZenonT(60), <1>1, <1>2, <1>6, <1>7, <2>1, RowDoneMade
<1>10. PICK st : st = app.status /\ DOMAIN st = RowIds
  BY DEF Typed, AppOK, App
<1>11. /\ app'.status = [st EXCEPT ![l.nrow] = RowStatus(l.op, x.ret, x.info)]
       /\ app'.ignore = app.ignore /\ stmt'.live = stmt.live
  <2>1. l.op # "position"
    BY <1>2 DEF Writing
  <2>2. app' = [app EXCEPT !.status[l.nrow] = RowStatus(l.op, x.ret, x.info)]
    BY <1>1, <1>6, <2>1 DEF RowDone
  <2>3. stmt'.live = stmt.live
    BY DEF ExecuteRow, Typed, StmtOK
  <2> QED BY <1>10, <2>2, <2>3 DEF Typed, AppOK, App
<1>12. /\ l.nrow \notin DoneRows /\ w \notin Held /\ l.nrow \notin hist.missed
       /\ IsFiniteSet(DoneRows) /\ DoneRows \in SUBSET RowIds
  BY <1>3, <1>5, <1>6, RowNew
<1>13. /\ conn'.auto = conn.auto /\ Held \subseteq Held' /\ Held' \subseteq Held \cup {w}
       /\ w \in Held' <=> x.hit
       /\ x.ret = "ok" /\ l.op = "update" /\ ~x.info => x.hit
       /\ x.info \in BOOLEAN /\ x.ret \in {"ok", "error"}
  BY <1>6, <1>12, RowHeld
<1>14. Known(m)'
  BY <1>3, <1>8, <1>9, <1>13 DEF Known, SameLoop
<1>15. CASE x.ret = "error"
  <2>1. Ending(m)'
    BY <1>9, <1>14, <1>15 DEF Ending
  <2> QED BY <1>9, <1>15, <2>1, TruthFinish
<1>16. CASE x.ret = "ok"
  <2>1. DoneRows' = DoneRows \cup {l.nrow}
    BY <1>9, DoneRowsGrow
  <2>2. PICK D, held, more, missed, misses :
          /\ D = DoneRows /\ held = Held /\ more = Held' /\ D \in SUBSET RowIds
          /\ missed = hist.missed /\ misses = hist'.missed
    BY <1>12
  <2>3. ToldOf(D, st, held, missed, l.n, l.op) /\ FreshOf(D, held, missed, l.n)
    <3>1. D \cup {} = D
      OBVIOUS
    <3> QED BY <1>3, <1>10, <2>2, <3>1 DEF Told, Fresh
  <2>4. /\ missed \subseteq misses /\ misses \subseteq missed \cup {l.nrow}
        /\ w \in more <=> l.nrow \notin misses
        /\ l.op = "update" /\ ~x.info => l.nrow \notin misses
    BY <1>9, <1>12, <1>13, <1>16, <2>2
  <2>5. /\ ToldOf(D, st, more, misses, l.n, l.op)
        /\ FreshOf(D \cup {l.nrow}, more, misses, l.n)
    <3>1. l.nrow \notin D /\ held \subseteq more /\ more \subseteq held \cup {<<l.n, l.nrow>>}
      BY <1>6, <1>12, <1>13, <2>2
    <3> QED BY <2>3, <2>4, <3>1, RowWritten
  <2>6. ToldOf(D \cup {l.nrow}, [st EXCEPT ![l.nrow] = RowStatus(l.op, "ok", x.info)],
               more, misses, l.n, l.op)
    BY <1>2, <1>5, <1>6, <1>10, <1>12, <1>13, <2>2, <2>4, <2>5, RowTold
  <2>7. Told(m)' /\ Fresh(m, {})'
    <3>1. DoneRows' \cup {} = D \cup {l.nrow}
      BY <2>1, <2>2
    <3>2. Told(m)'
      BY <1>8, <1>11, <1>16, <2>1, <2>2, <2>6 DEF Told, SameLoop
    <3> QED BY <1>8, <2>2, <2>5, <3>1, <3>2 DEF Fresh, SameLoop
  <2>8. Reckoned(m)'
    BY <1>3, <1>5, <1>8, <1>11, <1>12, <1>16, <2>1, ReckonedNext
  <2>9. Looping(m)'
    BY <1>14, <2>7, <2>8 DEF Looping
  <2> QED BY <1>9, <1>16, <2>9, TruthLoop
<1> QED BY <1>13, <1>15, <1>16

\* SQL_POSITION writes nothing, and a row that is refused says nothing of the others.
LEMMA TruthPositionRow ==
    ASSUME Typed, PositionRow
    PROVE  Truthful'
<1>1. PICK l \in WellLoop : l = call.loop /\ l.op = "position"
  BY DEF Typed, CallOK, PositionRow
<1>2. PICK k, m : k = Reached(l) /\ m = Counted(k, "ok")
  OBVIOUS
<1>3. SameLoop(m, l)
  BY <1>2, ReachedLoop, CountedLoop DEF SameLoop
<1>4. call'.loop = m /\ call'.pc = "loop"
  <2>1. RowDone("ok", FALSE, TRUE) /\ AtRow /\ "ok" # "error"
    BY DEF PositionRow
  <2>2. call'.pc = IF "ok" = "error" THEN "finish" ELSE "loop"
    BY <2>1, RowDoneMade
  <2>3. call'.loop = Counted(Reached(call.loop), "ok")
    BY <2>1, RowDoneMade
  <2> QED BY <1>1, <1>2, <2>2, <2>3
<1>5. Looping(m)'
  BY <1>1, <1>3 DEF Looping, SameLoop, Writing
<1> QED BY <1>4, <1>5, TruthLoop

LEMMA TruthRefuseRow ==
    ASSUME Typed, Serial, Truthful, RefuseRow
    PROVE  Truthful'
<1>1. PICK l \in WellLoop : l = call.loop /\ Looping(l)
  BY LoopTrue DEF RefuseRow, AtRow
<1>2. PICK k, m : k = Reached(l) /\ m = Counted(k, "error")
  OBVIOUS
<1>3. SameLoop(m, l)
  BY <1>2, ReachedLoop, CountedLoop DEF SameLoop
<1>4. /\ call'.loop = m /\ call'.pc = "finish" /\ call'.ret = "error"
      /\ UNCHANGED <<conn, stmt, app, hist>>
  BY <1>1, <1>2 DEF RefuseRow, Typed, CallOK
<1>5. Known(l)
  BY <1>1 DEF RefuseRow, Looping
<1>6. Known(m)'
  BY <1>3, <1>4, <1>5 DEF Known, SameLoop
<1>7. Ending(m)'
  BY <1>4, <1>6 DEF Ending
<1> QED BY <1>4, <1>7, TruthFinish

-----------------------------------------------------------------------------
(***************************************************************************)
(* The account through the dialogue and back.                              *)
(***************************************************************************)
LEMMA TruthAsking ==
    ASSUME NEW l, call'.pc = "idle", stmt'.queue = Waiting(l), Asking(l)'
    PROVE  Truthful'
<1>1. Queued'.loop = l
  BY WaitingQueue DEF Queued, RowCallback
<1>2. Asking(Queued.loop)'
  BY <1>1 DEF Asking, Known, RowDue, Told, Reckoned, Fresh, Before, Due, Positioned
<1> QED BY <1>2 DEF Truthful, InDialogue

LEMMA TruthResume ==
    ASSUME NEW l, call'.pc = "resume",
           \/ stmt'.queue = Waiting(l) /\ RowBack(l)'
           \/ stmt'.queue = <<LoopCallback(l)>> /\ LoopBack(l)'
    PROVE  Truthful'
<1>1. CASE stmt'.queue = Waiting(l) /\ RowBack(l)'
  <2>1. Queued'.loop = l /\ Queued'.kind = "row"
    BY <1>1, WaitingQueue DEF Queued, RowCallback
  <2>2. RowBack(Queued.loop)'
    BY <1>1, <2>1
       DEF RowBack, Known, RowDue, Told, Reckoned, Fresh, Before, Due, Positioned
  <2> QED BY <2>1, <2>2 DEF Truthful, InDialogue
<1>2. CASE stmt'.queue = <<LoopCallback(l)>> /\ LoopBack(l)'
  <2>1. Queued'.loop = l /\ Queued'.kind = "loop"
    BY <1>2, WaitingQueue DEF Queued, LoopCallback
  <2>2. LoopBack(Queued.loop)'
    BY <1>2, <2>1 DEF LoopBack, Known, RowDue, Told, Fresh, Before, Due, Positioned
  <2> QED BY <2>1, <2>2 DEF Truthful, InDialogue
<1> QED BY <1>1, <1>2

LEMMA TruthNeedsData ==
    ASSUME Typed, Serial, Truthful, RowNeedsData
    PROVE  Truthful'
<1>1. PICK l \in WellLoop : l = call.loop /\ Looping(l) /\ AtRank(l)
  BY LoopTrue DEF RowNeedsData, AtRow
<1>2. l.op \in {"add", "update"} /\ AtRow
  BY <1>1 DEF RowNeedsData
<1>3. Known(l) /\ Told(l) /\ Reckoned(l) /\ Fresh(l, {})
  BY <1>1, <1>2 DEF Looping, Writing
<1>4. OnTuple(l)
  BY <1>1, <1>2 DEF AtRow, NotInRowset, OnTuple, Positioned
<1>5. RowDue(l)
  BY <1>1, <1>2, <1>3, <1>4, AtRowDue DEF Known, Bulk, RowDue
<1>6. PICK k : k = Reached(l)
  OBVIOUS
<1>7. SameLoop(k, l) /\ k.nrow = l.nrow /\ k.processed = l.processed
  BY <1>6, ReachedLoop
<1>8. /\ stmt' = [stmt EXCEPT !.queue = @ \o Waiting(k),
                              !.delegate = [n |-> k.n, row |-> k.nrow, dae |-> 1, cur |-> -1]]
      /\ stmt.queue = <<>>
  BY <1>1, <1>2, <1>6 DEF RowNeedsData, Serial, AtRow
<1>9. stmt'.queue = Waiting(k) /\ stmt'.live = stmt.live
  BY <1>8, WaitingQueue DEF Typed, StmtOK
<1>10. conn' = conn /\ hist' = hist /\ call'.pc = "idle"
  BY DEF RowNeedsData, Return, Discard, IdleCall
<1>11. app'.status = app.status /\ app'.ignore = app.ignore
  BY DEF RowNeedsData, Typed, AppOK, App
<1>12. SameRows(l)
  BY <1>9, <1>10, <1>11 DEF SameRows, Held
<1>13. Known(k)' /\ Told(k)' /\ Reckoned(k)' /\ Fresh(k, {})' /\ RowDue(k)'
  BY <1>3, <1>5, <1>7, <1>12, RowsKept
<1>14. Asking(k)'
  BY <1>13 DEF Asking
<1> QED BY <1>9, <1>10, <1>14, TruthAsking

\* The row that waits, with its account.
LEMMA AskingTrue ==
    ASSUME Typed, Serial, Truthful, InDialogue
    PROVE  \E l \in WellLoop : /\ stmt.queue = Waiting(l) /\ Asking(l)
                               /\ stmt.delegate.n = l.n /\ stmt.delegate.row = l.nrow
<1>1. PICK l \in WellLoop :
        Waits(l) /\ stmt.delegate.n = l.n /\ stmt.delegate.row = l.nrow
  BY DEF Serial
<1>2. stmt.queue = Waiting(l) /\ Queued.loop = l
  BY <1>1, WaitingQueue DEF Waits, Queued, RowCallback
<1> QED BY <1>1, <1>2 DEF Truthful

LEMMA TruthParamExecute ==
    ASSUME Typed, Serial, Truthful, ParamExecute
    PROVE  Truthful'
<1>1. PICK l \in WellLoop : /\ stmt.queue = Waiting(l) /\ Asking(l)
                            /\ stmt.delegate.n = l.n /\ stmt.delegate.row = l.nrow
  BY AskingTrue DEF ParamExecute
<1>2. PICK w, x : /\ w = <<l.n, l.nrow>> /\ RowOutcome(conn, l.op, w, x) /\ conn' = x.conn
                  /\ call'.pc = "resume" /\ call'.ret = x.ret /\ call'.info = x.info
                  /\ hist' = Missing(hist, l.nrow, x.hit)
  <2>1. Head(stmt.queue).loop = l
    BY <1>1, WaitingQueue DEF RowCallback
  <2> QED BY <1>1, <2>1, RowConn
<1>3. UNCHANGED <<stmt, app>>
  BY DEF ParamExecute
<1>4. Known(l) /\ RowDue(l) /\ Told(l) /\ Reckoned(l) /\ Fresh(l, {}) /\ l.nrow \in RowIds
  BY <1>1, DueFinite DEF Asking, RowDue
<1>5. l.nrow \notin DoneRows /\ w \notin Held /\ l.nrow \notin hist.missed
  BY <1>2, <1>4, RowNew
<1>6. /\ conn'.auto = conn.auto /\ Held \subseteq Held' /\ Held' \subseteq Held \cup {w}
      /\ w \in Held' <=> x.hit
      /\ x.ret = "ok" /\ l.op = "update" /\ ~x.info => x.hit
      /\ x.hit \in BOOLEAN
  BY <1>2, <1>5, RowHeld
<1>7. PICK D, held, more, missed, misses :
        /\ D = DoneRows /\ held = Held /\ more = Held'
        /\ missed = hist.missed /\ misses = hist'.missed
  OBVIOUS
<1>14. /\ hist'.done = hist.done /\ hist'.n = hist.n
       /\ misses = IF x.hit THEN missed ELSE missed \cup {l.nrow}
  <2>1. hist \in Hist
    BY DEF Typed, HistOK
  <2>2. CASE x.hit
    BY <1>2, <1>7, <2>2 DEF Missing
  <2>3. CASE ~x.hit
    <3>1. hist' = [hist EXCEPT !.missed = @ \cup {l.nrow}]
      BY <1>2, <2>3 DEF Missing
    <3> QED BY <1>7, <2>1, <2>3, <3>1 DEF Hist
  <2> QED BY <2>2, <2>3
<1>8. DoneRows' = D /\ Due(l)' = Due(l) /\ Before(l)' = Before(l)
  BY <1>3, <1>7, <1>14 DEF DoneRows, Due, Before
<1>9. ToldOf(D, app.status, held, missed, l.n, l.op) /\ FreshOf(D, held, missed, l.n)
  <2>1. D \cup {} = D
    OBVIOUS
  <2> QED BY <1>4, <1>7, <2>1 DEF Told, Fresh
<1>15. /\ missed \subseteq misses /\ misses \subseteq missed \cup {l.nrow}
       /\ w \in more <=> l.nrow \notin misses
       /\ x.ret = "ok" /\ l.op = "update" /\ ~x.info => l.nrow \notin misses
  BY <1>5, <1>6, <1>7, <1>14
<1>10. /\ ToldOf(D, app.status, more, misses, l.n, l.op)
       /\ FreshOf(D \cup {l.nrow}, more, misses, l.n)
  <2>1. l.nrow \notin D /\ held \subseteq more /\ more \subseteq held \cup {<<l.n, l.nrow>>}
    BY <1>2, <1>5, <1>6, <1>7
  <2> QED BY <1>9, <1>15, <2>1, RowWritten
<1>11. Told(l)' /\ Fresh(l, {l.nrow})'
  BY <1>3, <1>7, <1>8, <1>10 DEF Told, Fresh
<1>12. Reckoned(l)' /\ RowDue(l)' /\ Known(l)'
  BY <1>3, <1>4, <1>6, <1>7, <1>8, <1>14 DEF Reckoned, RowDue, Known
<1>13. RowBack(l)'
  BY <1>2, <1>7, <1>11, <1>12, <1>15 DEF RowBack
<1> QED BY <1>1, <1>2, <1>3, <1>13, TruthResume

\* The callback of the row tells its status.
LEMMA TruthResumeRow ==
    ASSUME Typed, Serial, Truthful, ResumeRow
    PROVE  Truthful'
<1>1. PICK l \in WellLoop :
        /\ l = Head(stmt.queue).loop
        /\ app' = [app EXCEPT !.status[l.nrow] = RowStatus(l.op, call.ret, call.info)]
        /\ hist' = [hist EXCEPT !.done = Append(@, <<l.nrow, l.idx>>)]
        /\ stmt' = [stmt EXCEPT !.queue = <<LoopCallback(l)>>, !.delegate = NoDelegate]
        /\ UNCHANGED <<conn, call>>
  BY ResumedRow
<1>2. RowBack(l) /\ call.pc = "resume"
  BY <1>1 DEF ResumeRow, Truthful, Queued
<1>3. PICK st : st = app.status /\ DOMAIN st = RowIds
  BY DEF Typed, AppOK, App
<1>4. /\ app'.status = [st EXCEPT ![l.nrow] = RowStatus(l.op, call.ret, call.info)]
      /\ app'.ignore = app.ignore
  BY <1>1, <1>3 DEF Typed, AppOK, App
<1>5. stmt'.queue = <<LoopCallback(l)>> /\ stmt'.live = stmt.live
  BY <1>1 DEF Typed, StmtOK
<1>6. /\ hist'.n = hist.n /\ hist'.missed = hist.missed
      /\ hist'.done = Append(hist.done, <<l.nrow, l.idx>>)
  BY <1>1 DEF Typed, HistOK, Hist
<1>7. SameLoop(l, l)
  BY DEF SameLoop
<1>8. Due(l)' = Due(l) /\ Before(l)' = Before(l)
  BY <1>4, <1>5, <1>7, DueSame, BeforeSame
<1>9. Known(l)' /\ RowDue(l)'
  BY <1>1, <1>2, <1>6, <1>8 DEF RowBack, Known, RowDue
<1>10. ASSUME call.ret = "ok"
       PROVE  /\ Told(l)' /\ Fresh(l, {})' /\ DoneRows' = Before(l)' \cup {l.nrow}
              /\ l.processed + 1 = Cardinality(DoneRows')
  <2>1. /\ Told(l) /\ Reckoned(l) /\ Fresh(l, {l.nrow}) /\ l.nrow \in RowIds
        /\ <<l.n, l.nrow>> \in Held <=> l.nrow \notin hist.missed
        /\ l.op = "update" /\ ~call.info => l.nrow \notin hist.missed
        /\ l.op \in Writing
    BY <1>2, <1>10, DueFinite DEF RowBack, RowDue, Writing
  <2>2. DoneRows' = DoneRows \cup {l.nrow} /\ Held' = Held
    BY <1>1, <1>6, DoneRowsGrow DEF Held
  <2>3. PICK D, held, missed : D = DoneRows /\ held = Held /\ missed = hist.missed
    OBVIOUS
  <2>4. D \in SUBSET RowIds /\ IsFiniteSet(D) /\ l.nrow \notin D
    <3>1. ~(l.nrow < l.nrow)
      BY LoopFields
    <3> QED BY <2>1, <2>3, <3>1, DueFinite DEF Reckoned, Before
  <2>5. call.info \in BOOLEAN
    BY DEF Typed, CallOK
  <2>6. ToldOf(D, st, held, missed, l.n, l.op) /\ FreshOf(D \cup {l.nrow}, held, missed, l.n)
    BY <1>3, <2>1, <2>3 DEF Told, Fresh
  <2>7. ToldOf(D \cup {l.nrow}, [st EXCEPT ![l.nrow] = RowStatus(l.op, "ok", call.info)],
               held, missed, l.n, l.op)
    BY <1>3, <2>1, <2>3, <2>4, <2>5, <2>6, RowTold
  <2>8. Told(l)'
    BY <1>4, <1>6, <1>10, <2>2, <2>3, <2>7 DEF Told
  <2>9. Fresh(l, {})'
    <3>1. DoneRows' \cup {} = D \cup {l.nrow}
      BY <2>2, <2>3
    <3> QED BY <1>6, <2>2, <2>3, <2>6, <3>1 DEF Fresh
  <2>10. Cardinality(D \cup {l.nrow}) = Cardinality(D) + 1
    BY <2>4, MoreDone
  <2> QED BY <1>8, <2>1, <2>2, <2>3, <2>8, <2>9, <2>10 DEF Reckoned
<1>11. LoopBack(l)'
  BY <1>1, <1>9, <1>10 DEF LoopBack
<1> QED BY <1>1, <1>2, <1>5, <1>11, TruthResume

\* The loop goes on behind it.
LEMMA TruthResumeLoop ==
    ASSUME Typed, Serial, Orderly, Truthful, ResumeLoop
    PROVE  Truthful'
<1>1. PICK l \in WellLoop :
        /\ l = Head(stmt.queue).loop /\ stmt'.live = stmt.live
        /\ call' = [call EXCEPT !.pc = IF call.ret = "error" THEN "finish" ELSE "loop",
                                !.loop = Resumed(l)]
        /\ UNCHANGED <<conn, app, hist>>
  BY ResumedAgain
<1>2. LoopBack(l) /\ call.pc = "resume"
  BY <1>1 DEF ResumeLoop, Truthful, Queued
<1>3. PICK m : m = Resumed(l)
  OBVIOUS
<1>4. /\ m \in WellLoop /\ SameLoop(m, l) /\ m.processed = l.processed + 1
      /\ call.ret # "error" => m.nrow = l.nrow + 1
  BY <1>3, ResumedLoop
<1>5. /\ call'.loop = m /\ call'.pc = (IF call.ret = "error" THEN "finish" ELSE "loop")
      /\ call'.ret = call.ret
  BY <1>1, <1>3 DEF Typed, CallOK
<1>6. SameRows(l)
  BY <1>1 DEF SameRows, Held
<1>7. Known(m)'
  BY <1>2, <1>4, <1>6, RowsKept DEF LoopBack
<1>8. CASE call.ret = "error"
  <2>1. Ending(m)'
    BY <1>5, <1>7, <1>8 DEF Ending
  <2> QED BY <1>5, <1>8, <2>1, TruthFinish
<1>9. CASE call.ret = "ok"
  <2>1. /\ Told(l) /\ Fresh(l, {}) /\ DoneRows = Before(l) \cup {l.nrow}
        /\ l.processed + 1 = Cardinality(DoneRows) /\ l.nrow \in Due(l)
    BY <1>2, <1>9 DEF LoopBack, RowDue
  <2>2. Told(m)' /\ Fresh(m, {})' /\ DoneRows' = DoneRows
    BY <1>4, <1>6, <2>1, RowsKept
  <2>3. Before(m)' = Before(l) \cup {l.nrow}
    BY <1>1, <1>4, <1>9, <2>1, BeforeNext
  <2>4. Reckoned(m)'
    BY <1>4, <2>1, <2>2, <2>3 DEF Reckoned
  <2>5. Looping(m)'
    BY <1>7, <2>2, <2>4 DEF Looping
  <2> QED BY <1>5, <1>9, <2>5, TruthLoop
<1> QED BY <1>2, <1>8, <1>9 DEF Orderly

\* While the row waits nothing else touches what is held of it.
LEMMA TruthWaits ==
    ASSUME Typed, Serial, Truthful, InDialogue, call' = call, stmt'.queue = stmt.queue,
           \A l \in WellLoop : SameRows(l)
    PROVE  Truthful'
<1>1. PICK l \in WellLoop : stmt.queue = Waiting(l) /\ Asking(l)
  BY AskingTrue
<1>2. SameLoop(l, l)
  BY DEF SameLoop
<1>3. Known(l) /\ Told(l) /\ Reckoned(l) /\ Fresh(l, {}) /\ RowDue(l) /\ SameRows(l)
  BY <1>1 DEF Asking
<1>4. Known(l)' /\ Told(l)' /\ Reckoned(l)' /\ Fresh(l, {})' /\ RowDue(l)'
  BY <1>2, <1>3, RowsKept
<1>5. Asking(l)'
  BY <1>4 DEF Asking
<1> QED BY <1>1, <1>5, TruthAsking DEF InDialogue

LEMMA TruthOtherWrites ==
    ASSUME Typed, Serial, Orderly, Truthful, OtherWrites
    PROVE  Truthful'
<1>1. /\ UNCHANGED <<stmt, call, app>> /\ hist'.done = hist.done /\ hist'.n = hist.n
      /\ hist'.missed = hist.missed /\ call.pc = "idle"
  BY DEF OtherWrites, Typed, HistOK, Hist
<1>2. PICK k \in Nat : Held' = Held \cup {<<0, k>>}
  BY OtherWritesSettled DEF Held
<1>3. ASSUME NEW l \in WellLoop PROVE SameRows(l)
  <2>1. \A r : <<l.n, r>> # <<0, k>>
    BY LoopFields, BulkAssumption
  <2> QED BY <1>1, <1>2, <2>1, OtherWritesMode DEF SameRows
<1>4. CASE InDialogue
  BY <1>1, <1>3, <1>4, TruthWaits
<1>5. CASE ~InDialogue
  BY <1>1, <1>5, TruthIdle DEF InDialogue, Typed, AppOK, App
<1> QED BY <1>4, <1>5

LEMMA StepTruthful ==
    ASSUME Typed, Serial, Orderly, Numbered, Truthful, [Next]_vars
    PROVE  Truthful'
<1>1. ASSUME NEW op \in Writing, NEW bound, BulkOperations(op, bound) PROVE Truthful'
  <2>1. PICK l \in WellLoop :
          /\ l = NewLoop("bulk", op, 0) /\ l.n = hist.n + 1 /\ l.nrow = 0
          /\ l.acNeeded = conn.auto /\ l.op = op /\ l.first = 0 /\ l.last = Rows - 1
          /\ l.processed = 0
          /\ \/ Begin(l)
             \/ /\ \E c : Return(c, "error")
                /\ app'.dialogue = app.dialogue
    BY <1>1, UnboundMade
  <2>2. CASE Begin(l)
    BY <1>1, <2>1, <2>2, TruthBegin DEF BulkOperations, Bulk, Typed, ConnOK, Conn
  <2>3. CASE ~Begin(l)
    BY <1>1, <2>1, <2>3, TruthIdle DEF Return, IdleCall, BulkOperations, Ready
  <2> QED BY <2>2, <2>3
<1>2. ASSUME NEW op \in Ops, NEW irow \in 0 .. Rows, SetPos(op, irow) PROVE Truthful'
  <2>1. PICK l : l = NewLoop("setpos", op, irow)
    OBVIOUS
  <2>2. /\ l \in WellLoop /\ l.acNeeded = (conn.auto /\ op \in Writing) /\ l.api = "setpos"
        /\ l.op = op /\ l.nrow = 0 /\ l.processed = 0 /\ l.n = hist.n + 1
    BY <1>2, <2>1, NewLoopWell DEF SetPos
  <2>3. Bulk(l)
    BY <2>2 DEF Bulk
  <2> QED BY <1>2, <2>1, <2>2, <2>3, TruthBegin DEF SetPos
<1>3. CASE Finish
  <2>1. stmt.queue = <<>>
    BY <1>3 DEF Finish, Serial
  <2>2. PICK c, ret : Return(c, ret) /\ ~app'.dialogue
    BY <1>3, <2>1, FinishMade, ZenonT(90)
  <2> QED BY <2>2, TruthIdle DEF Return, IdleCall
<1>4. CASE ParamToken
  <2>1. /\ stmt'.queue = stmt.queue /\ stmt'.live = stmt.live
        /\ app'.status = app.status /\ app'.ignore = app.ignore
        /\ UNCHANGED <<conn, call, hist>>
    BY <1>4 DEF ParamToken, Typed, StmtOK, AppOK, App
  <2>2. \A l \in WellLoop : SameRows(l)
    BY <2>1 DEF SameRows, Held
  <2> QED BY <1>4, <2>1, <2>2, TruthWaits DEF ParamToken
<1>5. CASE PutData
  <2>1. CASE app' = [app EXCEPT !.last = "put"] /\ UNCHANGED <<conn, stmt, call, hist>>
    <3>1. app'.status = app.status /\ app'.ignore = app.ignore
      BY <2>1 DEF Typed, AppOK, App
    <3>2. \A l \in WellLoop : SameRows(l)
      BY <2>1, <3>1 DEF SameRows, Held
    <3> QED BY <1>5, <2>1, <3>2, TruthWaits DEF PutData
  <2>2. CASE Refuse("put")
    <3>1. call'.pc = "idle" /\ ~app'.dialogue
      BY <2>2 DEF Refuse, Return, IdleCall, Typed, AppOK, App
    <3> QED BY <3>1, TruthIdle
  <2> QED BY <1>5, <2>1, <2>2 DEF PutData
<1>6. CASE Cancel \/ Reopen
  <2>1. call'.pc = "idle" /\ ~app'.dialogue
    BY <1>6 DEF Cancel, Reopen, InDialogue, Ready, Typed, AppOK, App
  <2> QED BY <2>1, TruthIdle
<1>7. ASSUME NEW on \in BOOLEAN, SetAutocommitOption(on) \/ EndTran(on) PROVE Truthful'
  BY <1>7, TruthIdle DEF SetAutocommitOption, EndTran, Ready
<1>8. CASE UNCHANGED vars
  <2>1. InDialogue' = InDialogue /\ DoneRows' = DoneRows /\ Held' = Held
    BY <1>8 DEF vars, InDialogue, DoneRows, Held
  <2>2. \A l : Due(l)' = Due(l) /\ Before(l)' = Before(l)
    BY <1>8 DEF vars, Due, Before
  <2>3. \A l : Known(l)' = Known(l) /\ Told(l)' = Told(l) /\ Reckoned(l)' = Reckoned(l)
    <3>1. \A l : Known(l)' = Known(l)
      BY <1>8 DEF vars, Known
    <3>2. \A l : Told(l)' = Told(l)
      <4>1. app' = app /\ hist' = hist
        BY <1>8 DEF vars
      <4> QED BY <2>1, <4>1 DEF Told
    <3>3. \A l : Reckoned(l)' = Reckoned(l)
      BY <2>1, <2>2 DEF Reckoned
    <3> QED BY <3>1, <3>2, <3>3
  <2>4. \A l, S : Fresh(l, S)' = Fresh(l, S)
    <3>1. hist' = hist
      BY <1>8 DEF vars
    <3> QED BY <2>1, <3>1 DEF Fresh
  <2>5. \A l : RowDue(l)' = RowDue(l)
    BY <2>2 DEF RowDue
  <2>6. \A l : Looping(l) => Looping(l)'
    BY <2>3, <2>4 DEF Looping
  <2>7. \A l : Ending(l) => Ending(l)'
    BY <1>8, <2>1, <2>2, <2>3 DEF vars, Ending
  <2>8. \A l : Asking(l) => Asking(l)'
    BY <2>3, <2>4, <2>5 DEF Asking
  <2>9. \A l : RowBack(l) => RowBack(l)'
    BY <1>8, <2>1, <2>3, <2>4, <2>5 DEF vars, RowBack
  <2>10. \A l : LoopBack(l) => LoopBack(l)'
    BY <1>8, <2>1, <2>2, <2>3, <2>4, <2>5 DEF vars, LoopBack
  <2>11. PICK l : l = call.loop
    OBVIOUS
  <2>12. call' = call /\ stmt' = stmt /\ app' = app
    BY <1>8 DEF vars
  <2>13. CASE call.pc = "loop"
    BY <2>6, <2>11, <2>12, <2>13, TruthLoop DEF Truthful
  <2>14. CASE call.pc = "finish"
    BY <2>7, <2>11, <2>12, <2>14, TruthFinish DEF Truthful
  <2>15. CASE call.pc = "resume"
    <3>1. PICK k \in WellLoop :
            stmt.queue = Waiting(k) \/ stmt.queue = <<LoopCallback(k)>>
      BY <2>15 DEF Serial, Waits, Rejoins
    <3>2. CASE stmt.queue = Waiting(k)
      <4>1. Queued.loop = k /\ Queued.kind = "row"
        BY <3>2, WaitingQueue DEF Queued, RowCallback
      <4> QED BY <2>9, <2>12, <2>15, <3>2, <4>1, TruthResume DEF Truthful
    <3>3. CASE stmt.queue = <<LoopCallback(k)>>
      <4>1. Queued.loop = k /\ Queued.kind = "loop"
        BY <3>3, WaitingQueue DEF Queued, LoopCallback
      <4> QED BY <2>10, <2>12, <2>15, <3>3, <4>1, TruthResume DEF Truthful
    <3> QED BY <3>1, <3>2, <3>3
  <2>16. CASE InDialogue
    <3>1. PICK k \in WellLoop : stmt.queue = Waiting(k) /\ Asking(k)
      BY <2>16, AskingTrue
    <3> QED BY <2>8, <2>12, <2>16, <3>1, TruthAsking DEF InDialogue
  <2>17. CASE call.pc = "idle" /\ ~app.dialogue
    BY <2>12, <2>17, TruthIdle
  <2> QED BY <2>13, <2>14, <2>15, <2>16, <2>17 DEF InDialogue, Serial, Typed, CallOK
<1> QED BY <1>1, <1>2, <1>3, <1>4, <1>5, <1>6, <1>7, <1>8, TruthPassOver, TruthExecuteRow,
           TruthPositionRow, TruthRefuseRow, TruthNeedsData, TruthLoopEnds, TruthResumeLoop,
           TruthResumeRow, TruthParamExecute, TruthOtherWrites DEF Next

LEMMA StepTruth ==
    ASSUME TruthInv, [Next]_vars
    PROVE  TruthInv'
<1>1. BulkInv' /\ Typed
  BY StepInv DEF TruthInv, BulkInv
<1>2. Orderly' /\ Numbered'
  BY <1>1, StepOrderly, StepNumbered DEF TruthInv
<1>3. hist'.left \/ Truthful'
  <2>1. CASE Serial /\ Truthful
    BY <1>1, <2>1, StepTruthful DEF TruthInv
  <2>2. CASE hist.left /\ ~Reopen
    BY <1>1, <2>2, LeftKept
  <2>3. CASE Reopen
    <3>1. call'.pc = "idle" /\ ~app'.dialogue
      BY <1>1, <2>3 DEF Reopen, Ready, Typed, AppOK, App
    <3> QED BY <3>1, TruthIdle
  <2> QED BY <2>1, <2>2, <2>3 DEF TruthInv, BulkInv
<1> QED BY <1>1, <1>2, <1>3 DEF TruthInv

LEMMA InitTruth ==
    ASSUME Init
    PROVE  TruthInv
<1>1. BulkInv /\ Typed
  BY InitInv DEF BulkInv
<1>2. Orderly /\ Truthful
  BY DEF Init, IdleCall, Orderly, Truthful, InDialogue
<1>3. Numbered
  BY BulkAssumption DEF Init, IdleCall, Numbered, Held, NoDelegate
<1> QED BY <1>1, <1>2, <1>3 DEF TruthInv

\* The transaction of an operation that ends with success was lost.
Lost(c, refused) == conn'.auto /\ (c.tx = "failed" \/ (c.tx = "open" /\ refused))

\* What switching autocommit on again leaves of the work.
LEMMA SwitchedOnConn ==
    ASSUME NEW c \in Conn, NEW taken \in BOOLEAN, ~c.auto, c.tx = "idle" => c.pending = {}
    PROVE  LET d == SetAutocommit(c, TRUE, taken)
           IN  /\ d.auto /\ d.pending = {}
               /\ d.durable = IF c.tx = "open" /\ taken THEN c.durable \cup c.pending
                              ELSE c.durable
<1>1. PICK d : d = SetAutocommit(c, TRUE, taken)
  OBVIOUS
<1>2. /\ d.auto = TRUE /\ d.pending = Commit(c, taken).pending
      /\ d.durable = Commit(c, taken).durable
  BY ZenonT(60), <1>1, SetAutocommitConn
<1>3. Commit(c, taken).pending = {}
  BY CommitSettled
<1>4. Commit(c, taken).durable = IF c.tx = "open" /\ taken THEN c.durable \cup c.pending
                                 ELSE c.durable
  BY CommitConn
<1> QED BY <1>1, <1>2, <1>3, <1>4

\* What the end of a successful operation hands out.
LEMMA FinishTells ==
    ASSUME TruthInv, Finish, call'.pc = "idle", app'.ret = "ok", call.loop.op \in Writing,
           ~hist.left
    PROVE  \E l \in WellLoop :
             /\ l = call.loop /\ DoneRows = Due(l)
             /\ l.irow = 0 => app'.fetched = Cardinality(DoneRows)
             /\ ToldOf(DoneRows, app'.status, Held, hist.missed, l.n, l.op)
             /\ ~Lost(conn, hist'.refused) => Kept = Held
             /\ Lost(conn, hist'.refused) =>
                  conn'.pending = {} /\ conn'.durable = conn.durable
<1>0. Typed /\ Serial /\ Orderly /\ Truthful /\ call.pc = "finish"
  BY DEF TruthInv, BulkInv, Finish
<1>1. PICK l \in WellLoop, c \in Conn, ret \in {"ok", "error"}, taken \in BOOLEAN :
        /\ l = call.loop
        /\ c = IF l.acNeeded THEN SetAutocommit(conn, TRUE, taken) ELSE conn
        /\ hist'.refused = (l.acNeeded /\ ~taken)
        /\ ret = "ok" => call.ret = "ok"
        /\ call.ret = "error" => ret = "error"
        /\ \/ call' = [call EXCEPT !.pc = "resume", !.ret = ret]
           \/ /\ Return(c, ret) /\ app'.ret = ret
              /\ l.irow = 0 => app'.fetched = l.processed
              /\ app'.status = app.status
  BY <1>0, FinishMade, ZenonT(90)
<1>2. /\ Return(c, "ok") /\ call.ret = "ok"
      /\ app'.status = app.status /\ (l.irow = 0 => app'.fetched = l.processed)
  BY <1>0, <1>1 DEF Typed, CallOK
<1>3. Known(l) /\ Told(l) /\ DoneRows = Due(l) /\ l.processed = Cardinality(DoneRows)
  BY <1>0, <1>1, <1>2 DEF Truthful, Ending
<1>5. /\ conn'.auto = c.auto /\ conn'.pending = c.pending /\ conn'.durable = c.durable
  <2>1. conn' = Discard(c, "ok")
    BY <1>2 DEF Return
  <2> QED BY <1>1, <2>1, DiscardConn
<1>6. conn \in Conn /\ ~conn.auto /\ (conn.tx = "idle" => conn.pending = {})
  BY <1>0, <1>3 DEF Typed, ConnOK, Orderly, Known
<1>7. CASE l.acNeeded
  <2>1. /\ conn'.auto /\ conn'.pending = {}
        /\ conn'.durable = IF conn.tx = "open" /\ taken THEN conn.durable \cup conn.pending
                           ELSE conn.durable
    BY <1>1, <1>5, <1>6, <1>7, SwitchedOnConn
  <2>2. Lost(conn, hist'.refused) <=> conn.tx = "failed" \/ (conn.tx = "open" /\ ~taken)
    BY <1>1, <1>7, <2>1 DEF Lost
  <2>3. conn.tx \in {"idle", "open", "failed"}
    BY <1>6 DEF Conn
  <2>4. ~Lost(conn, hist'.refused) => conn'.durable = conn.durable \cup conn.pending
    BY <1>6, <2>1, <2>2, <2>3
  <2>5. Lost(conn, hist'.refused) => conn'.durable = conn.durable
    BY <2>1, <2>2
  <2> QED BY <1>1, <1>2, <1>3, <2>1, <2>4, <2>5 DEF Told, Kept, Held
<1>8. CASE ~l.acNeeded
  <2>1. ~conn'.auto /\ Kept = Held
    BY <1>1, <1>5, <1>6, <1>8 DEF Kept, Held
  <2>2. ~Lost(conn, hist'.refused)
    BY <2>1 DEF Lost
  <2> QED BY <1>1, <1>2, <1>3, <2>1, <2>2 DEF Told
<1> QED BY <1>7, <1>8

\* Only the end of bulk_ope_callback and spos_callback ends an operation.
LEMMA FinishEnds ==
    ASSUME [Next]_vars, call.pc = "finish", call'.pc = "idle"
    PROVE  Finish
<1>1. ASSUME NEW op, NEW bound, BulkOperations(op, bound) PROVE FALSE
  BY <1>1 DEF BulkOperations, Ready
<1>2. ASSUME NEW op, NEW irow, SetPos(op, irow) PROVE FALSE
  BY <1>2 DEF SetPos, Ready
<1>3. ASSUME NEW on, SetAutocommitOption(on) \/ EndTran(on) PROVE FALSE
  BY <1>3 DEF SetAutocommitOption, EndTran, Ready
<1>4. ~(PassOver \/ ExecuteRow \/ PositionRow \/ RefuseRow \/ RowNeedsData \/ LoopEnds)
  BY DEF PassOver, ExecuteRow, PositionRow, RefuseRow, RowNeedsData, LoopEnds, AtRow
<1>5. ~(ResumeLoop \/ ResumeRow \/ ParamToken \/ ParamExecute \/ PutData \/ Cancel)
  BY DEF ResumeLoop, ResumeRow, ParamToken, ParamExecute, PutData, Cancel, InDialogue
<1>6. ~(Reopen \/ OtherWrites \/ UNCHANGED vars)
  BY DEF Reopen, OtherWrites, Ready, vars
<1> QED BY <1>1, <1>2, <1>3, <1>4, <1>5, <1>6 DEF Next

\* An operation that returns success has done the rows it was to do, each told as the
\* driver's command allows and counted; what the server wrote of them, and no other of its
\* rows, is there, and durable if autocommit is on, unless the COMMIT, whose result
\* CC_set_autocommit does not look at, was refused or met a failed transaction: then all
\* the work of that transaction is gone.  So it is whether bulk_ope_callback and
\* spos_callback did the rows in one call or were resumed by SQLParamData.
THEOREM StatusTruthAlways == Spec => StatusTruth
<1> DEFINE Tells ==
      Completes /\ ~hist.left =>
         LET l == call.loop
             rows == {hist.done[i][1] : i \in DOMAIN hist.done}
             lost == /\ conn'.auto
                     /\ conn.tx = "failed" \/ (conn.tx = "open" /\ hist'.refused)
         IN  /\ rows = Due(l)
             /\ l.irow = 0 => app'.fetched = Cardinality(rows)
             /\ \A r \in rows :
                  LET w == <<l.n, r>>
                  IN  /\ \/ app'.status[r] = Mark[l.op]
                         \/ app'.status[r] = "info" /\ l.op # "delete"
                      /\ app'.status[r] = "updated" => r \notin hist.missed
                      /\ ~lost => (w \in Kept <=> r \notin hist.missed)
             /\ lost => conn'.pending = {} /\ conn'.durable = conn.durable
<1>1. ASSUME TruthInv, [Next]_vars PROVE [Tells]_vars
  <2>1. SUFFICES ASSUME Completes, ~hist.left PROVE Tells
    OBVIOUS
  <2>2. Finish
    BY <1>1, <2>1, FinishEnds DEF Completes
  <2>3. PICK l \in WellLoop :
          /\ l = call.loop /\ DoneRows = Due(l)
          /\ l.irow = 0 => app'.fetched = Cardinality(DoneRows)
          /\ ToldOf(DoneRows, app'.status, Held, hist.missed, l.n, l.op)
          /\ ~Lost(conn, hist'.refused) => Kept = Held
          /\ Lost(conn, hist'.refused) => conn'.pending = {} /\ conn'.durable = conn.durable
    BY <1>1, <2>1, <2>2, FinishTells DEF Completes
  <2>4. ASSUME NEW r \in DoneRows
        PROVE  /\ \/ app'.status[r] = Mark[l.op]
                  \/ app'.status[r] = "info" /\ l.op # "delete"
               /\ app'.status[r] = "updated" => r \notin hist.missed
               /\ ~Lost(conn, hist'.refused) => (<<l.n, r>> \in Kept <=> r \notin hist.missed)
    BY <2>3, <2>4 DEF ToldOf
  <2>5. DoneRows = {hist.done[i][1] : i \in DOMAIN hist.done}
    BY Zenon DEF DoneRows
  <2> QED BY <2>3, <2>4, <2>5 DEF Lost
<1>2. Spec => []TruthInv
  BY InitTruth, StepTruth, PTL DEF Spec
<1> QED BY <1>1, <1>2, PTL DEF Spec, StatusTruth

=============================================================================
