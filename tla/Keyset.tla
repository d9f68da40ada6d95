------------------------------- MODULE Keyset -------------------------------
(***************************************************************************)
(* An updatable cursor without a cursor of the server: the whole result of *)
(* SELECT ... is cached (backend_tuples), and the keyset holds the tuple   *)
(* identifier (tid, PostgreSQL's ctid) under which each row is found.      *)
(* SQLSetPos sends UPDATE and DELETE for a tid and INSERT, keeps keyset    *)
(* and cache in step with the row's new version, and writes a rollback     *)
(* list of what it changed.  When the transaction ends, and when it is     *)
(* rolled back to a savepoint, DiscardRollback and UndoRollback bring the  *)
(* keyset back to what the server holds: nobody tells the driver which of  *)
(* its changes a ROLLBACK TO undid, it finds out by asking which of the    *)
(* old tids exist again.                                                   *)
(*                                                                         *)
(* The server gives each version of a row a tid of its own, which also     *)
(* stands for the row's content.  Cursor type SQL_CURSOR_STATIC, manual    *)
(* commit, isolation level read committed.                                 *)
(***************************************************************************)
EXTENDS Integers, Sequences, FiniteSets, SequencesExt

CONSTANTS
    InitialRows,     \* rows the SELECT found
    MaxRows,         \* bound: rows there can ever be
    MaxTids,         \* bound: row versions there can ever be
    MaxSaves,        \* bound: savepoints of the application
    MaxOthers,       \* bound: rows changed by other sessions
    MaxLog,          \* bound: entries of the rollback list after a fetch, which adds
                     \* one each time it misses a row
    UpdatesAdded     \* whether the application updates rows it has added in the
                     \* same transaction

ASSUME KeysetAssumption ==
    /\ InitialRows \in Nat \ {0} /\ MaxRows \in Nat /\ InitialRows <= MaxRows
    /\ MaxTids \in Nat /\ InitialRows <= MaxTids
    /\ MaxSaves \in Nat /\ MaxOthers \in Nat /\ MaxLog \in Nat
    /\ UpdatesAdded \in BOOLEAN

VARIABLES
    server,      \* the table, as this session and the others see it
    res,         \* the QResultClass
    pc,          \* "doubt", "undo": a ROLLBACK TO or ROLLBACK is done on the server only
    upto,        \* rollbp: how much of the rollback list is to stand
    foreign,     \* history: rows changed by other sessions
    caught,      \* history: those of them changed before the driver had found out
                 \* whether a ROLLBACK TO had undone its own change of the row
    kept         \* history: row versions that were committed at some time

vars == <<server, res, pc, upto, foreign, caught, kept>>
history == <<foreign, caught, kept>>

Rows == 1 .. MaxRows
Tids == 1 .. MaxTids
NoTid == 0                            \* no such row
View == [Rows -> Tids \cup {NoTid}]

Server == [view : View,               \* what this session sees
           base : View,               \* what is committed
           saves : Seq(View),         \* the view at each savepoint, oldest first
           trans : BOOLEAN,           \* a transaction is open
           tids : 0 .. MaxTids,       \* versions made so far
           rows : 0 .. MaxRows]       \* rows made so far

\* The bits CURS_SELF_ADDING ... CURS_SELF_UPDATED and CURS_NEEDS_REREAD.
Bits == {"ADDING", "DELETING", "UPDATING", "ADDED", "DELETED", "UPDATED", "REREAD"}
Waiting == {"ADDING", "DELETING", "UPDATING"}        \* for the end of the transaction

Key == [tid : Tids, status : SUBSET Bits,
        row : Rows]                   \* history: the row this key was read or made for
Entry == [index : Nat \ {0},          \* where in the keyset
          option : {"ADD", "UPDATE", "DELETE", "none"},
          tid : Tids]                 \* of the added row; else the one before the change

Res == [keyset : Seq(Key),            \* num_cached_keys long
        tuples : Seq(Tids),           \* backend_tuples, num_cached_rows long
        ad_count : Nat,
        rollback : Seq(Entry)]

TypeOK ==
    /\ server \in Server /\ res \in Res
    /\ pc \in {"rest", "doubt", "undo"} /\ upto \in 0 .. Len(res.rollback)
    /\ foreign \subseteq Rows /\ caught \subseteq foreign /\ kept \subseteq Tids

-----------------------------------------------------------------------------
(* The server.                                                             *)

Current == Range(server.view) \ {NoTid}
RowAt(v, t) == CHOOSE r \in Rows : v[r] = t

\* A change by this session; outside a transaction it is committed at once.
Changed(s, r, t) ==
    [s EXCEPT !.view[r] = t, !.base[r] = IF s.trans THEN @ ELSE t,
              !.tids = IF t = NoTid THEN @ ELSE t]

\* Rows this session has not touched in the open transaction.
Unlocked(r) == /\ server.view[r] = server.base[r]
               /\ \A i \in DOMAIN server.saves : server.saves[i][r] = server.base[r]

\* Another session changes a row and commits.
OtherChanges(r, t) ==
    server' = [server EXCEPT !.view[r] = t, !.base[r] = t,
                             !.saves = [i \in DOMAIN @ |-> [@[i] EXCEPT ![r] = t]],
                             !.tids = IF t = NoTid THEN @ ELSE t]

-----------------------------------------------------------------------------
(* The keyset and its rollback list.                                       *)

Total(q) == InitialRows + q.ad_count          \* QR_get_num_total_tuples
Hidden(k) == k.status \cap {"DELETING", "DELETED"} # {}     \* skipped by SC_fetch

\* The bit a change sets: until the end of the transaction, or for good.
Self(ing, ed) == IF server.trans THEN ing ELSE ed

\* AddRollback: nothing to remember outside a transaction.
AddRollback(q, i, option, t) ==
    IF server.trans
    THEN [q EXCEPT !.rollback = Append(@, [index |-> i, option |-> option, tid |-> t])]
    ELSE q

\* Mutant: remembers the new version of an updated row.
AfterUpdate_NewTid(q, i, t) ==
    LET old == q.keyset[i].tid
        moved == [q EXCEPT !.keyset[i].tid = t, !.tuples[i] = t]
    IN  [AddRollback(moved, i, "UPDATE", t) EXCEPT
            !.keyset[i].status = @ \cup {Self("UPDATING", "UPDATED")}]

\* irow_update and pos_update_callback for an UPDATE that made version t:
\* SC_pos_reload_with_key loads t, and the old tid is remembered.
AfterUpdate(q, i, t) ==
    LET old == q.keyset[i].tid
        moved == [q EXCEPT !.keyset[i].tid = t, !.tuples[i] = t]
    IN  [AddRollback(moved, i, "UPDATE", old) EXCEPT
            !.keyset[i].status = @ \cup {Self("UPDATING", "UPDATED")}]

\* SC_pos_delete for a DELETE that found its row, always in a transaction:
\* SC_pos_reload_with_key finds the row no more and remembers it.
AfterDelete(q, i) ==
    [q EXCEPT !.rollback = Append(@, [index |-> i, option |-> "DELETE", tid |-> q.keyset[i].tid]),
              !.keyset[i].status = @ \cup {"DELETING"}]

\* irow_insert, SC_pos_newload and pos_add_callback: the new row is loaded and
\* appended; AddAdded counts it and remembers its tid.
AfterAdd(q, r, t) ==
    LET logged == AddRollback([q EXCEPT !.ad_count = @ + 1], Total(q) + 1, "ADD", t)
    IN  [logged EXCEPT
            !.keyset = Append(@, [tid |-> t, row |-> r, status |-> {Self("ADDING", "ADDED")}]),
            !.tuples = Append(@, t)]

-----------------------------------------------------------------------------
(* Reading rows that need it (CURS_NEEDS_REREAD).                          *)

\* LoadFromKeyset: the rows of the rowset from index s on that are found under
\* their tid.
LoadFromKeyset(q, s) ==
    LET found == {i \in s .. Len(q.keyset) :
                    "REREAD" \in q.keyset[i].status /\ q.keyset[i].tid \in Current}
    IN  [q EXCEPT
            !.keyset = [i \in DOMAIN @ |->
                IF i \in found THEN [@[i] EXCEPT !.status = @ \ {"REREAD"}] ELSE @[i]],
            !.tuples = [i \in DOMAIN @ |-> IF i \in found THEN q.keyset[i].tid ELSE @[i]]]

\* SC_pos_reload of a row: its latest version (currtid2).  A row that is gone
\* leaves an entry of kind 0 in the rollback list.
Reload(q, i) ==
    LET latest == server.view[q.keyset[i].row]
    IN  IF latest # NoTid
        THEN [q EXCEPT !.keyset[i].tid = latest, !.tuples[i] = latest]
        ELSE AddRollback(q, i, "none", q.keyset[i].tid)

\* SC_pos_reload_needed, which looks at the flag of the first row only.
ReloadFirst(q, s) ==
    IF "REREAD" \in q.keyset[s].status
    THEN [Reload(q, s) EXCEPT !.keyset[s].status = @ \ {"REREAD"}] ELSE q

\* SC_fetch of the rows of the rowset; it leaves their flags set.
Fetched(q, s) ==
    LET step(a, i) == IF i >= s /\ ~Hidden(a.keyset[i]) /\ "REREAD" \in a.keyset[i].status
                      THEN Reload(a, i) ELSE a
    IN  FoldLeft(step, q, [i \in DOMAIN q.keyset |-> i])

-----------------------------------------------------------------------------
(* The end of a transaction, and a part of it undone.                      *)

\* DiscardRollback, for a COMMIT.
DiscardRollback(q) ==
    LET logged == {q.rollback[j].index : j \in DOMAIN q.rollback}
        settled(st) == (st \ Waiting)
                         \cup (IF "ADDING" \in st THEN {"ADDED"} ELSE {})
                         \cup (IF "DELETING" \in st THEN {"DELETED"} ELSE {})
                         \cup (IF "UPDATING" \in st THEN {"UPDATED"} ELSE {})
    IN  [q EXCEPT !.rollback = << >>,
                  !.keyset = [i \in DOMAIN @ |->
                      IF i \in logged THEN [@[i] EXCEPT !.status = settled(@)] ELSE @[i]]]

\* One entry undone while the session sees the versions in now: an added row
\* leaves the end of the keyset, another gets its old tid and is read again.
UndoEntry(now, e, q) ==
    LET bit == CASE e.option = "UPDATE" -> {"UPDATING"}
                 [] e.option = "DELETE" -> {"DELETING"}
                 [] OTHER -> {}
        back == [q EXCEPT !.keyset[e.index].tid = e.tid,
                          !.keyset[e.index].status = (@ \ bit) \cup {"REREAD"}]
    IN  IF e.index > Len(q.keyset) THEN q
        ELSE IF e.option = "ADD"
        THEN [q EXCEPT !.keyset = Front(@), !.tuples = Front(@), !.ad_count = @ - 1]
        ELSE IF e.tid \in now
        THEN [back EXCEPT !.tuples[e.index] = e.tid, !.keyset[e.index].status = @ \ {"REREAD"}]
        ELSE back

\* How many entries of the list stand after a ROLLBACK TO: the first scan of
\* UndoRollback.  An old tid that exists again marks the first undone change
\* (rollbp); up to doubtp the changes certainly stand.
FirstUndone(now, log) ==
    LET again == {i \in DOMAIN log : log[i].option # "ADD" /\ log[i].tid \in now}
    IN  IF again = {} THEN Len(log) ELSE Min(again) - 1

\* Mutant: does not ask for the tids of added rows.
Certain_NoAdds(now, log) ==
    LET d[i \in 0 .. Len(log)] ==
            IF i > 0 /\ log[i].option # "ADD" /\ d[i - 1] = i - 1 THEN i
            ELSE IF i = 0 THEN 0 ELSE d[i - 1]
    IN  d[FirstUndone(now, log)]

Certain(now, log) ==
    LET d[i \in 0 .. Len(log)] ==
            IF i = 0 THEN 0
            ELSE IF log[i].option = "ADD"
            THEN IF log[i].tid \in now THEN i ELSE d[i - 1]
            ELSE IF d[i - 1] = i - 1 THEN i ELSE d[i - 1]
    IN  d[FirstUndone(now, log)]

\* The second scan: in between, an added row that is gone was undone, unless a
\* later DELETE of it stands.
Standing(now, log) ==
    LET undone(p) == {i \in Certain(now, log) + 1 .. p :
                        /\ log[i].option = "ADD"
                        /\ ~\E j \in i + 1 .. p :
                              log[j].index = log[i].index /\ log[j].option = "DELETE"}
        stand[p \in 0 .. Len(log)] ==
            IF undone(p) = {} THEN p ELSE stand[Min(undone(p)) - 1]
    IN  stand[FirstUndone(now, log)]

\* UndoRollback down to the first n entries, from the newest one back.
UndoRollback(now, q, n) ==
    LET undo(e, a) == UndoEntry(now, e, a)
        last == SubSeq(q.rollback, n + 1, Len(q.rollback))
    IN  [FoldRight(undo, last, q) EXCEPT !.rollback = SubSeq(q.rollback, 1, n)]

-----------------------------------------------------------------------------
(* The application's calls.                                                *)

Ready == pc = "rest"

\* A statement on another handle, with autocommit off; or a DELETE that finds
\* no row under its tid.
Begin ==
    /\ Ready /\ ~server.trans
    /\ server' = [server EXCEPT !.trans = TRUE]
    /\ UNCHANGED <<res, pc, upto, history>>

\* SQLSetPos(SQL_UPDATE), on a row SC_fetch has handed out.  The delegated
\* handle is not external, so that no BEGIN precedes the UPDATE.  A row that is
\* not found under its tid is reported (01001) and left as it is.
Update(i) ==
    /\ Ready /\ i \in DOMAIN res.keyset /\ ~Hidden(res.keyset[i])
    /\ UpdatesAdded \/ "ADDING" \notin res.keyset[i].status
    /\ LET old == res.keyset[i].tid
           t == server.tids + 1
       IN  /\ old \in Current /\ t \in Tids
           /\ server' = Changed(server, RowAt(server.view, old), t)
           /\ res' = AfterUpdate(res, i, t)
           /\ kept' = IF server.trans THEN kept ELSE kept \cup {t}
    /\ UNCHANGED <<pc, upto, foreign, caught>>

\* SQLSetPos(SQL_DELETE); the DELETE is sent for the handle itself, which is
\* external, and a BEGIN before it when no transaction is open.
Delete(i) ==
    /\ Ready /\ i \in DOMAIN res.keyset /\ ~Hidden(res.keyset[i])
    /\ LET old == res.keyset[i].tid
       IN  /\ old \in Current
           /\ server' = Changed([server EXCEPT !.trans = TRUE],
                                RowAt(server.view, old), NoTid)
           /\ res' = AfterDelete(res, i)
    /\ UNCHANGED <<pc, upto, history>>

\* SQLSetPos(SQL_ADD) and SQLBulkOperations(SQL_ADD).
Add ==
    /\ Ready
    /\ LET r == server.rows + 1
           t == server.tids + 1
       IN  /\ r \in Rows /\ t \in Tids
           /\ server' = [Changed(server, r, t) EXCEPT !.rows = r]
           /\ res' = AfterAdd(res, r, t)
           /\ kept' = IF server.trans THEN kept ELSE kept \cup {t}
    /\ UNCHANGED <<pc, upto, foreign, caught>>

\* SQLFetchScroll of a rowset that begins at s and reaches to the end.
Fetch(s) ==
    /\ Ready /\ s \in DOMAIN res.keyset
    /\ res' = Fetched(ReloadFirst(LoadFromKeyset(res, s), s), s)
    /\ res'.rollback = res.rollback \/ Len(res'.rollback) <= MaxLog
    /\ UNCHANGED <<server, pc, upto, history>>

Savepoint ==
    /\ Ready /\ server.trans /\ Len(server.saves) < MaxSaves
    /\ server' = [server EXCEPT !.saves = Append(@, server.view)]
    /\ UNCHANGED <<res, pc, upto, history>>

\* The application's ROLLBACK TO, on the server: the rows changed since are
\* unlocked again.  The driver sees its tag, and then that the transaction goes
\* on (LIBPQ_update_transaction_status).
RollbackTo(k) ==
    /\ Ready /\ k \in DOMAIN server.saves
    /\ server' = [server EXCEPT !.view = server.saves[k], !.saves = SubSeq(@, 1, k)]
    /\ pc' = "doubt"
    /\ UNCHANGED <<res, upto, history>>

\* A statement on any handle of the connection fails, and the driver goes back
\* to its internal savepoint (CC_internal_rollback): the work before it stands.
FailStatement ==
    /\ Ready /\ server.trans
    /\ pc' = "doubt"
    /\ UNCHANGED <<server, res, upto, history>>

\* CC_on_abort_partial asks for the tids of the list one after the other, in
\* order, up to the first old one that exists again: one step here, for a row
\* another session changes between two of the answers has none of its old
\* versions before or after.
FindUndone ==
    /\ pc = "doubt"
    /\ upto' = Standing(Current, res.rollback)
    /\ pc' = "undo"
    /\ UNCHANGED <<server, res, history>>

Commit ==
    /\ Ready /\ server.trans
    /\ server' = [server EXCEPT !.base = server.view, !.saves = << >>, !.trans = FALSE]
    /\ res' = DiscardRollback(res)
    /\ kept' = kept \cup Current
    /\ UNCHANGED <<pc, upto, foreign, caught>>

\* ROLLBACK on the server; the driver has still to undo its part, all of it.
Rollback ==
    /\ Ready /\ server.trans
    /\ server' = [server EXCEPT !.view = server.base, !.saves = << >>, !.trans = FALSE]
    /\ pc' = "undo" /\ upto' = 0
    /\ UNCHANGED <<res, history>>

\* CC_on_abort, or what is left of CC_on_abort_partial: the list is undone from
\* its end, and each row loaded under its old tid.
Undo ==
    /\ pc = "undo"
    /\ res' = UndoRollback(Current, res, upto)
    /\ pc' = "rest" /\ upto' = 0
    /\ UNCHANGED <<server, history>>

-----------------------------------------------------------------------------
(* Other sessions.                                                         *)

\* A row the driver has changed, and has yet to ask about.
Doubtful(r) ==
    /\ pc = "doubt"
    /\ \E j \in DOMAIN res.rollback :
         LET i == res.rollback[j].index
         IN  i \in DOMAIN res.keyset /\ res.keyset[i].row = r

OtherChange(r, t) ==
    /\ server.base[r] # NoTid /\ Unlocked(r)
    /\ Cardinality(foreign) < MaxOthers
    /\ OtherChanges(r, t)
    /\ foreign' = foreign \cup {r}
    /\ caught' = IF Doubtful(r) THEN caught \cup {r} ELSE caught
    /\ kept' = kept \cup ({t} \ {NoTid})
    /\ UNCHANGED <<res, pc, upto>>

OtherUpdate(r) == server.tids + 1 \in Tids /\ OtherChange(r, server.tids + 1)
OtherDelete(r) == OtherChange(r, NoTid)

-----------------------------------------------------------------------------
FirstView == [r \in Rows |-> IF r <= InitialRows THEN r ELSE NoTid]

Init ==
    /\ server = [view |-> FirstView, base |-> FirstView, saves |-> << >>, trans |-> FALSE,
                 tids |-> InitialRows, rows |-> InitialRows]
    /\ res = [keyset |-> [i \in 1 .. InitialRows |-> [tid |-> i, row |-> i, status |-> {}]],
              tuples |-> [i \in 1 .. InitialRows |-> i],
              ad_count |-> 0, rollback |-> << >>]
    /\ pc = "rest" /\ upto = 0
    /\ foreign = {} /\ caught = {} /\ kept = 1 .. InitialRows

Next ==
    \/ Begin \/ Add \/ Savepoint \/ FailStatement \/ Commit \/ Rollback \/ FindUndone \/ Undo
    \/ \E i \in Rows : Update(i) \/ Delete(i) \/ Fetch(i)
    \/ \E k \in 1 .. MaxSaves : RollbackTo(k)
    \/ \E r \in Rows : OtherUpdate(r) \/ OtherDelete(r)

Spec == Init /\ [][Next]_vars

-----------------------------------------------------------------------------
(* Properties.                                                             *)

\* After every change, COMMIT, ROLLBACK and ROLLBACK TO a row that is shown has
\* the tid of the version the server holds, or, when another session changed
\* the row, of a version that was committed: the next positioned UPDATE or
\* DELETE reaches this row or none, and never misses for a change the session
\* itself has taken back (UndoRollback, SC_pos_reload_with_key).  Of a row
\* changed between a ROLLBACK TO and the driver's questions about it only the
\* first holds: the driver takes its own undone change to stand.
KeysTrue ==
    Ready => \A i \in DOMAIN res.keyset :
        LET k == res.keyset[i] IN
        ~Hidden(k) =>
            /\ k.row \notin foreign => k.tid = server.view[k.row]
            /\ k.row \in foreign \ caught => k.tid \in kept \cup Current
            /\ \A r \in Rows \ {k.row} : k.tid \notin {server.view[r], server.base[r]}

\* Every row of the result that is in the table is shown: a row whose deletion
\* was taken back is no longer skipped, and an added row that stands is not
\* dropped from the keyset (the two scans of UndoRollback).  A row that another
\* session changed before the scans may stay skipped.
KeysComplete ==
    Ready => \A r \in Rows \ caught :
        server.view[r] # NoTid =>
            \E i \in DOMAIN res.keyset : res.keyset[i].row = r /\ ~Hidden(res.keyset[i])

=============================================================================
