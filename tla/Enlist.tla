------------------------------- MODULE Enlist -------------------------------
(***************************************************************************)
(* The driver as the resource manager of MSDTC (Windows): a connection     *)
(* handle is enlisted in a distributed transaction, and an IAsyncPG object *)
(* (a branch) carries the two-phase commit.  MSDTC's request threads call  *)
(* PrepareRequest, CommitRequest and AbortRequest; each starts a thread    *)
(* that does the work in RequestExec, while the application goes on using  *)
(* the handle.  When the two need the handle at once the branch gets a     *)
(* connection of its own: a new one (generateXAConn) once it is prepared,  *)
(* a copy of the handle's (isolateXAConn) before.                          *)
(*                                                                         *)
(* The coordinator is modelled from how the driver uses it: it asks for    *)
(* the vote once, and decides after it has it; it may abort an active      *)
(* branch at any time.  The reference counts of IAsyncPG and its short     *)
(* lock SLOCK, which guards single reads and assignments, are not.         *)
(*                                                                         *)
(* A connection may break under a command, before the server has executed  *)
(* it or after: that of the handle under those in Losses, one of the       *)
(* branch's own under any.                                                 *)
(***************************************************************************)
EXTENDS FiniteSets

CONSTANTS
    Branches,     \* the distributed transactions
    None,         \* no branch, and the holder of a free lock
    Other,        \* work that belongs to no branch (see Item)
    Waits,        \* does the application enlist again only when the transaction before
                  \* has been committed or is over?
    Losses        \* the commands under which the handle may lose its session

Items == Branches \cup {Other}

ASSUME EnlistAssumption ==
    /\ Branches # {} /\ None \notin Items /\ Other \notin Branches
    /\ Waits \in BOOLEAN
    /\ Losses \subseteq {"statement", "abort", "vote", "decision"}

VARIABLES
    handle,   \* the ConnectionClass the application uses
    sess,     \* its session at the server
    app,      \* what the application believes
    branch,   \* the IAsyncPG objects
    lock,     \* who holds ELOCK of each branch, CONN_CS and LIFELOCK
    thread,   \* where each thread is
    dtc,      \* the coordinator's side of each branch; history: was it ended, and
              \* was a command executed whose answer never came
    pg,       \* the prepared transactions of the server
    durable   \* the branches whose work the server has committed

vars == <<handle, sess, app, branch, lock, thread, dtc, pg, durable>>

App == <<"app", None>>
Request(b) == <<"request", b>>
Exec(b) == <<"exec", b>>
Threads == {App} \cup {Request(b) : b \in Branches} \cup {Exec(b) : b \in Branches}

\* A free lock has no holder.
ASSUME HolderAssumption == None \notin Threads

Calls == {"execute", "enlist", "leave", "disconnect", "connect"}
Pcs == {"idle",
        "examine", "enter", "request", "execute", "finish", "enlist", "start", "bind",
        "async", "leave", "dtc", "release", "disconnect", "connect",
        "separate", "generate", "isolate", "cleanup", "reconnect",
        "abort_elock", "abort_cs", "begin", "lock", "operate", "done", "answer", "record"}
Results == {"ok", "single", "fail"}

ThreadState ==
    [pc : Pcs, on : Branches \cup {None}, back : Pcs, keep : BOOLEAN,
     kind : Calls \cup {"prepare", "commit", "abort"}, res : Results]

(***************************************************************************)
(* The type invariant.                                                     *)
(***************************************************************************)
TypeOK ==
    /\ handle \in [asdum : Branches \cup {None}, progress : BOOLEAN, enlisted : BOOLEAN,
                   executing : BOOLEAN, auto : BOOLEAN, err : BOOLEAN]
    /\ sess \in [open : BOOLEAN, tx : {"idle", "open", "failed"}, work : SUBSET Items]
    /\ sess.tx # "open" => sess.work = {}
    /\ ~sess.open => sess.tx = "idle"
    /\ app \in [joined : Branches \cup {None}, linked : BOOLEAN,
                did : [Branches -> {"nothing", "work"}]]
    /\ branch \in [Branches -> [conn : {"none", "handle", "copy", "new", "own"},
                                trans : BOOLEAN, prepared : BOOLEAN, done : BOOLEAN,
                                result : Results]]
    /\ lock \in [e : [Branches -> Threads \cup {None}], cs : Threads \cup {None},
                 life : Threads \cup {None}]
    /\ thread \in [Threads -> ThreadState]
    /\ dtc \in [Branches -> [st : {"none", "active", "preparing", "ready", "over"},
                             decision : {"none", "commit", "single", "abort"},
                             answer : {"none", "voted no", "refused", "single",
                                       "committed", "aborted", "failed", "hazard"},
                             ended : BOOLEAN, lost : BOOLEAN]]
    /\ pg \in [Branches -> [st : {"none", "prepared", "committed", "aborted"},
                            work : SUBSET Items]]
    /\ durable \subseteq Branches

Closed == [open |-> FALSE, tx |-> "idle", work |-> {}]
Fresh == [open |-> TRUE, tx |-> "idle", work |-> {}]

\* What a command may leave the handle: one of these sessions, or none.
OrLost(command, sessions) == sessions \cup IF command \in Losses THEN {Closed} ELSE {}

Idle == [pc |-> "idle", on |-> None, back |-> "idle", keep |-> TRUE,
            kind |-> "execute", res |-> "ok"]

Init ==
    /\ handle = [asdum |-> None, progress |-> FALSE, enlisted |-> FALSE,
                 executing |-> FALSE, auto |-> TRUE, err |-> FALSE]
    /\ sess = Fresh
    /\ app = [joined |-> None, linked |-> TRUE, did |-> [b \in Branches |-> "nothing"]]
    /\ branch = [b \in Branches |-> [conn |-> "none", trans |-> FALSE, prepared |-> FALSE,
                                     done |-> FALSE, result |-> "ok"]]
    /\ lock = [e |-> [b \in Branches |-> None], cs |-> None, life |-> None]
    /\ thread = [t \in Threads |-> Idle]
    /\ dtc = [b \in Branches |-> [st |-> "none", decision |-> "none", answer |-> "none",
                                  ended |-> FALSE, lost |-> FALSE]]
    /\ pg = [b \in Branches |-> [st |-> "none", work |-> {}]]
    /\ durable = {}

At(t, pc) == thread[t].pc = pc
Go(t, pc) == thread' = [thread EXCEPT ![t].pc = pc]
Stop(t) == thread' = [thread EXCEPT ![t] = Idle]
Isolated(b) == branch[b].conn \in {"copy", "new", "own"}
NoLife == lock.life = None
InTrans == sess.tx # "idle"

\* Whose work a statement of the application is: the branch's that it joined, as long as
\* that branch uses the handle and has not been ended on it.  A statement it issues after
\* that, still believing in the branch, is nobody's, and so is one outside any branch.
Item == IF app.joined # None /\ handle.asdum = app.joined /\ ~dtc[app.joined].ended
        THEN app.joined ELSE Other

(***************************************************************************)
(* IsolateDtcConn and what it calls.  A thread enters at "separate", with  *)
(* the branch in "on", and returns to "back".                              *)
(***************************************************************************)
IdleInGlobalTransaction == handle.progress /\ ~handle.enlisted /\ ~handle.executing

IsolateDtcConn(t, next) ==
    \/ /\ handle.asdum # None /\ NoLife /\ IdleInGlobalTransaction
       /\ thread' = [thread EXCEPT ![t].pc = "separate", ![t].on = handle.asdum,
                                   ![t].back = next, ![t].keep = TRUE]
    \/ /\ handle.asdum # None => NoLife /\ ~IdleInGlobalTransaction
       /\ Go(t, next)

\* Only RequestExec holds the ELOCK of its branch when it separates, and keeps it.
Back(t) == thread' = [thread EXCEPT ![t].pc = thread[t].back, ![t].on = None,
                                    ![t].back = "idle", ![t].keep = TRUE]

Return(t) ==
    /\ lock' = [lock EXCEPT !.e = [b \in Branches |-> IF @[b] = t /\ t[1] # "exec" THEN None
                                                      ELSE @[b]]]
    /\ Back(t)

SeparateXAConn(t) ==
    LET b == thread[t].on IN
    /\ At(t, "separate")
    /\ IF Isolated(b) \/ branch[b].done \/ (~branch[b].prepared /\ branch[b].conn = "none")
       THEN Back(t)
       ELSE Go(t, IF branch[b].prepared THEN "generate" ELSE "isolate")
    /\ UNCHANGED <<handle, sess, app, branch, lock, dtc, pg, durable>>

\* ELOCK, then LIFELOCK
Lockable(t) == lock.e[thread[t].on] \in {None, t} /\ NoLife

\* The handle is the application's own again: SYNC_AUTOCOMMIT with the public setting
\* of SQL_AUTOCOMMIT_ON, and PgDtc_isolate clears asdum and gTranInfo.
HandleFreed == [handle EXCEPT !.asdum = None, !.auto = TRUE, !.progress = FALSE,
                              !.enlisted = FALSE, !.executing = FALSE]

GenerateXAConn(t) ==
    LET b == thread[t].on IN
    /\ At(t, "generate") /\ Lockable(t)
    /\ IF branch[b].conn # "none" /\ ~Isolated(b) /\ ~branch[b].done /\ branch[b].prepared
       THEN /\ branch' = [branch EXCEPT ![b].conn = "new"]
            /\ handle' = HandleFreed
       ELSE UNCHANGED <<branch, handle>>
    /\ Back(t)
    /\ UNCHANGED <<sess, app, lock, dtc, pg, durable>>

IsolateXAConn(t) ==
    LET b == thread[t].on IN
    /\ At(t, "isolate") /\ Lockable(t)
    /\ IF Isolated(b) \/ branch[b].done \/ branch[b].conn = "none"
       THEN Back(t) /\ UNCHANGED lock
       ELSE /\ lock' = [lock EXCEPT !.e[b] = t, !.life = t]
            /\ Go(t, "cleanup")
    /\ UNCHANGED <<handle, sess, app, branch, dtc, pg, durable>>

\* PgDtc_isolate without useAnotherRoom: CC_cleanup closes the session under CONN_CS,
\* the branch gets a copy of what is left, which still believes in its transaction,
\* and the handle is initialised anew.
IsolateHandle(t) ==
    LET b == thread[t].on IN
    /\ At(t, "cleanup") /\ lock.cs \in {None, t}
    /\ branch' = [branch EXCEPT ![b].conn = "copy", ![b].trans = InTrans]
    /\ sess' = Closed
    /\ handle' = [HandleFreed EXCEPT !.err = FALSE]
    /\ lock' = [lock EXCEPT !.life = None]
    /\ Go(t, "reconnect")
    /\ UNCHANGED <<app, dtc, pg, durable>>

\* PgDtc_connect of the handle, unless it is being disconnected.
ReconnectHandle(t) ==
    /\ At(t, "reconnect")
    /\ \/ thread[t].keep /\ ~sess.open /\ sess' = Fresh
       \/ UNCHANGED sess
    /\ Return(t)
    /\ UNCHANGED <<handle, app, branch, dtc, pg, durable>>

Separation(t) ==
    \/ SeparateXAConn(t) \/ GenerateXAConn(t) \/ IsolateXAConn(t)
    \/ IsolateHandle(t) \/ ReconnectHandle(t)

(***************************************************************************)
(* The application's calls.  Executing holds CONN_CS throughout; the calls *)
(* on the connection first look, without it, whether the branch should be  *)
(* separated (CC_examine_global_transaction).                              *)
(***************************************************************************)
Settled(b) == dtc[b].st \in {"none", "over"} \/ dtc[b].decision = "commit"

Call(kind) ==
    /\ At(App, "idle")
    /\ app.linked <=> kind # "connect"
    /\ kind = "enlist" => app.joined = None /\ (Waits => \A b \in Branches : Settled(b))
    /\ kind = "leave" => app.joined # None
    /\ thread' = [thread EXCEPT ![App] =
         [Idle EXCEPT !.pc = CASE kind = "execute" -> "enter" [] kind = "disconnect" -> "dtc"
                               [] OTHER -> "examine",
                      !.kind = kind]]
    /\ UNCHANGED <<handle, sess, app, branch, lock, dtc, pg, durable>>

Examine ==
    /\ At(App, "examine")
    /\ IsolateDtcConn(App, "enter")
    /\ UNCHANGED <<handle, sess, app, branch, lock, dtc, pg, durable>>

\* ENTER_CONN_CS; the calls on the connection then clear its error.
Enter ==
    LET kind == thread[App].kind IN
    /\ At(App, "enter") /\ lock.cs = None
    /\ lock' = [lock EXCEPT !.cs = App]
    /\ handle' = IF kind = "execute" THEN handle ELSE [handle EXCEPT !.err = FALSE]
    /\ thread' = [thread EXCEPT ![App] =
         [Idle EXCEPT !.pc = IF kind = "execute" THEN "request" ELSE kind]]
    /\ UNCHANGED <<sess, app, branch, dtc, pg, durable>>

LeaveCs == lock' = [lock EXCEPT !.cs = None] /\ Stop(App)

RequestStart ==
    /\ At(App, "request")
    /\ IsolateDtcConn(App, "execute")
    /\ UNCHANGED <<handle, sess, app, branch, lock, dtc, pg, durable>>

Did(b, what) == IF b \in Branches THEN [app EXCEPT !.did[b] = what] ELSE app

\* BEGIN when no transaction is open, and the statement.  A statement that fails
\* leaves the transaction failed, or as it was when a savepoint guarded it.  The
\* application counts on the work of a branch until a failure takes it.
Execute ==
    /\ At(App, "execute")
    /\ \/ /\ sess.open /\ sess.tx # "failed"
          /\ sess' = [sess EXCEPT !.tx = "open", !.work = @ \cup {Item}]
          /\ app' = Did(Item, "work")
          /\ UNCHANGED handle
       \/ /\ sess' \in OrLost("statement",
                   {sess, IF sess.open THEN [sess EXCEPT !.tx = "failed", !.work = {}] ELSE sess})
          /\ handle' = [handle EXCEPT !.err = TRUE]
          /\ app' = IF sess' = sess THEN app ELSE Did(Item, "nothing")
    /\ Go(App, "finish")
    /\ UNCHANGED <<branch, lock, dtc, pg, durable>>

\* In autocommit mode whatever transaction is open is committed (or, failed, ended).
Finish ==
    /\ At(App, "finish")
    /\ IF handle.auto /\ InTrans
       THEN durable' = durable \cup (sess.work \cap Branches) /\ sess' = Fresh
       ELSE UNCHANGED <<durable, sess>>
    /\ LeaveCs
    /\ UNCHANGED <<handle, app, branch, dtc, pg>>

\* SQLSetConnectAttr(SQL_ATTR_ENLIST_IN_DTC): isolate the branch before once more.
EnlistBegins ==
    /\ At(App, "enlist")
    /\ IsolateDtcConn(App, "start")
    /\ UNCHANGED <<handle, sess, app, branch, lock, dtc, pg, durable>>

\* The local transaction is aborted; the link with MSDTC may fail, or EnlistWithRM
\* makes the branch known, and from then on MSDTC may send requests for it.
EnlistInDtc(b) ==
    /\ At(App, "start")
    /\ sess' = IF sess.open THEN Fresh ELSE sess
    /\ \/ /\ \E err \in {TRUE, handle.err} : handle' = [handle EXCEPT !.err = err]
          /\ LeaveCs
          /\ UNCHANGED dtc
       \/ /\ dtc[b].st = "none"
          /\ dtc' = [dtc EXCEPT ![b].st = "active"]
          /\ thread' = [thread EXCEPT ![App].pc = "bind", ![App].on = b]
          /\ UNCHANGED <<handle, lock>>
    /\ UNCHANGED <<app, branch, pg, durable>>

SetConnection ==
    /\ At(App, "bind")
    /\ branch' = [branch EXCEPT ![thread[App].on].conn = "handle"]
    /\ Go(App, "async")
    /\ UNCHANGED <<handle, sess, app, lock, dtc, pg, durable>>

HandleEnlisted_Autocommit(b) == [handle EXCEPT !.asdum = b, !.progress = TRUE,
                                               !.enlisted = TRUE]
HandleEnlisted(b) == [handle EXCEPT !.asdum = b, !.auto = FALSE, !.progress = TRUE,
                                    !.enlisted = TRUE]

\* PgDtc_set_async: CC_set_autocommit(FALSE); then the enlisted flag.
SetAsync ==
    LET b == thread[App].on IN
    /\ At(App, "async") /\ NoLife
    /\ handle' = HandleEnlisted(b)
    /\ app' = [app EXCEPT !.joined = b]
    /\ LeaveCs
    /\ UNCHANGED <<sess, branch, dtc, pg, durable>>

\* SQLSetConnectAttr(SQL_ATTR_ENLIST_IN_DTC, NULL)
Leave ==
    /\ At(App, "leave")
    /\ handle' = [handle EXCEPT !.enlisted = FALSE]
    /\ app' = [app EXCEPT !.joined = None]
    /\ LeaveCs
    /\ UNCHANGED <<sess, branch, dtc, pg, durable>>

DtcOnDisconnect ==
    /\ At(App, "dtc")
    /\ handle.asdum # None => NoLife
    /\ IF handle.asdum = None THEN Go(App, "enter")
       ELSE thread' = [thread EXCEPT ![App].pc = "release", ![App].on = handle.asdum,
                                     ![App].back = "enter", ![App].keep = FALSE]
    /\ UNCHANGED <<handle, sess, app, branch, lock, dtc, pg, durable>>

Preparing(b) == thread[Exec(b)].pc # "idle" /\ thread[Exec(b)].kind = "prepare"

\* ReleaseConnection: it waits for the prepare thread, and at most two seconds for
\* the thread of a decision.
ReleaseConnection ==
    LET b == thread[App].on IN
    /\ At(App, "release")
    /\ branch[b].conn = "handle" => ~Preparing(b)
    /\ IF branch[b].conn = "handle" /\ ~branch[b].done /\ sess.open
       THEN Go(App, "isolate") ELSE Back(App)
    /\ UNCHANGED <<handle, sess, app, branch, lock, dtc, pg, durable>>

Disconnect ==
    /\ At(App, "disconnect")
    /\ sess' = Closed
    /\ handle' = [handle EXCEPT !.auto = TRUE]
    /\ app' = [app EXCEPT !.joined = None, !.linked = FALSE]
    /\ LeaveCs
    /\ UNCHANGED <<branch, dtc, pg, durable>>

Connect ==
    /\ At(App, "connect")
    /\ \/ sess' = Fresh /\ app' = [app EXCEPT !.linked = TRUE]
       \/ UNCHANGED <<sess, app>>
    /\ LeaveCs
    /\ UNCHANGED <<handle, branch, dtc, pg, durable>>

Application ==
    \/ \E kind \in Calls : Call(kind)
    \/ Examine \/ Enter \/ RequestStart \/ Execute \/ Finish
    \/ EnlistBegins \/ (\E b \in Branches : EnlistInDtc(b)) \/ SetConnection \/ SetAsync
    \/ Leave \/ DtcOnDisconnect \/ ReleaseConnection \/ Disconnect \/ Connect

(***************************************************************************)
(* MSDTC's requests.                                                       *)
(***************************************************************************)
Started(kind, res) == [Idle EXCEPT !.pc = "begin", !.kind = kind, !.res = res]

\* The application commits the distributed transaction, from any thread, once its call
\* to enlist has returned.  The answer is E_FAIL when the connection has an error.
PrepareRequest(b) ==
    /\ dtc[b].st = "active" /\ At(Request(b), "idle")
    /\ ~(thread[App].pc \in {"bind", "async"} /\ thread[App].on = b)
    /\ \E single \in BOOLEAN :
         /\ dtc' = [dtc EXCEPT ![b].st = "preparing",
                               ![b].decision = IF single THEN "single" ELSE @]
         /\ thread' = [thread EXCEPT ![Exec(b)] = Started("prepare",
              IF branch[b].conn = "handle" /\ handle.err THEN "fail"
              ELSE IF single THEN "single" ELSE "ok")]
    /\ UNCHANGED <<handle, sess, app, branch, lock, pg, durable>>

\* Refused while the prepare thread, which has answered, has not yet recorded that it
\* prepared: the branch stays prepared until MSDTC recovers it through the XA library.
CommitRequest(b) ==
    LET refused == ~branch[b].prepared \/ branch[b].done \/ branch[b].result # "ok" IN
    /\ dtc[b].st = "ready" /\ dtc[b].decision = "none"
    /\ dtc' = [dtc EXCEPT ![b].decision = "commit",
                          ![b].st = IF refused THEN "over" ELSE @,
                          ![b].answer = IF refused THEN "refused" ELSE @]
    /\ thread' = IF refused THEN thread
                 ELSE [thread EXCEPT ![Exec(b)] = Started("commit", "ok")]
    /\ UNCHANGED <<handle, sess, app, branch, lock, pg, durable>>

AbortRequest(b) ==
    /\ dtc[b].st \in {"active", "ready"} /\ dtc[b].decision = "none"
    /\ ~branch[b].done /\ (branch[b].prepared => branch[b].result = "ok")
    /\ dtc' = [dtc EXCEPT ![b].decision = "abort", ![b].st = "ready"]
    /\ Go(Request(b), "abort_elock")
    /\ UNCHANGED <<handle, sess, app, branch, lock, pg, durable>>

RolledBack == IF sess.open THEN Fresh ELSE sess

RollsBack_Prepared(b) == branch[b].prepared /\ branch[b].conn = "handle"
RollsBack(b) == ~branch[b].prepared /\ branch[b].conn = "handle"

\* CC_abort looks at the status of the transaction before it enters CONN_CS.
AbortLocked(b) ==
    /\ At(Request(b), "abort_elock") /\ lock.e[b] = None
    /\ dtc' = [dtc EXCEPT ![b].ended = TRUE]
    /\ IF RollsBack(b) /\ InTrans
       THEN /\ lock' = [lock EXCEPT !.e[b] = Request(b)]
            /\ handle' = [handle EXCEPT !.executing = TRUE]
            /\ Go(Request(b), "abort_cs")
       ELSE /\ thread' = [thread EXCEPT ![Request(b)].pc = "idle",
                                        ![Exec(b)] = Started("abort", "ok")]
            /\ UNCHANGED <<lock, handle>>
    /\ UNCHANGED <<sess, app, branch, pg, durable>>

AbortLocal(b) ==
    /\ At(Request(b), "abort_cs") /\ lock.cs = None
    /\ sess' \in OrLost("abort", {RolledBack})
    /\ handle' = [handle EXCEPT !.executing = FALSE]
    /\ lock' = [lock EXCEPT !.e[b] = None]
    /\ thread' = [thread EXCEPT ![Request(b)].pc = "idle",
                                ![Exec(b)] = Started("abort", "ok")]
    /\ UNCHANGED <<app, branch, dtc, pg, durable>>

(***************************************************************************)
(* RequestExec, under the branch's ELOCK.                                  *)
(***************************************************************************)
Begin(b) ==
    LET t == thread[Exec(b)] IN
    /\ At(Exec(b), "begin") /\ lock.e[b] = None
    \* An unexpected PrepareRequest is never answered.
    /\ IF t.kind = "prepare" /\ (branch[b].done \/ branch[b].conn = "none")
       THEN Stop(Exec(b)) /\ UNCHANGED lock
       ELSE /\ lock' = [lock EXCEPT !.e[b] = Exec(b)]
            /\ Go(Exec(b), IF t.kind = "abort" /\ (~branch[b].prepared \/ branch[b].done)
                           THEN "done" ELSE "lock")
    /\ UNCHANGED <<handle, sess, app, branch, dtc, pg, durable>>

\* COMMIT and ROLLBACK PREPARED have to be sent outside a transaction.
Usable(b) == ~branch[b].prepared \/ ~InTrans

\* getLockedXAConn: the handle with its CONN_CS, or else a connection of the branch's
\* own, connected when it has never been.
GetLockedXAConn(b) ==
    /\ At(Exec(b), "lock")
    /\ IF ~branch[b].done /\ branch[b].conn = "handle"
       THEN /\ UNCHANGED branch
            /\ IF Usable(b) /\ lock.cs = None
               THEN /\ lock' = [lock EXCEPT !.cs = Exec(b)]
                    /\ handle' = [handle EXCEPT !.executing = TRUE]
                    /\ Go(Exec(b), "operate")
               ELSE /\ thread' = [thread EXCEPT ![Exec(b)].pc = "separate",
                                                ![Exec(b)].on = b, ![Exec(b)].back = "lock"]
                    /\ UNCHANGED <<lock, handle>>
       ELSE /\ branch' \in {branch, IF branch[b].conn = "new"
                                    THEN [branch EXCEPT ![b].conn = "own"] ELSE branch}
            /\ Go(Exec(b), "operate")
            /\ UNCHANGED <<lock, handle>>
    /\ UNCHANGED <<sess, app, dtc, pg, durable>>

\* What became of the command: the result of the request, the session the handle is left
\* with, and what the server has prepared and committed.  A failure may be that of a
\* command the server has executed.
Ended(b, res, s, p, d) ==
    /\ thread' = [thread EXCEPT ![Exec(b)].res = res,
                                ![Exec(b)].pc = IF res = "ok" /\ thread[Exec(b)].kind = "prepare"
                                                THEN "answer" ELSE "done"]
    /\ dtc' = [dtc EXCEPT ![b].ended = TRUE,
                          ![b].lost = @ \/ (res = "fail" /\ (p # pg[b] \/ d # {}))]
    /\ sess' = s
    /\ pg' = [pg EXCEPT ![b] = p]
    /\ durable' = durable \cup (d \cap Branches)

OnHandle(b) == branch[b].conn = "handle"
Breaks(command) == command \in Losses \/ ~sess.open

\* CC_abort after an error
AbortGlobal(b) ==
    /\ thread[Exec(b)].res = "fail"
    /\ \/ \E s \in OrLost("vote", {RolledBack}) : OnHandle(b) /\ Ended(b, "fail", s, pg[b], {})
       \/ ~OnHandle(b) /\ Ended(b, "fail", sess, pg[b], {})

\* CC_commit succeeds when no transaction is open, and COMMIT of a failed one too.
OnePhaseCommit(b) ==
    /\ thread[Exec(b)].res = "single"
    /\ \/ OnHandle(b) /\ Ended(b, "single", RolledBack, pg[b], sess.work)
       \/ OnHandle(b) /\ sess.tx = "open" /\ Ended(b, "fail", RolledBack, pg[b], {})
       \/ /\ OnHandle(b) /\ InTrans /\ Breaks("vote")
          /\ \E work \in {{}, sess.work} : Ended(b, "fail", Closed, pg[b], work)
       \/ ~OnHandle(b) /\ Ended(b, IF branch[b].trans THEN "fail" ELSE "single", sess, pg[b], {})

\* PREPARE TRANSACTION of a failed transaction rolls back, of none does nothing, and
\* neither is an error.
Prepared(b) == IF sess.tx = "open" THEN [st |-> "prepared", work |-> sess.work] ELSE pg[b]

PrepareTransaction(b) ==
    /\ thread[Exec(b)].res = "ok"
    /\ \/ OnHandle(b) /\ sess.open /\ Ended(b, "ok", Fresh, Prepared(b), {})
       \/ OnHandle(b) /\ sess.tx = "open" /\ Ended(b, "fail", Fresh, pg[b], {})
       \/ /\ OnHandle(b) /\ Breaks("vote")
          /\ \E p \in {pg[b], Prepared(b)} : Ended(b, "fail", Closed, p, {})
       \/ ~OnHandle(b) /\ Ended(b, "fail", sess, pg[b], {})

\* COMMIT PREPARED or ROLLBACK PREPARED
Decided(b, how) ==
    LET known == pg[b].st = "prepared" /\ (branch[b].conn = "own" \/ (OnHandle(b) /\ sess.open))
        breaks == OnHandle(b) => Breaks("decision")
        left == IF OnHandle(b) THEN Closed ELSE sess
        p == [st |-> how, work |-> {}]
        work == IF how = "committed" THEN pg[b].work ELSE {}
    IN  \/ known /\ Ended(b, "ok", sess, p, work)
        \/ known /\ breaks /\ Ended(b, "fail", left, p, work)
        \/ breaks /\ Ended(b, "fail", left, pg[b], {})
        \/ ~known /\ Ended(b, "fail", sess, pg[b], {})

Operate(b) ==
    LET kind == thread[Exec(b)].kind IN
    /\ At(Exec(b), "operate")
    /\ \/ kind = "prepare" /\ (AbortGlobal(b) \/ OnePhaseCommit(b) \/ PrepareTransaction(b))
       \/ kind = "commit" /\ Decided(b, "committed")
       \/ kind = "abort" /\ Decided(b, "aborted")
    /\ lock' = [lock EXCEPT !.cs = IF @ = Exec(b) THEN None ELSE @]
    /\ handle' = IF lock.cs = Exec(b) THEN [handle EXCEPT !.executing = FALSE] ELSE handle
    /\ UNCHANGED <<app, branch>>

\* SetDone: the handle returns to its autocommit setting, without CONN_CS; a
\* connection of the branch's own is freed.
SetDone(b) ==
    /\ At(Exec(b), "done") /\ NoLife
    /\ branch' = [branch EXCEPT ![b].done = TRUE, ![b].conn = "none",
                               ![b].trans = FALSE]
    /\ handle' = IF OnHandle(b) THEN [handle EXCEPT !.asdum = None, !.auto = TRUE] ELSE handle
    /\ Go(Exec(b), "answer")
    /\ UNCHANGED <<sess, app, lock, dtc, pg, durable>>

ExecOver(b) == lock' = [lock EXCEPT !.e[b] = None] /\ Stop(Exec(b))

Verdict(b) ==
    LET t == thread[Exec(b)] IN
    IF t.kind = "prepare"
    THEN CASE t.res = "ok" -> "none" [] t.res = "single" -> "single" [] OTHER -> "voted no"
    ELSE IF t.res = "fail" THEN "failed"
    ELSE IF t.kind = "commit" THEN "committed" ELSE "aborted"

\* PrepareRequestDone, CommitRequestDone, AbortRequestDone
Answer(b) ==
    LET t == thread[Exec(b)] IN
    /\ At(Exec(b), "answer")
    /\ dtc' = [dtc EXCEPT ![b].answer = Verdict(b),
                          ![b].st = IF Verdict(b) = "none" THEN "ready" ELSE "over",
                          ![b].ended = TRUE]
    /\ IF t.kind = "prepare" THEN Go(Exec(b), "record") /\ UNCHANGED lock ELSE ExecOver(b)
    /\ UNCHANGED <<handle, sess, app, branch, pg, durable>>

\* SetPrepareResult comes after the answer.
SetPrepareResult(b) ==
    /\ At(Exec(b), "record")
    /\ branch' = [branch EXCEPT ![b].prepared = TRUE, ![b].result = thread[Exec(b)].res]
    /\ ExecOver(b)
    /\ UNCHANGED <<handle, sess, app, dtc, pg, durable>>

(***************************************************************************)
(* Recovery: for a branch whose request was refused or failed, MSDTC opens *)
(* a connection of its own through the XA library.                         *)
(***************************************************************************)
Recoverable(b) == dtc[b].answer \in {"refused", "failed"}

\* xa_commit or xa_rollback; a transaction the server does not know (42704) is a
\* heuristic hazard, and after any other error MSDTC tries again.
XaOutcome(b, how) ==
    /\ dtc' = [dtc EXCEPT ![b].answer = IF pg[b].st = "prepared" THEN how ELSE "hazard"]
    /\ pg' = IF pg[b].st = "prepared" THEN [pg EXCEPT ![b] = [st |-> how, work |-> {}]] ELSE pg
    /\ UNCHANGED <<handle, sess, app, branch, lock, thread>>

XaCommit(b) ==
    /\ Recoverable(b) /\ dtc[b].decision = "commit"
    /\ durable' = durable \cup (pg[b].work \cap Branches)
    /\ XaOutcome(b, "committed")

XaRollback(b) ==
    /\ Recoverable(b) /\ dtc[b].decision = "abort"
    /\ XaOutcome(b, "aborted")
    /\ UNCHANGED durable

Coordination(b) ==
    \/ PrepareRequest(b) \/ CommitRequest(b) \/ AbortRequest(b)
    \/ AbortLocked(b) \/ AbortLocal(b) \/ XaCommit(b) \/ XaRollback(b)

RequestExec(b) ==
    \/ Begin(b) \/ GetLockedXAConn(b) \/ Operate(b) \/ SetDone(b) \/ Answer(b)
    \/ SetPrepareResult(b)

Next ==
    \/ Application
    \/ \E b \in Branches : Coordination(b) \/ RequestExec(b)
    \/ \E t \in Threads : Separation(t)

Spec == Init /\ [][Next]_vars

-----------------------------------------------------------------------------
(***************************************************************************)
(* What a statement or a unit test does not show.                          *)
(***************************************************************************)

\* The work of a distributed transaction becomes durable only when MSDTC decided so,
\* whatever the application, the request threads and RequestExec do to the handle's
\* autocommit setting and its session meanwhile (SetDone, PgDtc_isolate).
OnlyOnCommit == \A b \in durable : dtc[b].decision \in {"commit", "single"}

\* What MSDTC is told is so: committed work is durable, aborted work is neither prepared
\* nor in a transaction that a later COMMIT of the handle could make durable, and work that
\* was voted for is prepared as long as it is not decided.  A vote of no is so too, but for
\* one: when the connection broke behind a PREPARE or COMMIT that the server has executed,
\* the driver takes it for a failure of the command (PgDtc_two_phase_operation, CC_commit).
OutcomeTruth ==
    \A b \in Branches :
        /\ dtc[b].answer \in {"committed", "single"} /\ app.did[b] = "work" => b \in durable
        /\ dtc[b].answer \in {"aborted", "voted no"} => b \notin sess.work
        /\ dtc[b].answer = "aborted" => pg[b].st # "prepared" /\ b \notin durable
        /\ dtc[b].answer = "voted no" /\ ~dtc[b].lost => pg[b].st # "prepared" /\ b \notin durable
        /\ dtc[b].st = "ready" /\ dtc[b].decision = "none" /\ app.did[b] = "work" =>
             pg[b].st = "prepared" /\ b \in pg[b].work

=============================================================================
