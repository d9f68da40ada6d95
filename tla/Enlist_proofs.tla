---------------------------- MODULE Enlist_proofs ----------------------------
(***************************************************************************)
(* What the driver's part in a distributed transaction guarantees for any  *)
(* number of branches: the work of a branch is made durable only by the    *)
(* decision of MSDTC, although the application's thread, MSDTC's request   *)
(* threads and the threads of RequestExec share one session.               *)
(*                                                                         *)
(* The argument.  At most one branch uses the handle's session, the one    *)
(* asdum points to (Using), because a handle that is enlisted again, or    *)
(* disconnected, has been separated from the branch before (Enlisting,     *)
(* Alone).  The work in the session's transaction is that branch's, and    *)
(* while it is there autocommit is off and the branch is neither prepared  *)
(* nor ended (Working).  Phase follows the threads of one branch through   *)
(* the two phases.                                                         *)
(*                                                                         *)
(* The last part follows the work of a branch from the statement that did  *)
(* it to the answer MSDTC gets (TruthInv), and proves the answer true.     *)
(***************************************************************************)
EXTENDS Enlist, TLAPS

Separating == {"separate", "generate", "isolate", "cleanup", "reconnect"}
AppPcs == {"idle", "examine", "enter", "request", "execute", "finish", "enlist", "start",
           "bind", "async", "leave", "dtc", "release", "disconnect", "connect"}
InExec == {"lock", "operate", "done", "answer", "record"} \cup Separating

\* The branch works on the session of the handle.
Uses(b) == branch[b].conn = "handle" /\ ~branch[b].done

-----------------------------------------------------------------------------
(***************************************************************************)
(* The inductive invariant.                                                *)
(***************************************************************************)

\* The type invariant in parts, one for each variable.
HandleOK == handle \in [asdum : Branches \cup {None}, progress : BOOLEAN, enlisted : BOOLEAN,
                        executing : BOOLEAN, auto : BOOLEAN, err : BOOLEAN]
SessOK == /\ sess \in [open : BOOLEAN, tx : {"idle", "open", "failed"}, work : SUBSET Items]
          /\ sess.tx # "open" => sess.work = {}
          /\ ~sess.open => sess.tx = "idle"
AppOK == app \in [joined : Branches \cup {None}, linked : BOOLEAN,
                  did : [Branches -> {"nothing", "work"}]]
BranchOK == branch \in [Branches -> [conn : {"none", "handle", "copy", "new", "own"},
                                     trans : BOOLEAN, prepared : BOOLEAN, done : BOOLEAN,
                                     result : Results]]
LockOK == lock \in [e : [Branches -> Threads \cup {None}], cs : Threads \cup {None},
                    life : Threads \cup {None}]
DtcState == [st : {"none", "active", "preparing", "ready", "over"},
             decision : {"none", "commit", "single", "abort"},
             answer : {"none", "voted no", "refused", "single",
                       "committed", "aborted", "failed", "hazard"},
             ended : BOOLEAN, lost : BOOLEAN]
DtcOK == dtc \in [Branches -> DtcState]
PgOK == pg \in [Branches -> [st : {"none", "prepared", "committed", "aborted"},
                             work : SUBSET Items]]

\* Of the application's thread also that it is in a call of the application.
ThreadOK == thread \in [Threads -> ThreadState] /\ thread[App].kind \in Calls
Typed == /\ HandleOK /\ SessOK /\ AppOK /\ BranchOK /\ LockOK /\ ThreadOK /\ DtcOK /\ PgOK
         /\ durable \subseteq Branches

\* Where the application's thread is, what it then knows, and that it holds CONN_CS
\* except while it examines the branch, separates before it enters, or is idle.
AppPlace ==
    LET t == thread[App] IN
    /\ t.pc \in AppPcs \cup Separating
    /\ t.kind \in Calls
    /\ t.pc \in {"bind", "async", "release"} \cup Separating => t.on \in Branches
    /\ t.pc \in Separating => t.back \in {"enter", "execute", "start"}
    /\ t.pc = "release" => t.back = "enter"
    /\ t.pc = "examine" => t.kind # "disconnect"
    /\ t.pc \in {"dtc", "release"} => t.kind = "disconnect"
    /\ \/ t.pc \in {"request", "execute", "finish", "enlist", "start", "bind", "async",
                    "leave", "disconnect", "connect"}
       \/ t.pc \in Separating /\ t.back \in {"execute", "start"}
       => lock.cs = App /\ t.kind = "execute"

\* What the threads of one branch are doing in which phase of its commit.  ELOCK keeps
\* RequestExec and AbortRequest apart.
Kinds(b) ==
    LET t == thread[Exec(b)] IN
    \/ /\ t.kind = "prepare" /\ ~branch[b].prepared
       /\ IF t.pc = "record" THEN dtc[b].st \in {"ready", "over"} ELSE dtc[b].st = "preparing"
       /\ t.res = "single" => dtc[b].decision = "single"
    \/ /\ t.kind = "commit" /\ branch[b].prepared /\ t.pc # "record"
       /\ dtc[b].st = "ready" /\ dtc[b].decision = "commit"
    \/ /\ t.kind = "abort" /\ t.pc # "record"
       /\ dtc[b].st = "ready" /\ dtc[b].decision = "abort" /\ dtc[b].ended
       /\ thread[Request(b)].pc = "idle"
       /\ t.pc \in {"lock", "operate"} \cup Separating => branch[b].prepared

Phase(b) ==
    LET t == thread[Exec(b)]
        r == thread[Request(b)] IN
    /\ t.pc \in {"idle", "begin"} \cup InExec
    /\ r.pc \in {"idle", "abort_elock", "abort_cs"}
    /\ t.pc \in InExec => lock.e[b] = Exec(b)
    /\ r.pc = "abort_cs" => lock.e[b] = Request(b) /\ dtc[b].ended
    /\ t.pc \in Separating => t.on = b /\ t.back = "lock"
    /\ t.pc # "idle" => Kinds(b)
    /\ r.pc # "idle" => /\ dtc[b].st = "ready" /\ dtc[b].decision = "abort"
                        /\ ~branch[b].done /\ t.pc \in {"idle", "record"}
    /\ dtc[b].st \in {"none", "active"} =>
         /\ dtc[b].decision = "none" /\ ~dtc[b].ended
         /\ ~branch[b].prepared /\ ~branch[b].done /\ t.pc = "idle"
    /\ t.pc = "begin" /\ t.kind # "prepare" => ~branch[b].done
    /\ t.pc \in {"lock", "operate", "done"} \cup Separating => ~branch[b].done
    /\ t.pc \in {"done", "answer", "record"} => dtc[b].ended
    /\ branch[b].prepared \/ branch[b].done => dtc[b].ended
    /\ dtc[b].st = "ready" /\ dtc[b].decision # "abort" => dtc[b].ended

\* The session was lost under the branch's vote, and RequestExec has yet to leave the handle.
Losing(b) == thread[Exec(b)].pc = "done" /\ thread[Exec(b)].kind = "prepare"

\* A branch that uses the handle is the one the handle belongs to, and no call of the
\* application is beyond the point where it should have been separated.
Using(b) ==
    LET t == thread[App] IN
    Uses(b) =>
      /\ sess.open \/ Losing(b)
      /\ t.pc \notin {"start", "bind", "disconnect"}
      /\ ~(t.pc = "enter" /\ t.kind = "disconnect")
      /\ IF t.pc = "async" THEN b = t.on ELSE handle.asdum = b
      /\ t.pc \in {"release"} \cup Separating => b = t.on
      /\ t.pc # "async" /\ app.joined = None => ~handle.enlisted

Enlisting ==
    LET t == thread[App] IN
    \/ t.pc \in {"enlist", "start", "bind", "async"}
    \/ t.pc \in Separating /\ t.back = "start"
    \/ t.pc \in {"examine", "enter"} \cup Separating /\ t.kind = "enlist"

\* While the application enlists, the transactions before are decided or over; the flag
\* `executing` is on only while a thread of some branch works on the handle.
Alone ==
    /\ Enlisting =>
         /\ app.joined = None
         /\ \A b \in Branches : \/ Settled(b)
                                \/ thread[App].pc \in {"bind", "async"} /\ b = thread[App].on
    /\ handle.asdum # None => handle.progress
    /\ handle.executing => \E b \in Branches : \/ lock.cs = Exec(b)
                                               \/ thread[Request(b)].pc = "abort_cs"

\* The branch that is being enlisted.
Binding ==
    LET t == thread[App] IN
    /\ t.pc = "bind" => sess.open
    /\ t.pc \in {"bind", "async"} /\ ~dtc[t.on].ended => thread[Exec(t.on)].pc = "idle"
    /\ t.pc = "async" /\ ~dtc[t.on].ended => Uses(t.on)
    /\ t.pc = "reconnect" => ~Uses(t.on)

\* LIFELOCK protects the choice made by isolateXAConn until the handle is isolated.
Parting ==
    \A t \in Threads :
        /\ thread[t].pc = "cleanup" => lock.life = t /\ Uses(thread[t].on)
        /\ thread[t].pc = "generate" => branch[thread[t].on].prepared

\* Whose work is where.
Working(b) ==
    /\ b \in sess.work =>
         /\ Uses(b) /\ handle.asdum = b /\ thread[App].pc # "async"
         /\ ~branch[b].prepared /\ ~handle.auto
         /\ dtc[b].ended => thread[Request(b)].pc = "abort_cs"
    /\ app.joined = b /\ handle.asdum = b /\ ~dtc[b].ended => Uses(b) /\ ~handle.auto
    /\ pg[b].work \cap Branches \subseteq {b}
    /\ b \in durable => dtc[b].decision \in {"commit", "single"}

Sharing ==
    /\ AppPlace /\ Alone /\ Binding /\ Parting
    /\ \A b \in Branches : Phase(b) /\ Using(b) /\ Working(b)

EnlistInv == Typed /\ Sharing

\* The handle loses its session only under the command of a vote.  (When it is lost under
\* another one, ReleaseConnection, which looks whether the handle is connected, does not
\* separate it from its branch.)
Steady == Losses \subseteq {"vote"}

\* EnlistInDtc does not look at the status of the connection (msdtc_enlist.cpp:1286-1314):
\* that a handle is enlisted only while it is connected is up to the application.
EnlistsConnected == At(App, "start") => sess.open

-----------------------------------------------------------------------------
(***************************************************************************)
(* The threads.                                                            *)
(***************************************************************************)

\* The application's thread, MSDTC's request threads and the threads of RequestExec are
\* all different, and none of them is the holder of a free lock.
LEMMA Distinct ==
    /\ App \in Threads /\ App # None /\ App[1] = "app"
    /\ \A b \in Branches :
         /\ Exec(b) \in Threads /\ Exec(b) # None /\ Exec(b) # App /\ Exec(b)[1] = "exec"
         /\ Request(b) \in Threads /\ Request(b) # None /\ Request(b) # App
         /\ \A c \in Branches : Exec(b) # Request(c)
                                /\ (b # c => Exec(b) # Exec(c) /\ Request(b) # Request(c))
    /\ \A t \in Threads : t = App \/ \E b \in Branches : t = Exec(b) \/ t = Request(b)
    /\ \A b \in Branches : b # None
BY HolderAssumption, EnlistAssumption DEF Threads, App, Exec, Request, Items

-----------------------------------------------------------------------------
(***************************************************************************)
(* The type invariant.                                                     *)
(***************************************************************************)
LEMMA TypedTypeOK == Typed => TypeOK
BY Zenon DEF Typed, TypeOK, HandleOK, SessOK, AppOK, BranchOK, LockOK, ThreadOK, DtcOK, DtcState, PgOK

\* What a step leaves alone keeps its type.
LEMMA Untouched ==
    ASSUME Typed
    PROVE  /\ handle' = handle => HandleOK'
           /\ sess' = sess => SessOK'
           /\ app' = app => AppOK'
           /\ branch' = branch => BranchOK'
           /\ lock' = lock => LockOK'
           /\ thread' = thread => ThreadOK'
           /\ dtc' = dtc => DtcOK'
           /\ pg' = pg => PgOK'
           /\ durable' = durable => durable' \subseteq Branches
<1>1. handle' = handle => HandleOK'
  BY DEF Typed, HandleOK
<1>2. sess' = sess => SessOK'
  BY DEF Typed, SessOK
<1>3. app' = app => AppOK'
  BY DEF Typed, AppOK
<1>4. branch' = branch => BranchOK'
  BY DEF Typed, BranchOK
<1>5. lock' = lock => LockOK'
  BY DEF Typed, LockOK
<1>6. thread' = thread => ThreadOK'
  BY DEF Typed, ThreadOK
<1>7. dtc' = dtc => DtcOK'
  BY DEF Typed, DtcOK, DtcState
<1>8. pg' = pg => PgOK'
  BY DEF Typed, PgOK
<1> QED BY <1>1, <1>2, <1>3, <1>4, <1>5, <1>6, <1>7, <1>8 DEF Typed

LEMMA SessKept ==
    ASSUME Typed, sess' \in {sess, Fresh, Closed}
    PROVE  SessOK'
<1>1. CASE sess' = sess
  BY <1>1, Untouched
<1>2. CASE sess' = Fresh
  BY <1>2 DEF SessOK, Fresh
<1>3. CASE sess' = Closed
  BY <1>3 DEF SessOK, Closed
<1> QED BY <1>1, <1>2, <1>3

LEMMA DtcSet ==
    ASSUME Typed, NEW b \in Branches, NEW x \in DtcState, dtc' = [dtc EXCEPT ![b] = x]
    PROVE  DtcOK'
BY DEF Typed, DtcOK

LEMMA IdleTyped == Idle \in ThreadState /\ Idle.kind \in Calls
BY DEF Idle, ThreadState, Pcs, Calls, Results

LEMMA StateTyped ==
    ASSUME NEW x \in ThreadState
    PROVE  /\ x.pc \in Pcs /\ x.back \in Pcs /\ x.on \in Branches \cup {None}
           /\ x.res \in Results
           /\ \A pc \in Pcs : /\ [x EXCEPT !.pc = pc] \in ThreadState
                              /\ [x EXCEPT !.pc = pc].kind = x.kind
           /\ \A pc \in Pcs, on \in Branches \cup {None} :
                /\ [x EXCEPT !.pc = pc, !.on = on] \in ThreadState
                /\ [x EXCEPT !.pc = pc, !.on = on].kind = x.kind
BY DEF ThreadState

LEMMA ResTyped ==
    ASSUME NEW x \in ThreadState, NEW pc \in Pcs, NEW res \in Results
    PROVE  [x EXCEPT !.res = res, !.pc = pc] \in ThreadState
BY DEF ThreadState

LEMMA SetTyped ==
    ASSUME Typed, NEW t \in Threads, NEW x \in ThreadState, t = App => x.kind \in Calls,
           thread' = [thread EXCEPT ![t] = x]
    PROVE  ThreadOK'
BY Distinct DEF Typed, ThreadOK

LEMMA ThreadTyped ==
    ASSUME Typed, NEW t \in Threads
    PROVE  thread[t] \in ThreadState
BY DEF Typed, ThreadOK

LEMMA GoTyped ==
    ASSUME Typed, NEW t \in Threads, NEW pc \in Pcs, Go(t, pc)
    PROVE  ThreadOK'
<1> DEFINE x == [thread[t] EXCEPT !.pc = pc]
<1>1. x \in ThreadState /\ x.kind = thread[t].kind
  BY ThreadTyped, StateTyped
<1>2. thread' = [thread EXCEPT ![t] = x]
  BY DEF Go
<1> QED BY <1>1, <1>2, SetTyped DEF Typed, ThreadOK

LEMMA BackTyped ==
    ASSUME Typed, NEW t \in Threads, Back(t)
    PROVE  ThreadOK'
<1> DEFINE x == [thread[t] EXCEPT !.pc = thread[t].back, !.on = None, !.back = "idle",
                                  !.keep = TRUE]
<1>1. thread[t].back \in Pcs /\ "idle" \in Pcs
  BY ThreadTyped, StateTyped DEF Pcs
<1>2. x \in ThreadState /\ x.kind = thread[t].kind
  <2>1. thread[t] \in ThreadState /\ None \in Branches \cup {None}
    BY ThreadTyped
  <2>2. x \in ThreadState
    BY <1>1, <2>1 DEF ThreadState
  <2>3. x.kind = thread[t].kind
    BY <2>1 DEF ThreadState
  <2> QED BY <2>2, <2>3
<1>3. thread' = [thread EXCEPT ![t] = x]
  BY DEF Back
<1> QED BY <1>2, <1>3, SetTyped DEF Typed, ThreadOK

LEMMA SeparateTyped ==
    ASSUME Typed, NEW next \in Pcs, IsolateDtcConn(App, next)
    PROVE  ThreadOK'
<1>1. CASE Go(App, next)
  BY <1>1, GoTyped, Distinct
<1>2. CASE thread' = [thread EXCEPT ![App].pc = "separate", ![App].on = handle.asdum,
                                    ![App].back = next, ![App].keep = TRUE]
  <2> DEFINE x == [thread[App] EXCEPT !.pc = "separate", !.on = handle.asdum,
                                      !.back = next, !.keep = TRUE]
  <2>1. handle.asdum \in Branches \cup {None} /\ "separate" \in Pcs
    BY DEF Typed, HandleOK, Pcs
  <2>2. thread[App] \in ThreadState
    BY ThreadTyped, Distinct
  <2>4. x \in ThreadState
    BY <2>1, <2>2 DEF ThreadState
  <2>5. x.kind = thread[App].kind
    BY <2>2 DEF ThreadState
  <2>3. thread' = [thread EXCEPT ![App] = x]
    BY <1>2
  <2> QED BY <2>3, <2>4, <2>5, SetTyped, Distinct DEF Typed, ThreadOK
<1> QED BY <1>1, <1>2 DEF IsolateDtcConn

\* Every step keeps the types.
LEMMA StartTyped ==
    ASSUME NEW kind \in {"prepare", "commit", "abort"}, NEW res \in Results
    PROVE  Started(kind, res) \in ThreadState
BY DEF Started, Idle, ThreadState, Pcs, Results

LEMMA OperateTyped ==
    ASSUME Typed, NEW b \in Branches, Operate(b)
    PROVE  Typed'
<1>0. InTrans \in BOOLEAN /\ RolledBack \in {sess, Fresh} /\ "ok" \in Results
      /\ "fail" \in Results /\ "single" \in Results
      /\ sess.work \in SUBSET Items /\ pg[b].work \in SUBSET Items
      /\ pg[b] \in [st : {"none", "prepared", "committed", "aborted"}, work : SUBSET Items]
  BY DEF InTrans, RolledBack, Typed, SessOK, PgOK, Results
<1>1. \E res \in Results, s \in {sess, Fresh, Closed} : \E p, d : Ended(b, res, s, p, d)
          /\ p \in [st : {"none", "prepared", "committed", "aborted"}, work : SUBSET Items]
  <2>0. Prepared(b) \in [st : {"none", "prepared", "committed", "aborted"}, work : SUBSET Items]
    BY <1>0 DEF Prepared
  <2>1. CASE AbortGlobal(b)
    BY <1>0, <2>1 DEF AbortGlobal, OrLost
  <2>2. CASE OnePhaseCommit(b)
    BY <1>0, <2>2 DEF OnePhaseCommit
  <2>3. CASE PrepareTransaction(b)
    BY <1>0, <2>0, <2>3 DEF PrepareTransaction
  <2>4. CASE \E how \in {"committed", "aborted"} : Decided(b, how)
    BY <1>0, <2>4 DEF Decided
  <2> QED BY <2>1, <2>2, <2>3, <2>4 DEF Operate
<1>2. PICK res \in Results, s \in {sess, Fresh, Closed} : \E p, d : Ended(b, res, s, p, d)
          /\ p \in [st : {"none", "prepared", "committed", "aborted"}, work : SUBSET Items]
  BY <1>1
<1>2a. PICK p, d : Ended(b, res, s, p, d)
          /\ p \in [st : {"none", "prepared", "committed", "aborted"}, work : SUBSET Items]
  BY <1>2
<1>3. ThreadOK'
  <2>1. PICK pc \in {"answer", "done"} :
            thread' = [thread EXCEPT ![Exec(b)].res = res, ![Exec(b)].pc = pc]
    BY <1>2a DEF Ended
  <2> DEFINE x == [thread[Exec(b)] EXCEPT !.res = res, !.pc = pc]
  <2>2. thread[Exec(b)] \in ThreadState /\ pc \in Pcs
    BY ThreadTyped, Distinct DEF Pcs
  <2>3. x \in ThreadState
    BY <2>2 DEF ThreadState
  <2>4. thread' = [thread EXCEPT ![Exec(b)] = x]
    BY <2>1
  <2> QED BY <2>3, <2>4, SetTyped, Distinct
<1>4. SessOK'
  BY <1>2a, SessKept DEF Ended
<1>5. PgOK' /\ durable' \subseteq Branches
  BY <1>2a DEF Ended, Typed, PgOK
<1>6. DtcOK'
  <2>1. PICK lost \in BOOLEAN :
            dtc' = [dtc EXCEPT ![b].ended = TRUE, ![b].lost = lost]
    BY <1>2a DEF Ended, Typed, DtcOK, DtcState
  <2> QED BY ZenonT(40), <2>1 DEF Typed, DtcOK, DtcState
<1>7. LockOK'
  BY DEF Operate, Typed, LockOK
<1>8. HandleOK'
  BY DEF Operate, Typed, HandleOK
<1> QED BY <1>3, <1>4, <1>5, <1>6, <1>7, <1>8, Untouched DEF Operate, Typed

LEMMA TypedStep ==
    ASSUME Typed, [Next]_vars
    PROVE  Typed'
<1>1. ASSUME NEW kind \in Calls, Call(kind) PROVE Typed'
  <2>1. ThreadOK'
    <3>1. [Idle EXCEPT !.pc = CASE kind = "execute" -> "enter" [] kind = "disconnect" -> "dtc"
                                [] OTHER -> "examine",
                       !.kind = kind] \in ThreadState
      BY IdleTyped DEF ThreadState, Idle, Pcs, Calls
    <3> QED BY <1>1, <3>1, SetTyped, Distinct DEF Call, Idle
  <2> QED BY <1>1, <2>1, Untouched DEF Call, Typed
<1>2. ASSUME Examine PROVE Typed'
  <2>1. ThreadOK'
    BY <1>2, SeparateTyped DEF Examine, Pcs
  <2> QED BY <1>2, <2>1, Untouched DEF Examine, Typed
<1>3. ASSUME Enter PROVE Typed'
  <2>1. ThreadOK'
    <3>1. thread[App].kind \in Calls
      BY DEF Typed, ThreadOK
    <3> DEFINE x == [Idle EXCEPT !.pc = IF thread[App].kind = "execute" THEN "request"
                                         ELSE thread[App].kind]
    <3>2. x \in ThreadState /\ x.kind \in Calls
      BY ZenonT(40), <3>1, IdleTyped DEF ThreadState, Idle, Pcs, Calls
    <3>3. thread' = [thread EXCEPT ![App] = x]
      BY <1>3 DEF Enter
    <3> QED BY <3>2, <3>3, SetTyped, Distinct
  <2>2. LockOK'
    BY <1>3, Distinct DEF Enter, Typed, LockOK
  <2>3. HandleOK'
    BY <1>3 DEF Enter, Typed, HandleOK
  <2> QED BY <1>3, <2>1, <2>2, <2>3, Untouched DEF Enter, Typed
<1>4. ASSUME RequestStart PROVE Typed'
  <2>1. ThreadOK'
    BY <1>4, SeparateTyped DEF RequestStart, Pcs
  <2> QED BY <1>4, <2>1, Untouched DEF RequestStart, Typed
<1>5. ASSUME Execute PROVE Typed'
  <2>1. ThreadOK'
    BY <1>5, GoTyped, Distinct DEF Execute, Pcs
  <2>2. SessOK'
    <3>1. SessOK /\ Item \in Items
      BY DEF Typed, AppOK, Item, Items
    <3>2. CASE sess' = [sess EXCEPT !.tx = "open", !.work = @ \cup {Item}] /\ sess.open
      BY <3>1, <3>2 DEF SessOK
    <3>3. CASE sess' = [sess EXCEPT !.tx = "failed", !.work = {}] /\ sess.open
      BY <3>1, <3>3 DEF SessOK
    <3>4. CASE sess' \in {sess, Closed}
      BY <3>4, SessKept
    <3> QED BY <1>5, <3>2, <3>3, <3>4 DEF Execute, OrLost
  <2>3. AppOK'
    BY <1>5 DEF Execute, Did, Typed, AppOK
  <2>4. HandleOK'
    BY <1>5 DEF Execute, Typed, HandleOK
  <2> QED BY <1>5, <2>1, <2>2, <2>3, <2>4, Untouched DEF Execute, Typed
<1>6. ASSUME Finish PROVE Typed'
  <2>1. ThreadOK'
    BY <1>6, SetTyped, IdleTyped, Distinct DEF Finish, LeaveCs, Stop
  <2>2. SessOK'
    BY <1>6, SessKept DEF Finish
  <2>3. LockOK'
    BY <1>6, Distinct DEF Finish, LeaveCs, Typed, LockOK
  <2>4. durable' \subseteq Branches
    BY <1>6 DEF Finish, Typed
  <2> QED BY <1>6, <2>1, <2>2, <2>3, <2>4, Untouched DEF Finish, Typed
<1>7. ASSUME EnlistBegins PROVE Typed'
  <2>1. ThreadOK'
    BY <1>7, SeparateTyped DEF EnlistBegins, Pcs
  <2> QED BY <1>7, <2>1, Untouched DEF EnlistBegins, Typed
<1>8. ASSUME NEW b \in Branches, EnlistInDtc(b) PROVE Typed'
  <2>1. ThreadOK'
    <3>1. thread[App] \in ThreadState /\ "bind" \in Pcs /\ b \in Branches \cup {None}
      BY ThreadTyped, Distinct DEF Pcs
    <3>2. CASE Stop(App)
      BY <3>2, SetTyped, IdleTyped, Distinct DEF Stop
    <3>3. CASE thread' = [thread EXCEPT ![App].pc = "bind", ![App].on = b]
      <4> DEFINE x == [thread[App] EXCEPT !.pc = "bind", !.on = b]
      <4>1. x \in ThreadState
        BY <3>1 DEF ThreadState
      <4>2. x.kind = thread[App].kind
        BY <3>1 DEF ThreadState
      <4>3. thread' = [thread EXCEPT ![App] = x]
        BY <3>3
      <4> QED BY <4>1, <4>2, <4>3, SetTyped, Distinct DEF Typed, ThreadOK
    <3> QED BY <1>8, <3>2, <3>3 DEF EnlistInDtc, LeaveCs
  <2>2. SessOK'
    BY <1>8, SessKept DEF EnlistInDtc
  <2>3. HandleOK'
    BY <1>8 DEF EnlistInDtc, Typed, HandleOK
  <2>4. LockOK'
    BY <1>8, Distinct DEF EnlistInDtc, LeaveCs, Typed, LockOK
  <2>5. DtcOK'
    <3>1. CASE dtc' = [dtc EXCEPT ![b].st = "active"]
      BY ZenonT(40), <3>1 DEF Typed, DtcOK, DtcState
    <3> QED BY <1>8, <3>1, Untouched DEF EnlistInDtc
  <2> QED BY <1>8, <2>1, <2>2, <2>3, <2>4, <2>5, Untouched DEF EnlistInDtc, LeaveCs, Typed
<1>9. ASSUME SetConnection PROVE Typed'
  <2>1. ThreadOK'
    BY <1>9, GoTyped, Distinct DEF SetConnection, Pcs
  <2>2. BranchOK'
    BY <1>9, ThreadTyped, StateTyped DEF SetConnection, Typed, BranchOK
  <2> QED BY <1>9, <2>1, <2>2, Untouched DEF SetConnection, Typed
<1>10. ASSUME SetAsync PROVE Typed'
  <2>1. ThreadOK'
    BY <1>10, SetTyped, IdleTyped, Distinct DEF SetAsync, LeaveCs, Stop
  <2>2. HandleOK'
    BY <1>10, ThreadTyped, StateTyped, Distinct DEF SetAsync, HandleEnlisted, Typed, HandleOK
  <2>3. AppOK'
    BY <1>10, ThreadTyped, StateTyped, Distinct DEF SetAsync, ThreadState, Typed, AppOK
  <2>4. LockOK'
    BY <1>10, Distinct DEF SetAsync, LeaveCs, Typed, LockOK
  <2> QED BY <1>10, <2>1, <2>2, <2>3, <2>4, Untouched DEF SetAsync, Typed
<1>11. ASSUME Leave PROVE Typed'
  <2>1. ThreadOK'
    BY <1>11, SetTyped, IdleTyped, Distinct DEF Leave, LeaveCs, Stop
  <2>2. HandleOK'
    BY <1>11 DEF Leave, Typed, HandleOK
  <2>3. AppOK'
    BY <1>11 DEF Leave, Typed, AppOK
  <2>4. LockOK'
    BY <1>11, Distinct DEF Leave, LeaveCs, Typed, LockOK
  <2> QED BY <1>11, <2>1, <2>2, <2>3, <2>4, Untouched DEF Leave, Typed
<1>12. ASSUME DtcOnDisconnect PROVE Typed'
  <2>1. ThreadOK'
    <3>1. handle.asdum \in Branches \cup {None} /\ "enter" \in Pcs /\ "release" \in Pcs
          /\ thread[App] \in ThreadState
      BY ThreadTyped, Distinct DEF Typed, HandleOK, Pcs
    <3>2. CASE Go(App, "enter")
      BY <3>1, <3>2, GoTyped, Distinct
    <3>3. CASE thread' = [thread EXCEPT ![App].pc = "release", ![App].on = handle.asdum,
                                        ![App].back = "enter", ![App].keep = FALSE]
      <4> DEFINE x == [thread[App] EXCEPT !.pc = "release", !.on = handle.asdum,
                                          !.back = "enter", !.keep = FALSE]
      <4>1. x \in ThreadState
        BY <3>1 DEF ThreadState
      <4>2. x.kind = thread[App].kind
        BY <3>1 DEF ThreadState
      <4>3. thread' = [thread EXCEPT ![App] = x]
        BY <3>3
      <4> QED BY <4>1, <4>2, <4>3, SetTyped, Distinct DEF Typed, ThreadOK
    <3> QED BY <1>12, <3>2, <3>3 DEF DtcOnDisconnect
  <2> QED BY <1>12, <2>1, Untouched DEF DtcOnDisconnect, Typed
<1>13. ASSUME ReleaseConnection PROVE Typed'
  <2>1. ThreadOK'
    BY <1>13, GoTyped, BackTyped, Distinct DEF ReleaseConnection, Pcs
  <2> QED BY <1>13, <2>1, Untouched DEF ReleaseConnection, Typed
<1>14. ASSUME Disconnect PROVE Typed'
  <2>1. ThreadOK'
    BY <1>14, SetTyped, IdleTyped, Distinct DEF Disconnect, LeaveCs, Stop
  <2>2. SessOK'
    BY <1>14, SessKept DEF Disconnect
  <2>3. HandleOK'
    BY <1>14 DEF Disconnect, Typed, HandleOK
  <2>4. AppOK'
    BY <1>14 DEF Disconnect, Typed, AppOK
  <2>5. LockOK'
    BY <1>14, Distinct DEF Disconnect, LeaveCs, Typed, LockOK
  <2> QED BY <1>14, <2>1, <2>2, <2>3, <2>4, <2>5, Untouched DEF Disconnect, Typed
<1>15. ASSUME Connect PROVE Typed'
  <2>1. ThreadOK'
    BY <1>15, SetTyped, IdleTyped, Distinct DEF Connect, LeaveCs, Stop
  <2>2. SessOK'
    BY <1>15, SessKept DEF Connect
  <2>3. AppOK'
    BY <1>15 DEF Connect, Typed, AppOK
  <2>4. LockOK'
    BY <1>15, Distinct DEF Connect, LeaveCs, Typed, LockOK
  <2> QED BY <1>15, <2>1, <2>2, <2>3, <2>4, Untouched DEF Connect, Typed
<1>16. ASSUME NEW t \in Threads, SeparateXAConn(t) PROVE Typed'
  <2>1. ThreadOK'
    BY <1>16, GoTyped, BackTyped, Distinct DEF SeparateXAConn, Pcs
  <2> QED BY <1>16, <2>1, Untouched DEF SeparateXAConn, Typed
<1>17. ASSUME NEW t \in Threads, GenerateXAConn(t) PROVE Typed'
  <2>1. ThreadOK'
    BY <1>17, GoTyped, BackTyped, Distinct DEF GenerateXAConn, Pcs
  <2>2. BranchOK'
    BY <1>17 DEF GenerateXAConn, Typed, BranchOK
  <2>3. HandleOK'
    BY <1>17 DEF GenerateXAConn, HandleFreed, Typed, HandleOK
  <2> QED BY <1>17, <2>1, <2>2, <2>3, Untouched DEF GenerateXAConn, Typed
<1>18. ASSUME NEW t \in Threads, IsolateXAConn(t) PROVE Typed'
  <2>1. ThreadOK'
    BY <1>18, GoTyped, BackTyped, Distinct DEF IsolateXAConn, Pcs
  <2>2. LockOK'
    <3>1. CASE lock' = [lock EXCEPT !.e[thread[t].on] = t, !.life = t]
      BY <3>1 DEF Typed, LockOK
    <3> QED BY <1>18, <3>1, Untouched DEF IsolateXAConn
  <2> QED BY <1>18, <2>1, <2>2, Untouched DEF IsolateXAConn, Typed
<1>19. ASSUME NEW t \in Threads, IsolateHandle(t) PROVE Typed'
  <2>1. ThreadOK'
    BY <1>19, GoTyped, BackTyped, Distinct DEF IsolateHandle, Pcs
  <2>2. BranchOK'
    BY <1>19, ZenonT(40) DEF IsolateHandle, InTrans, Typed, BranchOK
  <2>3. SessOK'
    BY <1>19, SessKept DEF IsolateHandle
  <2>4. HandleOK'
    BY <1>19 DEF IsolateHandle, HandleFreed, Typed, HandleOK
  <2>5. LockOK'
    BY <1>19, Distinct DEF IsolateHandle, Typed, LockOK
  <2> QED BY <1>19, <2>1, <2>2, <2>3, <2>4, <2>5, Untouched DEF IsolateHandle, Typed
<1>20. ASSUME NEW t \in Threads, ReconnectHandle(t) PROVE Typed'
  <2>1. ThreadOK'
    BY <1>20, GoTyped, BackTyped, Distinct DEF ReconnectHandle, Return, Pcs
  <2>2. SessOK'
    BY <1>20, SessKept DEF ReconnectHandle
  <2>3. LockOK'
    BY <1>20, Distinct DEF ReconnectHandle, Return, Typed, LockOK
  <2> QED BY <1>20, <2>1, <2>2, <2>3, Untouched DEF ReconnectHandle, Typed
<1>21. ASSUME NEW b \in Branches, PrepareRequest(b) PROVE Typed'
  <2>1. ThreadOK'
    <3>1. \A res \in Results : Started("prepare", res) \in ThreadState
      BY StartTyped
    <3> QED BY <1>21, <3>1, SetTyped, Distinct DEF PrepareRequest, Results
  <2>2. DtcOK'
    <3>1. PICK d \in {"none", "commit", "single", "abort"} :
              dtc' = [dtc EXCEPT ![b].st = "preparing", ![b].decision = d]
      BY <1>21 DEF PrepareRequest, Typed, DtcOK, DtcState
    <3> QED BY <3>1, ZenonT(40) DEF Typed, DtcOK, DtcState
  <2> QED BY <1>21, <2>1, <2>2, Untouched DEF PrepareRequest, Typed
<1>22. ASSUME NEW b \in Branches, CommitRequest(b) PROVE Typed'
  <2>1. ThreadOK'
    <3>1. Started("commit", "ok") \in ThreadState
      BY StartTyped DEF Results
    <3> QED BY <1>22, <3>1, SetTyped, Untouched, Distinct DEF CommitRequest
  <2>2. DtcOK'
    <3>1. PICK st \in {"over", dtc[b].st}, answer \in {"refused", dtc[b].answer} :
              dtc' = [dtc EXCEPT ![b].decision = "commit", ![b].st = st, ![b].answer = answer]
      BY <1>22 DEF CommitRequest
    <3> DEFINE x == [dtc[b] EXCEPT !.decision = "commit", !.st = st, !.answer = answer]
    <3>2. dtc[b] \in DtcState
      BY DEF Typed, DtcOK
    <3>3. x \in DtcState
      BY <3>2 DEF DtcState
    <3>4. dtc' = [dtc EXCEPT ![b] = x]
      BY <3>1
    <3> QED BY <3>3, <3>4, DtcSet
  <2> QED BY <1>22, <2>1, <2>2, Untouched DEF CommitRequest, Typed
<1>23. ASSUME NEW b \in Branches, AbortRequest(b) PROVE Typed'
  <2>1. ThreadOK'
    BY <1>23, GoTyped, Distinct DEF AbortRequest, Pcs
  <2>2. DtcOK'
    <3> DEFINE x == [dtc[b] EXCEPT !.decision = "abort", !.st = "ready"]
    <3>1. dtc[b] \in DtcState
      BY DEF Typed, DtcOK
    <3>2. x \in DtcState
      BY <3>1 DEF DtcState
    <3>3. dtc' = [dtc EXCEPT ![b] = x]
      BY <1>23 DEF AbortRequest
    <3> QED BY <3>2, <3>3, DtcSet
  <2> QED BY <1>23, <2>1, <2>2, Untouched DEF AbortRequest, Typed
<1>24. ASSUME NEW b \in Branches, AbortLocked(b) PROVE Typed'
  <2>1. ThreadOK'
    <3>1. thread[Request(b)] \in ThreadState /\ Started("abort", "ok") \in ThreadState
          /\ [thread[Request(b)] EXCEPT !.pc = "idle"] \in ThreadState
      BY ThreadTyped, StateTyped, StartTyped, Distinct DEF Results, Pcs
    <3>2. CASE Go(Request(b), "abort_cs")
      BY <3>2, GoTyped, Distinct DEF Pcs
    <3>3. CASE thread' = [thread EXCEPT ![Request(b)].pc = "idle",
                                        ![Exec(b)] = Started("abort", "ok")]
      BY <3>1, <3>3, Distinct DEF Typed, ThreadOK
    <3> QED BY <1>24, <3>2, <3>3 DEF AbortLocked
  <2>2. DtcOK'
    BY <1>24 DEF AbortLocked, Typed, DtcOK, DtcState
  <2>3. LockOK'
    BY <1>24, Distinct DEF AbortLocked, Typed, LockOK
  <2>4. HandleOK'
    BY <1>24 DEF AbortLocked, Typed, HandleOK
  <2> QED BY <1>24, <2>1, <2>2, <2>3, <2>4, Untouched DEF AbortLocked, Typed
<1>25. ASSUME NEW b \in Branches, AbortLocal(b) PROVE Typed'
  <2>1. ThreadOK'
    <3>1. thread[Request(b)] \in ThreadState /\ Started("abort", "ok") \in ThreadState
          /\ [thread[Request(b)] EXCEPT !.pc = "idle"] \in ThreadState
      BY ThreadTyped, StateTyped, StartTyped, Distinct DEF Results, Pcs
    <3>2. CASE Go(Request(b), "abort_cs")
      BY <3>2, GoTyped, Distinct DEF Pcs
    <3>3. CASE thread' = [thread EXCEPT ![Request(b)].pc = "idle",
                                        ![Exec(b)] = Started("abort", "ok")]
      BY <3>1, <3>3, Distinct DEF Typed, ThreadOK
    <3> QED BY <1>25, <3>2, <3>3 DEF AbortLocal
  <2>2. SessOK'
    BY <1>25, SessKept DEF AbortLocal, OrLost, RolledBack
  <2>3. HandleOK'
    BY <1>25 DEF AbortLocal, Typed, HandleOK
  <2>4. LockOK'
    BY <1>25, Distinct DEF AbortLocal, Typed, LockOK
  <2> QED BY <1>25, <2>1, <2>2, <2>3, <2>4, Untouched DEF AbortLocal, Typed
<1>26. ASSUME NEW b \in Branches, XaCommit(b) PROVE Typed'
  <2>1. ThreadOK'
    BY <1>26, Untouched DEF XaCommit, XaOutcome
  <2>2. durable' \subseteq Branches
    BY <1>26 DEF XaCommit, Typed
  <2>3. DtcOK'
    BY SMTT(30), <1>26, ZenonT(40) DEF XaCommit, XaOutcome, Typed, DtcOK, DtcState
  <2>4. PgOK'
    BY <1>26 DEF XaCommit, XaOutcome, Typed, PgOK
  <2> QED BY <1>26, <2>1, <2>2, <2>3, <2>4, Untouched DEF XaCommit, XaOutcome, Typed
<1>27. ASSUME NEW b \in Branches, XaRollback(b) PROVE Typed'
  <2>1. ThreadOK'
    BY <1>27, Untouched DEF XaRollback, XaOutcome
  <2>2. DtcOK'
    BY <1>27, ZenonT(40) DEF XaRollback, XaOutcome, Typed, DtcOK, DtcState
  <2>3. PgOK'
    BY <1>27 DEF XaRollback, XaOutcome, Typed, PgOK
  <2> QED BY <1>27, <2>1, <2>2, <2>3, Untouched DEF XaRollback, XaOutcome, Typed
<1>28. ASSUME NEW b \in Branches, Begin(b) PROVE Typed'
  <2>1. ThreadOK'
    BY <1>28, GoTyped, SetTyped, IdleTyped, Distinct DEF Begin, Stop, Pcs
  <2>2. LockOK'
    BY <1>28, Distinct DEF Begin, Typed, LockOK
  <2> QED BY <1>28, <2>1, <2>2, Untouched DEF Begin, Typed
<1>29. ASSUME NEW b \in Branches, GetLockedXAConn(b) PROVE Typed'
  <2>1. ThreadOK'
    <3>1. CASE Go(Exec(b), "operate")
      BY <3>1, GoTyped, Distinct DEF Pcs
    <3>2. CASE thread' = [thread EXCEPT ![Exec(b)].pc = "separate", ![Exec(b)].on = b,
                                        ![Exec(b)].back = "lock"]
      <4> DEFINE x == [thread[Exec(b)] EXCEPT !.pc = "separate", !.on = b, !.back = "lock"]
      <4>1. thread[Exec(b)] \in ThreadState /\ "separate" \in Pcs /\ "lock" \in Pcs
        BY ThreadTyped, Distinct DEF Pcs
      <4>2. x \in ThreadState
        BY <4>1 DEF ThreadState
      <4>3. thread' = [thread EXCEPT ![Exec(b)] = x]
        BY <3>2
      <4> QED BY <4>2, <4>3, SetTyped, Distinct
    <3> QED BY <1>29, <3>1, <3>2 DEF GetLockedXAConn
  <2>2. BranchOK'
    BY <1>29 DEF GetLockedXAConn, Typed, BranchOK
  <2>3. LockOK'
    BY <1>29, Distinct DEF GetLockedXAConn, Typed, LockOK
  <2>4. HandleOK'
    BY <1>29 DEF GetLockedXAConn, Typed, HandleOK
  <2> QED BY <1>29, <2>1, <2>2, <2>3, <2>4, Untouched DEF GetLockedXAConn, Typed
<1>30. ASSUME NEW b \in Branches, Operate(b) PROVE Typed'
  BY <1>30, OperateTyped
<1>31. ASSUME NEW b \in Branches, SetDone(b) PROVE Typed'
  <2>1. ThreadOK'
    BY <1>31, GoTyped, Distinct DEF SetDone, Pcs
  <2>2. BranchOK'
    BY <1>31, ZenonT(40) DEF SetDone, Typed, BranchOK
  <2>3. HandleOK'
    BY <1>31 DEF SetDone, Typed, HandleOK
  <2> QED BY <1>31, <2>1, <2>2, <2>3, Untouched DEF SetDone, Typed
<1>32. ASSUME NEW b \in Branches, Answer(b) PROVE Typed'
  <2>1. ThreadOK'
    BY <1>32, GoTyped, SetTyped, IdleTyped, Distinct DEF Answer, ExecOver, Stop, Pcs
  <2>2. DtcOK'
    <3>1. Verdict(b) \in {"none", "voted no", "single", "committed", "aborted", "failed"}
      BY DEF Verdict
    <3>2. PICK st \in {"ready", "over"} :
              dtc' = [dtc EXCEPT ![b].answer = Verdict(b), ![b].st = st, ![b].ended = TRUE]
      BY <1>32 DEF Answer
    <3> DEFINE x == [dtc[b] EXCEPT !.answer = Verdict(b), !.st = st, !.ended = TRUE]
    <3>3. dtc[b] \in DtcState
      BY DEF Typed, DtcOK
    <3>4. x \in DtcState
      BY <3>1, <3>3 DEF DtcState
    <3>5. dtc' = [dtc EXCEPT ![b] = x]
      BY <3>2
    <3> QED BY <3>4, <3>5, DtcSet
  <2>3. LockOK'
    BY <1>32, Distinct DEF Answer, ExecOver, Typed, LockOK
  <2> QED BY <1>32, <2>1, <2>2, <2>3, Untouched DEF Answer, Typed
<1>33. ASSUME NEW b \in Branches, SetPrepareResult(b) PROVE Typed'
  <2>1. ThreadOK'
    BY <1>33, SetTyped, IdleTyped, Distinct DEF SetPrepareResult, ExecOver, Stop
  <2>2. BranchOK'
    <3>1. thread[Exec(b)].res \in Results
      BY ThreadTyped, StateTyped, Distinct
    <3> QED BY ZenonT(40), <1>33, <3>1 DEF SetPrepareResult, Typed, BranchOK
  <2>3. LockOK'
    BY <1>33, Distinct DEF SetPrepareResult, ExecOver, Typed, LockOK
  <2> QED BY <1>33, <2>1, <2>2, <2>3, Untouched DEF SetPrepareResult, Typed
<1>34. CASE UNCHANGED vars
  BY <1>34, Untouched DEF vars, Typed
<1> QED BY <1>1, <1>2, <1>3, <1>4, <1>5, <1>6, <1>7, <1>8, <1>9, <1>10, <1>11, <1>12, <1>13, <1>14, <1>15, <1>16, <1>17, <1>18, <1>19, <1>20, <1>21, <1>22, <1>23, <1>24, <1>25, <1>26, <1>27, <1>28, <1>29, <1>30, <1>31, <1>32, <1>33, <1>34
        DEF Next, Application, Coordination, RequestExec, Separation

LEMMA InitTyped == Init => Typed
<1> SUFFICES ASSUME Init PROVE Typed
  OBVIOUS
<1>1. HandleOK /\ LockOK
  BY DEF Init, HandleOK, LockOK
<1>2. SessOK /\ AppOK
  BY DEF Init, SessOK, AppOK, Fresh
<1>3. BranchOK
  BY DEF Init, BranchOK, Results
<1>4. DtcOK
  BY DEF Init, DtcOK, DtcState
<1>5. PgOK /\ durable \subseteq Branches
  BY DEF Init, PgOK
<1>6. ThreadOK
  BY IdleTyped, Distinct DEF Init, ThreadOK
<1> QED BY <1>1, <1>2, <1>3, <1>4, <1>5, <1>6 DEF Typed

\* Every variable keeps its type.
THEOREM EnlistTyped == Spec => []TypeOK
<1>1. Init => Typed
  BY InitTyped
<1>2. Typed /\ [Next]_vars => Typed'
  BY TypedStep
<1> QED BY <1>1, <1>2, TypedTypeOK, PTL DEF Spec

-----------------------------------------------------------------------------
(***************************************************************************)
(* What the steps of the threads change.                                   *)
(***************************************************************************)

LEMMA GoEffect ==
    ASSUME Typed, NEW t \in Threads, NEW pc, Go(t, pc)
    PROVE  /\ thread'[t].pc = pc /\ thread'[t].on = thread[t].on
           /\ thread'[t].back = thread[t].back /\ thread'[t].kind = thread[t].kind
           /\ thread'[t].res = thread[t].res /\ thread'[t].keep = thread[t].keep
           /\ \A u \in Threads : u # t => thread'[u] = thread[u]
BY DEF Typed, ThreadOK, ThreadState, Go

LEMMA BackEffect ==
    ASSUME Typed, NEW t \in Threads, Back(t)
    PROVE  /\ thread'[t].pc = thread[t].back /\ thread'[t].on = None
           /\ thread'[t].kind = thread[t].kind /\ thread'[t].res = thread[t].res
           /\ \A u \in Threads : u # t => thread'[u] = thread[u]
BY DEF Typed, ThreadOK, ThreadState, Back

LEMMA SetEffect ==
    ASSUME Typed, NEW t \in Threads, NEW x, thread' = [thread EXCEPT ![t] = x]
    PROVE  thread'[t] = x /\ \A u \in Threads : u # t => thread'[u] = thread[u]
BY DEF Typed, ThreadOK

LEMMA StopEffect ==
    ASSUME Typed, NEW t \in Threads, Stop(t)
    PROVE  /\ thread'[t].pc = "idle" /\ thread'[t].on = None /\ thread'[t].back = "idle"
           /\ thread'[t].kind = "execute" /\ thread'[t].res = "ok"
           /\ \A u \in Threads : u # t => thread'[u] = thread[u]
<1>1. thread'[t] = Idle /\ \A u \in Threads : u # t => thread'[u] = thread[u]
  BY SetEffect DEF Stop
<1> QED BY <1>1 DEF Idle

LEMMA SeparateEffect ==
    ASSUME Typed, NEW next, IsolateDtcConn(App, next)
    PROVE  /\ \A u \in Threads : u # App => thread'[u] = thread[u]
           /\ thread'[App].kind = thread[App].kind
           /\ \/ /\ thread'[App].pc = "separate" /\ thread'[App].on = handle.asdum
                 /\ thread'[App].back = next /\ handle.asdum \in Branches
                 /\ IdleInGlobalTransaction
              \/ /\ thread'[App].pc = next /\ thread'[App].on = thread[App].on
                 /\ handle.asdum # None => ~IdleInGlobalTransaction
<1>1. CASE Go(App, next) /\ (handle.asdum # None => ~IdleInGlobalTransaction)
  BY <1>1, GoEffect, Distinct
<1>2. CASE /\ handle.asdum # None /\ IdleInGlobalTransaction
           /\ thread' = [thread EXCEPT ![App].pc = "separate", ![App].on = handle.asdum,
                                       ![App].back = next, ![App].keep = TRUE]
  <2>1. handle.asdum \in Branches
    BY <1>2 DEF Typed, HandleOK
  <2>2. /\ thread'[App].pc = "separate" /\ thread'[App].on = handle.asdum
        /\ thread'[App].back = next /\ thread'[App].kind = thread[App].kind
        /\ \A u \in Threads : u # App => thread'[u] = thread[u]
    BY <1>2, Distinct DEF Typed, ThreadOK, ThreadState
  <2> QED BY <1>2, <2>1, <2>2
<1> QED BY <1>1, <1>2 DEF IsolateDtcConn

\* The phase of a branch is a matter of its own threads, of its state and of its ELOCK.
LEMMA PhaseKept ==
    ASSUME NEW b \in Branches, Phase(b), dtc'[b] = dtc[b],
           branch'[b].prepared = branch[b].prepared, branch'[b].done = branch[b].done,
           thread'[Exec(b)] = thread[Exec(b)], thread'[Request(b)] = thread[Request(b)],
           lock.e[b] \in {Exec(b), Request(b)} => lock'.e[b] = lock.e[b]
    PROVE  Phase(b)'
BY DEF Phase, Kinds

\* A step of the application's thread.
LEMMA PhasesKept ==
    ASSUME Sharing, \A u \in Threads : u # App => thread'[u] = thread[u], dtc' = dtc,
           \A b \in Branches : /\ branch'[b].prepared = branch[b].prepared
                               /\ branch'[b].done = branch[b].done
                               /\ lock.e[b] \in {Exec(b), Request(b)} => lock'.e[b] = lock.e[b]
    PROVE  \A b \in Branches : Phase(b)'
<1> SUFFICES ASSUME NEW b \in Branches PROVE Phase(b)'
  OBVIOUS
<1>1. thread'[Exec(b)] = thread[Exec(b)] /\ thread'[Request(b)] = thread[Request(b)]
  BY Distinct
<1> QED BY <1>1, PhaseKept DEF Sharing

\* A step of the threads of one branch.
LEMMA OtherPhases ==
    ASSUME Sharing, NEW b \in Branches,
           \A u \in Threads : u \notin {Exec(b), Request(b)} => thread'[u] = thread[u],
           \A c \in Branches : c # b => dtc'[c] = dtc[c] /\ branch'[c] = branch[c]
                                        /\ lock'.e[c] = lock.e[c]
    PROVE  \A c \in Branches : c # b => Phase(c)'
<1> SUFFICES ASSUME NEW c \in Branches, c # b PROVE Phase(c)'
  OBVIOUS
<1>1. thread'[Exec(c)] = thread[Exec(c)] /\ thread'[Request(c)] = thread[Request(c)]
  BY Distinct
<1> QED BY <1>1, PhaseKept DEF Sharing

\* A thread that separates knows the branch.
LEMMA SeparatingOn ==
    ASSUME Sharing, NEW t \in Threads, thread[t].pc \in Separating
    PROVE  thread[t].on \in Branches
BY Distinct DEF Sharing, AppPlace, Phase, Separating

\* Steps of a branch's threads that neither bring a branch to the handle nor take it away.
LEMMA Behind ==
    ASSUME Typed, Sharing, NEW b \in Branches,
           \A u \in Threads : /\ u \notin {Exec(b), Request(b)} => thread'[u] = thread[u]
                              /\ \/ thread'[u] = thread[u]
                                 \/ thread'[u].pc \notin {"cleanup", "generate"},
           app' = app, sess'.open = sess.open \/ Uses(b),
           Uses(b) /\ (sess.open \/ Losing(b)) => sess'.open \/ Losing(b)',
           handle'.asdum = handle.asdum,
           handle'.progress = handle.progress, handle'.enlisted = handle.enlisted,
           lock'.life = lock.life, lock.cs = App => lock'.cs = App,
           \A c \in Branches : /\ Uses(c)' <=> Uses(c)
                               /\ branch[c].prepared => branch'[c].prepared
                               /\ Settled(c) => Settled(c)',
           handle'.executing => \E c \in Branches : \/ lock'.cs = Exec(c)
                                                    \/ thread'[Request(c)].pc = "abort_cs"
    PROVE  AppPlace' /\ Alone' /\ Parting' /\ \A c \in Branches : Using(c)'
<1>0. thread'[App] = thread[App]
  BY Distinct
<1>1. AppPlace'
  BY <1>0 DEF Sharing, AppPlace
<1>2. Alone'
  BY <1>0 DEF Sharing, Alone, Enlisting
<1>3. Parting'
  <2> SUFFICES ASSUME NEW t \in Threads, thread'[t].pc \in {"cleanup", "generate"}
               PROVE  /\ (thread[t].pc = "cleanup" => lock.life = t /\ Uses(thread[t].on))'
                      /\ (thread[t].pc = "generate" => branch[thread[t].on].prepared)'
    BY DEF Parting
  <2>1. thread'[t] = thread[t]
    OBVIOUS
  <2>2. thread[t].on \in Branches
    BY <2>1, Distinct DEF Sharing, AppPlace, Phase, Separating
  <2> QED BY <2>1, <2>2 DEF Sharing, Parting
<1>4. \A c \in Branches : Using(c)'
  <2> SUFFICES ASSUME NEW c \in Branches, Uses(c) PROVE sess'.open \/ Losing(c)'
    BY <1>0 DEF Sharing, Using
  <2>1. CASE c = b
    BY <2>1 DEF Sharing, Using
  <2>2. CASE c # b
    BY <2>2, Distinct DEF Sharing, Using, Losing
  <2> QED BY <2>1, <2>2
<1> QED BY <1>1, <1>2, <1>3, <1>4

-----------------------------------------------------------------------------
(***************************************************************************)
(* The application's steps keep the invariant.                             *)
(***************************************************************************)

\* A step of the application's thread that does not begin to work on the handle.
LEMMA AloneKept ==
    ASSUME Sharing, \A u \in Threads : u # App => thread'[u] = thread[u],
           handle'.asdum # None => handle'.progress,
           handle'.executing => handle.executing,
           \A b \in Branches : lock.cs = Exec(b) => lock'.cs = Exec(b),
           Enlisting' => /\ app'.joined = None
                         /\ \A b \in Branches :
                              \/ Settled(b)'
                              \/ thread'[App].pc \in {"bind", "async"} /\ b = thread'[App].on
    PROVE  Alone'
<1>1. \A b \in Branches : thread'[Request(b)] = thread[Request(b)]
  BY Distinct
<1> QED BY <1>1 DEF Sharing, Alone

\* A move of the application's thread that binds no branch.
LEMMA AloneMoves ==
    ASSUME Sharing, \A u \in Threads : u # App => thread'[u] = thread[u],
           thread[App].pc \notin {"bind", "async"}, UNCHANGED <<handle, app, dtc>>,
           lock'.cs = lock.cs,
           Enlisting' => Enlisting \/ (app.joined = None /\ \A b \in Branches : Settled(b))
    PROVE  Alone'
<1>1. Enlisting' => /\ app'.joined = None
                    /\ \A b \in Branches : Settled(b)'
  BY DEF Sharing, Alone, Settled
<1>2. handle'.asdum # None => handle'.progress
  BY DEF Sharing, Alone
<1> QED BY <1>1, <1>2, AloneKept

LEMMA CallStep ==
    ASSUME Waits, Typed, Sharing, NEW kind \in Calls, Call(kind)
    PROVE  Sharing'
<1>0. /\ \A u \in Threads : u # App => thread'[u] = thread[u]
      /\ thread'[App].kind = kind /\ thread'[App].on = None
      /\ thread'[App].pc = CASE kind = "execute" -> "enter" [] kind = "disconnect" -> "dtc"
                                [] OTHER -> "examine"
      /\ thread[App].pc = "idle" /\ kind \in Calls
      /\ kind = "enlist" => app.joined = None /\ \A c \in Branches : Settled(c)
      /\ UNCHANGED <<handle, sess, app, branch, dtc, pg, durable, lock>>
  <2> DEFINE x == [Idle EXCEPT !.pc = CASE kind = "execute" -> "enter"
                                         [] kind = "disconnect" -> "dtc" [] OTHER -> "examine",
                               !.kind = kind]
  <2>1. thread' = [thread EXCEPT ![App] = x]
    BY DEF Call
  <2>2. thread'[App] = x /\ \A u \in Threads : u # App => thread'[u] = thread[u]
    BY <2>1, SetEffect, Distinct
  <2>3. /\ thread'[App].kind = kind /\ thread'[App].on = None
        /\ thread'[App].pc = CASE kind = "execute" -> "enter" [] kind = "disconnect" -> "dtc"
                                 [] OTHER -> "examine"
    BY <2>2 DEF Idle
  <2> QED BY <2>2, <2>3 DEF Call, At
<1>1. \A c \in Branches : Phase(c)'
  BY <1>0, PhasesKept
<1>2. AppPlace'
  BY <1>0 DEF Sharing, AppPlace, AppPcs, Separating, Calls
<1>3. Alone'
  <2>1. Enlisting' => Enlisting \/ (app.joined = None /\ \A b \in Branches : Settled(b))
    BY <1>0 DEF Sharing, AppPlace, Enlisting, Separating, Calls
  <2> QED BY <1>0, <2>1, AloneMoves
<1>4. Binding'
  BY <1>0, Distinct DEF Sharing, AppPlace, Binding, Uses, Separating
<1>5. Parting'
  BY <1>0, Distinct DEF Sharing, AppPlace, Parting, Uses, Separating
<1>6. \A c \in Branches : Using(c)'
  BY <1>0, Distinct DEF Losing, Sharing, AppPlace, Using, Uses, Separating, Calls
<1>7. \A c \in Branches : Working(c)'
  BY <1>0, Distinct DEF Sharing, Working, Uses
<1> QED BY <1>1, <1>2, <1>3, <1>4, <1>5, <1>6, <1>7 DEF Sharing

LEMMA ExamineStep ==
    ASSUME Typed, Sharing, Examine
    PROVE  Sharing'
<1>0. /\ \A u \in Threads : u # App => thread'[u] = thread[u]
      /\ thread'[App].kind = thread[App].kind
      /\ thread[App].pc = "examine"
      /\ \/ /\ thread'[App].pc = "separate" /\ thread'[App].on = handle.asdum
            /\ thread'[App].back = "enter" /\ handle.asdum \in Branches
         \/ /\ thread'[App].pc = "enter" /\ thread'[App].on = thread[App].on
            /\ handle.asdum # None => ~IdleInGlobalTransaction
      /\ UNCHANGED <<handle, sess, app, branch, dtc, pg, durable, lock>>
  BY SeparateEffect DEF Examine, At
<1>1. \A c \in Branches : Phase(c)'
  BY <1>0, PhasesKept
<1>2. AppPlace'
  BY <1>0 DEF Sharing, AppPlace, AppPcs, Separating
<1>3. Alone'
  <2>1. Enlisting' => Enlisting \/ (app.joined = None /\ \A b \in Branches : Settled(b))
    BY <1>0 DEF Sharing, AppPlace, Enlisting, Separating
  <2> QED BY <1>0, <2>1, AloneMoves
<1>4. Binding'
  BY <1>0, Distinct DEF Sharing, AppPlace, Binding, Uses, Separating
<1>5. Parting'
  BY <1>0, Distinct DEF Sharing, AppPlace, Parting, Uses, Separating
<1>6. \A c \in Branches : Using(c)'
  BY <1>0, Distinct DEF Losing, Sharing, AppPlace, Using, Uses, Separating
<1>7. \A c \in Branches : Working(c)'
  BY <1>0, Distinct DEF Sharing, Working, Uses
<1> QED BY <1>1, <1>2, <1>3, <1>4, <1>5, <1>6, <1>7 DEF Sharing

LEMMA RequestStartStep ==
    ASSUME Typed, Sharing, RequestStart
    PROVE  Sharing'
<1>0. /\ \A u \in Threads : u # App => thread'[u] = thread[u]
      /\ thread'[App].kind = thread[App].kind
      /\ thread[App].pc = "request"
      /\ \/ /\ thread'[App].pc = "separate" /\ thread'[App].on = handle.asdum
            /\ thread'[App].back = "execute" /\ handle.asdum \in Branches
         \/ /\ thread'[App].pc = "execute" /\ thread'[App].on = thread[App].on
            /\ handle.asdum # None => ~IdleInGlobalTransaction
      /\ UNCHANGED <<handle, sess, app, branch, dtc, pg, durable, lock>>
  BY SeparateEffect DEF RequestStart, At
<1>1. \A c \in Branches : Phase(c)'
  BY <1>0, PhasesKept
<1>2. AppPlace'
  BY <1>0 DEF Sharing, AppPlace, AppPcs, Separating
<1>3. Alone'
  <2>1. Enlisting' => Enlisting \/ (app.joined = None /\ \A b \in Branches : Settled(b))
    BY <1>0 DEF Sharing, AppPlace, Enlisting, Separating
  <2> QED BY <1>0, <2>1, AloneMoves
<1>4. Binding'
  BY <1>0, Distinct DEF Sharing, AppPlace, Binding, Uses, Separating
<1>5. Parting'
  BY <1>0, Distinct DEF Sharing, AppPlace, Parting, Uses, Separating
<1>6. \A c \in Branches : Using(c)'
  BY <1>0, Distinct DEF Losing, Sharing, AppPlace, Using, Uses, Separating
<1>7. \A c \in Branches : Working(c)'
  BY <1>0, Distinct DEF Sharing, Working, Uses
<1> QED BY <1>1, <1>2, <1>3, <1>4, <1>5, <1>6, <1>7 DEF Sharing

LEMMA EnlistBeginsStep ==
    ASSUME Typed, Sharing, EnlistBegins
    PROVE  Sharing'
<1>0. /\ \A u \in Threads : u # App => thread'[u] = thread[u]
      /\ thread'[App].kind = thread[App].kind
      /\ thread[App].pc = "enlist"
      /\ \/ /\ thread'[App].pc = "separate" /\ thread'[App].on = handle.asdum
            /\ thread'[App].back = "start" /\ handle.asdum \in Branches
         \/ /\ thread'[App].pc = "start" /\ thread'[App].on = thread[App].on
            /\ handle.asdum # None => ~IdleInGlobalTransaction
      /\ UNCHANGED <<handle, sess, app, branch, dtc, pg, durable, lock>>
  BY SeparateEffect DEF EnlistBegins, At
<1>a. \A c \in Branches : Uses(c) => thread'[App].pc = "separate"
  <2> SUFFICES ASSUME NEW c \in Branches, Uses(c), thread'[App].pc # "separate"
               PROVE  FALSE
    OBVIOUS
  <2>1. handle.asdum = c /\ ~IdleInGlobalTransaction
    BY <1>0, Distinct DEF Sharing, Using
  <2>2. handle.executing
    BY <1>0, <2>1, Distinct
       DEF Sharing, Using, Alone, Enlisting, IdleInGlobalTransaction, Typed, HandleOK
  <2>3. lock.cs = App
    BY <1>0 DEF Sharing, AppPlace
  <2>4. PICK d \in Branches : thread[Request(d)].pc = "abort_cs"
    BY <2>2, <2>3, Distinct DEF Sharing, Alone
  <2>5. dtc[d].st = "ready" /\ dtc[d].decision = "abort"
    BY <2>4 DEF Sharing, Phase
  <2> QED BY <1>0, <2>5 DEF Sharing, Alone, Enlisting, Settled
<1>1. \A c \in Branches : Phase(c)'
  BY <1>0, PhasesKept
<1>2. AppPlace'
  BY <1>0 DEF Sharing, AppPlace, AppPcs, Separating
<1>3. Alone'
  <2>1. Enlisting' => Enlisting \/ (app.joined = None /\ \A b \in Branches : Settled(b))
    BY <1>0 DEF Sharing, AppPlace, Enlisting, Separating
  <2> QED BY <1>0, <2>1, AloneMoves
<1>4. Binding'
  BY <1>0, Distinct DEF Sharing, AppPlace, Binding, Uses, Separating
<1>5. Parting'
  BY <1>0, Distinct DEF Sharing, AppPlace, Parting, Uses, Separating
<1>6. \A c \in Branches : Using(c)'
  BY <1>0, <1>a, Distinct DEF Losing, Sharing, AppPlace, Using, Uses, Separating
<1>7. \A c \in Branches : Working(c)'
  BY <1>0, Distinct DEF Sharing, Working, Uses
<1> QED BY <1>1, <1>2, <1>3, <1>4, <1>5, <1>6, <1>7 DEF Sharing

LEMMA DtcOnDisconnectStep ==
    ASSUME Typed, Sharing, DtcOnDisconnect
    PROVE  Sharing'
<1>0. /\ \A u \in Threads : u # App => thread'[u] = thread[u]
      /\ thread'[App].kind = thread[App].kind
      /\ thread[App].pc = "dtc"
      /\ \/ handle.asdum = None /\ thread'[App].pc = "enter"
         \/ /\ thread'[App].pc = "release" /\ thread'[App].on = handle.asdum
            /\ thread'[App].back = "enter" /\ handle.asdum \in Branches
      /\ UNCHANGED <<handle, sess, app, branch, dtc, pg, durable, lock>>
  <2>1. CASE handle.asdum = None /\ Go(App, "enter")
    BY <2>1, GoEffect, Distinct DEF DtcOnDisconnect, At
  <2>2. CASE /\ handle.asdum # None
             /\ thread' = [thread EXCEPT ![App].pc = "release", ![App].on = handle.asdum,
                                         ![App].back = "enter", ![App].keep = FALSE]
    <3>1. handle.asdum \in Branches
      BY <2>2 DEF Typed, HandleOK
    <3>2. /\ thread'[App].pc = "release" /\ thread'[App].on = handle.asdum
          /\ thread'[App].back = "enter" /\ thread'[App].kind = thread[App].kind
          /\ \A u \in Threads : u # App => thread'[u] = thread[u]
      BY <2>2, Distinct DEF Typed, ThreadOK, ThreadState
    <3> QED BY <3>1, <3>2 DEF DtcOnDisconnect, At
  <2> QED BY <2>1, <2>2 DEF DtcOnDisconnect
<1>1. \A c \in Branches : Phase(c)'
  BY <1>0, PhasesKept
<1>2. AppPlace'
  BY <1>0 DEF Sharing, AppPlace, AppPcs, Separating
<1>3. Alone'
  <2>1. Enlisting' => Enlisting \/ (app.joined = None /\ \A b \in Branches : Settled(b))
    BY <1>0 DEF Sharing, AppPlace, Enlisting, Separating
  <2> QED BY <1>0, <2>1, AloneMoves
<1>4. Binding'
  BY <1>0, Distinct DEF Sharing, AppPlace, Binding, Uses, Separating
<1>5. Parting'
  BY <1>0, Distinct DEF Sharing, AppPlace, Parting, Uses, Separating
<1>6. \A c \in Branches : Using(c)'
  BY <1>0, Distinct DEF Losing, Sharing, AppPlace, Using, Uses, Separating
<1>7. \A c \in Branches : Working(c)'
  BY <1>0, Distinct DEF Sharing, Working, Uses
<1> QED BY <1>1, <1>2, <1>3, <1>4, <1>5, <1>6, <1>7 DEF Sharing

LEMMA ReleaseConnectionStep ==
    ASSUME Typed, Sharing, ReleaseConnection
    PROVE  Sharing'
<1>0. /\ \A u \in Threads : u # App => thread'[u] = thread[u]
      /\ thread'[App].kind = thread[App].kind
      /\ thread[App].pc = "release"
      /\ \/ /\ thread'[App].pc = "isolate" /\ thread'[App].on = thread[App].on
            /\ thread'[App].back = thread[App].back
         \/ /\ ~(Uses(thread[App].on) /\ sess.open)
            /\ thread'[App].pc = thread[App].back
      /\ Uses(thread[App].on) => ~Losing(thread[App].on)
      /\ UNCHANGED <<handle, sess, app, branch, dtc, pg, durable, lock>>
  BY GoEffect, BackEffect, Distinct DEF ReleaseConnection, Preparing, Losing, At, Uses
<1>1. \A c \in Branches : Phase(c)'
  BY <1>0, PhasesKept
<1>2. AppPlace'
  BY <1>0 DEF Sharing, AppPlace, AppPcs, Separating
<1>3. Alone'
  <2>1. Enlisting' => Enlisting \/ (app.joined = None /\ \A b \in Branches : Settled(b))
    BY <1>0 DEF Sharing, AppPlace, Enlisting, Separating
  <2> QED BY <1>0, <2>1, AloneMoves
<1>4. Binding'
  BY <1>0, Distinct DEF Sharing, AppPlace, Binding, Uses, Separating
<1>5. Parting'
  BY <1>0, Distinct DEF Sharing, AppPlace, Parting, Uses, Separating
<1>6. \A c \in Branches : Using(c)'
  BY <1>0, Distinct DEF Losing, Sharing, AppPlace, Using, Uses, Separating
<1>7. \A c \in Branches : Working(c)'
  BY <1>0, Distinct DEF Sharing, Working, Uses, AppPlace, Separating
<1> QED BY <1>1, <1>2, <1>3, <1>4, <1>5, <1>6, <1>7 DEF Sharing

LEMMA EnterStep ==
    ASSUME Typed, Sharing, Enter
    PROVE  Sharing'
<1>0. /\ \A u \in Threads : u # App => thread'[u] = thread[u]
      /\ thread[App].pc = "enter" /\ lock.cs = None
      /\ thread'[App].kind = "execute"
      /\ thread'[App].pc = IF thread[App].kind = "execute" THEN "request" ELSE thread[App].kind
      /\ lock'.cs = App /\ lock'.e = lock.e /\ lock'.life = lock.life
      /\ handle'.asdum = handle.asdum /\ handle'.progress = handle.progress
      /\ handle'.enlisted = handle.enlisted /\ handle'.executing = handle.executing
      /\ handle'.auto = handle.auto
      /\ UNCHANGED <<sess, app, branch, dtc, pg, durable>>
  <2> DEFINE x == [Idle EXCEPT !.pc = IF thread[App].kind = "execute" THEN "request"
                                      ELSE thread[App].kind]
  <2>1. thread' = [thread EXCEPT ![App] = x]
    BY DEF Enter
  <2>2. thread'[App] = x /\ \A u \in Threads : u # App => thread'[u] = thread[u]
    BY <2>1, SetEffect, Distinct, ZenonT(40)
  <2>3. /\ thread'[App].kind = "execute"
        /\ thread'[App].pc = IF thread[App].kind = "execute" THEN "request"
                             ELSE thread[App].kind
    BY <2>2 DEF Idle
  <2>4. lock'.cs = App /\ lock'.e = lock.e /\ lock'.life = lock.life
    BY DEF Enter, Typed, LockOK
  <2>5. /\ handle'.asdum = handle.asdum /\ handle'.progress = handle.progress
        /\ handle'.enlisted = handle.enlisted /\ handle'.executing = handle.executing
        /\ handle'.auto = handle.auto
    BY DEF Enter, Typed, HandleOK
  <2> QED BY <2>2, <2>3, <2>4, <2>5 DEF Enter, At
<1>1. \A c \in Branches : Phase(c)'
  BY <1>0, PhasesKept
<1>2. AppPlace'
  BY <1>0 DEF Sharing, AppPlace, AppPcs, Separating, Calls
<1>3. Alone'
  <2>1. Enlisting' => /\ app'.joined = None
                      /\ \A c \in Branches :
                           \/ Settled(c)'
                           \/ thread'[App].pc \in {"bind", "async"} /\ c = thread'[App].on
    BY <1>0 DEF Sharing, AppPlace, Alone, Enlisting, Settled, Separating, Calls
  <2>2. handle'.asdum # None => handle'.progress
    BY <1>0 DEF Sharing, Alone
  <2>3. \A c \in Branches : lock.cs = Exec(c) => lock'.cs = Exec(c)
    BY <1>0, Distinct DEF Sharing, AppPlace
  <2> QED BY <1>0, <2>1, <2>2, <2>3, AloneKept
<1>4. Binding'
  BY <1>0, Distinct DEF Sharing, AppPlace, Binding, Uses, Separating, Calls
<1>5. Parting'
  BY <1>0, Distinct DEF Sharing, AppPlace, Parting, Uses, Separating, Calls
<1>6. \A c \in Branches : Using(c)'
  BY <1>0, Distinct DEF Losing, Sharing, AppPlace, Using, Uses, Separating, Calls
<1>7. \A c \in Branches : Working(c)'
  BY <1>0, Distinct DEF Sharing, Working, Uses, AppPlace, Calls
<1> QED BY <1>1, <1>2, <1>3, <1>4, <1>5, <1>6, <1>7 DEF Sharing

LEMMA ExecuteStep ==
    ASSUME Steady, Typed, Sharing, Execute
    PROVE  Sharing'
<1>0. /\ \A u \in Threads : u # App => thread'[u] = thread[u]
      /\ thread[App].pc = "execute" /\ thread'[App].pc = "finish"
      /\ thread'[App].kind = thread[App].kind /\ thread'[App].on = thread[App].on
      /\ sess'.open = sess.open /\ sess'.work \subseteq sess.work \cup {Item}
      /\ app'.joined = app.joined
      /\ handle'.asdum = handle.asdum /\ handle'.progress = handle.progress
      /\ handle'.enlisted = handle.enlisted /\ handle'.executing = handle.executing
      /\ handle'.auto = handle.auto
      /\ UNCHANGED <<branch, lock, dtc, pg, durable>>
  <2>1. /\ thread'[App].pc = "finish" /\ thread'[App].kind = thread[App].kind
        /\ thread'[App].on = thread[App].on
        /\ \A u \in Threads : u # App => thread'[u] = thread[u]
    BY GoEffect, Distinct DEF Execute
  <2>2. sess'.open = sess.open /\ sess'.work \subseteq sess.work \cup {Item}
    BY DEF Execute, OrLost, Steady, Typed, SessOK
  <2>3. app'.joined = app.joined
    BY DEF Execute, Did, Typed, AppOK
  <2>4. /\ handle'.asdum = handle.asdum /\ handle'.progress = handle.progress
        /\ handle'.enlisted = handle.enlisted /\ handle'.executing = handle.executing
        /\ handle'.auto = handle.auto
    BY DEF Execute, Typed, HandleOK
  <2> QED BY <2>1, <2>2, <2>3, <2>4 DEF Execute, At
<1>a. \A c \in Branches : c \in sess'.work =>
        c \in sess.work \/ (app.joined = c /\ handle.asdum = c /\ ~dtc[c].ended)
  BY <1>0, EnlistAssumption DEF Item, Items
<1>b. \A c \in Branches : c \in sess'.work =>
        /\ Uses(c) /\ handle.asdum = c /\ ~branch[c].prepared /\ ~handle.auto
        /\ dtc[c].ended => thread[Request(c)].pc = "abort_cs"
  BY <1>a DEF Sharing, Working, Phase
<1>1. \A c \in Branches : Phase(c)'
  BY <1>0, PhasesKept
<1>2. AppPlace'
  BY <1>0 DEF Sharing, AppPlace, AppPcs, Separating
<1>3. Alone'
  <2>1. Enlisting' => /\ app'.joined = None
                      /\ \A c \in Branches :
                           \/ Settled(c)'
                           \/ thread'[App].pc \in {"bind", "async"} /\ c = thread'[App].on
    BY <1>0 DEF Sharing, AppPlace, Alone, Enlisting, Settled, Separating
  <2>2. handle'.asdum # None => handle'.progress
    BY <1>0 DEF Sharing, Alone
  <2>3. \A c \in Branches : lock.cs = Exec(c) => lock'.cs = Exec(c)
    BY <1>0, Distinct DEF Sharing, AppPlace
  <2> QED BY <1>0, <2>1, <2>2, <2>3, AloneKept
<1>4. Binding'
  BY <1>0, Distinct DEF Sharing, AppPlace, Binding, Uses, Separating
<1>5. Parting'
  BY <1>0, Distinct DEF Sharing, AppPlace, Parting, Uses, Separating
<1>6. \A c \in Branches : Using(c)'
  BY <1>0, Distinct DEF Losing, Sharing, AppPlace, Using, Uses, Separating
<1>7. \A c \in Branches : Working(c)'
  BY <1>0, Distinct, <1>b DEF Sharing, Working, Uses
<1> QED BY <1>1, <1>2, <1>3, <1>4, <1>5, <1>6, <1>7 DEF Sharing

LEMMA FinishStep ==
    ASSUME Typed, Sharing, Finish
    PROVE  Sharing'
<1>0. /\ \A u \in Threads : u # App => thread'[u] = thread[u]
      /\ thread'[App].pc = "idle" /\ thread'[App].kind = "execute"
      /\ thread[App].pc = "finish"
      /\ sess'.open = sess.open /\ sess'.work \subseteq sess.work
      /\ durable' # durable => handle.auto /\ durable' = durable \cup (sess.work \cap Branches)
      /\ lock'.cs = None /\ lock'.e = lock.e /\ lock'.life = lock.life
      /\ UNCHANGED <<handle, app, branch, dtc, pg>>
  <2>1. /\ thread'[App].pc = "idle" /\ thread'[App].kind = "execute"
        /\ \A u \in Threads : u # App => thread'[u] = thread[u]
    BY StopEffect, Distinct DEF Finish, LeaveCs
  <2>2. sess'.open = sess.open /\ sess'.work \subseteq sess.work
    <3>1. CASE InTrans /\ sess' = Fresh
      BY <3>1 DEF Typed, SessOK, InTrans, Fresh
    <3> QED BY <3>1 DEF Finish
  <2>3. lock'.cs = None /\ lock'.e = lock.e /\ lock'.life = lock.life
    BY DEF Finish, LeaveCs, Typed, LockOK
  <2> QED BY <2>1, <2>2, <2>3 DEF Finish, At
<1>1. \A c \in Branches : Phase(c)'
  BY <1>0, PhasesKept
<1>2. AppPlace'
  BY <1>0 DEF Sharing, AppPlace, AppPcs, Separating
<1>3. Alone'
  <2>1. Enlisting' => /\ app'.joined = None
                      /\ \A c \in Branches :
                           \/ Settled(c)'
                           \/ thread'[App].pc \in {"bind", "async"} /\ c = thread'[App].on
    BY <1>0 DEF Sharing, AppPlace, Alone, Enlisting, Settled, Separating
  <2>2. handle'.asdum # None => handle'.progress
    BY <1>0 DEF Sharing, Alone
  <2>3. \A c \in Branches : lock.cs = Exec(c) => lock'.cs = Exec(c)
    BY <1>0, Distinct DEF Sharing, AppPlace
  <2> QED BY <1>0, <2>1, <2>2, <2>3, AloneKept
<1>4. Binding'
  BY <1>0, Distinct DEF Sharing, AppPlace, Binding, Uses, Separating
<1>5. Parting'
  BY <1>0, Distinct DEF Sharing, AppPlace, Parting, Uses, Separating
<1>6. \A c \in Branches : Using(c)'
  BY <1>0, Distinct DEF Losing, Sharing, AppPlace, Using, Uses, Separating
<1>7. \A c \in Branches : Working(c)'
  BY <1>0, Distinct DEF Sharing, Working, Uses
<1> QED BY <1>1, <1>2, <1>3, <1>4, <1>5, <1>6, <1>7 DEF Sharing

\* Until the coordinator knows the branch none of its threads does anything.
LEMMA PhaseActive ==
    ASSUME NEW b \in Branches, Phase(b), dtc[b].st = "none",
           dtc'[b].st = "active", dtc'[b].decision = dtc[b].decision,
           dtc'[b].ended = dtc[b].ended, branch' = branch, lock'.e = lock.e,
           thread'[Exec(b)] = thread[Exec(b)], thread'[Request(b)] = thread[Request(b)]
    PROVE  Phase(b)'
BY DEF Phase, Kinds

LEMMA EnlistInDtcStep ==
    ASSUME sess.open, Typed, Sharing, NEW b \in Branches, EnlistInDtc(b)
    PROVE  Sharing'
<1>0. /\ \A u \in Threads : u # App => thread'[u] = thread[u]
      /\ thread[App].pc = "start" /\ lock'.e = lock.e /\ lock'.life = lock.life
      /\ thread'[App].kind = "execute"
      /\ sess'.open = sess.open /\ sess'.work = {}
      /\ \/ thread'[App].pc = "idle" /\ dtc' = dtc /\ lock'.cs = None
         \/ /\ thread'[App].pc = "bind" /\ thread'[App].on = b /\ dtc[b].st = "none"
            /\ dtc'[b].st = "active" /\ dtc'[b].decision = dtc[b].decision
            /\ dtc'[b].ended = dtc[b].ended /\ lock' = lock
            /\ \A c \in Branches : c # b => dtc'[c] = dtc[c]
      /\ handle'.asdum = handle.asdum /\ handle'.progress = handle.progress
      /\ handle'.enlisted = handle.enlisted /\ handle'.executing = handle.executing
      /\ handle'.auto = handle.auto
      /\ UNCHANGED <<app, branch, pg, durable>>
  <2>1. sess'.open = sess.open /\ sess'.work = {}
    BY DEF EnlistInDtc, Typed, SessOK, Fresh
  <2>2. /\ handle'.asdum = handle.asdum /\ handle'.progress = handle.progress
        /\ handle'.enlisted = handle.enlisted /\ handle'.executing = handle.executing
        /\ handle'.auto = handle.auto
    <3>1. CASE handle' = handle
      BY <3>1
    <3>2. CASE \E err \in {TRUE, handle.err} : handle' = [handle EXCEPT !.err = err]
      BY <3>2 DEF Typed, HandleOK
    <3> QED BY <3>1, <3>2 DEF EnlistInDtc
  <2>3. thread[App].kind = "execute"
    BY DEF EnlistInDtc, At, Sharing, AppPlace
  <2>4. CASE LeaveCs /\ dtc' = dtc
    <3>1. /\ thread'[App].pc = "idle" /\ thread'[App].kind = "execute"
          /\ \A u \in Threads : u # App => thread'[u] = thread[u]
      BY <2>4, StopEffect, Distinct DEF LeaveCs
    <3>2. lock'.cs = None /\ lock'.e = lock.e /\ lock'.life = lock.life
      BY <2>4 DEF LeaveCs, Typed, LockOK
    <3> QED BY <2>1, <2>2, <2>4, <3>1, <3>2 DEF EnlistInDtc, At
  <2>5. CASE /\ dtc[b].st = "none" /\ dtc' = [dtc EXCEPT ![b].st = "active"]
             /\ thread' = [thread EXCEPT ![App].pc = "bind", ![App].on = b]
             /\ UNCHANGED <<handle, lock>>
    <3>1. /\ dtc'[b].st = "active" /\ dtc'[b].decision = dtc[b].decision
          /\ dtc'[b].ended = dtc[b].ended
          /\ \A c \in Branches : c # b => dtc'[c] = dtc[c]
      BY <2>5 DEF Typed, DtcOK, DtcState
    <3>2. /\ thread'[App].pc = "bind" /\ thread'[App].on = b
          /\ thread'[App].kind = thread[App].kind
          /\ \A u \in Threads : u # App => thread'[u] = thread[u]
      BY <2>5, Distinct DEF Typed, ThreadOK, ThreadState
    <3> QED BY <2>1, <2>2, <2>3, <2>5, <3>1, <3>2 DEF EnlistInDtc, At
  <2> QED BY <2>4, <2>5 DEF EnlistInDtc
<1>a. thread[Exec(b)].pc = "idle" \/ dtc[b].st # "none"
  BY DEF Sharing, Phase
<1>1. \A c \in Branches : Phase(c)'
  <2> SUFFICES ASSUME NEW c \in Branches PROVE Phase(c)'
    OBVIOUS
  <2>1. /\ thread'[Exec(c)] = thread[Exec(c)] /\ thread'[Request(c)] = thread[Request(c)]
        /\ Phase(c) /\ Phase(b)
    BY <1>0, Distinct DEF Sharing
  <2> QED BY <1>0, <2>1, PhaseKept, PhaseActive
<1>2. AppPlace'
  BY <1>0 DEF Sharing, AppPlace, AppPcs, Separating
<1>3. Alone'
  <2>1. Enlisting' => /\ app'.joined = None
                      /\ \A c \in Branches :
                           \/ Settled(c)'
                           \/ thread'[App].pc \in {"bind", "async"} /\ c = thread'[App].on
    BY <1>0 DEF Sharing, AppPlace, Alone, Enlisting, Settled, Separating
  <2>2. handle'.asdum # None => handle'.progress
    BY <1>0 DEF Sharing, Alone
  <2>3. \A c \in Branches : lock.cs = Exec(c) => lock'.cs = Exec(c)
    BY <1>0, Distinct DEF Sharing, AppPlace
  <2> QED BY <1>0, <2>1, <2>2, <2>3, AloneKept
<1>4. Binding'
  BY <1>0, Distinct, <1>a DEF Sharing, AppPlace, Binding, Uses, Separating
<1>5. Parting'
  BY <1>0, Distinct DEF Sharing, AppPlace, Parting, Uses, Separating
<1>6. \A c \in Branches : Using(c)'
  BY <1>0 DEF Sharing, AppPlace, Using, Uses, Separating
<1>7. \A c \in Branches : Working(c)'
  BY <1>0, Distinct, EnlistAssumption DEF Sharing, Working, Uses
<1> QED BY <1>1, <1>2, <1>3, <1>4, <1>5, <1>6, <1>7 DEF Sharing

LEMMA SetConnectionStep ==
    ASSUME Typed, Sharing, SetConnection
    PROVE  Sharing'
<1>0. /\ \A u \in Threads : u # App => thread'[u] = thread[u]
      /\ thread[App].pc = "bind" /\ thread'[App].pc = "async" /\ thread[App].on \in Branches
      /\ thread'[App].kind = thread[App].kind /\ thread'[App].on = thread[App].on
      /\ branch'[thread[App].on].conn = "handle"
      /\ \A c \in Branches : /\ branch'[c].prepared = branch[c].prepared
                             /\ branch'[c].done = branch[c].done
                             /\ c # thread[App].on => branch'[c] = branch[c]
      /\ UNCHANGED <<handle, sess, app, lock, dtc, pg, durable>>
  <2>1. /\ thread'[App].pc = "async" /\ thread'[App].kind = thread[App].kind
        /\ thread'[App].on = thread[App].on
        /\ \A u \in Threads : u # App => thread'[u] = thread[u]
    BY GoEffect, Distinct DEF SetConnection
  <2>2. thread[App].on \in Branches
    BY DEF Sharing, AppPlace, SetConnection, At
  <2>3. /\ branch'[thread[App].on].conn = "handle"
        /\ \A c \in Branches : /\ branch'[c].prepared = branch[c].prepared
                              /\ branch'[c].done = branch[c].done
                              /\ c # thread[App].on => branch'[c] = branch[c]
    BY <2>2 DEF SetConnection, Typed, BranchOK
  <2> QED BY <2>1, <2>2, <2>3 DEF SetConnection, At
<1>a. \A c \in Branches : c \notin sess.work
  BY <1>0 DEF Sharing, Using, Working
<1>b. \A c \in Branches : Uses(c)' => c = thread[App].on
  BY <1>0 DEF Sharing, Using, Uses
<1>c. ~dtc[thread[App].on].ended => ~branch[thread[App].on].done
  BY <1>0 DEF Sharing, Phase
<1>d. \A t \in Threads : thread[t].pc \in {"cleanup", "generate"} =>
        thread[t].on \in Branches /\ thread[t].pc # "cleanup"
  BY <1>0, SeparatingOn DEF Sharing, Parting, Using, Separating
<1>1. \A c \in Branches : Phase(c)'
  BY <1>0, PhasesKept
<1>2. AppPlace'
  BY <1>0 DEF Sharing, AppPlace, AppPcs, Separating
<1>3. Alone'
  <2>1. Enlisting' => /\ app'.joined = None
                      /\ \A c \in Branches :
                           \/ Settled(c)'
                           \/ thread'[App].pc \in {"bind", "async"} /\ c = thread'[App].on
    BY <1>0 DEF Sharing, AppPlace, Alone, Enlisting, Settled, Separating
  <2>2. handle'.asdum # None => handle'.progress
    BY <1>0 DEF Sharing, Alone
  <2>3. \A c \in Branches : lock.cs = Exec(c) => lock'.cs = Exec(c)
    BY <1>0, Distinct DEF Sharing, AppPlace
  <2> QED BY <1>0, <2>1, <2>2, <2>3, AloneKept
<1>4. Binding'
  BY <1>0, Distinct, <1>b, <1>c DEF Sharing, AppPlace, Binding, Uses, Separating
<1>5. Parting'
  BY <1>0, Distinct, <1>d DEF Sharing, AppPlace, Parting, Uses, Separating
<1>6. \A c \in Branches : Using(c)'
  BY <1>0, <1>b DEF Sharing, AppPlace, Using, Uses, Separating, Binding
<1>7. \A c \in Branches : Working(c)'
  BY <1>0, Distinct, <1>a, <1>b DEF Sharing, Working, Uses
<1> QED BY <1>1, <1>2, <1>3, <1>4, <1>5, <1>6, <1>7 DEF Sharing

LEMMA SetAsyncStep ==
    ASSUME Typed, Sharing, SetAsync
    PROVE  Sharing'
<1>0. /\ \A u \in Threads : u # App => thread'[u] = thread[u]
      /\ thread[App].pc = "async" /\ thread[App].on \in Branches
      /\ thread'[App].pc = "idle" /\ thread'[App].kind = "execute"
      /\ lock'.cs = None /\ lock'.e = lock.e /\ lock'.life = lock.life
      /\ handle'.asdum = thread[App].on /\ handle'.progress /\ handle'.enlisted /\ ~handle'.auto
      /\ handle'.executing = handle.executing /\ app'.joined = thread[App].on
      /\ UNCHANGED <<sess, branch, dtc, pg, durable>>
    <2>1. /\ thread'[App].pc = "idle" /\ thread'[App].kind = "execute"
        /\ \A u \in Threads : u # App => thread'[u] = thread[u]
    BY StopEffect, Distinct DEF SetAsync, LeaveCs
  <2>2. thread[App].on \in Branches
    BY DEF Sharing, AppPlace, SetAsync, At
  <2>3. lock'.cs = None /\ lock'.e = lock.e /\ lock'.life = lock.life
    BY DEF SetAsync, LeaveCs, Typed, LockOK
  <2>4. /\ handle'.asdum = thread[App].on /\ handle'.progress /\ handle'.enlisted /\ ~handle'.auto
        /\ handle'.executing = handle.executing
    BY DEF SetAsync, HandleEnlisted, Typed, HandleOK
  <2>5. app'.joined = thread[App].on
    BY DEF SetAsync, Typed, AppOK
  <2> QED BY <2>1, <2>2, <2>3, <2>4, <2>5 DEF SetAsync, At
<1>1. \A c \in Branches : Phase(c)'
  BY <1>0, PhasesKept
<1>2. AppPlace'
  BY <1>0 DEF Sharing, AppPlace, AppPcs, Separating
<1>3. Alone'
  <2>1. Enlisting' => /\ app'.joined = None
                      /\ \A c \in Branches :
                           \/ Settled(c)'
                           \/ thread'[App].pc \in {"bind", "async"} /\ c = thread'[App].on
    BY <1>0 DEF Sharing, AppPlace, Alone, Enlisting, Settled, Separating
  <2>2. handle'.asdum # None => handle'.progress
    BY <1>0 DEF Sharing, Alone
  <2>3. \A c \in Branches : lock.cs = Exec(c) => lock'.cs = Exec(c)
    BY <1>0, Distinct DEF Sharing, AppPlace
  <2> QED BY <1>0, <2>1, <2>2, <2>3, AloneKept
<1>4. Binding'
  BY <1>0, Distinct DEF Sharing, AppPlace, Binding, Uses, Separating
<1>5. Parting'
  BY <1>0, Distinct DEF Sharing, AppPlace, Parting, Uses, Separating
<1>6. \A c \in Branches : Using(c)'
  BY <1>0, EnlistAssumption, Distinct DEF Losing, Sharing, AppPlace, Using, Uses, Separating
<1>7. \A c \in Branches : Working(c)'
  BY <1>0, Distinct DEF Sharing, Working, Uses, Binding
<1> QED BY <1>1, <1>2, <1>3, <1>4, <1>5, <1>6, <1>7 DEF Sharing

LEMMA LeaveStep ==
    ASSUME Typed, Sharing, Leave
    PROVE  Sharing'
<1>0. /\ \A u \in Threads : u # App => thread'[u] = thread[u]
      /\ thread[App].pc = "leave"
      /\ thread'[App].pc = "idle" /\ thread'[App].kind = "execute"
      /\ lock'.cs = None /\ lock'.e = lock.e /\ lock'.life = lock.life
      /\ handle'.asdum = handle.asdum /\ handle'.progress = handle.progress /\ ~handle'.enlisted
      /\ handle'.auto = handle.auto /\ handle'.executing = handle.executing /\ app'.joined = None
      /\ UNCHANGED <<sess, branch, dtc, pg, durable>>
    <2>1. /\ thread'[App].pc = "idle" /\ thread'[App].kind = "execute"
        /\ \A u \in Threads : u # App => thread'[u] = thread[u]
    BY StopEffect, Distinct DEF Leave, LeaveCs
  <2>2. lock'.cs = None /\ lock'.e = lock.e /\ lock'.life = lock.life
    BY DEF Leave, LeaveCs, Typed, LockOK
  <2>3. /\ handle'.asdum = handle.asdum /\ handle'.progress = handle.progress /\ ~handle'.enlisted
        /\ handle'.auto = handle.auto /\ handle'.executing = handle.executing
    BY DEF Leave, Typed, HandleOK
  <2>4. app'.joined = None
    BY DEF Leave, Typed, AppOK
  <2> QED BY <2>1, <2>2, <2>3, <2>4 DEF Leave, At
<1>1. \A c \in Branches : Phase(c)'
  BY <1>0, PhasesKept
<1>2. AppPlace'
  BY <1>0 DEF Sharing, AppPlace, AppPcs, Separating
<1>3. Alone'
  <2>1. Enlisting' => /\ app'.joined = None
                      /\ \A c \in Branches :
                           \/ Settled(c)'
                           \/ thread'[App].pc \in {"bind", "async"} /\ c = thread'[App].on
    BY <1>0 DEF Sharing, AppPlace, Alone, Enlisting, Settled, Separating
  <2>2. handle'.asdum # None => handle'.progress
    BY <1>0 DEF Sharing, Alone
  <2>3. \A c \in Branches : lock.cs = Exec(c) => lock'.cs = Exec(c)
    BY <1>0, Distinct DEF Sharing, AppPlace
  <2> QED BY <1>0, <2>1, <2>2, <2>3, AloneKept
<1>4. Binding'
  BY <1>0, Distinct DEF Sharing, AppPlace, Binding, Uses, Separating
<1>5. Parting'
  BY <1>0, Distinct DEF Sharing, AppPlace, Parting, Uses, Separating
<1>6. \A c \in Branches : Using(c)'
  BY <1>0, Distinct DEF Losing, Sharing, AppPlace, Using, Uses, Separating
<1>7. \A c \in Branches : Working(c)'
  BY <1>0, Distinct DEF Sharing, Working, Uses
<1> QED BY <1>1, <1>2, <1>3, <1>4, <1>5, <1>6, <1>7 DEF Sharing

LEMMA DisconnectStep ==
    ASSUME Typed, Sharing, Disconnect
    PROVE  Sharing'
<1>0. /\ \A u \in Threads : u # App => thread'[u] = thread[u]
      /\ thread[App].pc = "disconnect"
      /\ thread'[App].pc = "idle" /\ thread'[App].kind = "execute"
      /\ lock'.cs = None /\ lock'.e = lock.e /\ lock'.life = lock.life
      /\ handle'.asdum = handle.asdum /\ handle'.progress = handle.progress
      /\ handle'.executing = handle.executing /\ app'.joined = None
      /\ sess'.work = {}
      /\ UNCHANGED <<branch, dtc, pg, durable>>
    <2>1. /\ thread'[App].pc = "idle" /\ thread'[App].kind = "execute"
        /\ \A u \in Threads : u # App => thread'[u] = thread[u]
    BY StopEffect, Distinct DEF Disconnect, LeaveCs
  <2>2. lock'.cs = None /\ lock'.e = lock.e /\ lock'.life = lock.life
    BY DEF Disconnect, LeaveCs, Typed, LockOK
  <2>3. /\ handle'.asdum = handle.asdum /\ handle'.progress = handle.progress
        /\ handle'.executing = handle.executing
    BY DEF Disconnect, Typed, HandleOK
  <2>4. app'.joined = None
    BY DEF Disconnect, Typed, AppOK
  <2>5. sess'.work = {}
    BY DEF Disconnect, Closed
  <2> QED BY <2>1, <2>2, <2>3, <2>4, <2>5 DEF Disconnect, At
<1>1. \A c \in Branches : Phase(c)'
  BY <1>0, PhasesKept
<1>2. AppPlace'
  BY <1>0 DEF Sharing, AppPlace, AppPcs, Separating
<1>3. Alone'
  <2>1. Enlisting' => /\ app'.joined = None
                      /\ \A c \in Branches :
                           \/ Settled(c)'
                           \/ thread'[App].pc \in {"bind", "async"} /\ c = thread'[App].on
    BY <1>0 DEF Sharing, AppPlace, Alone, Enlisting, Settled, Separating
  <2>2. handle'.asdum # None => handle'.progress
    BY <1>0 DEF Sharing, Alone
  <2>3. \A c \in Branches : lock.cs = Exec(c) => lock'.cs = Exec(c)
    BY <1>0, Distinct DEF Sharing, AppPlace
  <2> QED BY <1>0, <2>1, <2>2, <2>3, AloneKept
<1>4. Binding'
  BY <1>0, Distinct DEF Sharing, AppPlace, Binding, Uses, Separating
<1>5. Parting'
  BY <1>0, Distinct DEF Sharing, AppPlace, Parting, Uses, Separating
<1>6. \A c \in Branches : Using(c)'
  BY <1>0 DEF Sharing, AppPlace, Using, Uses, Separating
<1>7. \A c \in Branches : Working(c)'
  BY <1>0, Distinct, EnlistAssumption DEF Sharing, Working, Uses
<1> QED BY <1>1, <1>2, <1>3, <1>4, <1>5, <1>6, <1>7 DEF Sharing

LEMMA ConnectStep ==
    ASSUME Typed, Sharing, Connect
    PROVE  Sharing'
<1>0. /\ \A u \in Threads : u # App => thread'[u] = thread[u]
      /\ thread[App].pc = "connect"
      /\ thread'[App].pc = "idle" /\ thread'[App].kind = "execute"
      /\ lock'.cs = None /\ lock'.e = lock.e /\ lock'.life = lock.life
      /\ app'.joined = app.joined
      /\ sess' # sess => sess'.open /\ sess'.work = {}
      /\ UNCHANGED <<handle, branch, dtc, pg, durable>>
    <2>1. /\ thread'[App].pc = "idle" /\ thread'[App].kind = "execute"
        /\ \A u \in Threads : u # App => thread'[u] = thread[u]
    BY StopEffect, Distinct DEF Connect, LeaveCs
  <2>2. lock'.cs = None /\ lock'.e = lock.e /\ lock'.life = lock.life
    BY DEF Connect, LeaveCs, Typed, LockOK
  <2>3. app'.joined = app.joined
    BY DEF Connect, Typed, AppOK
  <2>4. sess' # sess => sess'.open /\ sess'.work = {}
    BY DEF Connect, Fresh
  <2> QED BY <2>1, <2>2, <2>3, <2>4 DEF Connect, At
<1>1. \A c \in Branches : Phase(c)'
  BY <1>0, PhasesKept
<1>2. AppPlace'
  BY <1>0 DEF Sharing, AppPlace, AppPcs, Separating
<1>3. Alone'
  <2>1. Enlisting' => /\ app'.joined = None
                      /\ \A c \in Branches :
                           \/ Settled(c)'
                           \/ thread'[App].pc \in {"bind", "async"} /\ c = thread'[App].on
    BY <1>0 DEF Sharing, AppPlace, Alone, Enlisting, Settled, Separating
  <2>2. handle'.asdum # None => handle'.progress
    BY <1>0 DEF Sharing, Alone
  <2>3. \A c \in Branches : lock.cs = Exec(c) => lock'.cs = Exec(c)
    BY <1>0, Distinct DEF Sharing, AppPlace
  <2> QED BY <1>0, <2>1, <2>2, <2>3, AloneKept
<1>4. Binding'
  BY <1>0, Distinct DEF Sharing, AppPlace, Binding, Uses, Separating
<1>5. Parting'
  BY <1>0, Distinct DEF Sharing, AppPlace, Parting, Uses, Separating
<1>6. \A c \in Branches : Using(c)'
  BY <1>0, Distinct DEF Losing, Sharing, AppPlace, Using, Uses, Separating
<1>7. \A c \in Branches : Working(c)'
  BY <1>0, Distinct DEF Sharing, Working, Uses
<1> QED BY <1>1, <1>2, <1>3, <1>4, <1>5, <1>6, <1>7 DEF Sharing

-----------------------------------------------------------------------------
(***************************************************************************)
(* MSDTC's requests and their threads keep the invariant.                  *)
(***************************************************************************)

LEMMA StartedEffect ==
    ASSUME NEW kind, NEW res
    PROVE  /\ Started(kind, res).pc = "begin" /\ Started(kind, res).kind = kind
           /\ Started(kind, res).res = res
BY DEF Started, Idle

LEMMA PrepareRequestStep ==
    ASSUME Typed, Sharing, NEW b \in Branches, PrepareRequest(b)
    PROVE  Sharing'
<1>0. /\ \A u \in Threads : u \notin {Exec(b), Request(b)} => thread'[u] = thread[u]
      /\ \A c \in Branches : c # b => dtc'[c] = dtc[c]
      /\ dtc[b].st = "active" /\ dtc'[b].st = "preparing" /\ dtc'[b].ended = dtc[b].ended
      /\ \/ dtc'[b].decision = "single"
         \/ dtc'[b].decision = dtc[b].decision /\ thread'[Exec(b)].res # "single"
      /\ thread'[Exec(b)].pc = "begin" /\ thread'[Exec(b)].kind = "prepare"
      /\ thread'[Request(b)] = thread[Request(b)]
      /\ ~(thread[App].pc \in {"bind", "async"} /\ thread[App].on = b)
      /\ UNCHANGED <<handle, sess, app, branch, lock, pg, durable>>
  <2>1. PICK single \in BOOLEAN, res \in Results :
            /\ dtc' = [dtc EXCEPT ![b].st = "preparing",
                                  ![b].decision = IF single THEN "single" ELSE @]
            /\ thread' = [thread EXCEPT ![Exec(b)] = Started("prepare", res)]
            /\ res = "single" => single
    BY DEF PrepareRequest, Results
  <2>2. /\ dtc'[b].st = "preparing" /\ dtc'[b].ended = dtc[b].ended
        /\ dtc'[b].decision = IF single THEN "single" ELSE dtc[b].decision
        /\ \A c \in Branches : c # b => dtc'[c] = dtc[c]
    BY <2>1 DEF Typed, DtcOK, DtcState
  <2>3. /\ thread'[Exec(b)] = Started("prepare", res)
        /\ \A u \in Threads : u # Exec(b) => thread'[u] = thread[u]
    BY ZenonT(40), <2>1, SetEffect, Distinct
  <2>4. Started("prepare", res).pc = "begin" /\ Started("prepare", res).kind = "prepare"
        /\ Started("prepare", res).res = res
    BY StartedEffect
  <2>5. \/ dtc'[b].decision = "single"
        \/ dtc'[b].decision = dtc[b].decision /\ res # "single"
    BY <2>1, <2>2
  <2>6. UNCHANGED <<handle, sess, app, branch, lock, pg, durable>> /\ dtc[b].st = "active"
        /\ ~(thread[App].pc \in {"bind", "async"} /\ thread[App].on = b)
    BY DEF PrepareRequest
  <2>7. /\ thread'[Exec(b)].pc = "begin" /\ thread'[Exec(b)].kind = "prepare"
        /\ thread'[Exec(b)].res = res /\ thread'[Request(b)] = thread[Request(b)]
    BY <2>3, <2>4, Distinct
  <2> QED BY <2>2, <2>3, <2>5, <2>6, <2>7
<1>a. Exec(b) \in Threads /\ Request(b) \in Threads /\ Phase(b)
  BY Distinct DEF Sharing
<1>1. Phase(b)'
  BY <1>0, <1>a, Distinct DEF Phase, Kinds, InExec, Separating
<1>2. \A c \in Branches : c # b => Phase(c)'
  BY <1>0, OtherPhases
<1>3. AppPlace' /\ Alone' /\ Parting' /\ \A c \in Branches : Using(c)'
  <2>1. \A u \in Threads : \/ thread'[u] = thread[u]
                           \/ thread'[u].pc \notin {"cleanup", "generate"}
    BY <1>0, <1>a DEF Phase, Kinds
  <2>2. handle'.executing => \E c \in Branches : \/ lock'.cs = Exec(c)
                                                  \/ thread'[Request(c)].pc = "abort_cs"
    BY <1>0, <1>a, Distinct DEF Sharing, Alone, Phase
  <2>3. \A c \in Branches : /\ Uses(c)' <=> Uses(c)
                            /\ branch[c].prepared => branch'[c].prepared
                            /\ Settled(c) => Settled(c)'
    BY <1>0, <1>a DEF Uses, Settled, Phase, Kinds
  <2>4. Uses(b) /\ (sess.open \/ Losing(b)) => sess'.open \/ Losing(b)'
    BY <1>0, <1>a DEF Uses, Losing, Phase
  <2> QED BY <1>0, <2>1, <2>2, <2>3, <2>4, Behind, Distinct
<1>4. Binding'
  BY <1>0, <1>a, Distinct DEF Sharing, AppPlace, Binding, Uses, Phase, Separating
<1>5. \A c \in Branches : Working(c)'
  BY <1>0, <1>a, Distinct DEF Sharing, Working, Uses, Phase, Kinds
<1> QED BY <1>1, <1>2, <1>3, <1>4, <1>5 DEF Sharing

LEMMA CommitRequestStep ==
    ASSUME Typed, Sharing, NEW b \in Branches, CommitRequest(b)
    PROVE  Sharing'
<1>0. /\ \A u \in Threads : u \notin {Exec(b), Request(b)} => thread'[u] = thread[u]
      /\ \A c \in Branches : c # b => dtc'[c] = dtc[c]
      /\ dtc[b].st = "ready" /\ dtc[b].decision = "none" /\ dtc'[b].decision = "commit" /\ dtc'[b].ended = dtc[b].ended
      /\ \/ dtc'[b].st = "over" /\ thread'[Exec(b)] = thread[Exec(b)]
         \/ /\ dtc'[b].st = "ready" /\ thread'[Exec(b)].pc = "begin" /\ thread'[Exec(b)].kind = "commit"
            /\ branch[b].prepared /\ ~branch[b].done
      /\ thread'[Request(b)] = thread[Request(b)]
      /\ UNCHANGED <<handle, sess, app, branch, lock, pg, durable>>
  <2>1. PICK st \in {"over", dtc[b].st}, answer \in {"refused", dtc[b].answer} :
            /\ dtc' = [dtc EXCEPT ![b].decision = "commit", ![b].st = st, ![b].answer = answer]
            /\ \/ st = "over" /\ thread' = thread
               \/ /\ st = dtc[b].st /\ branch[b].prepared /\ ~branch[b].done
                  /\ thread' = [thread EXCEPT ![Exec(b)] = Started("commit", "ok")]
    BY DEF CommitRequest
  <2>2. /\ dtc'[b].st = st /\ dtc'[b].ended = dtc[b].ended /\ dtc'[b].decision = "commit"
        /\ \A c \in Branches : c # b => dtc'[c] = dtc[c]
    BY <2>1, ZenonT(40) DEF Typed, DtcOK, DtcState
  <2>3. \A u \in Threads : u # Exec(b) => thread'[u] = thread[u]
    BY <2>1, SetEffect, Distinct, SMTT(30)
  <2>4. \/ st = "over" /\ thread'[Exec(b)] = thread[Exec(b)]
        \/ /\ st = dtc[b].st /\ branch[b].prepared /\ ~branch[b].done
           /\ thread'[Exec(b)] = Started("commit", "ok")
    BY <2>1, SetEffect, Distinct
  <2>5. Started("commit", "ok").pc = "begin" /\ Started("commit", "ok").kind = "commit"
    BY StartedEffect
  <2> QED BY <2>2, <2>3, <2>4, <2>5, Distinct DEF CommitRequest
<1>a. Exec(b) \in Threads /\ Request(b) \in Threads /\ Phase(b)
  BY Distinct DEF Sharing
<1>1. Phase(b)'
  BY <1>0, <1>a, Distinct DEF Phase, Kinds, InExec, Separating
<1>2. \A c \in Branches : c # b => Phase(c)'
  BY <1>0, OtherPhases
<1>3. AppPlace' /\ Alone' /\ Parting' /\ \A c \in Branches : Using(c)'
  <2>1. \A u \in Threads : \/ thread'[u] = thread[u]
                           \/ thread'[u].pc \notin {"cleanup", "generate"}
    BY <1>0, <1>a DEF Phase, Kinds
  <2>2. handle'.executing => \E c \in Branches : \/ lock'.cs = Exec(c)
                                                  \/ thread'[Request(c)].pc = "abort_cs"
    BY <1>0, <1>a, Distinct DEF Sharing, Alone, Phase
  <2>3. \A c \in Branches : /\ Uses(c)' <=> Uses(c)
                            /\ branch[c].prepared => branch'[c].prepared
                            /\ Settled(c) => Settled(c)'
    BY <1>0, <1>a DEF Uses, Settled, Phase, Kinds
  <2>4. Uses(b) /\ (sess.open \/ Losing(b)) => sess'.open \/ Losing(b)'
    BY <1>0, <1>a DEF Uses, Losing, Phase, Kinds
  <2> QED BY <1>0, <2>1, <2>2, <2>3, <2>4, Behind, Distinct
<1>4. Binding'
  BY <1>0, <1>a, Distinct DEF Sharing, AppPlace, Binding, Uses, Phase, Separating
<1>5. \A c \in Branches : Working(c)'
  BY <1>0, <1>a, Distinct DEF Sharing, Working, Uses, Phase, Kinds
<1> QED BY <1>1, <1>2, <1>3, <1>4, <1>5 DEF Sharing

LEMMA AbortRequestStep ==
    ASSUME Typed, Sharing, NEW b \in Branches, AbortRequest(b)
    PROVE  Sharing'
<1>0. /\ \A u \in Threads : u \notin {Exec(b), Request(b)} => thread'[u] = thread[u]
      /\ \A c \in Branches : c # b => dtc'[c] = dtc[c]
      /\ dtc[b].st \in {"active", "ready"} /\ dtc[b].decision = "none" /\ ~branch[b].done
      /\ dtc'[b].st = "ready" /\ dtc'[b].decision = "abort" /\ dtc'[b].ended = dtc[b].ended
      /\ thread'[Exec(b)] = thread[Exec(b)] /\ thread'[Request(b)].pc = "abort_elock"
      /\ UNCHANGED <<handle, sess, app, branch, lock, pg, durable>>
  <2>1. /\ dtc'[b].st = "ready" /\ dtc'[b].ended = dtc[b].ended /\ dtc'[b].decision = "abort"
        /\ \A c \in Branches : c # b => dtc'[c] = dtc[c]
    BY DEF AbortRequest, Typed, DtcOK, DtcState
  <2>2. /\ thread'[Request(b)].pc = "abort_elock"
        /\ \A u \in Threads : u # Request(b) => thread'[u] = thread[u]
    BY GoEffect, Distinct DEF AbortRequest
  <2> QED BY <2>1, <2>2, Distinct DEF AbortRequest
<1>a. Exec(b) \in Threads /\ Request(b) \in Threads /\ Phase(b)
  BY Distinct DEF Sharing
<1>1. Phase(b)'
  BY <1>0, <1>a, Distinct DEF Phase, Kinds, InExec, Separating
<1>2. \A c \in Branches : c # b => Phase(c)'
  BY <1>0, OtherPhases
<1>3. AppPlace' /\ Alone' /\ Parting' /\ \A c \in Branches : Using(c)'
  <2>1. \A u \in Threads : \/ thread'[u] = thread[u]
                           \/ thread'[u].pc \notin {"cleanup", "generate"}
    BY <1>0, <1>a DEF Phase, Kinds
  <2>2. handle'.executing => \E c \in Branches : \/ lock'.cs = Exec(c)
                                                  \/ thread'[Request(c)].pc = "abort_cs"
    BY <1>0, <1>a, Distinct DEF Sharing, Alone, Phase
  <2>3. \A c \in Branches : /\ Uses(c)' <=> Uses(c)
                            /\ branch[c].prepared => branch'[c].prepared
                            /\ Settled(c) => Settled(c)'
    BY <1>0, <1>a DEF Uses, Settled, Phase, Kinds
  <2>4. Uses(b) /\ (sess.open \/ Losing(b)) => sess'.open \/ Losing(b)'
    BY <1>0, <1>a DEF Uses, Losing, Phase
  <2> QED BY <1>0, <2>1, <2>2, <2>3, <2>4, Behind, Distinct
<1>4. Binding'
  BY <1>0, <1>a, Distinct DEF Sharing, AppPlace, Binding, Uses, Phase, Separating
<1>5. \A c \in Branches : Working(c)'
  BY <1>0, <1>a, Distinct DEF Sharing, Working, Uses, Phase, Kinds
<1> QED BY <1>1, <1>2, <1>3, <1>4, <1>5 DEF Sharing

LEMMA AbortLockedStep ==
    ASSUME Typed, Sharing, NEW b \in Branches, AbortLocked(b)
    PROVE  Sharing'
<1>0. /\ \A u \in Threads : u \notin {Exec(b), Request(b)} => thread'[u] = thread[u]
      /\ \A c \in Branches : c # b => dtc'[c] = dtc[c]
      /\ thread[Request(b)].pc = "abort_elock" /\ lock.e[b] = None
      /\ dtc'[b].st = dtc[b].st /\ dtc'[b].decision = dtc[b].decision /\ dtc'[b].ended
      /\ \/ /\ thread'[Request(b)].pc = "abort_cs" /\ thread'[Exec(b)] = thread[Exec(b)]
            /\ lock'.e[b] = Request(b)
         \/ /\ thread'[Request(b)].pc = "idle" /\ lock'.e[b] = None
            /\ thread'[Exec(b)].pc = "begin" /\ thread'[Exec(b)].kind = "abort"
            /\ ~(RollsBack(b) /\ InTrans) /\ handle' = handle
      /\ lock'.cs = lock.cs /\ lock'.life = lock.life
      /\ \A c \in Branches : c # b => lock'.e[c] = lock.e[c]
      /\ handle'.asdum = handle.asdum /\ handle'.progress = handle.progress
      /\ handle'.enlisted = handle.enlisted /\ handle'.auto = handle.auto
      /\ UNCHANGED <<sess, app, branch, pg, durable>>
  <2>1. /\ dtc'[b].st = dtc[b].st /\ dtc'[b].ended /\ dtc'[b].decision = dtc[b].decision
        /\ \A c \in Branches : c # b => dtc'[c] = dtc[c]
    BY DEF AbortLocked, Typed, DtcOK, DtcState
  <2>2. /\ handle'.asdum = handle.asdum /\ handle'.progress = handle.progress
        /\ handle'.enlisted = handle.enlisted /\ handle'.auto = handle.auto
    BY DEF AbortLocked, Typed, HandleOK
  <2>3. CASE /\ lock' = [lock EXCEPT !.e[b] = Request(b)]
             /\ Go(Request(b), "abort_cs")
    <3>1. /\ thread'[Request(b)].pc = "abort_cs"
          /\ \A u \in Threads : u # Request(b) => thread'[u] = thread[u]
      BY <2>3, GoEffect, Distinct
    <3>2. /\ lock'.e[b] = Request(b) /\ lock'.cs = lock.cs /\ lock'.life = lock.life
          /\ \A c \in Branches : c # b => lock'.e[c] = lock.e[c]
      BY <2>3 DEF Typed, LockOK
    <3> QED BY <2>1, <2>2, <3>1, <3>2, Distinct DEF AbortLocked, At
  <2>4. CASE /\ thread' = [thread EXCEPT ![Request(b)].pc = "idle",
                                         ![Exec(b)] = Started("abort", "ok")]
             /\ ~(RollsBack(b) /\ InTrans) /\ UNCHANGED <<lock, handle>>
    <3>1. /\ thread'[Request(b)].pc = "idle" /\ thread'[Exec(b)] = Started("abort", "ok")
          /\ \A u \in Threads : u \notin {Exec(b), Request(b)} => thread'[u] = thread[u]
      BY <2>4, Distinct DEF Typed, ThreadOK, ThreadState
    <3>2. Started("abort", "ok").pc = "begin" /\ Started("abort", "ok").kind = "abort"
      BY StartedEffect
    <3> QED BY <2>1, <2>2, <2>4, <3>1, <3>2, Distinct DEF AbortLocked, At
  <2> QED BY <2>3, <2>4 DEF AbortLocked
<1>a. Exec(b) \in Threads /\ Request(b) \in Threads /\ Phase(b)
  BY Distinct DEF Sharing
<1>1. Phase(b)'
  BY <1>0, <1>a, Distinct DEF Phase, Kinds, InExec, Separating
<1>2. \A c \in Branches : c # b => Phase(c)'
  BY <1>0, OtherPhases
<1>3. AppPlace' /\ Alone' /\ Parting' /\ \A c \in Branches : Using(c)'
  <2>1. \A u \in Threads : \/ thread'[u] = thread[u]
                           \/ thread'[u].pc \notin {"cleanup", "generate"}
    BY <1>0, <1>a DEF Phase, Kinds
  <2>2. handle'.executing => \E c \in Branches : \/ lock'.cs = Exec(c)
                                                  \/ thread'[Request(c)].pc = "abort_cs"
    BY <1>0, <1>a, Distinct DEF Sharing, Alone, Phase
  <2>3. \A c \in Branches : /\ Uses(c)' <=> Uses(c)
                            /\ branch[c].prepared => branch'[c].prepared
                            /\ Settled(c) => Settled(c)'
    BY <1>0, <1>a DEF Uses, Settled, Phase, Kinds
  <2>4. Uses(b) /\ (sess.open \/ Losing(b)) => sess'.open \/ Losing(b)'
    BY <1>0, <1>a DEF Uses, Losing, Phase
  <2> QED BY <1>0, <2>1, <2>2, <2>3, <2>4, Behind, Distinct
<1>4. Binding'
  BY <1>0, <1>a, Distinct DEF Sharing, AppPlace, Binding, Uses, Phase, Separating
<1>5. \A c \in Branches : Working(c)'
  BY <1>0, <1>a, Distinct DEF Sharing, Working, Uses, Phase, Kinds, RollsBack, InTrans, SessOK, Typed
<1> QED BY <1>1, <1>2, <1>3, <1>4, <1>5 DEF Sharing

LEMMA AbortLocalStep ==
    ASSUME Steady, Typed, Sharing, NEW b \in Branches, AbortLocal(b)
    PROVE  Sharing'
<1>0. /\ \A u \in Threads : u \notin {Exec(b), Request(b)} => thread'[u] = thread[u]
      /\ thread[Request(b)].pc = "abort_cs"
      /\ \A c \in Branches : c # b => lock'.e[c] = lock.e[c]
      /\ thread'[Request(b)].pc = "idle" /\ thread'[Exec(b)].pc = "begin" /\ thread'[Exec(b)].kind = "abort"
      /\ sess'.open = sess.open /\ sess'.work = {}
      /\ lock'.cs = lock.cs /\ lock'.life = lock.life
      /\ handle'.asdum = handle.asdum /\ handle'.progress = handle.progress
      /\ handle'.enlisted = handle.enlisted /\ handle'.auto = handle.auto
      /\ ~handle'.executing
      /\ UNCHANGED <<app, branch, dtc, pg, durable>>
  <2>1. /\ thread'[Request(b)].pc = "idle" /\ thread'[Exec(b)] = Started("abort", "ok")
        /\ \A u \in Threads : u \notin {Exec(b), Request(b)} => thread'[u] = thread[u]
    BY Distinct DEF AbortLocal, Typed, ThreadOK, ThreadState
  <2>2. /\ handle'.asdum = handle.asdum /\ handle'.progress = handle.progress
        /\ handle'.enlisted = handle.enlisted /\ handle'.auto = handle.auto
        /\ ~handle'.executing
    BY DEF AbortLocal, Typed, HandleOK
  <2>3. sess'.open = sess.open /\ sess'.work = {}
    <3>1. sess' = RolledBack
      BY DEF AbortLocal, OrLost, Steady
    <3> QED BY <3>1 DEF RolledBack, Typed, SessOK, Fresh
  <2>4. /\ lock'.cs = lock.cs /\ lock'.life = lock.life
        /\ \A c \in Branches : c # b => lock'.e[c] = lock.e[c]
    BY DEF AbortLocal, Typed, LockOK
  <2>5. Started("abort", "ok").pc = "begin" /\ Started("abort", "ok").kind = "abort"
    BY StartedEffect
  <2> QED BY <2>1, <2>2, <2>3, <2>4, <2>5 DEF AbortLocal, At
<1>a. Exec(b) \in Threads /\ Request(b) \in Threads /\ Phase(b)
  BY Distinct DEF Sharing
<1>1. Phase(b)'
  BY <1>0, <1>a, Distinct DEF Phase, Kinds, InExec, Separating
<1>2. \A c \in Branches : c # b => Phase(c)'
  BY <1>0, OtherPhases
<1>3. AppPlace' /\ Alone' /\ Parting' /\ \A c \in Branches : Using(c)'
  <2>1. \A u \in Threads : \/ thread'[u] = thread[u]
                           \/ thread'[u].pc \notin {"cleanup", "generate"}
    BY <1>0, <1>a DEF Phase, Kinds
  <2>2. handle'.executing => \E c \in Branches : \/ lock'.cs = Exec(c)
                                                  \/ thread'[Request(c)].pc = "abort_cs"
    BY <1>0, <1>a, Distinct DEF Sharing, Alone, Phase
  <2>3. \A c \in Branches : /\ Uses(c)' <=> Uses(c)
                            /\ branch[c].prepared => branch'[c].prepared
                            /\ Settled(c) => Settled(c)'
    BY <1>0, <1>a DEF Uses, Settled, Phase, Kinds
  <2>4. Uses(b) /\ (sess.open \/ Losing(b)) => sess'.open \/ Losing(b)'
    BY <1>0, <1>a DEF Uses, Losing, Phase
  <2> QED BY <1>0, <2>1, <2>2, <2>3, <2>4, Behind, Distinct
<1>4. Binding'
  BY <1>0, <1>a, Distinct DEF Sharing, AppPlace, Binding, Uses, Phase, Separating
<1>5. \A c \in Branches : Working(c)'
  BY <1>0, <1>a, Distinct DEF Sharing, Working, Uses, Phase, Kinds
<1> QED BY <1>1, <1>2, <1>3, <1>4, <1>5 DEF Sharing


LEMMA XaCommitStep ==
    ASSUME Typed, Sharing, NEW b \in Branches, XaCommit(b)
    PROVE  Sharing'
<1>0. /\ \A u \in Threads : u \notin {Exec(b), Request(b)} => thread'[u] = thread[u]
      /\ thread' = thread
      /\ \A c \in Branches : /\ dtc'[c].st = dtc[c].st /\ dtc'[c].ended = dtc[c].ended
                             /\ dtc'[c].decision = dtc[c].decision
      /\ pg'[b].work \subseteq pg[b].work /\ \A c \in Branches : c # b => pg'[c] = pg[c]
      /\ dtc[b].decision = "commit" /\ durable' = durable \cup (pg[b].work \cap Branches)
      /\ UNCHANGED <<handle, sess, app, branch, lock>>
  <2>1. \A c \in Branches : /\ dtc'[c].st = dtc[c].st /\ dtc'[c].ended = dtc[c].ended
                            /\ dtc'[c].decision = dtc[c].decision
    BY DEF XaCommit, XaOutcome, Typed, DtcOK, DtcState
  <2>2. pg'[b].work \subseteq pg[b].work /\ \A c \in Branches : c # b => pg'[c] = pg[c]
    BY DEF XaCommit, XaOutcome, Typed, PgOK
  <2> QED BY <2>1, <2>2 DEF XaCommit, XaOutcome
<1>b. \A c \in Branches : Phase(c)'
  BY <1>0 DEF Sharing, Phase, Kinds
<1>a. Exec(b) \in Threads /\ Request(b) \in Threads /\ Phase(b)
  BY Distinct DEF Sharing
<1>1. Phase(b)'
  BY <1>b
<1>2. \A c \in Branches : c # b => Phase(c)'
  BY <1>b
<1>3. AppPlace' /\ Alone' /\ Parting' /\ \A c \in Branches : Using(c)'
  <2>1. \A u \in Threads : \/ thread'[u] = thread[u]
                           \/ thread'[u].pc \notin {"cleanup", "generate"}
    BY <1>0, <1>a DEF Phase, Kinds
  <2>2. handle'.executing => \E c \in Branches : \/ lock'.cs = Exec(c)
                                                  \/ thread'[Request(c)].pc = "abort_cs"
    BY <1>0, <1>a, Distinct DEF Sharing, Alone, Phase
  <2>3. \A c \in Branches : /\ Uses(c)' <=> Uses(c)
                            /\ branch[c].prepared => branch'[c].prepared
                            /\ Settled(c) => Settled(c)'
    BY <1>0, <1>a DEF Uses, Settled, Phase, Kinds
  <2>4. Uses(b) /\ (sess.open \/ Losing(b)) => sess'.open \/ Losing(b)'
    BY <1>0, <1>a DEF Uses, Losing, Phase
  <2> QED BY <1>0, <2>1, <2>2, <2>3, <2>4, Behind, Distinct
<1>4. Binding'
  BY <1>0, <1>a, Distinct DEF Sharing, AppPlace, Binding, Uses, Phase, Separating
<1>5. \A c \in Branches : Working(c)'
  BY <1>0, <1>a, Distinct DEF Sharing, Working, Uses, Phase, Kinds
<1> QED BY <1>1, <1>2, <1>3, <1>4, <1>5 DEF Sharing

LEMMA XaRollbackStep ==
    ASSUME Typed, Sharing, NEW b \in Branches, XaRollback(b)
    PROVE  Sharing'
<1>0. /\ \A u \in Threads : u \notin {Exec(b), Request(b)} => thread'[u] = thread[u]
      /\ thread' = thread
      /\ \A c \in Branches : /\ dtc'[c].st = dtc[c].st /\ dtc'[c].ended = dtc[c].ended
                             /\ dtc'[c].decision = dtc[c].decision
      /\ pg'[b].work \subseteq pg[b].work /\ \A c \in Branches : c # b => pg'[c] = pg[c]
      /\ durable' = durable
      /\ UNCHANGED <<handle, sess, app, branch, lock>>
  <2>1. \A c \in Branches : /\ dtc'[c].st = dtc[c].st /\ dtc'[c].ended = dtc[c].ended
                            /\ dtc'[c].decision = dtc[c].decision
    BY DEF XaRollback, XaOutcome, Typed, DtcOK, DtcState
  <2>2. pg'[b].work \subseteq pg[b].work /\ \A c \in Branches : c # b => pg'[c] = pg[c]
    BY DEF XaRollback, XaOutcome, Typed, PgOK
  <2> QED BY <2>1, <2>2 DEF XaRollback, XaOutcome
<1>b. \A c \in Branches : Phase(c)'
  BY <1>0 DEF Sharing, Phase, Kinds
<1>a. Exec(b) \in Threads /\ Request(b) \in Threads /\ Phase(b)
  BY Distinct DEF Sharing
<1>1. Phase(b)'
  BY <1>b
<1>2. \A c \in Branches : c # b => Phase(c)'
  BY <1>b
<1>3. AppPlace' /\ Alone' /\ Parting' /\ \A c \in Branches : Using(c)'
  <2>1. \A u \in Threads : \/ thread'[u] = thread[u]
                           \/ thread'[u].pc \notin {"cleanup", "generate"}
    BY <1>0, <1>a DEF Phase, Kinds
  <2>2. handle'.executing => \E c \in Branches : \/ lock'.cs = Exec(c)
                                                  \/ thread'[Request(c)].pc = "abort_cs"
    BY <1>0, <1>a, Distinct DEF Sharing, Alone, Phase
  <2>3. \A c \in Branches : /\ Uses(c)' <=> Uses(c)
                            /\ branch[c].prepared => branch'[c].prepared
                            /\ Settled(c) => Settled(c)'
    BY <1>0, <1>a DEF Uses, Settled, Phase, Kinds
  <2>4. Uses(b) /\ (sess.open \/ Losing(b)) => sess'.open \/ Losing(b)'
    BY <1>0, <1>a DEF Uses, Losing, Phase
  <2> QED BY <1>0, <2>1, <2>2, <2>3, <2>4, Behind, Distinct
<1>4. Binding'
  BY <1>0, <1>a, Distinct DEF Sharing, AppPlace, Binding, Uses, Phase, Separating
<1>5. \A c \in Branches : Working(c)'
  BY <1>0, <1>a, Distinct DEF Sharing, Working, Uses, Phase, Kinds
<1> QED BY <1>1, <1>2, <1>3, <1>4, <1>5 DEF Sharing

LEMMA BeginStep ==
    ASSUME Typed, Sharing, NEW b \in Branches, Begin(b)
    PROVE  Sharing'
<1>0. /\ \A u \in Threads : u \notin {Exec(b), Request(b)} => thread'[u] = thread[u]
      /\ thread[Exec(b)].pc = "begin" /\ lock.e[b] = None
      /\ thread'[Request(b)] = thread[Request(b)]
      /\ lock'.cs = lock.cs /\ lock'.life = lock.life
      /\ \A c \in Branches : c # b => lock'.e[c] = lock.e[c]
      /\ \/ thread'[Exec(b)].pc = "idle" /\ lock'.e[b] = None
         \/ /\ lock'.e[b] = Exec(b) /\ thread'[Exec(b)].kind = thread[Exec(b)].kind
            /\ thread'[Exec(b)].res = thread[Exec(b)].res
            /\ thread[Exec(b)].kind = "prepare" => ~branch[b].done
            /\ thread'[Exec(b)].pc = IF /\ thread[Exec(b)].kind = "abort"
                                        /\ (~branch[b].prepared \/ branch[b].done)
                                     THEN "done" ELSE "lock"
      /\ UNCHANGED <<handle, sess, app, branch, dtc, pg, durable>>
  <2> DEFINE to == IF thread[Exec(b)].kind = "abort" /\ (~branch[b].prepared \/ branch[b].done)
                   THEN "done" ELSE "lock"
  <2>1. CASE Stop(Exec(b)) /\ lock' = lock
    <3>1. thread'[Exec(b)].pc = "idle" /\ \A u \in Threads : u # Exec(b) => thread'[u] = thread[u]
      BY <2>1, StopEffect, Distinct
    <3> QED BY <2>1, <3>1, Distinct DEF Begin, At
  <2>2. CASE /\ thread[Exec(b)].kind = "prepare" => ~branch[b].done
             /\ lock' = [lock EXCEPT !.e[b] = Exec(b)] /\ Go(Exec(b), to)
    <3>1. /\ thread'[Exec(b)].pc = to /\ thread'[Exec(b)].kind = thread[Exec(b)].kind
          /\ thread'[Exec(b)].res = thread[Exec(b)].res
          /\ \A u \in Threads : u # Exec(b) => thread'[u] = thread[u]
      BY <2>2, GoEffect, Distinct
    <3>2. /\ lock'.e[b] = Exec(b) /\ lock'.cs = lock.cs /\ lock'.life = lock.life
          /\ \A c \in Branches : c # b => lock'.e[c] = lock.e[c]
      BY <2>2 DEF Typed, LockOK
    <3> QED BY <2>2, <3>1, <3>2, Distinct DEF Begin, At
  <2> QED BY <2>1, <2>2 DEF Begin
<1>a. Exec(b) \in Threads /\ Request(b) \in Threads /\ Phase(b)
  BY Distinct DEF Sharing
<1>1. Phase(b)'
  BY <1>0, <1>a, Distinct DEF Phase, Kinds, InExec, Separating
<1>2. \A c \in Branches : c # b => Phase(c)'
  BY <1>0, OtherPhases
<1>3. AppPlace' /\ Alone' /\ Parting' /\ \A c \in Branches : Using(c)'
  <2>1. \A u \in Threads : \/ thread'[u] = thread[u]
                           \/ thread'[u].pc \notin {"cleanup", "generate"}
    BY <1>0, <1>a DEF Phase, Kinds
  <2>2. handle'.executing => \E c \in Branches : \/ lock'.cs = Exec(c)
                                                  \/ thread'[Request(c)].pc = "abort_cs"
    BY <1>0, <1>a, Distinct DEF Sharing, Alone, Phase
  <2>3. \A c \in Branches : /\ Uses(c)' <=> Uses(c)
                            /\ branch[c].prepared => branch'[c].prepared
                            /\ Settled(c) => Settled(c)'
    BY <1>0, <1>a DEF Uses, Settled, Phase, Kinds
  <2>4. Uses(b) /\ (sess.open \/ Losing(b)) => sess'.open \/ Losing(b)'
    BY <1>0, <1>a DEF Uses, Losing, Phase
  <2> QED BY <1>0, <2>1, <2>2, <2>3, <2>4, Behind, Distinct
<1>4. Binding'
  BY <1>0, <1>a, Distinct DEF Sharing, AppPlace, Binding, Uses, Phase, Separating
<1>5. \A c \in Branches : Working(c)'
  BY <1>0, <1>a, Distinct DEF Sharing, Working, Uses, Phase, Kinds
<1> QED BY <1>1, <1>2, <1>3, <1>4, <1>5 DEF Sharing

LEMMA GetLockedXAConnStep ==
    ASSUME Typed, Sharing, NEW b \in Branches, GetLockedXAConn(b)
    PROVE  Sharing'
<1>0. /\ \A u \in Threads : u \notin {Exec(b), Request(b)} => thread'[u] = thread[u]
      /\ thread[Exec(b)].pc = "lock"
      /\ thread'[Request(b)] = thread[Request(b)]
      /\ thread'[Exec(b)].kind = thread[Exec(b)].kind /\ thread'[Exec(b)].res = thread[Exec(b)].res
      /\ \/ /\ thread'[Exec(b)].pc = "operate" /\ lock.cs = None /\ lock'.cs = Exec(b) /\ branch' = branch
         \/ /\ thread'[Exec(b)].pc = "separate" /\ thread'[Exec(b)].on = b
            /\ thread'[Exec(b)].back = "lock" /\ branch' = branch
            /\ lock'.cs = lock.cs /\ handle' = handle
         \/ /\ thread'[Exec(b)].pc = "operate" /\ ~Uses(b)
            /\ lock'.cs = lock.cs /\ handle' = handle
      /\ branch'[b].prepared = branch[b].prepared /\ branch'[b].done = branch[b].done
      /\ (branch'[b].conn = "handle" <=> branch[b].conn = "handle")
      /\ \A c \in Branches : c # b => branch'[c] = branch[c]
      /\ lock'.e = lock.e /\ lock'.life = lock.life
      /\ handle'.asdum = handle.asdum /\ handle'.progress = handle.progress
      /\ handle'.enlisted = handle.enlisted /\ handle'.auto = handle.auto
      /\ UNCHANGED <<sess, app, dtc, pg, durable>>
  <2>1. /\ handle'.asdum = handle.asdum /\ handle'.progress = handle.progress
        /\ handle'.enlisted = handle.enlisted /\ handle'.auto = handle.auto
    BY DEF GetLockedXAConn, Typed, HandleOK
  <2>2. /\ branch'[b].prepared = branch[b].prepared /\ branch'[b].done = branch[b].done
        /\ (branch'[b].conn = "handle" <=> branch[b].conn = "handle")
        /\ \A c \in Branches : c # b => branch'[c] = branch[c]
    BY DEF GetLockedXAConn, Typed, BranchOK
  <2>3. lock'.e = lock.e /\ lock'.life = lock.life
    BY DEF GetLockedXAConn, Typed, LockOK
  <2>4. CASE /\ lock.cs = None /\ lock' = [lock EXCEPT !.cs = Exec(b)] /\ branch' = branch
             /\ Go(Exec(b), "operate")
    <3>1. /\ thread'[Exec(b)].pc = "operate" /\ thread'[Exec(b)].kind = thread[Exec(b)].kind
          /\ thread'[Exec(b)].res = thread[Exec(b)].res
          /\ \A u \in Threads : u # Exec(b) => thread'[u] = thread[u]
      BY <2>4, GoEffect, Distinct
    <3>2. lock'.cs = Exec(b)
      BY <2>4 DEF Typed, LockOK
    <3> QED BY <2>1, <2>2, <2>3, <2>4, <3>1, <3>2, Distinct DEF GetLockedXAConn, At
  <2>5. CASE /\ thread' = [thread EXCEPT ![Exec(b)].pc = "separate", ![Exec(b)].on = b,
                                         ![Exec(b)].back = "lock"]
             /\ UNCHANGED <<lock, handle, branch>>
    <3>1. /\ thread'[Exec(b)].pc = "separate" /\ thread'[Exec(b)].kind = thread[Exec(b)].kind
          /\ thread'[Exec(b)].res = thread[Exec(b)].res /\ thread'[Exec(b)].on = b
          /\ thread'[Exec(b)].back = "lock"
          /\ \A u \in Threads : u # Exec(b) => thread'[u] = thread[u]
      BY <2>5, Distinct DEF Typed, ThreadOK, ThreadState
    <3> QED BY <2>1, <2>2, <2>3, <2>5, <3>1, Distinct DEF GetLockedXAConn, At
  <2>6. CASE ~Uses(b) /\ Go(Exec(b), "operate") /\ UNCHANGED <<lock, handle>>
    <3>1. /\ thread'[Exec(b)].pc = "operate" /\ thread'[Exec(b)].kind = thread[Exec(b)].kind
          /\ thread'[Exec(b)].res = thread[Exec(b)].res
          /\ \A u \in Threads : u # Exec(b) => thread'[u] = thread[u]
      BY <2>6, GoEffect, Distinct
    <3> QED BY <2>1, <2>2, <2>3, <2>6, <3>1, Distinct DEF GetLockedXAConn, At
  <2> QED BY <2>4, <2>5, <2>6 DEF GetLockedXAConn, Uses
<1>a. Exec(b) \in Threads /\ Request(b) \in Threads /\ Phase(b)
  BY Distinct DEF Sharing
<1>1. Phase(b)'
  BY <1>0, <1>a, Distinct DEF Phase, Kinds, InExec, Separating
<1>2. \A c \in Branches : c # b => Phase(c)'
  BY <1>0, OtherPhases
<1>3. AppPlace' /\ Alone' /\ Parting' /\ \A c \in Branches : Using(c)'
  <2>1. \A u \in Threads : \/ thread'[u] = thread[u]
                           \/ thread'[u].pc \notin {"cleanup", "generate"}
    BY <1>0, <1>a DEF Phase, Kinds
  <2>2. handle'.executing => \E c \in Branches : \/ lock'.cs = Exec(c)
                                                  \/ thread'[Request(c)].pc = "abort_cs"
    BY <1>0, <1>a, Distinct DEF Sharing, Alone, Phase
  <2>3. \A c \in Branches : /\ Uses(c)' <=> Uses(c)
                            /\ branch[c].prepared => branch'[c].prepared
                            /\ Settled(c) => Settled(c)'
    BY <1>0, <1>a DEF Uses, Settled, Phase, Kinds
  <2>4. Uses(b) /\ (sess.open \/ Losing(b)) => sess'.open \/ Losing(b)'
    BY <1>0, <1>a DEF Uses, Losing, Phase
  <2> QED BY <1>0, <2>1, <2>2, <2>3, <2>4, Behind, Distinct
<1>4. Binding'
  BY <1>0, <1>a, Distinct DEF Sharing, AppPlace, Binding, Uses, Phase, Separating
<1>5. \A c \in Branches : Working(c)'
  BY <1>0, <1>a, Distinct DEF Sharing, Working, Uses, Phase, Kinds
<1> QED BY <1>1, <1>2, <1>3, <1>4, <1>5 DEF Sharing

LEMMA AnswerStep ==
    ASSUME Typed, Sharing, NEW b \in Branches, Answer(b)
    PROVE  Sharing'
<1>0. /\ \A u \in Threads : u \notin {Exec(b), Request(b)} => thread'[u] = thread[u]
      /\ \A c \in Branches : c # b => dtc'[c] = dtc[c]
      /\ thread[Exec(b)].pc = "answer"
      /\ thread'[Request(b)] = thread[Request(b)]
      /\ dtc'[b].decision = dtc[b].decision /\ dtc'[b].ended
      /\ lock'.cs = lock.cs /\ lock'.life = lock.life
      /\ \A c \in Branches : c # b => lock'.e[c] = lock.e[c]
      /\ \/ /\ thread[Exec(b)].kind = "prepare" /\ thread'[Exec(b)].pc = "record" /\ thread'[Exec(b)].kind = "prepare"
            /\ thread'[Exec(b)].res = thread[Exec(b)].res
            /\ dtc'[b].st \in {"ready", "over"} /\ lock' = lock
         \/ /\ thread[Exec(b)].kind # "prepare" /\ thread'[Exec(b)].pc = "idle"
            /\ dtc'[b].st = "over" /\ lock'.e[b] = None
      /\ UNCHANGED <<handle, sess, app, branch, pg, durable>>
  <2>1. PICK st \in {"ready", "over"} :
            /\ dtc' = [dtc EXCEPT ![b].answer = Verdict(b), ![b].st = st, ![b].ended = TRUE]
            /\ thread[Exec(b)].kind # "prepare" => st = "over"
    BY DEF Answer, Verdict
  <2>2. /\ dtc'[b].decision = dtc[b].decision /\ dtc'[b].ended /\ dtc'[b].st = st
        /\ \A c \in Branches : c # b => dtc'[c] = dtc[c]
    BY ZenonT(40), <2>1 DEF Typed, DtcOK, DtcState
  <2>3. CASE thread[Exec(b)].kind = "prepare" /\ Go(Exec(b), "record") /\ lock' = lock
    <3>1. /\ thread'[Exec(b)].pc = "record" /\ thread'[Exec(b)].kind = thread[Exec(b)].kind
          /\ thread'[Exec(b)].res = thread[Exec(b)].res
          /\ \A u \in Threads : u # Exec(b) => thread'[u] = thread[u]
      BY <2>3, GoEffect, Distinct
    <3> QED BY <2>1, <2>2, <2>3, <3>1, Distinct DEF Answer, At
  <2>4. CASE thread[Exec(b)].kind # "prepare" /\ ExecOver(b)
    <3>1. /\ thread'[Exec(b)].pc = "idle"
          /\ \A u \in Threads : u # Exec(b) => thread'[u] = thread[u]
      BY <2>4, StopEffect, Distinct DEF ExecOver
    <3>2. /\ lock'.e[b] = None /\ lock'.cs = lock.cs /\ lock'.life = lock.life
          /\ \A c \in Branches : c # b => lock'.e[c] = lock.e[c]
      BY <2>4 DEF ExecOver, Typed, LockOK
    <3> QED BY <2>1, <2>2, <2>4, <3>1, <3>2, Distinct DEF Answer, At
  <2> QED BY <2>3, <2>4 DEF Answer
<1>a. Exec(b) \in Threads /\ Request(b) \in Threads /\ Phase(b)
  BY Distinct DEF Sharing
<1>1. Phase(b)'
  BY <1>0, <1>a, Distinct DEF Phase, Kinds, InExec, Separating
<1>2. \A c \in Branches : c # b => Phase(c)'
  BY <1>0, OtherPhases
<1>3. AppPlace' /\ Alone' /\ Parting' /\ \A c \in Branches : Using(c)'
  <2>1. \A u \in Threads : \/ thread'[u] = thread[u]
                           \/ thread'[u].pc \notin {"cleanup", "generate"}
    BY <1>0, <1>a DEF Phase, Kinds
  <2>2. handle'.executing => \E c \in Branches : \/ lock'.cs = Exec(c)
                                                  \/ thread'[Request(c)].pc = "abort_cs"
    BY <1>0, <1>a, Distinct DEF Sharing, Alone, Phase
  <2>3. \A c \in Branches : /\ Uses(c)' <=> Uses(c)
                            /\ branch[c].prepared => branch'[c].prepared
                            /\ Settled(c) => Settled(c)'
    BY <1>0, <1>a DEF Uses, Settled, Phase, Kinds
  <2>4. Uses(b) /\ (sess.open \/ Losing(b)) => sess'.open \/ Losing(b)'
    BY <1>0, <1>a DEF Uses, Losing, Phase
  <2> QED BY <1>0, <2>1, <2>2, <2>3, <2>4, Behind, Distinct
<1>4. Binding'
  BY <1>0, <1>a, Distinct DEF Sharing, AppPlace, Binding, Uses, Phase, Separating
<1>5. \A c \in Branches : Working(c)'
  BY <1>0, <1>a, Distinct DEF Sharing, Working, Uses, Phase, Kinds
<1> QED BY <1>1, <1>2, <1>3, <1>4, <1>5 DEF Sharing

LEMMA SetPrepareResultStep ==
    ASSUME Typed, Sharing, NEW b \in Branches, SetPrepareResult(b)
    PROVE  Sharing'
<1>0. /\ \A u \in Threads : u \notin {Exec(b), Request(b)} => thread'[u] = thread[u]
      /\ thread[Exec(b)].pc = "record"
      /\ thread'[Request(b)] = thread[Request(b)] /\ thread'[Exec(b)].pc = "idle"
      /\ branch'[b].prepared /\ branch'[b].done = branch[b].done /\ branch'[b].conn = branch[b].conn
      /\ \A c \in Branches : c # b => branch'[c] = branch[c]
      /\ lock'.e[b] = None
      /\ lock'.cs = lock.cs /\ lock'.life = lock.life
      /\ \A c \in Branches : c # b => lock'.e[c] = lock.e[c]
      /\ UNCHANGED <<handle, sess, app, dtc, pg, durable>>
  <2>1. /\ thread'[Exec(b)].pc = "idle"
        /\ \A u \in Threads : u # Exec(b) => thread'[u] = thread[u]
    BY StopEffect, Distinct DEF SetPrepareResult, ExecOver
  <2>2. /\ lock'.e[b] = None /\ lock'.cs = lock.cs /\ lock'.life = lock.life
        /\ \A c \in Branches : c # b => lock'.e[c] = lock.e[c]
    BY DEF SetPrepareResult, ExecOver, Typed, LockOK
  <2>3. /\ branch'[b].prepared /\ branch'[b].done = branch[b].done
        /\ branch'[b].conn = branch[b].conn
        /\ \A c \in Branches : c # b => branch'[c] = branch[c]
    BY DEF SetPrepareResult, Typed, BranchOK
  <2> QED BY <2>1, <2>2, <2>3, Distinct DEF SetPrepareResult, At
<1>a. Exec(b) \in Threads /\ Request(b) \in Threads /\ Phase(b)
  BY Distinct DEF Sharing
<1>1. Phase(b)'
  BY <1>0, <1>a, Distinct DEF Phase, Kinds, InExec, Separating
<1>2. \A c \in Branches : c # b => Phase(c)'
  BY <1>0, OtherPhases
<1>3. AppPlace' /\ Alone' /\ Parting' /\ \A c \in Branches : Using(c)'
  <2>1. \A u \in Threads : \/ thread'[u] = thread[u]
                           \/ thread'[u].pc \notin {"cleanup", "generate"}
    BY <1>0, <1>a DEF Phase, Kinds
  <2>2. handle'.executing => \E c \in Branches : \/ lock'.cs = Exec(c)
                                                  \/ thread'[Request(c)].pc = "abort_cs"
    BY <1>0, <1>a, Distinct DEF Sharing, Alone, Phase
  <2>3. \A c \in Branches : /\ Uses(c)' <=> Uses(c)
                            /\ branch[c].prepared => branch'[c].prepared
                            /\ Settled(c) => Settled(c)'
    BY <1>0, <1>a DEF Uses, Settled, Phase, Kinds
  <2>4. Uses(b) /\ (sess.open \/ Losing(b)) => sess'.open \/ Losing(b)'
    BY <1>0, <1>a DEF Uses, Losing, Phase
  <2> QED BY <1>0, <2>1, <2>2, <2>3, <2>4, Behind, Distinct
<1>4. Binding'
  BY <1>0, <1>a, Distinct DEF Sharing, AppPlace, Binding, Uses, Phase, Separating
<1>5. \A c \in Branches : Working(c)'
  BY <1>0, <1>a, Distinct DEF Sharing, Working, Uses, Phase, Kinds
<1> QED BY <1>1, <1>2, <1>3, <1>4, <1>5 DEF Sharing

\* What the server is asked to do for a branch, and what comes of it.
Operated(b) ==
    LET kind == thread[Exec(b)].kind IN
    /\ \/ thread'[Exec(b)].pc = "answer" /\ kind = "prepare"
       \/ thread'[Exec(b)].pc = "done"
    /\ thread'[Exec(b)].kind = kind
    /\ thread'[Exec(b)].res = "single" => thread[Exec(b)].res = "single" /\ kind = "prepare"
    /\ sess'.work \subseteq sess.work
    /\ \/ sess'.open = sess.open
       \/ OnHandle(b) /\ kind = "prepare" /\ thread'[Exec(b)].pc = "done"
    /\ kind = "prepare" /\ OnHandle(b) => sess'.work = {}
    /\ \A c \in Branches : c # b => pg'[c] = pg[c]
    /\ \A c \in pg'[b].work : c \in pg[b].work \/ (OnHandle(b) /\ c \in sess.work)
    /\ \A c \in durable' :
         \/ c \in durable
         \/ kind = "prepare" /\ OnHandle(b) /\ c \in sess.work /\ thread[Exec(b)].res = "single"
         \/ kind = "commit" /\ c \in pg[b].work

\* What came of it is recorded.
LEMMA EndedEffect ==
    ASSUME Typed, NEW b \in Branches, NEW res, NEW s, NEW p, NEW d, Ended(b, res, s, p, d)
    PROVE  /\ thread'[Exec(b)].kind = thread[Exec(b)].kind /\ thread'[Exec(b)].res = res
           /\ \/ thread'[Exec(b)].pc = "answer" /\ thread[Exec(b)].kind = "prepare" /\ res = "ok"
              \/ thread'[Exec(b)].pc = "done"
           /\ dtc'[b].lost = (dtc[b].lost \/ (res = "fail" /\ (p # pg[b] \/ d # {})))
           /\ sess' = s /\ pg'[b] = p /\ (\A c \in Branches : c # b => pg'[c] = pg[c])
           /\ durable' = durable \cup (d \cap Branches)
<1>1. PICK pc \in {"answer", "done"} :
          /\ thread' = [thread EXCEPT ![Exec(b)].res = res, ![Exec(b)].pc = pc]
          /\ pc = "answer" => thread[Exec(b)].kind = "prepare" /\ res = "ok"
  BY DEF Ended
<1>2. /\ thread'[Exec(b)].kind = thread[Exec(b)].kind /\ thread'[Exec(b)].res = res
      /\ thread'[Exec(b)].pc = pc
  <2> DEFINE x == [thread[Exec(b)] EXCEPT !.res = res, !.pc = pc]
  <2>1. thread[Exec(b)] \in ThreadState /\ Exec(b) \in Threads
    BY ThreadTyped, Distinct
  <2>2. x.kind = thread[Exec(b)].kind /\ x.res = res /\ x.pc = pc
    BY <2>1 DEF ThreadState
  <2>3. thread' = [thread EXCEPT ![Exec(b)] = x]
    BY <1>1
  <2>4. thread'[Exec(b)] = x
    BY <2>1, <2>3 DEF Typed, ThreadOK
  <2> QED BY <2>2, <2>4
<1>3. pg'[b] = p /\ \A c \in Branches : c # b => pg'[c] = pg[c]
  BY DEF Ended, Typed, PgOK
<1>4. sess' = s /\ durable' = durable \cup (d \cap Branches)
  BY DEF Ended
<1>5. dtc'[b].lost = (dtc[b].lost \/ (res = "fail" /\ (p # pg[b] \/ d # {})))
  BY DEF Ended, Typed, DtcOK, DtcState
<1> QED BY <1>1, <1>2, <1>3, <1>4, <1>5

LEMMA EndedOperated ==
    ASSUME Typed, NEW b \in Branches, NEW res, NEW s, NEW p, NEW d, Ended(b, res, s, p, d),
           res = "single" => thread[Exec(b)].res = "single" /\ thread[Exec(b)].kind = "prepare",
           \/ s.open = sess.open
           \/ OnHandle(b) /\ thread[Exec(b)].kind = "prepare" /\ res = "fail",
           s.work \subseteq sess.work,
           thread[Exec(b)].kind = "prepare" /\ OnHandle(b) => s.work = {},
           \A c \in p.work : c \in pg[b].work \/ (OnHandle(b) /\ c \in sess.work),
           \A c \in d :
             \/ /\ thread[Exec(b)].kind = "prepare" /\ OnHandle(b) /\ c \in sess.work
                /\ thread[Exec(b)].res = "single"
             \/ thread[Exec(b)].kind = "commit" /\ c \in pg[b].work
    PROVE  Operated(b)
<1>1. /\ thread'[Exec(b)].kind = thread[Exec(b)].kind /\ thread'[Exec(b)].res = res
      /\ \/ thread'[Exec(b)].pc = "answer" /\ thread[Exec(b)].kind = "prepare" /\ res = "ok"
         \/ thread'[Exec(b)].pc = "done"
  BY EndedEffect
<1>2. sess' = s /\ pg'[b] = p
  BY EndedEffect
<1>3. \A c \in Branches : c # b => pg'[c] = pg[c]
  BY EndedEffect
<1>4. durable' = durable \cup (d \cap Branches)
  BY EndedEffect
<1> QED BY <1>1, <1>2, <1>3, <1>4 DEF Operated

LEMMA OperateEffect ==
    ASSUME Steady, Typed, Sharing, NEW b \in Branches, thread[Exec(b)].pc = "operate", Operate(b)
    PROVE  Operated(b)
<1>0. /\ RolledBack.open = sess.open /\ RolledBack.work = {} /\ {} \subseteq sess.work
      /\ Fresh.open /\ Fresh.work = {} /\ Closed.work = {}
  BY DEF RolledBack, Fresh, Closed, Typed, SessOK
<1>a. \A c \in Prepared(b).work : c \in pg[b].work \/ c \in sess.work
  BY DEF Prepared
<1>b. OnHandle(b) => sess.open
  BY DEF Sharing, Phase, Using, Uses, OnHandle, Losing
<1>1. CASE thread[Exec(b)].kind = "prepare" /\ AbortGlobal(b)
  <2>1. CASE ~OnHandle(b) /\ Ended(b, "fail", sess, pg[b], {})
    BY <1>0, <1>1, <2>1, EndedOperated
  <2>2. ASSUME NEW s \in {RolledBack, Closed}, OnHandle(b), Ended(b, "fail", s, pg[b], {})
        PROVE  Operated(b)
    <3>1. s.work = {}
      BY <1>0
    <3> HIDE DEF RolledBack, Closed
    <3> QED BY <1>0, <1>1, <2>2, <3>1, EndedOperated
  <2> QED BY <1>1, <2>1, <2>2 DEF AbortGlobal, OrLost
<1>2. CASE thread[Exec(b)].kind = "prepare" /\ OnePhaseCommit(b)
  <2>1. thread[Exec(b)].res = "single"
    BY <1>2 DEF OnePhaseCommit
  <2>2. CASE OnHandle(b) /\ Ended(b, "single", RolledBack, pg[b], sess.work)
    BY <1>0, <1>2, <2>1, <2>2, EndedOperated
  <2>3. CASE OnHandle(b) /\ Ended(b, "fail", RolledBack, pg[b], {})
    BY <1>0, <1>2, <2>1, <2>3, EndedOperated
  <2>4. CASE ~OnHandle(b) /\ Ended(b, IF branch[b].trans THEN "fail" ELSE "single", sess, pg[b], {})
    BY <1>0, <1>2, <2>1, <2>4, EndedOperated
  <2>5. ASSUME NEW work \in {{}, sess.work}, OnHandle(b), Ended(b, "fail", Closed, pg[b], work)
        PROVE  Operated(b)
    BY <1>0, <1>2, <2>1, <2>5, EndedOperated
  <2> QED BY <1>2, <2>2, <2>3, <2>4, <2>5 DEF OnePhaseCommit
<1>3. CASE thread[Exec(b)].kind = "prepare" /\ PrepareTransaction(b)
  <2>1. CASE OnHandle(b) /\ sess.open /\ Ended(b, "ok", Fresh, Prepared(b), {})
    BY <1>0, <1>a, <1>3, <2>1, EndedOperated
  <2>2. CASE OnHandle(b) /\ Ended(b, "fail", Fresh, pg[b], {})
    BY <1>0, <1>b, <1>3, <2>2, EndedOperated
  <2>3. ASSUME NEW p \in {pg[b], Prepared(b)}, OnHandle(b), Ended(b, "fail", Closed, p, {})
        PROVE  Operated(b)
    BY <1>0, <1>a, <1>3, <2>3, EndedOperated
  <2>4. CASE ~OnHandle(b) /\ Ended(b, "fail", sess, pg[b], {})
    BY <1>0, <1>3, <2>4, EndedOperated
  <2> QED BY <1>3, <2>1, <2>2, <2>3, <2>4 DEF PrepareTransaction
<1>4. ASSUME NEW how, Decided(b, how), thread[Exec(b)].kind \in {"commit", "abort"},
             how = "committed" => thread[Exec(b)].kind = "commit"
      PROVE  Operated(b)
  <2> DEFINE p == [st |-> how, work |-> {}]
             work == IF how = "committed" THEN pg[b].work ELSE {}
  <2>0. OnHandle(b) => ~Breaks("decision")
    BY <1>b DEF Breaks, Steady
  <2>1. CASE Ended(b, "fail", sess, pg[b], {})
    BY <1>4, <2>1, EndedOperated
  <2>2. CASE \E res \in {"ok", "fail"} : Ended(b, res, sess, p, work)
    <3>1. p.work = {} /\ (\A c \in work : thread[Exec(b)].kind = "commit" /\ c \in pg[b].work)
      BY <1>4
    <3> HIDE DEF p, work
    <3> QED BY <1>4, <2>2, <3>1, EndedOperated
  <2> QED BY <1>4, <2>0, <2>1, <2>2 DEF Decided
<1>5. CASE thread[Exec(b)].kind = "commit" /\ Decided(b, "committed")
  BY <1>4, <1>5
<1>6. CASE thread[Exec(b)].kind = "abort" /\ Decided(b, "aborted")
  BY <1>4, <1>6
<1> QED BY <1>1, <1>2, <1>3, <1>5, <1>6 DEF Operate

LEMMA OperateStep ==
    ASSUME Steady, Typed, Sharing, NEW b \in Branches, Operate(b)
    PROVE  Sharing'
<1>0. /\ \A u \in Threads : u \notin {Exec(b), Request(b)} => thread'[u] = thread[u]
      /\ \A c \in Branches : c # b => dtc'[c] = dtc[c]
      /\ thread[Exec(b)].pc = "operate"
      /\ thread'[Request(b)] = thread[Request(b)]
      /\ Operated(b)
      /\ dtc'[b].st = dtc[b].st /\ dtc'[b].decision = dtc[b].decision /\ dtc'[b].ended
      /\ lock'.cs = IF lock.cs = Exec(b) THEN None ELSE lock.cs
      /\ lock'.e = lock.e /\ lock'.life = lock.life
      /\ handle'.executing => handle.executing /\ lock.cs # Exec(b)
      /\ handle'.asdum = handle.asdum /\ handle'.progress = handle.progress
      /\ handle'.enlisted = handle.enlisted /\ handle'.auto = handle.auto
      /\ UNCHANGED <<app, branch>>
  <2>1. Operated(b)
    <3>1. thread[Exec(b)].pc = "operate"
      BY DEF Operate, At
    <3> QED BY <3>1, OperateEffect
  <2>2. /\ dtc'[b].st = dtc[b].st /\ dtc'[b].decision = dtc[b].decision /\ dtc'[b].ended
        /\ \A c \in Branches : c # b => dtc'[c] = dtc[c]
    <3>1. \E res, s, p, d : Ended(b, res, s, p, d)
      BY DEF Operate, AbortGlobal, OnePhaseCommit, PrepareTransaction, Decided
    <3>2. PICK lost : dtc' = [dtc EXCEPT ![b].ended = TRUE, ![b].lost = lost]
      BY <3>1 DEF Ended
    <3> QED BY <3>2 DEF Typed, DtcOK, DtcState
  <2>3. /\ lock'.cs = IF lock.cs = Exec(b) THEN None ELSE lock.cs
        /\ lock'.e = lock.e /\ lock'.life = lock.life
    BY DEF Operate, Typed, LockOK
  <2>4. handle'.executing => handle.executing /\ lock.cs # Exec(b)
    BY DEF Operate, Typed, HandleOK
  <2>5. /\ handle'.asdum = handle.asdum /\ handle'.progress = handle.progress
        /\ handle'.enlisted = handle.enlisted /\ handle'.auto = handle.auto
    BY DEF Operate, Typed, HandleOK
  <2>6. \A u \in Threads : u # Exec(b) => thread'[u] = thread[u]
    BY Distinct DEF Operate, AbortGlobal, OnePhaseCommit, PrepareTransaction, Decided, Ended,
                    Typed, ThreadOK
  <2>7. thread[Exec(b)].pc = "operate" /\ UNCHANGED <<app, branch>>
    BY DEF Operate, At
  <2>8. thread'[Request(b)] = thread[Request(b)]
    BY <2>6, Distinct
  <2>9. /\ \A u \in Threads : u \notin {Exec(b), Request(b)} => thread'[u] = thread[u]
        /\ \A c \in Branches : c # b => dtc'[c] = dtc[c]
    BY <2>2, <2>6
  <2> QED BY <2>1, <2>2, <2>3, <2>4, <2>5, <2>7, <2>8, <2>9
<1>z. /\ sess'.open = sess.open \/ Uses(b)
      /\ Uses(b) /\ (sess.open \/ Losing(b)) => sess'.open \/ Losing(b)'
  BY <1>0 DEF Operated, OnHandle, Sharing, Phase, Uses, Losing
<1>b. \A c \in Branches : OnHandle(b) /\ c \in sess.work => c = b
  BY <1>0, Distinct DEF Sharing, Working, Using, Uses, OnHandle, Phase
<1>c. b \in sess'.work => OnHandle(b) /\ b \in sess.work /\ thread[Exec(b)].kind # "prepare"
  BY <1>0, Distinct DEF Sharing, Working, Uses, OnHandle, Operated
<1>d. \A c \in Branches : c \in durable' => c \in durable \/ dtc[c].decision \in {"commit", "single"}
  BY <1>0, <1>b, Distinct DEF Sharing, Working, Phase, Kinds, Operated
<1>a. Exec(b) \in Threads /\ Request(b) \in Threads /\ Phase(b)
  BY Distinct DEF Sharing
<1>1. Phase(b)'
  BY <1>0, <1>a, Distinct DEF Phase, Kinds, InExec, Separating, Operated
<1>2. \A c \in Branches : c # b => Phase(c)'
  BY <1>0, OtherPhases
<1>3. AppPlace' /\ Alone' /\ Parting' /\ \A c \in Branches : Using(c)'
  <2>1. \A u \in Threads : \/ thread'[u] = thread[u]
                           \/ thread'[u].pc \notin {"cleanup", "generate"}
    BY <1>0, <1>a DEF Phase, Kinds, Operated
  <2>2. handle'.executing => \E c \in Branches : \/ lock'.cs = Exec(c)
                                                  \/ thread'[Request(c)].pc = "abort_cs"
    BY <1>0, <1>a, Distinct, <1>z DEF Sharing, Alone, Phase
  <2>3. \A c \in Branches : /\ Uses(c)' <=> Uses(c)
                            /\ branch[c].prepared => branch'[c].prepared
                            /\ Settled(c) => Settled(c)'
    BY <1>0, <1>a DEF Uses, Settled, Phase, Kinds, Operated
  <2> QED BY <1>0, <1>z, <2>1, <2>2, <2>3, Behind, Distinct
<1>4. Binding'
  BY <1>0, <1>a, <1>z, Distinct DEF Sharing, AppPlace, Binding, Using, Uses, Phase, Separating, Operated
<1>5. \A c \in Branches : Working(c)'
  BY <1>0, <1>a, Distinct, <1>b, <1>c, <1>d DEF Sharing, Working, Uses, Phase, Kinds, Operated
<1> QED BY <1>1, <1>2, <1>3, <1>4, <1>5 DEF Sharing

LEMMA SetDoneStep ==
    ASSUME Typed, Sharing, NEW b \in Branches, SetDone(b)
    PROVE  Sharing'
<1>0. /\ \A u \in Threads : u \notin {Exec(b), Request(b)} => thread'[u] = thread[u]
      /\ thread[Exec(b)].pc = "done" /\ thread'[Request(b)] = thread[Request(b)]
      /\ thread'[Exec(b)].pc = "answer" /\ thread'[Exec(b)].kind = thread[Exec(b)].kind
      /\ thread'[Exec(b)].res = thread[Exec(b)].res
      /\ lock.life = None
      /\ branch'[b].done /\ branch'[b].prepared = branch[b].prepared
      /\ \A c \in Branches : c # b => branch'[c] = branch[c]
      /\ handle'.progress = handle.progress /\ handle'.enlisted = handle.enlisted
      /\ handle'.executing = handle.executing
      /\ OnHandle(b) => handle'.asdum = None
      /\ ~OnHandle(b) => handle' = handle
      /\ UNCHANGED <<sess, app, lock, dtc, pg, durable>>
  <2>1. /\ thread'[Exec(b)].pc = "answer" /\ thread'[Exec(b)].kind = thread[Exec(b)].kind
        /\ thread'[Exec(b)].res = thread[Exec(b)].res
        /\ \A u \in Threads : u # Exec(b) => thread'[u] = thread[u]
    BY GoEffect, Distinct DEF SetDone
  <2>2. /\ branch'[b].done /\ branch'[b].prepared = branch[b].prepared
        /\ \A c \in Branches : c # b => branch'[c] = branch[c]
    BY DEF SetDone, Typed, BranchOK
  <2>3. /\ handle'.progress = handle.progress /\ handle'.enlisted = handle.enlisted
        /\ handle'.executing = handle.executing
        /\ OnHandle(b) => handle'.asdum = None
        /\ ~OnHandle(b) => handle' = handle
    BY DEF SetDone, Typed, HandleOK
  <2>4. /\ thread[Exec(b)].pc = "done" /\ lock.life = None
        /\ UNCHANGED <<sess, app, lock, dtc, pg, durable>>
    BY DEF SetDone, At, NoLife
  <2>5. thread'[Request(b)] = thread[Request(b)]
    BY <2>1, Distinct
  <2>6. \A u \in Threads : u \notin {Exec(b), Request(b)} => thread'[u] = thread[u]
    BY <2>1
  <2> QED BY <2>1, <2>2, <2>3, <2>4, <2>5, <2>6
<1>a. /\ Exec(b) \in Threads /\ Request(b) \in Threads /\ Phase(b) /\ ~branch[b].done
      /\ thread'[App] = thread[App]
  BY <1>0, Distinct DEF Sharing, Phase
<1>b. \A c \in Branches : Uses(c)' => Uses(c) /\ c # b
  BY <1>0 DEF Uses
<1>c. \A c \in Branches : OnHandle(b) => ~Uses(c)'
  <2> SUFFICES ASSUME NEW c \in Branches, OnHandle(b), Uses(c)' PROVE FALSE
    OBVIOUS
  <2>1. Uses(b) /\ Uses(c) /\ b # c
    BY <1>a, <1>b DEF OnHandle, Uses
  <2> QED BY <2>1 DEF Sharing, Using
<1>1. Phase(b)'
  BY <1>0, <1>a, Distinct DEF Phase, Kinds, InExec, Separating
<1>2. \A c \in Branches : c # b => Phase(c)'
  BY <1>0, OtherPhases
<1>3. AppPlace'
  BY <1>0, <1>a DEF Sharing, AppPlace
<1>4. Alone'
  <2>1. \A c \in Branches : thread[Request(c)].pc = "abort_cs" =>
                              thread'[Request(c)].pc = "abort_cs"
    BY <1>0, Distinct
  <2> QED BY <1>0, <1>a, <2>1 DEF Sharing, Alone, Enlisting, Settled
<1>5. Parting'
  <2> SUFFICES ASSUME NEW t \in Threads, thread'[t].pc \in {"cleanup", "generate"}
               PROVE  /\ (thread[t].pc = "cleanup" => lock.life = t /\ Uses(thread[t].on))'
                      /\ (thread[t].pc = "generate" => branch[thread[t].on].prepared)'
    BY DEF Parting
  <2>1. t # None /\ (t = Exec(b) => FALSE)
    BY <1>0, Distinct
  <2>2. thread'[t] = thread[t]
    BY <1>0, <1>a, <2>1 DEF Phase
  <2>3. thread[t].on \in Branches /\ thread[t].pc # "cleanup"
    BY <1>0, <2>1, <2>2, SeparatingOn DEF Sharing, Parting, Separating
  <2> QED BY <1>0, <2>2, <2>3 DEF Sharing, Parting
<1>6. \A c \in Branches : Using(c)'
  <2>1. \A c \in Branches : c # b /\ Losing(c) => Losing(c)'
    BY <1>0, Distinct DEF Losing
  <2> QED BY <1>0, <1>a, <1>b, <1>c, <2>1 DEF Sharing, Using
<1>7. Binding'
  <2>1. thread[App].pc \in {"bind", "async", "reconnect"} => thread[App].on \in Branches
    BY DEF Sharing, AppPlace, Separating
  <2>2. dtc[b].ended
    BY <1>0, <1>a DEF Phase
  <2> QED BY <1>0, <1>a, <1>b, <2>1, <2>2, Distinct DEF Sharing, Binding, Uses
<1>8. \A c \in Branches : Working(c)'
  <2> SUFFICES ASSUME NEW c \in Branches PROVE Working(c)'
    OBVIOUS
  <2>1. b \notin sess.work
    BY <1>0, <1>a, Distinct DEF Sharing, Working, Phase, InExec
  <2>2. c \in sess.work => ~OnHandle(b)
    BY <1>a, <2>1 DEF Sharing, Working, Using, Uses, OnHandle
  <2>3. c # b /\ c \in sess.work => Uses(c)' /\ thread'[Request(c)] = thread[Request(c)]
    BY <1>0, Distinct DEF Sharing, Working, Uses
  <2>4. app.joined = c /\ handle'.asdum = c /\ ~dtc[c].ended =>
          c # b /\ handle' = handle /\ Uses(c)'
    BY <1>0, <1>a, Distinct DEF Sharing, Working, Phase, Uses
  <2> QED BY <1>0, <1>a, <2>1, <2>2, <2>3, <2>4 DEF Sharing, Working
<1> QED BY <1>1, <1>2, <1>3, <1>4, <1>5, <1>6, <1>7, <1>8 DEF Sharing

-----------------------------------------------------------------------------
(***************************************************************************)
(* Separating a branch from the handle keeps the invariant.                *)
(***************************************************************************)

\* It is the application's thread or the branch's own thread of RequestExec that separates
\* it; the latter holds ELOCK all along.
LEMMA Separator ==
    ASSUME Sharing, NEW t \in Threads, thread[t].pc \in Separating
    PROVE  /\ thread[t].on \in Branches
           /\ \/ t = App /\ thread[t].back \in {"enter", "execute", "start"}
              \/ t = Exec(thread[t].on) /\ thread[t].back = "lock"
BY Distinct DEF Sharing, AppPlace, Phase, Separating

LEMMA SeparatingPhases ==
    ASSUME Sharing, NEW t \in Threads, thread[t].pc \in Separating,
           NEW b \in Branches, thread[t].on = b,
           \A u \in Threads : u # t => thread'[u] = thread[u],
           thread'[t].kind = thread[t].kind, thread'[t].res = thread[t].res,
           \/ /\ thread'[t].pc \in Separating /\ thread'[t].on = b
              /\ thread'[t].back = thread[t].back
           \/ thread'[t].pc = thread[t].back,
           dtc' = dtc, app' = app, lock'.cs = lock.cs,
           \A c \in Branches : /\ branch'[c].prepared = branch[c].prepared
                               /\ branch'[c].done = branch[c].done
                               /\ lock.e[c] \in {Exec(c), Request(c)} => lock'.e[c] = lock.e[c],
           handle'.asdum # None => handle'.asdum = handle.asdum /\ handle'.progress = handle.progress,
           handle'.executing => handle.executing
    PROVE  (\A c \in Branches : Phase(c)') /\ AppPlace' /\ Alone'
<1>1. CASE t = App /\ thread[t].back \in {"enter", "execute", "start"}
  <2>1. \A c \in Branches : Phase(c)'
    BY <1>1, PhasesKept
  <2>2. AppPlace'
    BY <1>1 DEF Sharing, AppPlace, AppPcs, Separating
  <2>3. Enlisting' => Enlisting /\ thread[App].pc \notin {"bind", "async"}
    BY <1>1 DEF Sharing, AppPlace, Enlisting, Separating
  <2>4. \A c \in Branches : Settled(c)' <=> Settled(c)
    BY DEF Settled
  <2>5. handle'.asdum # None => handle'.progress
    BY DEF Sharing, Alone
  <2>6. Enlisting' => /\ app'.joined = None
                      /\ \A c \in Branches : Settled(c)'
    BY <2>3, <2>4 DEF Sharing, Alone
  <2>7. Alone'
    BY <1>1, <2>5, <2>6, AloneKept
  <2> QED BY <2>1, <2>2, <2>7
<1>2. CASE b \in Branches /\ t = Exec(b) /\ thread[t].back = "lock"
  <2>0. /\ thread'[App] = thread[App] /\ Phase(b)
        /\ \A u \in Threads : u \notin {Exec(b), Request(b)} => thread'[u] = thread[u]
        /\ thread'[Request(b)] = thread[Request(b)]
        /\ lock.e[b] = Exec(b) /\ lock'.e[b] = lock.e[b]
    BY <1>2, Distinct DEF Sharing, Phase, InExec
  <2>1. Phase(b)'
    BY <1>2, <2>0, Distinct DEF Phase, Kinds, InExec, Separating
  <2>2. \A c \in Branches : c # b => Phase(c)'
    <3> SUFFICES ASSUME NEW c \in Branches, c # b PROVE Phase(c)'
      OBVIOUS
    <3>1. thread'[Exec(c)] = thread[Exec(c)] /\ thread'[Request(c)] = thread[Request(c)]
      BY <1>2, Distinct
    <3> QED BY <3>1, PhaseKept DEF Sharing
  <2>3. AppPlace'
    BY <2>0 DEF Sharing, AppPlace
  <2>4. \A c \in Branches : thread'[Request(c)] = thread[Request(c)]
    BY <1>2, Distinct
  <2>5. Alone'
    BY <2>0, <2>4 DEF Sharing, Alone, Enlisting, Settled
  <2> QED BY <2>1, <2>2, <2>3, <2>5
<1> QED BY <1>1, <1>2, Separator

\* A step of it that leaves the handle to the branch.
LEMMA Staying ==
    ASSUME Typed, Sharing, NEW t \in Threads, thread[t].pc \in Separating \ {"cleanup"},
           NEW b \in Branches, thread[t].on = b,
           \A u \in Threads : u # t => thread'[u] = thread[u],
           thread'[t].kind = thread[t].kind, thread'[t].res = thread[t].res,
           \/ /\ thread'[t].pc \in {"generate", "isolate", "cleanup"}
              /\ thread'[t].on = b /\ thread'[t].back = thread[t].back
           \/ thread'[t].pc = thread[t].back /\ (t = App => ~Uses(b)),
           thread'[t].pc = "generate" => branch[b].prepared,
           \/ thread'[t].pc = "cleanup" /\ lock.life = None /\ lock'.life = t
              /\ Uses(b)
           \/ thread'[t].pc # "cleanup" /\ lock'.life = lock.life,
           lock'.cs = lock.cs,
           \A c \in Branches : lock.e[c] \in {Exec(c), Request(c)} => lock'.e[c] = lock.e[c],
           sess' = sess \/ (sess'.open /\ sess'.work = {}),
           UNCHANGED <<handle, app, branch, dtc, pg, durable>>
    PROVE  Sharing'
<1>0. \/ t = App /\ thread[t].back \in {"enter", "execute", "start"}
      \/ t = Exec(b) /\ thread[t].back = "lock" /\ thread'[App] = thread[App]
  BY Separator, Distinct
<1>1. (\A c \in Branches : Phase(c)') /\ AppPlace' /\ Alone'
  <2>1. \/ /\ thread'[t].pc \in Separating /\ thread'[t].on = b
           /\ thread'[t].back = thread[t].back
        \/ thread'[t].pc = thread[t].back
    BY DEF Separating
  <2> QED BY <2>1, SeparatingPhases
<1>2. \A c \in Branches : Uses(c)' <=> Uses(c)
  BY DEF Uses
<1>3. Binding'
  <2>1. CASE t = App
    BY <1>0, <1>2, <2>1, Distinct DEF Sharing, Binding, Separating
  <2>2. CASE t = Exec(b) /\ thread[t].back = "lock" /\ thread'[App] = thread[App]
    <3>1. thread[App].pc \in {"bind", "async", "reconnect"} => thread[App].on \in Branches
      BY DEF Sharing, AppPlace, Separating
    <3>2. \A c \in Branches : c # b => thread'[Exec(c)] = thread[Exec(c)]
      BY <1>0, <2>2, Distinct
    <3>3. thread[Exec(b)].pc # "idle"
      BY <2>2 DEF Separating
    <3> QED BY <1>0, <1>2, <2>2, <3>1, <3>2, <3>3 DEF Sharing, Binding
  <2> QED BY <1>0, <2>1, <2>2
<1>4. Parting'
  <2> SUFFICES ASSUME NEW u \in Threads, thread'[u].pc \in {"cleanup", "generate"}
               PROVE  /\ (thread[u].pc = "cleanup" => lock.life = u /\ Uses(thread[u].on))'
                      /\ (thread[u].pc = "generate" => branch[thread[u].on].prepared)'
    BY DEF Parting
  <2>1. CASE u = t
    <3>1. thread[t].back \notin {"cleanup", "generate"}
      BY <1>0
    <3> QED BY <1>0, <1>2, <2>1, <3>1
  <2>2. CASE u # t
    <3>1. thread'[u] = thread[u] /\ thread[u].on \in Branches
      BY <2>2, SeparatingOn DEF Separating
    <3>2. thread[u].pc = "cleanup" => lock.life = u /\ u # None
      BY Distinct DEF Sharing, Parting
    <3>3. thread[u].pc = "cleanup" => lock'.life = u
      BY <3>2
    <3> QED BY <1>2, <3>1, <3>3 DEF Sharing, Parting
  <2> QED BY <2>1, <2>2
<1>5. \A c \in Branches : Using(c)'
  <2> SUFFICES ASSUME NEW c \in Branches, Uses(c) PROVE Using(c)'
    BY <1>2 DEF Using
  <2>1. sess'.open \/ Losing(c)'
    <3>1. Losing(c) => Losing(c)'
      BY Distinct DEF Losing, Separating
    <3> QED BY <3>1 DEF Sharing, Using
  <2>2. CASE t = App
    <3>1. c = b /\ thread'[t].pc \in Separating
      BY <1>0, <2>2 DEF Sharing, Using, Separating
    <3> QED BY <2>1, <2>2, <3>1 DEF Sharing, Using, Separating
  <2>3. CASE thread'[App] = thread[App]
    BY <2>1, <2>3 DEF Sharing, Using
  <2> QED BY <1>0, <2>2, <2>3
<1>6. \A c \in Branches : Working(c)'
  <2>1. thread'[App].pc = "async" => thread[App].pc = "async"
    BY <1>0
  <2>2. \A c \in Branches : thread[Request(c)].pc = "abort_cs" =>
                              thread'[Request(c)] = thread[Request(c)]
    BY <1>0, Distinct
  <2> QED BY <1>2, <2>1, <2>2 DEF Sharing, Working
<1> QED BY <1>1, <1>3, <1>4, <1>5, <1>6 DEF Sharing

\* The step that frees the handle: no branch uses it then.
LEMMA Freeing ==
    ASSUME Typed, Sharing, NEW t \in Threads, thread[t].pc \in Separating,
           NEW b \in Branches, thread[t].on = b,
           \A u \in Threads : u # t => thread'[u] = thread[u] /\ thread[u].pc # "cleanup",
           thread'[t].kind = thread[t].kind, thread'[t].res = thread[t].res,
           \/ /\ thread'[t].pc = "reconnect"
              /\ thread'[t].on = b /\ thread'[t].back = thread[t].back
           \/ thread'[t].pc = thread[t].back,
           Uses(b), ~Uses(b)',
           \A c \in Branches : /\ branch'[c].prepared = branch[c].prepared
                               /\ branch'[c].done = branch[c].done
                               /\ c # b => branch'[c].conn = branch[c].conn,
           handle'.asdum = None, ~handle'.executing,
           lock'.cs = lock.cs, lock'.e = lock.e,
           (sess' = sess /\ branch[b].prepared) \/ sess'.work = {},
           UNCHANGED <<app, dtc, pg, durable>>
    PROVE  Sharing'
<1>0. \/ t = App /\ thread[t].back \in {"enter", "execute", "start"}
      \/ t = Exec(b) /\ thread[t].back = "lock" /\ thread'[App] = thread[App]
  BY Separator, Distinct
<1>1. (\A c \in Branches : Phase(c)') /\ AppPlace' /\ Alone'
  <2>1. \/ /\ thread'[t].pc \in Separating /\ thread'[t].on = b
           /\ thread'[t].back = thread[t].back
        \/ thread'[t].pc = thread[t].back
    BY DEF Separating
  <2> QED BY <2>1, SeparatingPhases
<1>2. \A c \in Branches : Uses(c) => c = b
  BY <1>0 DEF Sharing, Using
<1>3. \A c \in Branches : ~Uses(c)'
  BY <1>0, <1>2 DEF Uses
<1>4. Binding'
  <2>1. CASE t = App
    BY <1>0, <1>3, <2>1, Distinct DEF Sharing, Binding, Separating
  <2>2. CASE t = Exec(b) /\ thread'[App] = thread[App]
    <3>1. thread[App].pc \in {"bind", "async", "reconnect"} => thread[App].on \in Branches
      BY DEF Sharing, AppPlace, Separating
    <3>2. thread[App].pc # "bind" /\ (thread[App].pc = "async" => thread[App].on = b)
      BY <1>0 DEF Sharing, Using
    <3>3. thread[Exec(b)].pc # "idle"
      BY <2>2 DEF Separating
    <3>4. thread[App].pc = "async" => dtc[b].ended
      BY <3>2, <3>3 DEF Sharing, Binding
    <3> QED BY <1>0, <1>3, <2>2, <3>1, <3>2, <3>4 DEF Binding
  <2> QED BY <1>0, <2>1, <2>2
<1>5. Parting'
  <2> SUFFICES ASSUME NEW u \in Threads, thread'[u].pc \in {"cleanup", "generate"}
               PROVE  /\ (thread[u].pc = "cleanup" => lock.life = u /\ Uses(thread[u].on))'
                      /\ (thread[u].pc = "generate" => branch[thread[u].on].prepared)'
    BY DEF Parting
  <2>1. u # t
    BY <1>0
  <2>2. thread'[u] = thread[u] /\ thread[u].pc = "generate" /\ thread[u].on \in Branches
    BY <2>1, SeparatingOn DEF Separating
  <2> QED BY <2>2 DEF Sharing, Parting
<1>6. \A c \in Branches : Using(c)'
  BY <1>3 DEF Using
<1>7. \A c \in Branches : Working(c)'
  <2>1. \A c \in Branches : c \notin sess'.work
    BY <1>2 DEF Sharing, Working
  <2>2. \A c \in Branches : handle'.asdum # c
    BY Distinct
  <2> QED BY <2>1, <2>2 DEF Sharing, Working
<1> QED BY <1>1, <1>4, <1>5, <1>6, <1>7 DEF Sharing

LEMMA SeparateXAConnStep ==
    ASSUME Typed, Sharing, NEW t \in Threads, SeparateXAConn(t)
    PROVE  Sharing'
<1>1. thread[t].pc = "separate"
  BY DEF SeparateXAConn, At
<1>2. PICK b \in Branches : thread[t].on = b
  BY <1>1, Separator DEF Separating
<1>3. UNCHANGED <<handle, sess, app, branch, lock, dtc, pg, durable>>
  BY DEF SeparateXAConn
<1>4. CASE ~Uses(b) /\ Back(t)
  <2>1. /\ thread'[t].pc = thread[t].back /\ thread'[t].kind = thread[t].kind
        /\ thread'[t].res = thread[t].res
        /\ \A u \in Threads : u # t => thread'[u] = thread[u]
    BY <1>4, BackEffect
  <2>2. thread'[t].pc \notin {"generate", "cleanup"}
    BY <1>1, <2>1, Separator DEF Separating
  <2> QED BY <1>1, <1>2, <1>3, <1>4, <2>1, <2>2, Staying DEF Separating
<1>5. ASSUME NEW pc \in {"generate", "isolate"}, Go(t, pc), pc = "generate" => branch[b].prepared
      PROVE  Sharing'
  <2>1. /\ thread'[t].pc = pc /\ thread'[t].on = b /\ thread'[t].back = thread[t].back
        /\ thread'[t].kind = thread[t].kind /\ thread'[t].res = thread[t].res
        /\ \A u \in Threads : u # t => thread'[u] = thread[u]
    BY <1>2, <1>5, GoEffect
  <2>2. pc \in {"generate", "isolate", "cleanup"} /\ pc # "cleanup"
    OBVIOUS
  <2> QED BY <1>1, <1>2, <1>3, <1>5, <2>1, <2>2, Staying DEF Separating
<1> QED BY <1>2, <1>4, <1>5 DEF SeparateXAConn, Isolated, Uses

LEMMA HandleFreedEffect ==
    ASSUME Typed
    PROVE  HandleFreed.asdum = None /\ ~HandleFreed.executing
BY DEF Typed, HandleOK, HandleFreed

\* What is written to a branch when it is parted from the handle.
LEMMA PartedEffect ==
    ASSUME Typed, NEW b \in Branches,
           \/ branch' = [branch EXCEPT ![b].conn = "new"]
           \/ branch' = [branch EXCEPT ![b].conn = "copy", ![b].trans = InTrans]
    PROVE  /\ ~Uses(b)'
           /\ \A c \in Branches : /\ branch'[c].prepared = branch[c].prepared
                                  /\ branch'[c].done = branch[c].done
                                  /\ c # b => branch'[c].conn = branch[c].conn
<1>1. branch'[b].conn \in {"new", "copy"}
  BY DEF Typed, BranchOK
<1>2. \A c \in Branches : /\ branch'[c].prepared = branch[c].prepared
                          /\ branch'[c].done = branch[c].done
                          /\ c # b => branch'[c].conn = branch[c].conn
  BY DEF Typed, BranchOK
<1> QED BY <1>1, <1>2 DEF Uses

LEMMA GenerateXAConnStep ==
    ASSUME Typed, Sharing, NEW t \in Threads, GenerateXAConn(t)
    PROVE  Sharing'
<1>1. thread[t].pc = "generate" /\ lock.life = None
  BY DEF GenerateXAConn, At, Lockable, NoLife
<1>2. PICK b \in Branches : thread[t].on = b
  BY <1>1, Separator DEF Separating
<1>3. UNCHANGED <<sess, app, lock, dtc, pg, durable>> /\ branch[b].prepared
  BY <1>1, <1>2 DEF GenerateXAConn, Sharing, Parting
<1>4. /\ thread'[t].pc = thread[t].back /\ thread'[t].kind = thread[t].kind
      /\ thread'[t].res = thread[t].res
      /\ \A u \in Threads : u # t => thread'[u] = thread[u]
  BY BackEffect DEF GenerateXAConn
<1>5. CASE ~Uses(b) /\ UNCHANGED <<branch, handle>>
  <2>1. thread'[t].pc \notin {"generate", "cleanup"}
    BY <1>1, <1>4, Separator DEF Separating
  <2> QED BY <1>1, <1>2, <1>3, <1>4, <1>5, <2>1, Staying DEF Separating
<1>6. CASE /\ Uses(b) /\ branch' = [branch EXCEPT ![b].conn = "new"] /\ handle' = HandleFreed
  <2>1. /\ ~Uses(b)'
        /\ \A c \in Branches : /\ branch'[c].prepared = branch[c].prepared
                               /\ branch'[c].done = branch[c].done
                               /\ c # b => branch'[c].conn = branch[c].conn
    BY <1>6, PartedEffect
  <2>2. handle'.asdum = None /\ ~handle'.executing
    BY <1>6, HandleFreedEffect
  <2>3. \A u \in Threads : thread[u].pc # "cleanup"
    BY <1>1, Distinct DEF Sharing, Parting
  <2> QED BY <1>1, <1>2, <1>3, <1>4, <1>6, <2>1, <2>2, <2>3, Freeing DEF Separating
<1>7. branch[b].conn \in {"none", "handle", "copy", "new", "own"}
  BY DEF Typed, BranchOK
<1> QED BY <1>2, <1>3, <1>5, <1>6, <1>7 DEF GenerateXAConn, Isolated, Uses

LEMMA IsolateXAConnStep ==
    ASSUME Typed, Sharing, NEW t \in Threads, IsolateXAConn(t)
    PROVE  Sharing'
<1>1. thread[t].pc = "isolate" /\ lock.life = None /\ lock.e[thread[t].on] \in {None, t}
  BY DEF IsolateXAConn, At, Lockable, NoLife
<1>2. PICK b \in Branches : thread[t].on = b
  BY <1>1, Separator DEF Separating
<1>3. UNCHANGED <<handle, sess, app, branch, dtc, pg, durable>>
  BY DEF IsolateXAConn
<1>4. CASE ~Uses(b) /\ Back(t) /\ UNCHANGED lock
  <2>1. /\ thread'[t].pc = thread[t].back /\ thread'[t].kind = thread[t].kind
        /\ thread'[t].res = thread[t].res
        /\ \A u \in Threads : u # t => thread'[u] = thread[u]
    BY <1>4, BackEffect
  <2>2. thread'[t].pc \notin {"generate", "cleanup"}
    BY <1>1, <2>1, Separator DEF Separating
  <2> QED BY <1>1, <1>2, <1>3, <1>4, <2>1, <2>2, Staying DEF Separating
<1>5. CASE /\ Uses(b) /\ lock' = [lock EXCEPT !.e[b] = t, !.life = t] /\ Go(t, "cleanup")
  <2>1. /\ thread'[t].pc = "cleanup" /\ thread'[t].on = b /\ thread'[t].back = thread[t].back
        /\ thread'[t].kind = thread[t].kind /\ thread'[t].res = thread[t].res
        /\ \A u \in Threads : u # t => thread'[u] = thread[u]
    BY <1>2, <1>5, GoEffect
  <2>2. /\ lock'.life = t /\ lock'.cs = lock.cs /\ lock'.e[b] = t
        /\ \A c \in Branches : c # b => lock'.e[c] = lock.e[c]
    BY <1>5 DEF Typed, LockOK
  <2>3. \A c \in Branches : lock.e[c] \in {Exec(c), Request(c)} => lock'.e[c] = lock.e[c]
    <3> SUFFICES ASSUME NEW c \in Branches, lock.e[c] \in {Exec(c), Request(c)}
                 PROVE  lock'.e[c] = lock.e[c]
      OBVIOUS
    <3>1. Exec(c) # None /\ Request(c) # None
      BY Distinct
    <3>2. c = b => lock.e[c] = t
      BY <1>1, <1>2, <3>1
    <3> QED BY <2>2, <3>2
  <2> QED BY <1>1, <1>2, <1>3, <1>5, <2>1, <2>2, <2>3, Staying DEF Separating
<1>6. branch[b].conn \in {"none", "handle", "copy", "new", "own"}
  BY DEF Typed, BranchOK
<1> QED BY <1>2, <1>4, <1>5, <1>6 DEF IsolateXAConn, Isolated, Uses

LEMMA IsolateHandleStep ==
    ASSUME Typed, Sharing, NEW t \in Threads, IsolateHandle(t)
    PROVE  Sharing'
<1>1. thread[t].pc = "cleanup"
  BY DEF IsolateHandle, At
<1>2. PICK b \in Branches : thread[t].on = b
  BY <1>1, Separator DEF Separating
<1>3. UNCHANGED <<app, dtc, pg, durable>> /\ sess'.work = {} /\ Uses(b) /\ lock.life = t
  BY <1>1, <1>2 DEF IsolateHandle, Closed, Sharing, Parting
<1>4. /\ thread'[t].pc = "reconnect" /\ thread'[t].on = b /\ thread'[t].back = thread[t].back
      /\ thread'[t].kind = thread[t].kind /\ thread'[t].res = thread[t].res
      /\ \A u \in Threads : u # t => thread'[u] = thread[u]
  BY <1>2, GoEffect DEF IsolateHandle
<1>5. /\ ~Uses(b)'
      /\ \A c \in Branches : /\ branch'[c].prepared = branch[c].prepared
                             /\ branch'[c].done = branch[c].done
                             /\ c # b => branch'[c].conn = branch[c].conn
  BY <1>2, PartedEffect DEF IsolateHandle
<1>6. handle'.asdum = None /\ ~handle'.executing
  BY DEF IsolateHandle, HandleFreed, Typed, HandleOK
<1>7. lock'.cs = lock.cs /\ lock'.e = lock.e
  BY DEF IsolateHandle, Typed, LockOK
<1>8. \A u \in Threads : u # t => thread[u].pc # "cleanup"
  BY <1>3 DEF Sharing, Parting
<1> QED BY <1>1, <1>2, <1>3, <1>4, <1>5, <1>6, <1>7, <1>8, Freeing DEF Separating

LEMMA ReconnectHandleStep ==
    ASSUME Typed, Sharing, NEW t \in Threads, ReconnectHandle(t)
    PROVE  Sharing'
<1>1. thread[t].pc = "reconnect"
  BY DEF ReconnectHandle, At
<1>2. PICK b \in Branches : thread[t].on = b
  BY <1>1, Separator DEF Separating
<1>3. UNCHANGED <<handle, app, branch, dtc, pg, durable>>
      /\ (sess' = sess \/ (sess'.open /\ sess'.work = {}))
  BY DEF ReconnectHandle, Fresh
<1>4. /\ thread'[t].pc = thread[t].back /\ thread'[t].kind = thread[t].kind
      /\ thread'[t].res = thread[t].res
      /\ \A u \in Threads : u # t => thread'[u] = thread[u]
  BY BackEffect DEF ReconnectHandle, Return
<1>5. t = App => ~Uses(b)
  BY <1>1, <1>2 DEF Sharing, Binding
<1>6. lock'.cs = lock.cs /\ lock'.life = lock.life
  BY DEF ReconnectHandle, Return, Typed, LockOK
<1>7. \A c \in Branches : lock'.e[c] = lock.e[c] \/ (lock.e[c] = t /\ t[1] # "exec")
  BY DEF ReconnectHandle, Return, Typed, LockOK
<1>8. \A c \in Branches : lock.e[c] \in {Exec(c), Request(c)} => lock'.e[c] = lock.e[c]
  BY <1>1, <1>7, Separator, Distinct DEF Separating
<1>9. thread'[t].pc \notin {"generate", "cleanup"}
  BY <1>1, <1>4, Separator DEF Separating
<1> QED BY <1>1, <1>2, <1>3, <1>4, <1>5, <1>6, <1>8, <1>9, Staying DEF Separating

-----------------------------------------------------------------------------
(***************************************************************************)
(* The invariant holds throughout.                                         *)
(***************************************************************************)
LEMMA InitSharing == Init => Sharing
<1> SUFFICES ASSUME Init PROVE Sharing
  OBVIOUS
<1>1. /\ \A t \in Threads : thread[t].pc = "idle" /\ thread[t].kind = "execute"
      /\ handle.asdum = None /\ ~handle.executing /\ app.joined = None /\ sess.work = {}
      /\ durable = {}
  BY DEF Init, Idle, Fresh
<1>2. \A b \in Branches : /\ branch[b].conn = "none" /\ ~branch[b].prepared /\ ~branch[b].done
                          /\ dtc[b].st = "none" /\ dtc[b].decision = "none" /\ ~dtc[b].ended
                          /\ pg[b].work = {}
  BY DEF Init
<1>3. AppPlace /\ Alone /\ Binding /\ Parting
  BY <1>1, Distinct DEF AppPlace, AppPcs, Separating, Calls, Alone, Enlisting, Binding, Parting
<1>4. ASSUME NEW b \in Branches PROVE Phase(b) /\ Using(b) /\ Working(b)
  <2>1. thread[Exec(b)].pc = "idle" /\ thread[Request(b)].pc = "idle"
    BY <1>1, Distinct
  <2>2. Phase(b)
    BY <1>2, <2>1 DEF Phase, InExec, Separating
  <2>3. ~Uses(b)
    BY <1>2 DEF Uses
  <2>4. Using(b)
    BY <2>3 DEF Using
  <2>5. Working(b)
    BY <1>1, <1>2, Distinct DEF Working
  <2> QED BY <2>2, <2>4, <2>5
<1> QED BY <1>3, <1>4 DEF Sharing

LEMMA SharingStutters == Sharing /\ UNCHANGED vars => Sharing'
<1> SUFFICES ASSUME Sharing, UNCHANGED <<handle, sess, app, branch, lock, thread, dtc, pg, durable>>
             PROVE  Sharing'
  BY DEF vars
<1>1. AppPlace' /\ Alone' /\ Binding' /\ Parting'
  BY DEF Sharing, AppPlace, Alone, Enlisting, Settled, Binding, Uses, Parting
<1>2. \A b \in Branches : Phase(b)' /\ Using(b)' /\ Working(b)'
  BY DEF Sharing, Phase, Kinds, Using, Losing, Uses, Working
<1> QED BY <1>1, <1>2 DEF Sharing

LEMMA SharingStep ==
    ASSUME Waits, Steady, Typed, Sharing, EnlistsConnected, [Next]_vars
    PROVE  Sharing'
<1>1. CASE Application
  <2>1. ASSUME NEW kind \in Calls, Call(kind) PROVE Sharing'
    BY <2>1, CallStep
  <2>2. ASSUME NEW b \in Branches, EnlistInDtc(b) PROVE Sharing'
    BY <2>2, EnlistInDtcStep DEF EnlistsConnected, EnlistInDtc
  <2> QED BY <1>1, <2>1, <2>2, ExamineStep, EnterStep, RequestStartStep, ExecuteStep, FinishStep,
             EnlistBeginsStep, SetConnectionStep, SetAsyncStep, LeaveStep, DtcOnDisconnectStep,
             ReleaseConnectionStep, DisconnectStep, ConnectStep DEF Application
<1>2. ASSUME NEW b \in Branches, Coordination(b) PROVE Sharing'
  BY <1>2, PrepareRequestStep, CommitRequestStep, AbortRequestStep, AbortLockedStep,
     AbortLocalStep, XaCommitStep, XaRollbackStep DEF Coordination
<1>3. ASSUME NEW b \in Branches, RequestExec(b) PROVE Sharing'
  BY <1>3, BeginStep, GetLockedXAConnStep, OperateStep, SetDoneStep, AnswerStep,
     SetPrepareResultStep DEF RequestExec
<1>4. ASSUME NEW t \in Threads, Separation(t) PROVE Sharing'
  BY <1>4, SeparateXAConnStep, GenerateXAConnStep, IsolateXAConnStep, IsolateHandleStep,
     ReconnectHandleStep DEF Separation
<1>5. CASE UNCHANGED vars
  BY <1>5, SharingStutters
<1> QED BY <1>1, <1>2, <1>3, <1>4, <1>5 DEF Next

\* With one transaction at a time (Waits), and a handle that is enlisted only while it is
\* connected, the work of a distributed transaction is committed only when MSDTC decided
\* so: neither SetDone, which switches autocommit on again without CONN_CS, nor the
\* isolation of the handle, nor the application, which goes on using it, ends a transaction
\* of the session that holds the work of a branch not decided.
THEOREM OnlyOnCommitAlways ==
    ASSUME Waits, Steady
    PROVE  Spec /\ []EnlistsConnected => []OnlyOnCommit
<1>1. Init => Typed /\ Sharing
  BY InitTyped, InitSharing
<1>2. Typed /\ Sharing /\ EnlistsConnected /\ [Next]_vars => Typed' /\ Sharing'
  BY TypedStep, SharingStep
<1>3. Typed /\ Sharing => OnlyOnCommit
  BY DEF Typed, Sharing, Working, OnlyOnCommit
<1> QED BY <1>1, <1>2, <1>3, PTL DEF Spec

-----------------------------------------------------------------------------
(***************************************************************************)
(* What MSDTC is told.  The invariant follows the work of a branch from    *)
(* the statement that did it to the answer: in the session of the handle,  *)
(* in the copy that isolation leaves the branch, among what the server has *)
(* prepared, durable, or lost by a failure that the answer reports         *)
(* (Whereabouts).  Standing and Knowing say of the application's thread    *)
(* that it works only for the branch that uses the handle.                 *)
(***************************************************************************)

\* What the places of the threads say of the link, of the branch that is being bound and
\* of ELOCK while the handle is isolated.
Standing ==
    /\ At(App, "connect") \/ thread[App].kind = "connect" => ~app.linked
    /\ Enlisting => app.linked
    /\ At(App, "bind") => LET b == thread[App].on
                          IN  branch[b].conn = "none" /\ dtc[b].st # "none"
    /\ \A t \in Threads : thread[t].pc = "cleanup" => lock.e[thread[t].on] = t

\* What the application believes of the branch that uses the handle: it is the one it
\* joined, or it left it, and then IsolateDtcConn has separated the two before a statement
\* is executed, unless a request thread is aborting the branch on the handle.
Knowing(b) ==
    /\ thread[Request(b)].pc = "abort_cs" => Uses(b)
    /\ Uses(b) => /\ app.linked
                  /\ ~At(App, "async") => app.joined \in {b, None}
                  /\ At(App, "execute") => app.joined = b \/ thread[Request(b)].pc = "abort_cs"

\* What the coordinator has decided and heard.
Decisions(b) ==
    LET d == dtc[b] IN
    /\ d.answer # "none" => d.st = "over"
    /\ d.st = "over" => d.ended
    /\ d.answer = "aborted" => d.decision = "abort"
    /\ d.answer = "voted no" => d.decision \in {"none", "single"}
    /\ d.decision \in {"commit", "abort"} => d.st \in {"ready", "over"}
    /\ d.st = "none" => branch[b].conn = "none"

\* The command of the request has been executed and its result is not told yet.
Operating(b) == thread[Exec(b)].pc \in {"done", "answer"}

\* What the server has prepared is recorded, or is about to be.
Kept(b) ==
    LET t == thread[Exec(b)] IN
    /\ pg[b].st = "prepared" =>
         \/ branch[b].prepared
         \/ t.kind = "prepare" /\ t.pc \in {"answer", "record"} /\ t.res = "ok"
         \/ t.kind = "prepare" /\ t.pc \in {"done", "answer", "record"} /\ dtc[b].lost
    /\ Operating(b) /\ t.kind = "abort" /\ t.res # "fail" => pg[b].st # "prepared"

\* What is durable, and what the result of a request says of it.
Committed(b) ==
    LET t == thread[Exec(b)] IN
    /\ b \in durable => \/ dtc[b].decision = "commit" \/ dtc[b].answer = "single"
                        \/ Operating(b) /\ t.kind = "prepare" /\ t.res = "single"
                        \/ dtc[b].decision = "single" /\ dtc[b].lost
    /\ /\ Operating(b) /\ app.did[b] = "work"
       /\ (t.kind = "commit" /\ t.res # "fail") \/ (t.kind = "prepare" /\ t.res = "single")
       => b \in durable

\* Where the work of a branch is, unless a statement of it failed.
Whereabouts(b) ==
    LET t == thread[Exec(b)] IN
    app.did[b] = "work" =>
      \/ b \in durable
      \/ dtc[b].decision = "abort"
      \/ Uses(b) /\ b \in sess.work
      \/ /\ branch[b].conn = "copy" /\ branch[b].trans
         /\ dtc[b].st \in {"active", "preparing"} /\ t.pc \notin {"done", "answer", "record"}
      \/ pg[b].st = "prepared" /\ b \in pg[b].work
      \/ Operating(b) /\ t.kind = "prepare" /\ t.res = "fail"
      \/ dtc[b].answer = "voted no"

\* What MSDTC has been told of the branch is so.
Told(b) ==
    /\ dtc[b].answer \in {"committed", "single"} /\ app.did[b] = "work" => b \in durable
    /\ dtc[b].answer \in {"aborted", "voted no"} => b \notin sess.work
    /\ dtc[b].answer = "aborted" => pg[b].st # "prepared" /\ b \notin durable
    /\ dtc[b].answer = "voted no" /\ ~dtc[b].lost => pg[b].st # "prepared" /\ b \notin durable

Fate(b) == Decisions(b) /\ Kept(b) /\ Committed(b) /\ Whereabouts(b) /\ Told(b)

TruthInv == Standing /\ \A b \in Branches : Knowing(b) /\ Fate(b)

\* What a thread that does not tell the result of a request does to it.
Quiet(b) ==
    \/ thread'[Exec(b)] = thread[Exec(b)]
    \/ /\ thread'[Exec(b)].kind = thread[Exec(b)].kind
       /\ thread'[Exec(b)].res = thread[Exec(b)].res
       /\ {thread[Exec(b)].pc, thread'[Exec(b)].pc} \cap {"done", "answer", "record"} = {}

\* A step that neither carries out nor answers a request of the branch.
LEMMA FateKept ==
    ASSUME NEW b \in Branches, Fate(b), Phase(b), Quiet(b),
           branch'[b] = branch[b], dtc'[b] = dtc[b], pg'[b] = pg[b],
           b \in durable' <=> b \in durable,
           app'.did[b] = "work" => \/ app.did[b] = "work"
                                   \/ ~dtc[b].ended /\ Uses(b) /\ b \in sess'.work,
           Uses(b) /\ b \in sess.work /\ app'.did[b] = "work" =>
             b \in sess'.work \/ dtc[b].decision = "abort",
           b \in sess'.work => b \in sess.work \/ ~dtc[b].ended
    PROVE  Fate(b)'
<1>1. Decisions(b)'
  BY DEF Fate, Decisions
<1>2. Operating(b)' <=> Operating(b)
  BY DEF Operating, Quiet
<1>3. Kept(b)'
  BY <1>2 DEF Fate, Kept, Quiet
<1>4. dtc[b].answer # "none" => dtc[b].ended
  BY DEF Fate, Decisions
<1>5. Operating(b) => dtc[b].ended
  BY DEF Operating, Phase
<1>6. Committed(b)'
  BY <1>2, <1>5 DEF Fate, Committed, Quiet, Operating
<1>7. Uses(b)' <=> Uses(b)
  BY DEF Uses
<1>8. Whereabouts(b)'
  BY <1>2, <1>7 DEF Fate, Whereabouts, Quiet, Operating
<1>9. Told(b)'
  BY <1>4 DEF Fate, Told
<1> QED BY <1>1, <1>3, <1>6, <1>8, <1>9 DEF Fate

\* A step of the application's thread.
LEMMA AppFate ==
    ASSUME Sharing, TruthInv, \A u \in Threads : u # App => thread'[u] = thread[u],
           UNCHANGED <<branch, dtc, pg>>,
           \A b \in Branches :
             /\ b \in durable' <=> b \in durable
             /\ app'.did[b] = "work" => \/ app.did[b] = "work"
                                        \/ ~dtc[b].ended /\ Uses(b) /\ b \in sess'.work
             /\ Uses(b) /\ b \in sess.work /\ app'.did[b] = "work" =>
                  b \in sess'.work \/ dtc[b].decision = "abort"
             /\ b \in sess'.work => b \in sess.work \/ ~dtc[b].ended
    PROVE  \A b \in Branches : Fate(b)'
<1> SUFFICES ASSUME NEW b \in Branches PROVE Fate(b)'
  OBVIOUS
<1>1. Quiet(b)
  BY Distinct DEF Quiet
<1>2. Fate(b) /\ Phase(b)
  BY DEF Sharing, TruthInv
<1> QED BY <1>1, <1>2, FateKept

\* It moves only, or calls that leave the session and the branches alone.
LEMMA AppMoves ==
    ASSUME Sharing, TruthInv, \A u \in Threads : u # App => thread'[u] = thread[u],
           UNCHANGED <<sess, branch, dtc, pg, durable>>, app'.did = app.did
    PROVE  \A b \in Branches : Fate(b)'
BY AppFate

\* Nobody but the thread that isolates the handle lets its ELOCK go.
LEMMA AppCleanup ==
    ASSUME TruthInv, \A u \in Threads : u # App => thread'[u] = thread[u],
           thread'[App].pc # "cleanup", lock'.e = lock.e
    PROVE  (\A t \in Threads : thread[t].pc = "cleanup" => lock.e[thread[t].on] = t)'
BY DEF TruthInv, Standing

\* No branch uses the handle while the application begins to enlist, disconnects or is
\* not connected.
LEMMA Unused ==
    ASSUME Sharing, TruthInv, thread[App].pc \in {"start", "bind", "disconnect", "connect"}
    PROVE  \A b \in Branches : ~Uses(b) /\ b \notin sess.work
<1>1. \A b \in Branches : ~Uses(b)
  BY DEF Sharing, Using, TruthInv, Standing, Knowing, At
<1> QED BY <1>1 DEF Sharing, Working

-----------------------------------------------------------------------------
(***************************************************************************)
(* The application's steps keep the truth.                                 *)
(***************************************************************************)

LEMMA CallTruth ==
    ASSUME Typed, Sharing, TruthInv, NEW kind \in Calls, Call(kind)
    PROVE  TruthInv'
<1>0. /\ \A u \in Threads : u # App => thread'[u] = thread[u]
      /\ thread'[App].kind = kind
      /\ thread'[App].pc = CASE kind = "execute" -> "enter" [] kind = "disconnect" -> "dtc"
                             [] OTHER -> "examine"
      /\ app.linked <=> kind # "connect"
      /\ UNCHANGED <<handle, sess, app, branch, lock, dtc, pg, durable>>
  <2> DEFINE x == [Idle EXCEPT !.pc = CASE kind = "execute" -> "enter"
                                        [] kind = "disconnect" -> "dtc" [] OTHER -> "examine",
                               !.kind = kind]
  <2>1. thread' = [thread EXCEPT ![App] = x]
    BY DEF Call
  <2>2. x.kind = kind /\ x.pc = CASE kind = "execute" -> "enter" [] kind = "disconnect" -> "dtc"
                                  [] OTHER -> "examine"
    BY DEF Idle
  <2> HIDE DEF x
  <2>3. thread'[App] = x /\ \A u \in Threads : u # App => thread'[u] = thread[u]
    BY <2>1, SetEffect, Distinct
  <2> QED BY <2>2, <2>3 DEF Call
<1>1. Standing'
  BY <1>0, AppCleanup DEF Standing, Enlisting, At, Separating
<1>2. \A b \in Branches : Knowing(b)'
  BY <1>0, Distinct DEF TruthInv, Sharing, AppPlace, Knowing, Uses, At, Call
<1>3. \A b \in Branches : Fate(b)'
  BY <1>0, AppMoves
<1> QED BY <1>1, <1>2, <1>3 DEF TruthInv

\* Looking whether to separate: no statement is executed for a branch that the
\* application left, or did not join.
LEMMA LookingTruth ==
    ASSUME Typed, Sharing, TruthInv, NEW next \in {"enter", "execute", "start"},
           IsolateDtcConn(App, next),
           \/ thread[App].pc = "examine" /\ next = "enter"
           \/ thread[App].pc = "request" /\ next = "execute"
           \/ thread[App].pc = "enlist" /\ next = "start",
           UNCHANGED <<handle, sess, app, branch, lock, dtc, pg, durable>>
    PROVE  TruthInv'
<1>0. /\ \A u \in Threads : u # App => thread'[u] = thread[u]
      /\ thread'[App].kind = thread[App].kind
      /\ \/ thread'[App].pc = "separate" /\ thread'[App].back = next
         \/ thread'[App].pc = next /\ (handle.asdum # None => ~IdleInGlobalTransaction)
  BY SeparateEffect
<1>1. Standing'
  BY <1>0, AppCleanup DEF TruthInv, Standing, Sharing, AppPlace, Enlisting, At, Separating
<1>2. ASSUME NEW b \in Branches PROVE Knowing(b)'
  <2>1. thread'[Request(b)] = thread[Request(b)] /\ (Uses(b)' <=> Uses(b))
    BY <1>0, Distinct DEF Uses
  <2>2. Knowing(b) /\ thread[App].pc # "async"
    BY DEF TruthInv
  <2>3. Uses(b) /\ thread'[App].pc = "execute" =>
          app.joined = b \/ thread[Request(b)].pc = "abort_cs"
    <3> SUFFICES ASSUME Uses(b), thread'[App].pc = "execute"
                 PROVE  app.joined = b \/ thread[Request(b)].pc = "abort_cs"
      OBVIOUS
    <3>1. handle.asdum = b /\ handle.progress /\ thread[App].pc = "request"
      BY <1>0, Distinct DEF Sharing, Using, Alone
    <3>2. handle.enlisted \/ handle.executing
      BY <1>0, <3>1, Distinct DEF IdleInGlobalTransaction
    <3>3. handle.enlisted => app.joined = b
      BY <2>2, <3>1 DEF Sharing, Using, Knowing, At
    <3>4. ASSUME handle.executing PROVE thread[Request(b)].pc = "abort_cs"
      <4>1. PICK c \in Branches : thread[Request(c)].pc = "abort_cs"
        BY <3>1, <3>4, Distinct DEF Sharing, Alone, AppPlace
      <4>2. Uses(c)
        BY <4>1 DEF TruthInv, Knowing
      <4>3. c = b
        BY <3>1, <4>2 DEF Sharing, Using
      <4> QED BY <4>1, <4>3
    <3> QED BY <3>2, <3>3, <3>4
  <2> QED BY <1>0, <2>1, <2>2, <2>3 DEF Knowing, At
<1>3. \A b \in Branches : Fate(b)'
  BY <1>0, AppMoves
<1> QED BY <1>1, <1>2, <1>3 DEF TruthInv

LEMMA ExamineTruth ==
    ASSUME Typed, Sharing, TruthInv, Examine
    PROVE  TruthInv'
BY LookingTruth DEF Examine, At

LEMMA RequestStartTruth ==
    ASSUME Typed, Sharing, TruthInv, RequestStart
    PROVE  TruthInv'
BY LookingTruth DEF RequestStart, At

LEMMA EnlistBeginsTruth ==
    ASSUME Typed, Sharing, TruthInv, EnlistBegins
    PROVE  TruthInv'
BY LookingTruth DEF EnlistBegins, At

LEMMA EnterTruth ==
    ASSUME Typed, Sharing, TruthInv, Enter
    PROVE  TruthInv'
<1> DEFINE pc == IF thread[App].kind = "execute" THEN "request" ELSE thread[App].kind
<1>0. /\ \A u \in Threads : u # App => thread'[u] = thread[u]
      /\ thread'[App].kind = "execute" /\ thread'[App].pc = pc /\ thread[App].pc = "enter"
      /\ lock'.e = lock.e
      /\ UNCHANGED <<sess, app, branch, dtc, pg, durable>>
  <2>1. thread' = [thread EXCEPT ![App] = [Idle EXCEPT !.pc = pc]]
    BY DEF Enter
  <2>2. [Idle EXCEPT !.pc = pc].kind = "execute" /\ [Idle EXCEPT !.pc = pc].pc = pc
    BY DEF Idle
  <2>3. /\ thread'[App] = [Idle EXCEPT !.pc = pc]
        /\ \A u \in Threads : u # App => thread'[u] = thread[u]
    BY ZenonT(40), <2>1, SetEffect, Distinct
  <2>4. lock'.e = lock.e
    BY DEF Enter, Typed, LockOK
  <2> QED BY <2>2, <2>3, <2>4 DEF Enter, At
<1>1. Standing'
  BY <1>0, AppCleanup DEF TruthInv, Standing, Sharing, AppPlace, Calls, Enlisting, At, Separating
<1>2. \A b \in Branches : Knowing(b)'
  BY <1>0, Distinct DEF TruthInv, Sharing, AppPlace, Calls, Knowing, Uses, At
<1>3. \A b \in Branches : Fate(b)'
  BY <1>0, AppMoves
<1> QED BY <1>1, <1>2, <1>3 DEF TruthInv

\* A statement of the application works for the branch that uses the handle, or, while a
\* request thread waits to abort that branch, for nobody.
LEMMA ExecuteTruth ==
    ASSUME Steady, Typed, Sharing, TruthInv, Execute
    PROVE  TruthInv'
<1>0. /\ \A u \in Threads : u # App => thread'[u] = thread[u]
      /\ thread[App].pc = "execute" /\ thread'[App].pc = "finish"
      /\ thread'[App].kind = thread[App].kind
      /\ app'.joined = app.joined /\ app'.linked = app.linked
      /\ UNCHANGED <<branch, lock, dtc, pg, durable>>
  <2>1. /\ thread'[App].pc = "finish" /\ thread'[App].kind = thread[App].kind
        /\ \A u \in Threads : u # App => thread'[u] = thread[u]
    BY GoEffect, Distinct DEF Execute
  <2>2. app'.joined = app.joined /\ app'.linked = app.linked
    BY DEF Execute, Did, Typed, AppOK
  <2> QED BY <2>1, <2>2 DEF Execute, At
<1>1. Standing'
  BY <1>0, AppCleanup DEF TruthInv, Standing, Sharing, AppPlace, Enlisting, At, Separating
<1>2. \A b \in Branches : Knowing(b)'
  BY <1>0, Distinct DEF TruthInv, Knowing, Uses, At
<1>3. \A b \in Branches : Fate(b)'
  <2> SUFFICES ASSUME NEW b \in Branches
               PROVE  /\ app'.did[b] = "work" => \/ app.did[b] = "work"
                                                 \/ ~dtc[b].ended /\ Uses(b) /\ b \in sess'.work
                      /\ Uses(b) /\ b \in sess.work /\ app'.did[b] = "work" =>
                           b \in sess'.work \/ dtc[b].decision = "abort"
                      /\ b \in sess'.work => b \in sess.work \/ ~dtc[b].ended
    BY <1>0, AppFate
  <2>1. CASE /\ sess' = [sess EXCEPT !.tx = "open", !.work = @ \cup {Item}]
             /\ app' = Did(Item, "work")
    <3>1. sess'.work = sess.work \cup {Item}
      BY <2>1 DEF Typed, SessOK
    <3>2. Item = b => ~dtc[b].ended /\ Uses(b)
      BY EnlistAssumption DEF Item, Sharing, Working
    <3>3. app'.did[b] = "work" => app.did[b] = "work" \/ Item = b
      BY <2>1 DEF Did, Typed, AppOK
    <3> QED BY <3>1, <3>2, <3>3
  <2>2. CASE /\ sess' \in {sess, IF sess.open THEN [sess EXCEPT !.tx = "failed", !.work = {}]
                                 ELSE sess}
             /\ app' = IF sess' = sess THEN app ELSE Did(Item, "nothing")
    <3>1. sess'.work = sess.work \/ sess'.work = {}
      BY <2>2 DEF Typed, SessOK
    <3>2. app'.did[b] = "work" => app.did[b] = "work" /\ (sess' = sess \/ Item # b)
      BY <2>2 DEF Did, Typed, AppOK
    <3>3. b \in sess.work /\ Item # b => dtc[b].decision = "abort"
      <4>1. Uses(b) /\ app.joined # b => dtc[b].decision = "abort"
        BY <1>0 DEF TruthInv, Knowing, At, Sharing, Phase
      <4>2. b \in sess.work => /\ Uses(b) /\ handle.asdum = b
                               /\ dtc[b].ended => thread[Request(b)].pc = "abort_cs"
        BY DEF Sharing, Working
      <4>3. thread[Request(b)].pc = "abort_cs" => dtc[b].decision = "abort"
        BY DEF Sharing, Phase
      <4>4. app.joined = b /\ handle.asdum = b /\ ~dtc[b].ended => Item = b
        BY EnlistAssumption DEF Item, Items
      <4> QED BY <4>1, <4>2, <4>3, <4>4
    <3> QED BY <3>1, <3>2, <3>3
  <2> QED BY <2>1, <2>2 DEF Execute, OrLost, Steady
<1> QED BY <1>1, <1>2, <1>3 DEF TruthInv

\* What autocommit ends is not the work of a branch.
LEMMA FinishTruth ==
    ASSUME Typed, Sharing, TruthInv, Finish
    PROVE  TruthInv'
<1>0. /\ \A u \in Threads : u # App => thread'[u] = thread[u]
      /\ thread'[App].pc = "idle" /\ thread'[App].kind = "execute" /\ thread[App].pc = "finish"
      /\ lock'.e = lock.e
      /\ UNCHANGED <<handle, app, branch, dtc, pg>>
  <2>1. /\ thread'[App].pc = "idle" /\ thread'[App].kind = "execute"
        /\ \A u \in Threads : u # App => thread'[u] = thread[u]
    BY StopEffect, Distinct DEF Finish, LeaveCs
  <2>2. lock'.e = lock.e
    BY DEF Finish, LeaveCs, Typed, LockOK
  <2> QED BY <2>1, <2>2 DEF Finish, At
<1>1. Standing'
  BY <1>0, AppCleanup DEF TruthInv, Standing, Enlisting, At, Separating
<1>2. \A b \in Branches : Knowing(b)'
  BY <1>0, Distinct DEF TruthInv, Knowing, Uses, At
<1>3. ASSUME NEW b \in Branches PROVE (b \in durable' <=> b \in durable) /\ (b \in sess'.work <=> b \in sess.work)
  <2>1. CASE handle.auto /\ durable' = durable \cup (sess.work \cap Branches) /\ sess' = Fresh
    BY <2>1 DEF Sharing, Working, Fresh
  <2> QED BY <2>1 DEF Finish
<1>4. \A b \in Branches : Fate(b)'
  BY <1>0, <1>3, AppFate
<1> QED BY <1>1, <1>2, <1>4 DEF TruthInv

LEMMA SetAsyncTruth ==
    ASSUME Typed, Sharing, TruthInv, SetAsync
    PROVE  TruthInv'
<1>0. /\ \A u \in Threads : u # App => thread'[u] = thread[u]
      /\ thread'[App].pc = "idle" /\ thread'[App].kind = "execute" /\ thread[App].pc = "async"
      /\ lock'.e = lock.e
      /\ app'.joined = thread[App].on /\ app'.linked = app.linked /\ app'.did = app.did
      /\ UNCHANGED <<sess, branch, dtc, pg, durable>>
  <2>1. /\ thread'[App].pc = "idle" /\ thread'[App].kind = "execute"
        /\ \A u \in Threads : u # App => thread'[u] = thread[u]
    BY StopEffect, Distinct DEF SetAsync, LeaveCs
  <2>2. lock'.e = lock.e
    BY DEF SetAsync, LeaveCs, Typed, LockOK
  <2>3. app'.joined = thread[App].on /\ app'.linked = app.linked /\ app'.did = app.did
    BY DEF SetAsync, Typed, AppOK
  <2> QED BY <2>1, <2>2, <2>3 DEF SetAsync, At
<1>1. Standing'
  BY <1>0, AppCleanup DEF TruthInv, Standing, Enlisting, At, Separating
<1>2. \A b \in Branches : Knowing(b)'
  BY <1>0, Distinct DEF TruthInv, Sharing, Using, Knowing, Uses, At
<1>3. \A b \in Branches : Fate(b)'
  BY <1>0, AppMoves
<1> QED BY <1>1, <1>2, <1>3 DEF TruthInv

LEMMA LeaveTruth ==
    ASSUME Typed, Sharing, TruthInv, Leave
    PROVE  TruthInv'
<1>0. /\ \A u \in Threads : u # App => thread'[u] = thread[u]
      /\ thread'[App].pc = "idle" /\ thread'[App].kind = "execute"
      /\ lock'.e = lock.e
      /\ app'.joined = None /\ app'.linked = app.linked /\ app'.did = app.did
      /\ UNCHANGED <<sess, branch, dtc, pg, durable>>
  <2>1. /\ thread'[App].pc = "idle" /\ thread'[App].kind = "execute"
        /\ \A u \in Threads : u # App => thread'[u] = thread[u]
    BY StopEffect, Distinct DEF Leave, LeaveCs
  <2>2. lock'.e = lock.e
    BY DEF Leave, LeaveCs, Typed, LockOK
  <2>3. app'.joined = None /\ app'.linked = app.linked /\ app'.did = app.did
    BY DEF Leave, Typed, AppOK
  <2> QED BY <2>1, <2>2, <2>3 DEF Leave
<1>1. Standing'
  BY <1>0, AppCleanup DEF TruthInv, Standing, Enlisting, At, Separating
<1>2. \A b \in Branches : Knowing(b)'
  BY <1>0, Distinct DEF TruthInv, Knowing, Uses, At
<1>3. \A b \in Branches : Fate(b)'
  BY <1>0, AppMoves
<1> QED BY <1>1, <1>2, <1>3 DEF TruthInv

\* Disconnecting moves on.
LEMMA PartingMoves ==
    ASSUME Sharing, TruthInv, \A u \in Threads : u # App => thread'[u] = thread[u],
           thread[App].pc \in {"dtc", "release"}, thread'[App].kind = thread[App].kind,
           \/ thread'[App].pc = "release" \/ thread'[App].pc = "enter"
           \/ thread'[App].pc = "isolate" /\ thread'[App].back = "enter",
           UNCHANGED <<sess, app, branch, lock, dtc, pg, durable>>
    PROVE  TruthInv'
<1>1. Standing'
  BY AppCleanup DEF TruthInv, Standing, Sharing, AppPlace, Enlisting, At, Separating
<1>2. \A b \in Branches : Knowing(b)'
  BY Distinct DEF TruthInv, Knowing, Uses, At
<1>3. \A b \in Branches : Fate(b)'
  BY AppMoves
<1> QED BY <1>1, <1>2, <1>3 DEF TruthInv

LEMMA DtcOnDisconnectTruth ==
    ASSUME Typed, Sharing, TruthInv, DtcOnDisconnect
    PROVE  TruthInv'
<1>1. CASE Go(App, "enter")
  <2>1. /\ thread'[App].pc = "enter" /\ thread'[App].kind = thread[App].kind
        /\ \A u \in Threads : u # App => thread'[u] = thread[u]
    BY <1>1, GoEffect, Distinct
  <2> QED BY <2>1, PartingMoves DEF DtcOnDisconnect, At
<1>2. CASE thread' = [thread EXCEPT ![App].pc = "release", ![App].on = handle.asdum,
                                    ![App].back = "enter", ![App].keep = FALSE]
  <2>1. /\ thread'[App].pc = "release" /\ thread'[App].kind = thread[App].kind
        /\ \A u \in Threads : u # App => thread'[u] = thread[u]
    BY <1>2, Distinct DEF Typed, ThreadOK, ThreadState
  <2> QED BY <2>1, PartingMoves DEF DtcOnDisconnect, At
<1> QED BY <1>1, <1>2 DEF DtcOnDisconnect

LEMMA ReleaseConnectionTruth ==
    ASSUME Typed, Sharing, TruthInv, ReleaseConnection
    PROVE  TruthInv'
<1>0. thread[App].pc = "release" /\ thread[App].back = "enter"
  BY DEF ReleaseConnection, At, Sharing, AppPlace
<1>1. CASE Go(App, "isolate")
  <2>1. /\ thread'[App].pc = "isolate" /\ thread'[App].kind = thread[App].kind
        /\ thread'[App].back = "enter"
        /\ \A u \in Threads : u # App => thread'[u] = thread[u]
    BY <1>0, <1>1, GoEffect, Distinct
  <2> QED BY <1>0, <2>1, PartingMoves DEF ReleaseConnection
<1>2. CASE Back(App)
  <2>1. /\ thread'[App].pc = "enter" /\ thread'[App].kind = thread[App].kind
        /\ \A u \in Threads : u # App => thread'[u] = thread[u]
    BY <1>0, <1>2, BackEffect, Distinct
  <2> QED BY <1>0, <2>1, PartingMoves DEF ReleaseConnection
<1> QED BY <1>1, <1>2 DEF ReleaseConnection

\* A call that begins, or ends, the connection: no branch uses it.
LEMMA LinkTruth ==
    ASSUME Typed, Sharing, TruthInv, Disconnect \/ Connect
    PROVE  TruthInv'
<1>0. /\ \A u \in Threads : u # App => thread'[u] = thread[u]
      /\ thread[App].pc \in {"disconnect", "connect"}
      /\ thread'[App].pc = "idle" /\ thread'[App].kind = "execute"
      /\ lock'.e = lock.e /\ app'.did = app.did
      /\ UNCHANGED <<branch, dtc, pg, durable>>
  <2>1. /\ thread'[App].pc = "idle" /\ thread'[App].kind = "execute"
        /\ \A u \in Threads : u # App => thread'[u] = thread[u]
    BY StopEffect, Distinct DEF Disconnect, Connect, LeaveCs
  <2>2. lock'.e = lock.e
    BY DEF Disconnect, Connect, LeaveCs, Typed, LockOK
  <2>3. app'.did = app.did
    BY DEF Disconnect, Connect, Typed, AppOK
  <2> QED BY <2>1, <2>2, <2>3 DEF Disconnect, Connect, At
<1>1. \A b \in Branches : ~Uses(b) /\ b \notin sess.work
  BY <1>0, Unused
<1>2. \A b \in Branches : b \notin sess'.work
  BY <1>1 DEF Disconnect, Connect, Closed, Fresh
<1>3. Standing'
  BY <1>0, AppCleanup DEF TruthInv, Standing, Enlisting, At, Separating
<1>4. \A b \in Branches : Knowing(b)'
  BY <1>0, <1>1, Distinct DEF TruthInv, Knowing, Uses
<1>5. \A b \in Branches : Fate(b)'
  BY <1>0, <1>1, <1>2, AppFate
<1> QED BY <1>3, <1>4, <1>5 DEF TruthInv

\* Enlisting: the coordinator knows the branch, which has done nothing yet.
LEMMA EnlistInDtcTruth ==
    ASSUME Typed, Sharing, TruthInv, NEW b \in Branches, EnlistInDtc(b)
    PROVE  TruthInv'
<1>0. /\ thread[App].pc = "start" /\ app.linked /\ app' = app
      /\ UNCHANGED <<branch, pg, durable>>
  BY DEF EnlistInDtc, At, TruthInv, Standing, Enlisting
<1>1. \A c \in Branches : ~Uses(c) /\ c \notin sess.work
  BY <1>0, Unused
<1>2. \A c \in Branches : c \notin sess'.work
  BY <1>1 DEF EnlistInDtc, Fresh
<1>3. CASE LeaveCs /\ dtc' = dtc
  <2>1. /\ thread'[App].pc = "idle" /\ thread'[App].kind = "execute"
        /\ \A u \in Threads : u # App => thread'[u] = thread[u]
    BY <1>3, StopEffect, Distinct DEF LeaveCs
  <2>2. lock'.e = lock.e
    BY <1>3 DEF LeaveCs, Typed, LockOK
  <2>3. Standing'
    BY <1>0, <2>1, <2>2, AppCleanup DEF TruthInv, Standing, Enlisting, At, Separating
  <2>4. \A c \in Branches : Knowing(c)'
    BY <1>0, <1>1, <2>1, Distinct DEF TruthInv, Knowing, Uses
  <2>5. \A c \in Branches : Fate(c)'
    BY <1>0, <1>1, <1>2, <1>3, <2>1, AppFate
  <2> QED BY <2>3, <2>4, <2>5 DEF TruthInv
<1>4. CASE /\ dtc[b].st = "none" /\ dtc' = [dtc EXCEPT ![b].st = "active"]
           /\ thread' = [thread EXCEPT ![App].pc = "bind", ![App].on = b]
           /\ UNCHANGED <<handle, lock>>
  <2>1. /\ thread'[App].pc = "bind" /\ thread'[App].kind = thread[App].kind
        /\ thread'[App].on = b
        /\ \A u \in Threads : u # App => thread'[u] = thread[u]
    BY <1>4, Distinct DEF Typed, ThreadOK, ThreadState
  <2>2. /\ dtc'[b].st = "active" /\ dtc'[b].decision = dtc[b].decision
        /\ dtc'[b].answer = dtc[b].answer /\ dtc'[b].ended = dtc[b].ended
        /\ dtc'[b].lost = dtc[b].lost
        /\ \A c \in Branches : c # b => dtc'[c] = dtc[c]
    BY <1>4 DEF Typed, DtcOK, DtcState
  <2>3. branch[b].conn = "none" /\ dtc[b].answer = "none" /\ dtc[b].decision = "none"
    BY <1>4 DEF TruthInv, Fate, Decisions, Sharing, Phase
  <2>4. (\A t \in Threads : thread[t].pc = "cleanup" => lock.e[thread[t].on] = t)'
    BY <1>4, <2>1, AppCleanup
  <2>5. thread[App].kind # "connect" /\ thread[App].pc # "connect"
    BY <1>0 DEF Sharing, AppPlace
  <2>6. Standing'
    BY <1>0, <2>1, <2>2, <2>3, <2>4, <2>5 DEF Standing, At
  <2>7. \A c \in Branches : Knowing(c)'
    BY <1>0, <1>1, <2>1, Distinct DEF TruthInv, Knowing, Uses
  <2>8. thread'[Exec(b)] = thread[Exec(b)]
    BY <2>1, Distinct
  <2>9. Fate(b)'
    <3>1. Fate(b)
      BY DEF TruthInv
    <3>2. Decisions(b)'
      BY <1>0, <2>2, <2>3 DEF Decisions
    <3>3. Kept(b)' /\ Committed(b)'
      BY <1>0, <2>2, <2>8, <3>1 DEF Fate, Kept, Committed, Operating
    <3>4. Whereabouts(b)'
      BY <1>0, <1>1, <2>2, <2>3, <2>8, <3>1 DEF Fate, Whereabouts, Operating
    <3>5. Told(b)'
      BY <2>2, <2>3 DEF Told
    <3> QED BY <3>2, <3>3, <3>4, <3>5 DEF Fate
  <2>10. \A c \in Branches : c # b => Fate(c)'
    <3> SUFFICES ASSUME NEW c \in Branches, c # b PROVE Fate(c)'
      OBVIOUS
    <3>1. Quiet(c) /\ Fate(c) /\ Phase(c)
      BY <2>1, Distinct DEF Quiet, TruthInv, Sharing
    <3> QED BY <1>0, <1>1, <1>2, <2>2, <3>1, FateKept
  <2> QED BY <2>6, <2>7, <2>9, <2>10 DEF TruthInv
<1> QED BY <1>3, <1>4 DEF EnlistInDtc

LEMMA SetConnectionTruth ==
    ASSUME Typed, Sharing, TruthInv, SetConnection
    PROVE  TruthInv'
<1>0. /\ thread[App].pc = "bind" /\ app.linked /\ thread[App].kind # "connect"
      /\ UNCHANGED <<handle, sess, app, lock, dtc, pg, durable>>
  BY DEF SetConnection, At, TruthInv, Standing, Enlisting
<1>1. PICK b \in Branches : thread[App].on = b
  BY <1>0 DEF Sharing, AppPlace
<1>2. branch[b].conn = "none" /\ dtc[b].st # "none"
  BY <1>0, <1>1 DEF TruthInv, Standing, At
<1>3. /\ thread'[App].pc = "async" /\ thread'[App].kind = thread[App].kind
      /\ \A u \in Threads : u # App => thread'[u] = thread[u]
  BY GoEffect, Distinct DEF SetConnection
<1>4. /\ branch'[b].conn = "handle" /\ branch'[b].prepared = branch[b].prepared
      /\ \A c \in Branches : c # b => branch'[c] = branch[c]
  BY <1>1 DEF SetConnection, Typed, BranchOK
<1>5. \A c \in Branches : ~Uses(c) /\ c \notin sess.work
  BY <1>0, Unused
<1>6. Standing'
  <2>1. (\A t \in Threads : thread[t].pc = "cleanup" => lock.e[thread[t].on] = t)'
    BY <1>0, <1>3, AppCleanup
  <2> QED BY <1>0, <1>3, <2>1 DEF Standing, At
<1>7. \A c \in Branches : Knowing(c)'
  <2> SUFFICES ASSUME NEW c \in Branches PROVE Knowing(c)'
    OBVIOUS
  <2>1. thread'[Request(c)] = thread[Request(c)]
    BY <1>3, Distinct
  <2>2. thread[Request(c)].pc # "abort_cs"
    BY <1>5 DEF TruthInv, Knowing
  <2> QED BY <1>0, <1>3, <2>1, <2>2 DEF Knowing, At
<1>8. Fate(b)'
  <2>1. thread'[Exec(b)] = thread[Exec(b)] /\ Fate(b)
    BY <1>3, Distinct DEF TruthInv
  <2>2. Decisions(b)' /\ Kept(b)' /\ Committed(b)' /\ Told(b)'
    BY ZenonT(40), <1>0, <1>2, <1>4, <2>1 DEF Fate, Decisions, Kept, Committed, Told, Operating
  <2>3. Whereabouts(b)'
    BY <1>0, <1>2, <1>4, <1>5, <2>1 DEF Fate, Whereabouts, Operating
  <2> QED BY <2>2, <2>3 DEF Fate
<1>9. \A c \in Branches : c # b => Fate(c)'
  <2> SUFFICES ASSUME NEW c \in Branches, c # b PROVE Fate(c)'
    OBVIOUS
  <2>1. Quiet(c) /\ Fate(c) /\ Phase(c)
    BY <1>3, Distinct DEF Quiet, TruthInv, Sharing
  <2> QED BY <1>0, <1>4, <1>5, <2>1, FateKept
<1> QED BY <1>6, <1>7, <1>8, <1>9 DEF TruthInv

-----------------------------------------------------------------------------
(***************************************************************************)
(* MSDTC's requests and their threads keep it.                             *)
(***************************************************************************)

\* A step of the threads of one branch: the others keep their fate, and the application
\* what it knows.
LEMMA BranchStep ==
    ASSUME Typed, Sharing, TruthInv, NEW b \in Branches,
           \A u \in Threads : u \notin {Exec(b), Request(b)} => thread'[u] = thread[u],
           \A u \in Threads : thread'[u].pc = "cleanup" =>
             thread'[u] = thread[u] /\ (u = Exec(b) => lock'.e[b] = lock.e[b]),
           app' = app,
           lock'.e[b] = lock.e[b] \/ lock.e[b] \in {None, Exec(b), Request(b)},
           \A c \in Branches : c # b =>
             /\ branch'[c] = branch[c] /\ dtc'[c] = dtc[c] /\ pg'[c] = pg[c]
             /\ lock'.e[c] = lock.e[c] /\ (c \in durable' <=> c \in durable)
             /\ c \in sess'.work <=> c \in sess.work,
           branch[b].conn = "none" => branch'[b].conn = "none",
           dtc[b].st # "none" => dtc'[b].st # "none",
           Uses(b)' => Uses(b),
           thread'[Request(b)].pc = "abort_cs" => Uses(b)',
           thread[Request(b)].pc = "abort_cs" /\ thread[App].pc = "execute" =>
             thread'[Request(b)].pc = "abort_cs",
           Fate(b)'
    PROVE  TruthInv'
<1>0. thread'[App] = thread[App]
  BY Distinct
<1>1. \A t \in Threads : thread'[t].pc = "cleanup" => lock'.e[thread'[t].on] = t
  <2> SUFFICES ASSUME NEW t \in Threads, thread'[t].pc = "cleanup"
               PROVE  lock'.e[thread[t].on] = t
    OBVIOUS
  <2>1. thread'[t] = thread[t] /\ thread[t].on \in Branches
    BY SeparatingOn DEF Separating
  <2>2. lock.e[thread[t].on] = t
    BY <2>1 DEF TruthInv, Standing
  <2>3. t \notin {None, Request(b)}
    BY <2>1, Distinct DEF Sharing, Phase
  <2> QED BY <2>1, <2>2, <2>3
<1>2. Standing'
  <2>1. At(App, "bind")' => LET c == thread[App].on IN branch'[c].conn = "none" /\ dtc'[c].st # "none"
    BY <1>0 DEF TruthInv, Standing, Sharing, AppPlace, At
  <2> QED BY <1>0, <1>1, <2>1 DEF TruthInv, Standing, Enlisting, At
<1>3. Knowing(b)'
  BY <1>0 DEF TruthInv, Knowing, At
<1>4. ASSUME NEW c \in Branches, c # b PROVE Knowing(c)' /\ Fate(c)'
  <2>1. thread'[Exec(c)] = thread[Exec(c)] /\ thread'[Request(c)] = thread[Request(c)]
    BY <1>4, Distinct
  <2>2. Knowing(c)'
    BY <1>0, <1>4, <2>1 DEF TruthInv, Knowing, Uses, At
  <2>3. Quiet(c) /\ Fate(c) /\ Phase(c)
    BY <2>1 DEF Quiet, TruthInv, Sharing
  <2> QED BY <1>4, <2>2, <2>3, FateKept
<1> QED BY <1>2, <1>3, <1>4 DEF TruthInv

\* Where RequestExec is says what it has to say.
LEMMA RequestPhase ==
    ASSUME NEW b \in Branches, Phase(b), Fate(b)
    PROVE  /\ Operating(b) /\ thread[Exec(b)].kind = "prepare" =>
                dtc[b].st = "preparing" /\ dtc[b].answer = "none" /\ dtc[b].decision \notin {"commit", "abort"}
           /\ thread[Exec(b)].pc \in {"begin", "lock", "operate", "done", "answer"} =>
                dtc[b].answer = "none"
           /\ Operating(b) => thread[Request(b)].pc # "abort_cs"
BY DEF Phase, Kinds, Fate, Decisions, Operating, InExec, Exec, Request

LEMMA PrepareRequestTruth ==
    ASSUME Typed, Sharing, TruthInv, NEW b \in Branches, PrepareRequest(b)
    PROVE  TruthInv'
<1>0. /\ \A u \in Threads : u # Exec(b) => thread'[u] = thread[u]
      /\ \A c \in Branches : c # b => dtc'[c] = dtc[c]
      /\ dtc[b].st = "active" /\ dtc'[b].st = "preparing" /\ dtc'[b].ended = dtc[b].ended
      /\ dtc'[b].decision \in {"single", dtc[b].decision} /\ dtc'[b].answer = dtc[b].answer
      /\ thread'[Exec(b)].pc = "begin" /\ thread'[Exec(b)].kind = "prepare"
      /\ UNCHANGED <<handle, sess, app, branch, lock, pg, durable>>
  <2>1. PICK single \in BOOLEAN, res \in Results :
            /\ dtc' = [dtc EXCEPT ![b].st = "preparing",
                                  ![b].decision = IF single THEN "single" ELSE @]
            /\ thread' = [thread EXCEPT ![Exec(b)] = Started("prepare", res)]
    BY DEF PrepareRequest, Results
  <2>2. /\ dtc'[b].st = "preparing" /\ dtc'[b].ended = dtc[b].ended
        /\ dtc'[b].decision \in {"single", dtc[b].decision} /\ dtc'[b].answer = dtc[b].answer
        /\ \A c \in Branches : c # b => dtc'[c] = dtc[c]
    BY <2>1 DEF Typed, DtcOK, DtcState
  <2>3. /\ thread'[Exec(b)] = Started("prepare", res)
        /\ \A u \in Threads : u # Exec(b) => thread'[u] = thread[u]
    BY ZenonT(40), <2>1, SetEffect, Distinct
  <2>4. Started("prepare", res).pc = "begin" /\ Started("prepare", res).kind = "prepare"
    BY StartedEffect
  <2>5. /\ dtc[b].st = "active"
        /\ UNCHANGED <<handle, sess, app, branch, lock, pg, durable>>
    BY DEF PrepareRequest
  <2> QED BY <2>2, <2>3, <2>4, <2>5
<1>1. Phase(b) /\ Fate(b) /\ Knowing(b) /\ thread'[Request(b)] = thread[Request(b)]
  BY <1>0, Distinct DEF Sharing, TruthInv
<1>2. dtc[b].answer = "none" /\ dtc[b].decision = "none" /\ thread[Exec(b)].pc = "idle"
  BY <1>0, <1>1 DEF Phase, Fate, Decisions
<1>3. Fate(b)'
  <2>1. Decisions(b)' /\ Kept(b)'
    BY <1>0, <1>1, <1>2 DEF Fate, Decisions, Kept, Operating
  <2>2. Committed(b)' /\ Told(b)'
    BY <1>0, <1>1, <1>2 DEF Fate, Committed, Told, Operating
  <2>3. Whereabouts(b)'
    BY <1>0, <1>1, <1>2 DEF Fate, Whereabouts, Operating, Uses
  <2> QED BY <2>1, <2>2, <2>3 DEF Fate
<1>4. Uses(b)' <=> Uses(b)
  BY <1>0 DEF Uses
<1> QED BY <1>0, <1>1, <1>3, <1>4, BranchStep, Distinct DEF Knowing

LEMMA CommitRequestTruth ==
    ASSUME Typed, Sharing, TruthInv, NEW b \in Branches, CommitRequest(b)
    PROVE  TruthInv'
<1>0. /\ \A u \in Threads : u # Exec(b) => thread'[u] = thread[u]
      /\ \A c \in Branches : c # b => dtc'[c] = dtc[c]
      /\ dtc[b].st = "ready" /\ dtc[b].decision = "none"
      /\ dtc'[b].decision = "commit" /\ dtc'[b].ended = dtc[b].ended /\ dtc'[b].lost = dtc[b].lost
      /\ \/ /\ dtc'[b].st = "over" /\ dtc'[b].answer = "refused"
            /\ thread'[Exec(b)] = thread[Exec(b)]
         \/ /\ dtc'[b].st = "ready" /\ dtc'[b].answer = dtc[b].answer
            /\ thread'[Exec(b)].pc = "begin" /\ branch[b].prepared
      /\ UNCHANGED <<handle, sess, app, branch, lock, pg, durable>>
  <2>1. PICK refused \in BOOLEAN :
            /\ dtc' = [dtc EXCEPT ![b].decision = "commit",
                                  ![b].st = IF refused THEN "over" ELSE @,
                                  ![b].answer = IF refused THEN "refused" ELSE @]
            /\ thread' = IF refused THEN thread
                         ELSE [thread EXCEPT ![Exec(b)] = Started("commit", "ok")]
            /\ ~refused => branch[b].prepared
    BY DEF CommitRequest
  <2>2. /\ dtc'[b].decision = "commit" /\ dtc'[b].ended = dtc[b].ended /\ dtc'[b].lost = dtc[b].lost
        /\ dtc'[b].st = IF refused THEN "over" ELSE dtc[b].st
        /\ dtc'[b].answer = IF refused THEN "refused" ELSE dtc[b].answer
        /\ \A c \in Branches : c # b => dtc'[c] = dtc[c]
    BY ZenonT(40), <2>1 DEF Typed, DtcOK, DtcState
  <2>3. CASE refused
    BY <2>1, <2>2, <2>3 DEF CommitRequest
  <2>4. CASE ~refused
    <3>1. /\ thread'[Exec(b)] = Started("commit", "ok")
          /\ \A u \in Threads : u # Exec(b) => thread'[u] = thread[u]
      BY ZenonT(40), <2>1, <2>4, SetEffect, Distinct
    <3>2. Started("commit", "ok").pc = "begin"
      BY StartedEffect
    <3> QED BY <2>1, <2>2, <2>4, <3>1, <3>2 DEF CommitRequest
  <2> QED BY <2>3, <2>4
<1>1. Phase(b) /\ Fate(b) /\ Knowing(b) /\ thread'[Request(b)] = thread[Request(b)]
  BY <1>0, Distinct DEF Sharing, TruthInv
<1>2. dtc[b].answer = "none" /\ dtc[b].ended
  BY <1>0, <1>1 DEF Phase, Fate, Decisions
<1>3. thread[Exec(b)].pc \in {"idle", "record"}
  BY <1>0, <1>1 DEF Phase, Kinds
<1>4. Fate(b)'
  <2>1. Decisions(b)' /\ Kept(b)'
    BY <1>0, <1>1, <1>2, <1>3 DEF Fate, Decisions, Kept, Operating
  <2>2. Committed(b)' /\ Told(b)'
    BY <1>0, <1>1, <1>2, <1>3 DEF Fate, Committed, Told, Operating
  <2>3. Whereabouts(b)'
    BY <1>0, <1>1, <1>2, <1>3 DEF Fate, Whereabouts, Operating, Uses
  <2> QED BY <2>1, <2>2, <2>3 DEF Fate
<1>5. Uses(b)' <=> Uses(b)
  BY <1>0 DEF Uses
<1> QED BY <1>0, <1>1, <1>3, <1>4, <1>5, BranchStep, Distinct DEF Knowing

LEMMA AbortRequestTruth ==
    ASSUME Typed, Sharing, TruthInv, NEW b \in Branches, AbortRequest(b)
    PROVE  TruthInv'
<1>0. /\ \A u \in Threads : u # Request(b) => thread'[u] = thread[u]
      /\ thread'[Request(b)].pc = "abort_elock"
      /\ \A c \in Branches : c # b => dtc'[c] = dtc[c]
      /\ dtc[b].st \in {"active", "ready"} /\ dtc[b].decision = "none"
      /\ dtc'[b].decision = "abort" /\ dtc'[b].st = "ready"
      /\ dtc'[b].answer = dtc[b].answer /\ dtc'[b].ended = dtc[b].ended
      /\ dtc'[b].lost = dtc[b].lost
      /\ UNCHANGED <<handle, sess, app, branch, lock, pg, durable>>
  <2>1. /\ thread'[Request(b)].pc = "abort_elock"
        /\ \A u \in Threads : u # Request(b) => thread'[u] = thread[u]
    BY GoEffect, Distinct DEF AbortRequest
  <2>2. /\ dtc'[b].decision = "abort" /\ dtc'[b].st = "ready"
        /\ dtc'[b].answer = dtc[b].answer /\ dtc'[b].ended = dtc[b].ended
        /\ dtc'[b].lost = dtc[b].lost
        /\ \A c \in Branches : c # b => dtc'[c] = dtc[c]
    BY DEF AbortRequest, Typed, DtcOK, DtcState
  <2> QED BY <2>1, <2>2 DEF AbortRequest
<1>1. Phase(b) /\ Fate(b) /\ thread'[Exec(b)] = thread[Exec(b)]
  BY <1>0, Distinct DEF Sharing, TruthInv
<1>2. dtc[b].answer = "none" /\ thread[Exec(b)].pc \in {"idle", "record"}
  BY <1>0, <1>1 DEF Phase, Kinds, Fate, Decisions
<1>3. Fate(b)'
  <2>1. Decisions(b)' /\ Kept(b)'
    BY <1>0, <1>1, <1>2 DEF Fate, Decisions, Kept, Operating
  <2>2. Committed(b)' /\ Told(b)'
    BY <1>0, <1>1, <1>2 DEF Fate, Committed, Told, Operating
  <2>3. Whereabouts(b)'
    BY <1>0 DEF Whereabouts
  <2> QED BY <2>1, <2>2, <2>3 DEF Fate
<1>4. (Uses(b)' <=> Uses(b)) /\ thread[Request(b)].pc # "abort_cs"
  BY <1>0, <1>1 DEF Uses, Phase
<1> QED BY <1>0, <1>1, <1>2, <1>3, <1>4, BranchStep, Distinct

LEMMA AbortLockedTruth ==
    ASSUME Typed, Sharing, TruthInv, NEW b \in Branches, AbortLocked(b)
    PROVE  TruthInv'
<1>0. /\ \A u \in Threads : u \notin {Exec(b), Request(b)} => thread'[u] = thread[u]
      /\ thread[Request(b)].pc = "abort_elock" /\ lock.e[b] = None
      /\ \A c \in Branches : c # b => dtc'[c] = dtc[c] /\ lock'.e[c] = lock.e[c]
      /\ dtc'[b].st = dtc[b].st /\ dtc'[b].decision = dtc[b].decision
      /\ dtc'[b].answer = dtc[b].answer /\ dtc'[b].ended
      /\ \/ /\ branch[b].conn = "handle" /\ thread'[Request(b)].pc = "abort_cs"
            /\ thread'[Exec(b)] = thread[Exec(b)]
         \/ thread'[Request(b)].pc = "idle" /\ thread'[Exec(b)].pc = "begin"
      /\ UNCHANGED <<sess, app, branch, pg, durable>>
  <2>1. /\ dtc'[b].st = dtc[b].st /\ dtc'[b].decision = dtc[b].decision
        /\ dtc'[b].answer = dtc[b].answer /\ dtc'[b].ended
        /\ \A c \in Branches : c # b => dtc'[c] = dtc[c]
    BY DEF AbortLocked, Typed, DtcOK, DtcState
  <2>2. CASE /\ RollsBack(b) /\ lock' = [lock EXCEPT !.e[b] = Request(b)]
             /\ Go(Request(b), "abort_cs")
    <3>1. /\ thread'[Request(b)].pc = "abort_cs"
          /\ \A u \in Threads : u # Request(b) => thread'[u] = thread[u]
      BY <2>2, GoEffect, Distinct
    <3>2. \A c \in Branches : c # b => lock'.e[c] = lock.e[c]
      BY <2>2 DEF Typed, LockOK
    <3> QED BY <2>1, <2>2, <3>1, <3>2, Distinct DEF AbortLocked, At, RollsBack
  <2>3. CASE /\ thread' = [thread EXCEPT ![Request(b)].pc = "idle",
                                         ![Exec(b)] = Started("abort", "ok")]
             /\ lock' = lock
    <3>1. /\ thread'[Request(b)].pc = "idle" /\ thread'[Exec(b)] = Started("abort", "ok")
          /\ \A u \in Threads : u \notin {Exec(b), Request(b)} => thread'[u] = thread[u]
      BY <2>3, Distinct DEF Typed, ThreadOK, ThreadState
    <3>2. Started("abort", "ok").pc = "begin"
      BY StartedEffect
    <3> QED BY <2>1, <2>3, <3>1, <3>2 DEF AbortLocked, At
  <2> QED BY <2>2, <2>3 DEF AbortLocked
<1>1. Phase(b) /\ Fate(b)
  BY DEF Sharing, TruthInv
<1>2. /\ thread[Exec(b)].pc = "idle" /\ dtc[b].decision = "abort" /\ dtc[b].answer = "none"
      /\ ~branch[b].done
  BY <1>0, <1>1, Distinct DEF Phase, InExec, Fate, Decisions
<1>3. Fate(b)'
  <2>1. Decisions(b)' /\ Kept(b)'
    BY <1>0, <1>1, <1>2 DEF Fate, Decisions, Kept, Operating
  <2>2. Committed(b)' /\ Told(b)'
    BY <1>0, <1>1, <1>2 DEF Fate, Committed, Told, Operating
  <2>3. Whereabouts(b)'
    BY <1>0, <1>2 DEF Whereabouts
  <2> QED BY <2>1, <2>2, <2>3 DEF Fate
<1>4. /\ Uses(b)' <=> Uses(b)
      /\ branch[b].conn = "handle" => Uses(b)
  BY <1>0, <1>2 DEF Uses
<1>5. \A u \in Threads : thread'[u].pc = "cleanup" =>
        thread'[u] = thread[u] /\ (u = Exec(b) => lock'.e[b] = lock.e[b])
  BY <1>0, <1>2
<1> QED BY <1>0, <1>3, <1>4, <1>5, BranchStep

\* AbortRequest rolls back what its branch did on the handle, and nothing else is there.
LEMMA AbortLocalTruth ==
    ASSUME Typed, Sharing, TruthInv, NEW b \in Branches, AbortLocal(b)
    PROVE  TruthInv'
<1>0. /\ \A u \in Threads : u \notin {Exec(b), Request(b)} => thread'[u] = thread[u]
      /\ thread[Request(b)].pc = "abort_cs" /\ lock.cs = None
      /\ thread'[Request(b)].pc = "idle" /\ thread'[Exec(b)].pc = "begin"
      /\ \A c \in Branches : c # b => lock'.e[c] = lock.e[c]
      /\ UNCHANGED <<app, branch, dtc, pg, durable>>
  <2>1. /\ thread'[Request(b)].pc = "idle" /\ thread'[Exec(b)] = Started("abort", "ok")
        /\ \A u \in Threads : u \notin {Exec(b), Request(b)} => thread'[u] = thread[u]
    BY Distinct DEF AbortLocal, Typed, ThreadOK, ThreadState
  <2>2. \A c \in Branches : c # b => lock'.e[c] = lock.e[c]
    BY DEF AbortLocal, Typed, LockOK
  <2>3. Started("abort", "ok").pc = "begin"
    BY StartedEffect
  <2> QED BY <2>1, <2>2, <2>3 DEF AbortLocal, At
<1>1. Phase(b) /\ Fate(b) /\ Uses(b)
  BY <1>0 DEF Sharing, TruthInv, Knowing
<1>2. /\ thread[Exec(b)].pc = "idle" /\ dtc[b].decision = "abort" /\ dtc[b].answer = "none"
      /\ lock.e[b] = Request(b)
  BY <1>0, <1>1, Distinct DEF Phase, InExec, Fate, Decisions
<1>3. \A c \in Branches : c # b => c \notin sess.work
  BY <1>1 DEF Sharing, Working, Using
<1>4. \A c \in Branches : c \in sess'.work => c \in sess.work
  BY DEF AbortLocal, OrLost, RolledBack, Fresh, Closed
<1>5. Fate(b)'
  <2>1. Decisions(b)' /\ Kept(b)'
    BY <1>0, <1>1, <1>2 DEF Fate, Decisions, Kept, Operating
  <2>2. Committed(b)' /\ Told(b)'
    BY <1>0, <1>1, <1>2 DEF Fate, Committed, Told, Operating
  <2>3. Whereabouts(b)'
    BY <1>0, <1>2 DEF Whereabouts
  <2> QED BY <2>1, <2>2, <2>3 DEF Fate
<1>6. Uses(b)' <=> Uses(b)
  BY <1>0 DEF Uses
<1>7. thread[App].pc # "execute"
  BY <1>0, Distinct DEF Sharing, AppPlace
<1>8. \A u \in Threads : thread'[u].pc = "cleanup" =>
        thread'[u] = thread[u] /\ (u = Exec(b) => lock'.e[b] = lock.e[b])
  BY <1>0
<1> QED BY <1>0, <1>2, <1>3, <1>4, <1>5, <1>6, <1>7, <1>8, BranchStep

\* The recovery commits what the server has prepared for the branch: its work.
LEMMA XaCommitTruth ==
    ASSUME Typed, Sharing, TruthInv, NEW b \in Branches, XaCommit(b)
    PROVE  TruthInv'
<1>0. /\ dtc[b].answer \in {"refused", "failed"} /\ dtc[b].decision = "commit"
      /\ \A c \in Branches : c # b => dtc'[c] = dtc[c] /\ pg'[c] = pg[c]
      /\ dtc'[b].st = dtc[b].st /\ dtc'[b].decision = dtc[b].decision
      /\ dtc'[b].ended = dtc[b].ended
      /\ \/ /\ pg[b].st = "prepared" /\ pg'[b].st = "committed" /\ dtc'[b].answer = "committed"
         \/ /\ pg[b].st # "prepared" /\ pg'[b] = pg[b] /\ dtc'[b].answer = "hazard"
      /\ durable' = durable \cup (pg[b].work \cap Branches)
      /\ UNCHANGED <<handle, sess, app, branch, lock, thread>>
  <2>1. /\ dtc'[b].st = dtc[b].st /\ dtc'[b].decision = dtc[b].decision
        /\ dtc'[b].ended = dtc[b].ended
        /\ dtc'[b].answer = IF pg[b].st = "prepared" THEN "committed" ELSE "hazard"
        /\ \A c \in Branches : c # b => dtc'[c] = dtc[c]
    BY DEF XaCommit, XaOutcome, Typed, DtcOK, DtcState
  <2>2. /\ \A c \in Branches : c # b => pg'[c] = pg[c]
        /\ pg[b].st = "prepared" => pg'[b].st = "committed"
        /\ pg[b].st # "prepared" => pg'[b] = pg[b]
    BY DEF XaCommit, XaOutcome, Typed, PgOK
  <2> QED BY <2>1, <2>2 DEF XaCommit, XaOutcome, Recoverable
<1>1. Phase(b) /\ Fate(b) /\ Knowing(b) /\ Working(b)
  BY DEF Sharing, TruthInv
<1>2. dtc[b].st = "over" /\ dtc[b].ended
  BY <1>0, <1>1 DEF Fate, Decisions
<1>3. b \notin sess.work /\ ~(Operating(b) /\ thread[Exec(b)].kind = "prepare")
  BY <1>0, <1>1, <1>2, RequestPhase DEF Phase, Working
<1>4. app.did[b] = "work" /\ pg[b].st = "prepared" => b \in durable'
  BY <1>0, <1>1, <1>2, <1>3 DEF Fate, Whereabouts
<1>5. \A c \in Branches : c # b => (c \in durable' <=> c \in durable)
  BY <1>0, <1>1 DEF Working
<1>6. Fate(b)'
  <2>1. Decisions(b)' /\ Kept(b)'
    BY <1>0, <1>1, <1>2 DEF Fate, Decisions, Kept, Operating
  <2>2. Committed(b)' /\ Told(b)'
    BY <1>0, <1>1, <1>4 DEF Fate, Committed, Told, Operating
  <2>3. Whereabouts(b)'
    BY <1>0, <1>1, <1>2, <1>3, <1>4 DEF Fate, Whereabouts, Operating, Uses
  <2> QED BY <2>1, <2>2, <2>3 DEF Fate
<1>7. Uses(b)' <=> Uses(b)
  BY <1>0 DEF Uses
<1> QED BY <1>0, <1>1, <1>5, <1>6, <1>7, BranchStep DEF Knowing

LEMMA XaRollbackTruth ==
    ASSUME Typed, Sharing, TruthInv, NEW b \in Branches, XaRollback(b)
    PROVE  TruthInv'
<1>0. /\ dtc[b].answer \in {"refused", "failed"} /\ dtc[b].decision = "abort"
      /\ \A c \in Branches : c # b => dtc'[c] = dtc[c] /\ pg'[c] = pg[c]
      /\ dtc'[b].st = dtc[b].st /\ dtc'[b].decision = dtc[b].decision
      /\ dtc'[b].ended = dtc[b].ended
      /\ dtc'[b].answer \in {"aborted", "hazard"}
      /\ pg'[b].st # "prepared"
      /\ UNCHANGED <<handle, sess, app, branch, lock, thread, durable>>
  <2>1. /\ dtc'[b].st = dtc[b].st /\ dtc'[b].decision = dtc[b].decision
        /\ dtc'[b].ended = dtc[b].ended
        /\ dtc'[b].answer = IF pg[b].st = "prepared" THEN "aborted" ELSE "hazard"
        /\ \A c \in Branches : c # b => dtc'[c] = dtc[c]
    BY DEF XaRollback, XaOutcome, Typed, DtcOK, DtcState
  <2>2. /\ \A c \in Branches : c # b => pg'[c] = pg[c]
        /\ pg'[b].st # "prepared"
    BY DEF XaRollback, XaOutcome, Typed, PgOK
  <2> QED BY <2>1, <2>2 DEF XaRollback, XaOutcome, Recoverable
<1>1. Phase(b) /\ Fate(b) /\ Knowing(b) /\ Working(b)
  BY DEF Sharing, TruthInv
<1>2. dtc[b].st = "over" /\ dtc[b].ended
  BY <1>0, <1>1 DEF Fate, Decisions
<1>3. b \notin sess.work /\ ~(Operating(b) /\ thread[Exec(b)].kind = "prepare")
  BY <1>0, <1>1, <1>2, RequestPhase DEF Phase, Working
<1>4. b \notin durable
  BY <1>0, <1>1, <1>3 DEF Fate, Committed
<1>5. Fate(b)'
  <2>1. Decisions(b)' /\ Kept(b)'
    BY <1>0, <1>1, <1>2 DEF Fate, Decisions, Kept, Operating
  <2>2. Committed(b)' /\ Told(b)'
    BY <1>0, <1>1, <1>3, <1>4 DEF Fate, Committed, Told, Operating
  <2>3. Whereabouts(b)'
    BY <1>0 DEF Whereabouts
  <2> QED BY <2>1, <2>2, <2>3 DEF Fate
<1>6. Uses(b)' <=> Uses(b)
  BY <1>0 DEF Uses
<1> QED BY <1>0, <1>1, <1>5, <1>6, BranchStep DEF Knowing

\* An abort of a branch that has not prepared is over when it begins.
LEMMA BeginTruth ==
    ASSUME Typed, Sharing, TruthInv, NEW b \in Branches, Begin(b)
    PROVE  TruthInv'
<1> DEFINE t == thread[Exec(b)]
           u == thread'[Exec(b)]
<1>0. /\ \A v \in Threads : v # Exec(b) => thread'[v] = thread[v]
      /\ t.pc = "begin" /\ lock.e[b] = None
      /\ \A c \in Branches : c # b => lock'.e[c] = lock.e[c]
      /\ \/ u.pc \in {"idle", "lock"}
         \/ u.pc = "done" /\ u.kind = t.kind /\ u.res = t.res /\ t.kind = "abort"
            /\ (~branch[b].prepared \/ branch[b].done)
      /\ UNCHANGED <<handle, sess, app, branch, dtc, pg, durable>>
  <2>1. CASE Stop(Exec(b)) /\ lock' = lock
    <3>1. u.pc = "idle" /\ \A v \in Threads : v # Exec(b) => thread'[v] = thread[v]
      BY <2>1, StopEffect, Distinct
    <3> QED BY <2>1, <3>1 DEF Begin, At
  <2>2. CASE lock' = [lock EXCEPT !.e[b] = Exec(b)] /\ Go(Exec(b), "lock")
    <3>1. u.pc = "lock" /\ \A v \in Threads : v # Exec(b) => thread'[v] = thread[v]
      BY <2>2, GoEffect, Distinct
    <3>2. \A c \in Branches : c # b => lock'.e[c] = lock.e[c]
      BY <2>2 DEF Typed, LockOK
    <3> QED BY <3>1, <3>2 DEF Begin, At
  <2>3. CASE /\ lock' = [lock EXCEPT !.e[b] = Exec(b)] /\ Go(Exec(b), "done")
             /\ t.kind = "abort" /\ (~branch[b].prepared \/ branch[b].done)
    <3>1. /\ u.pc = "done" /\ u.kind = t.kind /\ u.res = t.res
          /\ \A v \in Threads : v # Exec(b) => thread'[v] = thread[v]
      BY <2>3, GoEffect, Distinct
    <3>2. \A c \in Branches : c # b => lock'.e[c] = lock.e[c]
      BY <2>3 DEF Typed, LockOK
    <3> QED BY <2>3, <3>1, <3>2 DEF Begin, At
  <2> QED BY <2>1, <2>2, <2>3 DEF Begin
<1>1. Phase(b) /\ Fate(b) /\ Knowing(b) /\ thread'[Request(b)] = thread[Request(b)]
  BY <1>0, Distinct DEF Sharing, TruthInv
<1>2. u.pc = "done" => dtc[b].decision = "abort" /\ ~branch[b].prepared
  BY <1>0, <1>1 DEF Phase, Kinds
<1> HIDE DEF t, u
<1>3. Fate(b)'
  <2>1. Decisions(b)' /\ Kept(b)'
    BY <1>0, <1>1, <1>2 DEF Fate, Decisions, Kept, Operating, t, u
  <2>2. Committed(b)' /\ Told(b)'
    BY <1>0, <1>1, <1>2 DEF Fate, Committed, Told, Operating, t, u
  <2>3. Whereabouts(b)'
    BY <1>0, <1>1, <1>2 DEF Fate, Whereabouts, Operating, Uses, t, u
  <2> QED BY <2>1, <2>2, <2>3 DEF Fate
<1>4. Uses(b)' <=> Uses(b)
  BY <1>0 DEF Uses
<1>5. \A v \in Threads : thread'[v].pc = "cleanup" =>
        thread'[v] = thread[v] /\ (v = Exec(b) => lock'.e[b] = lock.e[b])
  BY <1>0 DEF u
<1> QED BY <1>0, <1>1, <1>3, <1>4, <1>5, BranchStep DEF Knowing

LEMMA GetLockedXAConnTruth ==
    ASSUME Typed, Sharing, TruthInv, NEW b \in Branches, GetLockedXAConn(b)
    PROVE  TruthInv'
<1>0. /\ \A v \in Threads : v # Exec(b) => thread'[v] = thread[v]
      /\ thread[Exec(b)].pc = "lock" /\ thread'[Exec(b)].pc \in {"operate", "separate"}
      /\ thread'[Exec(b)].kind = thread[Exec(b)].kind
      /\ thread'[Exec(b)].res = thread[Exec(b)].res
      /\ lock'.e = lock.e
      /\ branch' = branch \/ (branch[b].conn = "new" /\ branch' = [branch EXCEPT ![b].conn = "own"])
      /\ UNCHANGED <<sess, app, dtc, pg, durable>>
  <2>1. CASE Go(Exec(b), "operate")
    <3>1. /\ thread'[Exec(b)].pc = "operate" /\ thread'[Exec(b)].kind = thread[Exec(b)].kind
          /\ thread'[Exec(b)].res = thread[Exec(b)].res
          /\ \A v \in Threads : v # Exec(b) => thread'[v] = thread[v]
      BY <2>1, GoEffect, Distinct
    <3>2. lock'.e = lock.e
      BY DEF GetLockedXAConn, Typed, LockOK
    <3>3. branch' = branch \/ (branch[b].conn = "new" /\ branch' = [branch EXCEPT ![b].conn = "own"])
      BY DEF GetLockedXAConn
    <3> QED BY <3>1, <3>2, <3>3 DEF GetLockedXAConn, At
  <2>2. CASE /\ thread' = [thread EXCEPT ![Exec(b)].pc = "separate", ![Exec(b)].on = b,
                                         ![Exec(b)].back = "lock"]
             /\ branch' = branch /\ lock' = lock
    <3>1. /\ thread'[Exec(b)].pc = "separate" /\ thread'[Exec(b)].kind = thread[Exec(b)].kind
          /\ thread'[Exec(b)].res = thread[Exec(b)].res
          /\ \A v \in Threads : v # Exec(b) => thread'[v] = thread[v]
      BY <2>2, Distinct DEF Typed, ThreadOK, ThreadState
    <3> QED BY <2>2, <3>1 DEF GetLockedXAConn, At
  <2> QED BY <2>1, <2>2 DEF GetLockedXAConn
<1>1. /\ \A c \in Branches : c # b => branch'[c] = branch[c]
      /\ \/ branch'[b] = branch[b]
         \/ /\ branch[b].conn = "new" /\ branch'[b].conn = "own"
            /\ branch'[b].prepared = branch[b].prepared
  BY <1>0 DEF Typed, BranchOK
<1>2. Phase(b) /\ Fate(b) /\ Knowing(b) /\ thread'[Request(b)] = thread[Request(b)]
  BY <1>0, Distinct DEF Sharing, TruthInv
<1>3. Uses(b)' <=> Uses(b)
  BY <1>1 DEF Uses
<1>4. Fate(b)'
  <2>1. Decisions(b)' /\ Kept(b)'
    BY <1>0, <1>1, <1>2 DEF Fate, Decisions, Kept, Operating
  <2>2. Committed(b)' /\ Told(b)'
    BY <1>0, <1>1, <1>2 DEF Fate, Committed, Told, Operating
  <2>3. Whereabouts(b)'
    BY <1>0, <1>1, <1>2, <1>3 DEF Fate, Whereabouts, Operating
  <2> QED BY <2>1, <2>2, <2>3 DEF Fate
<1>5. \A v \in Threads : thread'[v].pc = "cleanup" =>
        thread'[v] = thread[v] /\ (v = Exec(b) => lock'.e[b] = lock.e[b])
  BY <1>0
<1> QED BY <1>0, <1>1, <1>2, <1>3, <1>4, <1>5, BranchStep DEF Knowing

\* The handle returns to autocommit when the branch has nothing left in its session.
LEMMA SetDoneTruth ==
    ASSUME Typed, Sharing, TruthInv, NEW b \in Branches, SetDone(b)
    PROVE  TruthInv'
<1>0. /\ \A v \in Threads : v # Exec(b) => thread'[v] = thread[v]
      /\ thread[Exec(b)].pc = "done" /\ thread'[Exec(b)].pc = "answer"
      /\ thread'[Exec(b)].kind = thread[Exec(b)].kind
      /\ thread'[Exec(b)].res = thread[Exec(b)].res
      /\ branch'[b].done /\ branch'[b].conn = "none" /\ branch'[b].prepared = branch[b].prepared
      /\ \A c \in Branches : c # b => branch'[c] = branch[c]
      /\ UNCHANGED <<sess, app, lock, dtc, pg, durable>>
  <2>1. /\ thread'[Exec(b)].pc = "answer" /\ thread'[Exec(b)].kind = thread[Exec(b)].kind
        /\ thread'[Exec(b)].res = thread[Exec(b)].res
        /\ \A v \in Threads : v # Exec(b) => thread'[v] = thread[v]
    BY GoEffect, Distinct DEF SetDone
  <2>2. /\ branch'[b].done /\ branch'[b].conn = "none" /\ branch'[b].prepared = branch[b].prepared
        /\ \A c \in Branches : c # b => branch'[c] = branch[c]
    BY DEF SetDone, Typed, BranchOK
  <2> QED BY <2>1, <2>2 DEF SetDone, At
<1>1. /\ Phase(b) /\ Fate(b) /\ Knowing(b) /\ Working(b)
      /\ thread'[Request(b)] = thread[Request(b)]
  BY <1>0, Distinct DEF Sharing, TruthInv
<1>2. thread[Request(b)].pc # "abort_cs" /\ dtc[b].ended
  BY <1>0, <1>1, RequestPhase DEF Operating, Phase
<1>3. b \notin sess.work
  BY <1>1, <1>2 DEF Working
<1>4. Fate(b)'
  <2>1. Decisions(b)' /\ Kept(b)'
    BY <1>0, <1>1 DEF Fate, Decisions, Kept, Operating
  <2>2. Committed(b)' /\ Told(b)'
    BY <1>0, <1>1 DEF Fate, Committed, Told, Operating
  <2>3. Whereabouts(b)'
    BY <1>0, <1>1, <1>3 DEF Fate, Whereabouts, Operating
  <2> QED BY <2>1, <2>2, <2>3 DEF Fate
<1>5. ~Uses(b)'
  BY <1>0 DEF Uses
<1>6. \A v \in Threads : thread'[v].pc = "cleanup" =>
        thread'[v] = thread[v] /\ (v = Exec(b) => lock'.e[b] = lock.e[b])
  BY <1>0
<1> QED BY <1>0, <1>1, <1>2, <1>4, <1>5, <1>6, BranchStep

\* The answer: committed work is durable, aborted work is nowhere.
LEMMA AnswerTruth ==
    ASSUME Typed, Sharing, TruthInv, NEW b \in Branches, Answer(b)
    PROVE  TruthInv'
<1> DEFINE t == thread[Exec(b)]
           u == thread'[Exec(b)]
           verdict == Verdict(b)
<1>0. /\ \A v \in Threads : v # Exec(b) => thread'[v] = thread[v]
      /\ t.pc = "answer"
      /\ \/ t.kind = "prepare" /\ u.pc = "record" /\ u.kind = t.kind /\ u.res = t.res
         \/ t.kind # "prepare" /\ u.pc = "idle"
      /\ \A c \in Branches : c # b => dtc'[c] = dtc[c] /\ lock'.e[c] = lock.e[c]
      /\ lock'.e[b] = lock.e[b] \/ lock'.e[b] = None
      /\ dtc'[b].answer = verdict /\ dtc'[b].ended /\ dtc'[b].decision = dtc[b].decision
      /\ dtc'[b].st = IF verdict = "none" THEN "ready" ELSE "over"
      /\ dtc'[b].lost = dtc[b].lost
      /\ UNCHANGED <<handle, sess, app, branch, pg, durable>>
  <2>1. CASE t.kind = "prepare"
    <3>1. /\ u.pc = "record" /\ u.kind = t.kind /\ u.res = t.res
          /\ \A v \in Threads : v # Exec(b) => thread'[v] = thread[v]
      BY <2>1, GoEffect, Distinct DEF Answer
    <3>2. lock' = lock
      BY <2>1 DEF Answer
    <3> QED BY ZenonT(40), <2>1, <3>1, <3>2 DEF Answer, At, Typed, DtcOK, DtcState
  <2>2. CASE t.kind # "prepare"
    <3>1. u.pc = "idle" /\ \A v \in Threads : v # Exec(b) => thread'[v] = thread[v]
      BY <2>2, StopEffect, Distinct DEF Answer, ExecOver
    <3>2. /\ lock'.e[b] = None
          /\ \A c \in Branches : c # b => lock'.e[c] = lock.e[c]
      BY <2>2 DEF Answer, ExecOver, Typed, LockOK
    <3> QED BY ZenonT(40), <2>2, <3>1, <3>2 DEF Answer, At, Typed, DtcOK, DtcState
  <2> QED BY <2>1, <2>2
<1>1. /\ Phase(b) /\ Fate(b) /\ Knowing(b) /\ Working(b)
      /\ thread'[Request(b)] = thread[Request(b)]
  BY <1>0, Distinct DEF Sharing, TruthInv
<1>2. /\ verdict = "none" <=> t.kind = "prepare" /\ t.res = "ok"
      /\ verdict = "single" <=> t.kind = "prepare" /\ t.res = "single"
      /\ verdict = "voted no" <=> t.kind = "prepare" /\ t.res = "fail"
      /\ verdict = "committed" <=> t.kind = "commit" /\ t.res # "fail"
      /\ verdict = "aborted" <=> t.kind = "abort" /\ t.res # "fail"
  <2>1. t.kind \in {"prepare", "commit", "abort"} /\ t.res \in {"ok", "single", "fail"}
    BY <1>0, <1>1, Distinct, ThreadTyped DEF Phase, Kinds, ThreadState, Results
  <2> QED BY <2>1 DEF Verdict
<1>3. /\ t.kind = "prepare" => dtc[b].st = "preparing" /\ ~branch[b].prepared
      /\ t.kind = "commit" => dtc[b].decision = "commit"
      /\ t.kind = "abort" => dtc[b].decision = "abort"
      /\ t.kind \in {"prepare", "commit", "abort"}
  BY <1>0, <1>1 DEF Phase, Kinds
<1>4. /\ dtc[b].answer = "none" /\ dtc[b].ended /\ thread[Request(b)].pc # "abort_cs"
      /\ t.kind = "prepare" => dtc[b].decision \notin {"commit", "abort"}
      /\ Operating(b)
  BY <1>0, <1>1, RequestPhase DEF Operating, Phase
<1>5. b \notin sess.work
  BY <1>1, <1>4 DEF Working
<1>6. dtc[b].decision \in {"none", "commit", "single", "abort"}
  BY DEF Typed, DtcOK, DtcState
<1> HIDE DEF t, u, verdict
<1>7. Fate(b)'
  <2>1. Decisions(b)'
    BY <1>0, <1>1, <1>2, <1>3, <1>4, <1>6 DEF Fate, Decisions
  <2>2. Kept(b)'
    BY <1>0, <1>1, <1>3 DEF Fate, Kept, Operating, t, u
  <2>3. Committed(b)'
    BY <1>0, <1>1, <1>2, <1>4 DEF Fate, Committed, Operating, t, u
  <2>4. Whereabouts(b)'
    BY <1>0, <1>1, <1>2, <1>4, <1>5 DEF Fate, Whereabouts, Operating, t, u
  <2>5. verdict \in {"committed", "single"} /\ app.did[b] = "work" => b \in durable
    BY <1>1, <1>2, <1>4 DEF Fate, Committed, t
  <2>6. verdict = "aborted" \/ (verdict = "voted no" /\ ~dtc[b].lost) =>
          pg[b].st # "prepared" /\ b \notin durable
    BY <1>1, <1>2, <1>3, <1>4 DEF Fate, Kept, Committed, t
  <2>7. Told(b)'
    BY <1>0, <1>5, <2>5, <2>6 DEF Told
  <2> QED BY <2>1, <2>2, <2>3, <2>4, <2>7 DEF Fate
<1>8. Uses(b)' <=> Uses(b)
  BY <1>0 DEF Uses
<1>9. \A v \in Threads : thread'[v].pc = "cleanup" =>
        thread'[v] = thread[v] /\ (v = Exec(b) => lock'.e[b] = lock.e[b])
  BY <1>0 DEF u
<1>10. lock.e[b] = Exec(b) /\ dtc'[b].st # "none"
  BY <1>0, <1>1 DEF Phase, InExec, t
<1> QED BY <1>0, <1>1, <1>7, <1>8, <1>9, <1>10, BranchStep DEF Knowing

LEMMA SetPrepareResultTruth ==
    ASSUME Typed, Sharing, TruthInv, NEW b \in Branches, SetPrepareResult(b)
    PROVE  TruthInv'
<1>0. /\ \A v \in Threads : v # Exec(b) => thread'[v] = thread[v]
      /\ thread[Exec(b)].pc = "record" /\ thread'[Exec(b)].pc = "idle"
      /\ branch'[b].prepared /\ branch'[b].conn = branch[b].conn
      /\ branch'[b].done = branch[b].done /\ branch'[b].trans = branch[b].trans
      /\ \A c \in Branches : c # b => branch'[c] = branch[c] /\ lock'.e[c] = lock.e[c]
      /\ UNCHANGED <<handle, sess, app, dtc, pg, durable>>
  <2>1. thread'[Exec(b)].pc = "idle" /\ \A v \in Threads : v # Exec(b) => thread'[v] = thread[v]
    BY StopEffect, Distinct DEF SetPrepareResult, ExecOver
  <2>2. \A c \in Branches : c # b => lock'.e[c] = lock.e[c]
    BY DEF SetPrepareResult, ExecOver, Typed, LockOK
  <2>3. /\ branch'[b].prepared /\ branch'[b].conn = branch[b].conn
        /\ branch'[b].done = branch[b].done /\ branch'[b].trans = branch[b].trans
        /\ \A c \in Branches : c # b => branch'[c] = branch[c]
    BY DEF SetPrepareResult, Typed, BranchOK
  <2> QED BY <2>1, <2>2, <2>3 DEF SetPrepareResult, At
<1>1. Phase(b) /\ Fate(b) /\ Knowing(b) /\ thread'[Request(b)] = thread[Request(b)]
  BY <1>0, Distinct DEF Sharing, TruthInv
<1>2. Uses(b)' <=> Uses(b)
  BY <1>0 DEF Uses
<1>3. Fate(b)'
  <2>1. Decisions(b)' /\ Kept(b)'
    BY <1>0, <1>1 DEF Fate, Decisions, Kept, Operating
  <2>2. Committed(b)' /\ Told(b)'
    BY <1>0, <1>1 DEF Fate, Committed, Told, Operating
  <2>3. Whereabouts(b)'
    BY <1>0, <1>1, <1>2 DEF Fate, Whereabouts, Operating
  <2> QED BY <2>1, <2>2, <2>3 DEF Fate
<1>4. \A v \in Threads : thread'[v].pc = "cleanup" =>
        thread'[v] = thread[v] /\ (v = Exec(b) => lock'.e[b] = lock.e[b])
  BY <1>0
<1>5. lock.e[b] = Exec(b)
  BY <1>0, <1>1 DEF Phase, InExec
<1> QED BY <1>0, <1>1, <1>2, <1>3, <1>4, <1>5, BranchStep DEF Knowing

\* Before the command of a request is executed: what is known of the work of the branch.
LEMMA BeforeOperating ==
    ASSUME Sharing, TruthInv, NEW b \in Branches, thread[Exec(b)].pc = "operate"
    PROVE  /\ dtc[b].answer = "none"
           /\ thread[Exec(b)].kind \in {"prepare", "commit", "abort"}
           /\ thread[Exec(b)].kind = "abort" => dtc[b].decision = "abort"
           /\ thread[Exec(b)].kind = "commit" =>
                /\ dtc[b].decision = "commit"
                /\ app.did[b] = "work" =>
                     b \in durable \/ (pg[b].st = "prepared" /\ b \in pg[b].work)
           /\ thread[Exec(b)].kind = "prepare" =>
                /\ pg[b].st # "prepared"
                /\ app.did[b] = "work" =>
                     \/ b \in durable \/ (OnHandle(b) /\ Uses(b) /\ b \in sess.work)
                     \/ branch[b].conn = "copy" /\ branch[b].trans
           /\ pg[b].st = "prepared" => branch[b].prepared
           /\ b \in durable => \/ dtc[b].decision = "commit"
                               \/ dtc[b].decision = "single" /\ dtc[b].lost
<1>1. Phase(b) /\ Fate(b) /\ Working(b)
  BY DEF Sharing, TruthInv
<1>2. dtc[b].answer = "none" /\ ~Operating(b)
  BY <1>1, RequestPhase DEF Operating
<1>3. Kinds(b) /\ Decisions(b)
  BY <1>1 DEF Phase, Fate
<1>4. /\ pg[b].st = "prepared" => branch[b].prepared
      /\ b \in durable => \/ dtc[b].decision = "commit"
                          \/ dtc[b].decision = "single" /\ dtc[b].lost
  BY <1>1, <1>2 DEF Fate, Kept, Committed
<1>5. app.did[b] = "work" =>
        \/ b \in durable
        \/ dtc[b].decision = "abort"
        \/ Uses(b) /\ b \in sess.work
        \/ branch[b].conn = "copy" /\ branch[b].trans /\ dtc[b].st \in {"active", "preparing"}
        \/ pg[b].st = "prepared" /\ b \in pg[b].work
  BY <1>1, <1>2 DEF Fate, Whereabouts
<1>6. /\ thread[Exec(b)].kind \in {"prepare", "commit", "abort"}
      /\ thread[Exec(b)].kind = "abort" => dtc[b].decision = "abort"
      /\ thread[Exec(b)].kind = "commit" =>
           dtc[b].decision = "commit" /\ branch[b].prepared /\ dtc[b].st = "ready"
      /\ thread[Exec(b)].kind = "prepare" => ~branch[b].prepared /\ dtc[b].decision # "abort"
  BY <1>3 DEF Kinds, Decisions
<1>7. b \in sess.work => ~branch[b].prepared
  BY <1>1 DEF Working
<1>8. Uses(b) => OnHandle(b)
  BY DEF Uses, OnHandle
<1> QED BY <1>2, <1>4, <1>5, <1>6, <1>7, <1>8

\* What the command ends with decides the fate of the branch.
LEMMA EndedFate ==
    ASSUME Typed, Sharing, TruthInv, NEW b \in Branches, thread[Exec(b)].pc = "operate",
           UNCHANGED <<app, branch>>,
           NEW res, NEW s, NEW p, NEW d, Ended(b, res, s, p, d),
           p.st = "prepared" =>
             \/ branch[b].prepared
             \/ thread[Exec(b)].kind = "prepare" /\ (res = "ok" \/ (res = "fail" /\ p # pg[b])),
           thread[Exec(b)].kind = "abort" /\ res # "fail" => p.st # "prepared",
           b \in d => \/ dtc[b].decision = "commit"
                      \/ thread[Exec(b)].kind = "prepare" /\ res = "single"
                      \/ dtc[b].decision = "single" /\ res = "fail",
           /\ app.did[b] = "work"
           /\ \/ thread[Exec(b)].kind = "commit" /\ res # "fail"
              \/ thread[Exec(b)].kind = "prepare" /\ res = "single"
           => b \in durable \cup d,
           app.did[b] = "work" =>
             \/ b \in durable \cup d
             \/ dtc[b].decision = "abort"
             \/ Uses(b) /\ b \in s.work
             \/ p.st = "prepared" /\ b \in p.work
             \/ thread[Exec(b)].kind = "prepare" /\ res = "fail"
    PROVE  Fate(b)'
<1>1. /\ thread'[Exec(b)].kind = thread[Exec(b)].kind /\ thread'[Exec(b)].res = res
      /\ \/ thread'[Exec(b)].pc = "answer" /\ thread[Exec(b)].kind = "prepare"
         \/ thread'[Exec(b)].pc = "done"
      /\ res = "ok" /\ thread[Exec(b)].kind = "prepare" => thread'[Exec(b)].pc = "answer"
  <2>1. /\ thread'[Exec(b)].kind = thread[Exec(b)].kind /\ thread'[Exec(b)].res = res
        /\ \/ thread'[Exec(b)].pc = "answer" /\ thread[Exec(b)].kind = "prepare"
           \/ thread'[Exec(b)].pc = "done"
    BY EndedEffect
  <2>2. res = "ok" /\ thread[Exec(b)].kind = "prepare" => thread'[Exec(b)].pc = "answer"
    BY Distinct DEF Ended, Typed, ThreadOK, ThreadState
  <2> QED BY <2>1, <2>2
<1>2. sess' = s /\ pg'[b] = p /\ durable' = durable \cup (d \cap Branches)
  BY EndedEffect
<1>3. /\ dtc'[b].st = dtc[b].st /\ dtc'[b].decision = dtc[b].decision
      /\ dtc'[b].answer = dtc[b].answer /\ dtc'[b].ended
      /\ dtc'[b].lost = (dtc[b].lost \/ (res = "fail" /\ (p # pg[b] \/ d # {})))
  <2>1. PICK lost : dtc' = [dtc EXCEPT ![b].ended = TRUE, ![b].lost = lost]
    BY DEF Ended
  <2>2. /\ dtc'[b].st = dtc[b].st /\ dtc'[b].decision = dtc[b].decision
        /\ dtc'[b].answer = dtc[b].answer /\ dtc'[b].ended
    BY <2>1 DEF Typed, DtcOK, DtcState
  <2> QED BY <2>2, EndedEffect
<1>4. /\ Fate(b) /\ dtc[b].answer = "none"
      /\ b \in durable => \/ dtc[b].decision = "commit"
                          \/ dtc[b].decision = "single" /\ dtc[b].lost
  BY BeforeOperating DEF TruthInv
<1>5. (Uses(b)' <=> Uses(b)) /\ Operating(b)'
  BY <1>1 DEF Uses, Operating
<1>6. Decisions(b)' /\ Told(b)'
  BY <1>3, <1>4 DEF Fate, Decisions, Told
<1>7. Kept(b)'
  BY <1>1, <1>2, <1>3, <1>5 DEF Kept
<1>8. Committed(b)'
  BY <1>1, <1>2, <1>3, <1>4, <1>5 DEF Committed
<1>9. Whereabouts(b)'
  BY <1>1, <1>2, <1>3, <1>5 DEF Whereabouts
<1> QED BY <1>6, <1>7, <1>8, <1>9 DEF Fate

\* A failed vote loses the work, a single-phase commit makes it durable, a vote prepares it.
LEMMA OperateFate ==
    ASSUME Typed, Sharing, TruthInv, NEW b \in Branches, Operate(b)
    PROVE  Fate(b)'
<1>0. thread[Exec(b)].pc = "operate" /\ UNCHANGED <<app, branch>>
  BY DEF Operate, At
<1>a. /\ thread[Exec(b)].kind = "abort" => dtc[b].decision = "abort"
      /\ thread[Exec(b)].kind = "commit" =>
           /\ dtc[b].decision = "commit"
           /\ app.did[b] = "work" => b \in durable \/ (pg[b].st = "prepared" /\ b \in pg[b].work)
      /\ thread[Exec(b)].kind = "prepare" =>
           /\ pg[b].st # "prepared"
           /\ app.did[b] = "work" =>
                \/ b \in durable \/ (OnHandle(b) /\ Uses(b) /\ b \in sess.work)
                \/ branch[b].conn = "copy" /\ branch[b].trans
      /\ pg[b].st = "prepared" => branch[b].prepared
  BY <1>0, BeforeOperating
<1>1. ASSUME NEW s, thread[Exec(b)].kind = "prepare", Ended(b, "fail", s, pg[b], {})
      PROVE  Fate(b)'
  BY <1>0, <1>a, <1>1, EndedFate
<1>2. CASE thread[Exec(b)].kind = "prepare" /\ AbortGlobal(b)
  BY <1>1, <1>2 DEF AbortGlobal
<1>3. CASE thread[Exec(b)].kind = "prepare" /\ OnePhaseCommit(b)
  <2>1. CASE OnHandle(b) /\ Ended(b, "single", RolledBack, pg[b], sess.work)
    BY <1>0, <1>a, <1>3, <2>1, EndedFate DEF OnHandle
  <2>2. CASE Ended(b, "fail", RolledBack, pg[b], {})
    BY <1>1, <1>3, <2>2
  <2>3. CASE ~OnHandle(b) /\ branch[b].trans /\ Ended(b, "fail", sess, pg[b], {})
    BY <1>1, <1>3, <2>3
  <2>4. CASE ~OnHandle(b) /\ ~branch[b].trans /\ Ended(b, "single", sess, pg[b], {})
    BY <1>0, <1>a, <1>3, <2>4, EndedFate
  <2>5. ASSUME NEW work \in {{}, sess.work}, Ended(b, "fail", Closed, pg[b], work)
        PROVE  Fate(b)'
    <3>1. thread[Exec(b)].res = "single" => dtc[b].decision = "single"
      BY <1>0, <1>3 DEF Sharing, Phase, Kinds
    <3> QED BY <1>0, <1>a, <1>3, <2>5, <3>1, EndedFate DEF OnePhaseCommit
  <2> QED BY <1>3, <2>1, <2>2, <2>3, <2>4, <2>5 DEF OnePhaseCommit
<1>4. CASE thread[Exec(b)].kind = "prepare" /\ PrepareTransaction(b)
  <2>1. CASE OnHandle(b) /\ sess.tx = "open" /\ Ended(b, "ok", Fresh, Prepared(b), {})
    <3>1. Prepared(b).st = "prepared" /\ Prepared(b).work = sess.work
      BY <2>1 DEF Prepared
    <3> QED BY <1>0, <1>a, <1>4, <2>1, <3>1, EndedFate DEF OnHandle
  <2>2. CASE OnHandle(b) /\ sess.tx # "open" /\ Ended(b, "ok", Fresh, Prepared(b), {})
    <3>1. sess.work = {} /\ Prepared(b) = pg[b]
      BY <2>2 DEF Prepared, Typed, SessOK
    <3> QED BY <1>0, <1>a, <1>4, <2>2, <3>1, EndedFate DEF OnHandle
  <2>3. ASSUME NEW s, Ended(b, "fail", s, pg[b], {}) PROVE Fate(b)'
    BY <1>1, <1>4, <2>3
  <2>4. CASE Ended(b, "fail", Closed, Prepared(b), {})
    BY <1>0, <1>a, <1>4, <2>4, EndedFate
  <2> QED BY <1>4, <2>1, <2>2, <2>3, <2>4 DEF PrepareTransaction
<1>5. CASE thread[Exec(b)].kind = "commit" /\ Decided(b, "committed")
  <2>1. ASSUME NEW res \in {"ok", "fail"}, NEW s, pg[b].st = "prepared",
               Ended(b, res, s, [st |-> "committed", work |-> {}], pg[b].work)
        PROVE  Fate(b)'
    BY <1>0, <1>a, <1>5, <2>1, EndedFate
  <2>2. ASSUME NEW s, Ended(b, "fail", s, pg[b], {}) PROVE Fate(b)'
    BY <1>0, <1>a, <1>5, <2>2, EndedFate
  <2> QED BY <1>5, <2>1, <2>2 DEF Decided
<1>6. CASE thread[Exec(b)].kind = "abort" /\ Decided(b, "aborted")
  <2>1. ASSUME NEW res \in {"ok", "fail"}, NEW s,
               Ended(b, res, s, [st |-> "aborted", work |-> {}], {})
        PROVE  Fate(b)'
    BY <1>0, <1>a, <1>6, <2>1, EndedFate
  <2>2. ASSUME NEW s, Ended(b, "fail", s, pg[b], {}) PROVE Fate(b)'
    BY <1>0, <1>a, <1>6, <2>2, EndedFate
  <2> QED BY <1>6, <2>1, <2>2 DEF Decided
<1> QED BY <1>2, <1>3, <1>4, <1>5, <1>6 DEF Operate

LEMMA OperateTruth ==
    ASSUME Steady, Typed, Sharing, TruthInv, NEW b \in Branches, Operate(b)
    PROVE  TruthInv'
<1>0. /\ \A u \in Threads : u # Exec(b) => thread'[u] = thread[u]
      /\ \A c \in Branches : c # b => dtc'[c] = dtc[c]
      /\ dtc'[b].st = dtc[b].st
      /\ thread[Exec(b)].pc = "operate" /\ lock'.e = lock.e
      /\ Operated(b)
      /\ UNCHANGED <<app, branch>>
  <2>1. dtc'[b].st = dtc[b].st /\ \A c \in Branches : c # b => dtc'[c] = dtc[c]
    <3>1. \E res, s, p, d : Ended(b, res, s, p, d)
      BY DEF Operate, AbortGlobal, OnePhaseCommit, PrepareTransaction, Decided
    <3>2. PICK lost : dtc' = [dtc EXCEPT ![b].ended = TRUE, ![b].lost = lost]
      BY <3>1 DEF Ended
    <3> QED BY <3>2 DEF Typed, DtcOK, DtcState
  <2>2. lock'.e = lock.e
    BY DEF Operate, Typed, LockOK
  <2>3. \A u \in Threads : u # Exec(b) => thread'[u] = thread[u]
    BY Distinct DEF Operate, AbortGlobal, OnePhaseCommit, PrepareTransaction, Decided, Ended,
                    Typed, ThreadOK
  <2>4. thread[Exec(b)].pc = "operate" /\ UNCHANGED <<app, branch>>
    BY DEF Operate, At
  <2> QED BY <2>1, <2>2, <2>3, <2>4, OperateEffect
<1>1. Fate(b)'
  BY OperateFate
<1>2. Phase(b) /\ Knowing(b) /\ Working(b) /\ thread'[Request(b)] = thread[Request(b)]
  BY <1>0, Distinct DEF Sharing, TruthInv
<1>3. \A c \in Branches : OnHandle(b) /\ c \in sess.work => c = b
  BY <1>0, Distinct DEF Sharing, Working, Using, Uses, OnHandle, Phase
<1>4. ~OnHandle(b) => sess' = sess
  BY DEF Operate, AbortGlobal, OnePhaseCommit, PrepareTransaction, Decided, Ended
<1>5. \A c \in Branches : c # b => /\ c \in durable' <=> c \in durable
                                   /\ c \in sess'.work <=> c \in sess.work
  <2> SUFFICES ASSUME NEW c \in Branches, c # b
               PROVE  /\ c \in durable' <=> c \in durable
                      /\ c \in sess'.work <=> c \in sess.work
    OBVIOUS
  <2>1. durable \subseteq durable'
    BY DEF Operate, AbortGlobal, OnePhaseCommit, PrepareTransaction, Decided, Ended
  <2>2. c \in durable' => c \in durable
    BY <1>0, <1>2, <1>3 DEF Operated, Working
  <2>3. c \in sess'.work <=> c \in sess.work
    BY <1>0, <1>3, <1>4 DEF Operated
  <2> QED BY <2>1, <2>2, <2>3
<1>6. Uses(b)' <=> Uses(b)
  BY <1>0 DEF Uses
<1>7. \A v \in Threads : thread'[v].pc = "cleanup" =>
        thread'[v] = thread[v] /\ (v = Exec(b) => lock'.e[b] = lock.e[b])
  BY <1>0 DEF Operated
<1>8. \A c \in Branches : c # b => pg'[c] = pg[c]
  BY <1>0 DEF Operated
<1> QED BY <1>0, <1>1, <1>2, <1>5, <1>6, <1>7, <1>8, BranchStep DEF Knowing

-----------------------------------------------------------------------------
(***************************************************************************)
(* Separating a branch from the handle keeps it.                           *)
(***************************************************************************)

\* Who separates is in none of the places where a result waits to be told.
LEMMA SeparatingQuiet ==
    ASSUME Sharing, NEW t \in Threads, thread[t].pc \in Separating, NEW b \in Branches,
           \A u \in Threads : u # t => thread'[u] = thread[u],
           thread'[t].kind = thread[t].kind, thread'[t].res = thread[t].res,
           thread'[t].pc \in Separating \/ thread'[t].pc = thread[t].back
    PROVE  Quiet(b) /\ thread'[Request(b)] = thread[Request(b)]
<1>1. \/ t = App
      \/ t = Exec(thread[t].on) /\ thread[t].back = "lock" /\ thread[t].on \in Branches
  BY Separator
<1>2. thread'[Request(b)] = thread[Request(b)]
  BY <1>1, Distinct
<1>3. ASSUME t = Exec(b) PROVE Quiet(b)
  BY <1>1, <1>3, Distinct DEF Quiet, Separating
<1>4. ASSUME t # Exec(b) PROVE Quiet(b)
  BY <1>4, Distinct DEF Quiet
<1> QED BY <1>2, <1>3, <1>4

\* A step of it that leaves the branches as they are.
LEMMA StayingTruth ==
    ASSUME Typed, Sharing, TruthInv, NEW t \in Threads,
           thread[t].pc \in Separating \ {"cleanup"}, NEW b \in Branches, thread[t].on = b,
           \A u \in Threads : u # t => thread'[u] = thread[u],
           thread'[t].kind = thread[t].kind, thread'[t].res = thread[t].res,
           \/ thread'[t].pc \in {"generate", "isolate"} /\ thread'[t].back = thread[t].back
           \/ /\ thread'[t].pc = "cleanup" /\ thread'[t].back = thread[t].back
              /\ thread'[t].on = b /\ lock'.e[b] = t
           \/ thread'[t].pc = thread[t].back /\ (t = App => ~Uses(b)),
           \A u \in Threads : u # t /\ thread[u].pc = "cleanup" => lock'.e[thread[u].on] = u,
           \A c \in Branches : c \in sess'.work <=> c \in sess.work,
           UNCHANGED <<app, branch, dtc, pg, durable>>
    PROVE  TruthInv'
<1>0. \/ t = App /\ thread[t].back \in {"enter", "execute", "start"}
      \/ t = Exec(b) /\ thread[t].back = "lock" /\ thread'[App] = thread[App]
  BY Separator, Distinct
<1>1. Standing'
  <2>1. (\A u \in Threads : thread[u].pc = "cleanup" => lock.e[thread[u].on] = u)'
    BY <1>0
  <2>2. CASE t = App
    <3>1. thread[App].kind # "connect" \/ ~app.linked
      BY DEF TruthInv, Standing
    <3>2. Enlisting' => Enlisting
      BY <1>0, <2>2 DEF Enlisting, Separating, Sharing, AppPlace
    <3>3. thread'[App].pc \notin {"bind", "connect"}
      BY <1>0, <2>2
    <3> QED BY <1>0, <2>1, <2>2, <3>1, <3>2, <3>3 DEF TruthInv, Standing, At
  <2>3. CASE thread'[App] = thread[App]
    BY <2>1, <2>3 DEF TruthInv, Standing, Enlisting, At
  <2> QED BY <1>0, <2>2, <2>3
<1>2. ASSUME NEW c \in Branches PROVE Knowing(c)' /\ Fate(c)'
  <2>1. thread'[t].pc \in Separating \/ thread'[t].pc = thread[t].back
    BY DEF Separating
  <2>2. Quiet(c) /\ thread'[Request(c)] = thread[Request(c)]
    BY <2>1, SeparatingQuiet
  <2>3. Fate(c)'
    BY <2>2, FateKept DEF TruthInv, Sharing
  <2>4. t = App /\ Uses(c) => thread'[App].pc # "execute" /\ thread[App].pc # "async"
    <3> SUFFICES ASSUME t = App, Uses(c) PROVE thread'[App].pc # "execute" /\ thread[App].pc # "async"
      OBVIOUS
    <3>1. c = b
      BY DEF Sharing, Using, Separating
    <3> QED BY <3>1 DEF Separating
  <2>5. Knowing(c)'
    BY <1>0, <2>2, <2>4 DEF TruthInv, Knowing, Uses, At
  <2> QED BY <2>3, <2>5
<1> QED BY <1>1, <1>2 DEF TruthInv

\* The step that takes the handle from the branch: what the branch did is in its copy.
LEMMA FreeingTruth ==
    ASSUME Typed, Sharing, TruthInv, NEW t \in Threads, thread[t].pc \in Separating,
           NEW b \in Branches, thread[t].on = b, lock.e[b] \in {None, t},
           \A u \in Threads : u # t => thread'[u] = thread[u] /\ thread[u].pc # "cleanup",
           thread'[t].kind = thread[t].kind, thread'[t].res = thread[t].res,
           \/ thread'[t].pc = "reconnect" /\ thread'[t].back = thread[t].back
           \/ thread'[t].pc = thread[t].back,
           Uses(b), ~Uses(b)',
           \A c \in Branches : c # b => branch'[c] = branch[c],
           branch'[b].prepared = branch[b].prepared,
           \A c \in Branches : c \in sess'.work => c \in sess.work,
           b \in sess.work => branch'[b].conn = "copy" /\ branch'[b].trans,
           UNCHANGED <<app, dtc, pg, durable>>
    PROVE  TruthInv'
<1>0. \/ t = App /\ thread[t].back \in {"enter", "execute", "start"}
      \/ t = Exec(b) /\ thread[t].back = "lock" /\ thread'[App] = thread[App]
  BY Separator, Distinct
<1>1. \A c \in Branches : ~Uses(c)'
  BY <1>0 DEF Sharing, Using, Uses
<1>2. Standing'
  <2>1. \A u \in Threads : thread'[u].pc # "cleanup"
    BY <1>0
  <2>2. CASE t = App
    <3>1. thread[App].kind # "connect" \/ ~app.linked
      BY DEF TruthInv, Standing
    <3>2. Enlisting' => Enlisting
      BY <1>0, <2>2 DEF Enlisting, Separating, Sharing, AppPlace
    <3>3. thread'[App].pc \notin {"bind", "connect"}
      BY <1>0, <2>2
    <3> QED BY <1>0, <2>1, <2>2, <3>1, <3>2, <3>3 DEF TruthInv, Standing, At
  <2>3. CASE thread'[App] = thread[App]
    <3>1. thread[App].pc # "bind"
      BY DEF Sharing, Using
    <3> QED BY <2>1, <2>3, <3>1 DEF TruthInv, Standing, Enlisting, At
  <2> QED BY <1>0, <2>2, <2>3
<1>3. \A c \in Branches : Quiet(c) /\ thread'[Request(c)] = thread[Request(c)]
  BY SeparatingQuiet DEF Separating
<1>4. thread[Request(b)].pc # "abort_cs"
  BY <1>0, Distinct DEF Sharing, Phase
<1>5. ASSUME NEW c \in Branches PROVE Knowing(c)'
  <2>1. thread[Request(c)].pc # "abort_cs"
    BY <1>0, <1>4 DEF TruthInv, Knowing, Sharing, Using
  <2> QED BY <1>1, <1>3, <2>1 DEF Knowing
<1>6. Fate(b)'
  <2>1. Fate(b) /\ Phase(b) /\ Working(b) /\ Quiet(b)
    BY <1>3 DEF TruthInv, Sharing
  <2>2. Operating(b)' <=> Operating(b)
    BY <2>1 DEF Operating, Quiet
  <2>3. Decisions(b)'
    BY <2>1 DEF Fate, Decisions, Uses
  <2>4. Kept(b)' /\ Committed(b)' /\ Told(b)'
    BY ZenonT(40), <2>1, <2>2 DEF Fate, Kept, Committed, Told, Quiet
  <2>5. b \in sess.work => /\ dtc[b].st \in {"active", "preparing"} \/ dtc[b].decision = "abort"
                           /\ thread[Exec(b)].pc \notin {"done", "answer", "record"}
    <3> SUFFICES ASSUME b \in sess.work
                 PROVE  /\ dtc[b].st \in {"active", "preparing"} \/ dtc[b].decision = "abort"
                        /\ thread[Exec(b)].pc \notin {"done", "answer", "record"}
      OBVIOUS
    <3>1. ~dtc[b].ended
      BY <1>4, <2>1 DEF Working
    <3>2. dtc[b].st # "none" /\ dtc[b].st # "over"
      BY <2>1, <3>1 DEF Fate, Decisions, Uses
    <3>3. dtc[b].st \in {"none", "active", "preparing", "ready", "over"}
      BY DEF Typed, DtcOK, DtcState
    <3> QED BY <2>1, <3>1, <3>2, <3>3 DEF Phase
  <2>6. Whereabouts(b)'
    BY <2>1, <2>2, <2>5 DEF Fate, Whereabouts, Quiet, Uses
  <2> QED BY <2>3, <2>4, <2>6 DEF Fate
<1>7. ASSUME NEW c \in Branches, c # b PROVE Fate(c)'
  <2>1. Fate(c) /\ Phase(c) /\ Quiet(c) /\ ~Uses(c)
    BY <1>0, <1>1, <1>3, <1>7 DEF TruthInv, Sharing, Uses
  <2> QED BY <1>7, <2>1, FateKept
<1> QED BY <1>2, <1>5, <1>6, <1>7 DEF TruthInv

LEMMA SeparateXAConnTruth ==
    ASSUME Typed, Sharing, TruthInv, NEW t \in Threads, SeparateXAConn(t)
    PROVE  TruthInv'
<1>1. thread[t].pc = "separate" /\ UNCHANGED <<handle, sess, app, branch, lock, dtc, pg, durable>>
  BY DEF SeparateXAConn, At
<1>2. PICK b \in Branches : thread[t].on = b
  BY <1>1, Separator DEF Separating
<1>3. \A u \in Threads : u # t /\ thread[u].pc = "cleanup" => lock'.e[thread[u].on] = u
  BY <1>1 DEF TruthInv, Standing
<1>4. CASE ~Uses(b) /\ Back(t)
  <2>1. /\ thread'[t].pc = thread[t].back /\ thread'[t].kind = thread[t].kind
        /\ thread'[t].res = thread[t].res
        /\ \A u \in Threads : u # t => thread'[u] = thread[u]
    BY <1>4, BackEffect
  <2> QED BY <1>1, <1>2, <1>3, <1>4, <2>1, StayingTruth DEF Separating
<1>5. ASSUME NEW pc \in {"generate", "isolate"}, Go(t, pc) PROVE TruthInv'
  <2>1. /\ thread'[t].pc = pc /\ thread'[t].back = thread[t].back
        /\ thread'[t].kind = thread[t].kind /\ thread'[t].res = thread[t].res
        /\ \A u \in Threads : u # t => thread'[u] = thread[u]
    BY <1>5, GoEffect
  <2> QED BY <1>1, <1>2, <1>3, <2>1, StayingTruth DEF Separating
<1> QED BY <1>2, <1>4, <1>5 DEF SeparateXAConn, Isolated, Uses

\* A branch that is prepared has nothing in the session of the handle.
LEMMA GenerateXAConnTruth ==
    ASSUME Typed, Sharing, TruthInv, NEW t \in Threads, GenerateXAConn(t)
    PROVE  TruthInv'
<1>1. /\ thread[t].pc = "generate" /\ lock.life = None /\ lock.e[thread[t].on] \in {None, t}
      /\ UNCHANGED <<sess, app, lock, dtc, pg, durable>>
  BY DEF GenerateXAConn, At, Lockable, NoLife
<1>2. PICK b \in Branches : thread[t].on = b
  BY <1>1, Separator DEF Separating
<1>3. /\ thread'[t].pc = thread[t].back /\ thread'[t].kind = thread[t].kind
      /\ thread'[t].res = thread[t].res
      /\ \A u \in Threads : u # t => thread'[u] = thread[u]
  BY BackEffect DEF GenerateXAConn
<1>4. \A u \in Threads : thread[u].pc # "cleanup"
  BY <1>1, Distinct DEF Sharing, Parting
<1>5. CASE ~Uses(b) /\ UNCHANGED <<branch, handle>>
  BY <1>1, <1>2, <1>3, <1>4, <1>5, StayingTruth DEF Separating
<1>6. CASE Uses(b) /\ branch' = [branch EXCEPT ![b].conn = "new"]
  <2>1. ~Uses(b)'
    BY <1>6, PartedEffect
  <2>2. /\ \A c \in Branches : c # b => branch'[c] = branch[c]
        /\ branch'[b].prepared = branch[b].prepared
    BY <1>6 DEF Typed, BranchOK
  <2>3. b \notin sess.work
    BY <1>1, <1>2 DEF Sharing, Parting, Working
  <2> QED BY <1>1, <1>2, <1>3, <1>4, <1>6, <2>1, <2>2, <2>3, FreeingTruth DEF Separating
<1>7. branch[b].conn \in {"none", "handle", "copy", "new", "own"}
  BY DEF Typed, BranchOK
<1>8. branch[b].prepared
  BY <1>1, <1>2 DEF Sharing, Parting
<1> QED BY <1>2, <1>5, <1>6, <1>7, <1>8 DEF GenerateXAConn, Isolated, Uses

LEMMA IsolateXAConnTruth ==
    ASSUME Typed, Sharing, TruthInv, NEW t \in Threads, IsolateXAConn(t)
    PROVE  TruthInv'
<1>1. /\ thread[t].pc = "isolate" /\ lock.life = None
      /\ UNCHANGED <<handle, sess, app, branch, dtc, pg, durable>>
  BY DEF IsolateXAConn, At, Lockable, NoLife
<1>2. PICK b \in Branches : thread[t].on = b
  BY <1>1, Separator DEF Separating
<1>3. \A u \in Threads : thread[u].pc # "cleanup"
  BY <1>1, Distinct DEF Sharing, Parting
<1>4. CASE ~Uses(b) /\ Back(t)
  <2>1. /\ thread'[t].pc = thread[t].back /\ thread'[t].kind = thread[t].kind
        /\ thread'[t].res = thread[t].res
        /\ \A u \in Threads : u # t => thread'[u] = thread[u]
    BY <1>4, BackEffect
  <2> QED BY <1>1, <1>2, <1>3, <1>4, <2>1, StayingTruth DEF Separating
<1>5. CASE lock' = [lock EXCEPT !.e[b] = t, !.life = t] /\ Go(t, "cleanup")
  <2>1. /\ thread'[t].pc = "cleanup" /\ thread'[t].on = b /\ thread'[t].back = thread[t].back
        /\ thread'[t].kind = thread[t].kind /\ thread'[t].res = thread[t].res
        /\ \A u \in Threads : u # t => thread'[u] = thread[u]
    BY <1>2, <1>5, GoEffect
  <2>2. lock'.e[b] = t
    BY <1>5 DEF Typed, LockOK
  <2> QED BY <1>1, <1>2, <1>3, <2>1, <2>2, StayingTruth DEF Separating
<1>6. branch[b].conn \in {"none", "handle", "copy", "new", "own"}
  BY DEF Typed, BranchOK
<1> QED BY <1>2, <1>4, <1>5, <1>6 DEF IsolateXAConn, Isolated, Uses

LEMMA IsolateHandleTruth ==
    ASSUME Typed, Sharing, TruthInv, NEW t \in Threads, IsolateHandle(t)
    PROVE  TruthInv'
<1>1. thread[t].pc = "cleanup" /\ UNCHANGED <<app, dtc, pg, durable>> /\ sess'.work = {}
  BY DEF IsolateHandle, At, Closed
<1>2. PICK b \in Branches : thread[t].on = b
  BY <1>1, Separator DEF Separating
<1>3. /\ thread'[t].pc = "reconnect" /\ thread'[t].back = thread[t].back
      /\ thread'[t].kind = thread[t].kind /\ thread'[t].res = thread[t].res
      /\ \A u \in Threads : u # t => thread'[u] = thread[u]
  BY GoEffect DEF IsolateHandle
<1>4. Uses(b) /\ lock.life = t /\ lock.e[b] = t
  BY <1>1, <1>2 DEF Sharing, Parting, TruthInv, Standing
<1>5. \A u \in Threads : u # t => thread[u].pc # "cleanup"
  BY <1>4 DEF Sharing, Parting
<1>6. branch' = [branch EXCEPT ![b].conn = "copy", ![b].trans = InTrans]
  BY <1>2 DEF IsolateHandle
<1>7. ~Uses(b)'
  BY <1>6, PartedEffect
<1>8. /\ \A c \in Branches : c # b => branch'[c] = branch[c]
      /\ branch'[b].prepared = branch[b].prepared /\ branch'[b].conn = "copy"
      /\ branch'[b].trans = InTrans
  BY <1>6 DEF Typed, BranchOK
<1>9. b \in sess.work => InTrans
  BY DEF Typed, SessOK, InTrans
<1> QED BY <1>1, <1>2, <1>3, <1>4, <1>5, <1>7, <1>8, <1>9, FreeingTruth DEF Separating

LEMMA ReconnectHandleTruth ==
    ASSUME Typed, Sharing, TruthInv, NEW t \in Threads, ReconnectHandle(t)
    PROVE  TruthInv'
<1>1. thread[t].pc = "reconnect" /\ UNCHANGED <<handle, app, branch, dtc, pg, durable>>
  BY DEF ReconnectHandle, At
<1>2. PICK b \in Branches : thread[t].on = b
  BY <1>1, Separator DEF Separating
<1>3. /\ thread'[t].pc = thread[t].back /\ thread'[t].kind = thread[t].kind
      /\ thread'[t].res = thread[t].res
      /\ \A u \in Threads : u # t => thread'[u] = thread[u]
  BY BackEffect DEF ReconnectHandle, Return
<1>4. t = App => ~Uses(b)
  BY <1>1, <1>2 DEF Sharing, Binding
<1>5. sess'.work = sess.work
  BY DEF ReconnectHandle, Fresh, Typed, SessOK
<1>6. \A u \in Threads : u # t /\ thread[u].pc = "cleanup" => lock'.e[thread[u].on] = u
  <2> SUFFICES ASSUME NEW u \in Threads, u # t, thread[u].pc = "cleanup"
               PROVE  lock'.e[thread[u].on] = u
    OBVIOUS
  <2>1. thread[u].on \in Branches /\ lock.e[thread[u].on] = u
    BY SeparatingOn DEF Separating, TruthInv, Standing
  <2> QED BY <2>1 DEF ReconnectHandle, Return, Typed, LockOK
<1> QED BY <1>1, <1>2, <1>3, <1>4, <1>5, <1>6, StayingTruth DEF Separating

-----------------------------------------------------------------------------
(***************************************************************************)
(* MSDTC is told the truth throughout.                                     *)
(***************************************************************************)

LEMMA InitTruth == Init => TruthInv
<1> SUFFICES ASSUME Init PROVE TruthInv
  OBVIOUS
<1>1. /\ \A t \in Threads : thread[t].pc = "idle" /\ thread[t].kind = "execute"
      /\ app.linked /\ durable = {}
  BY DEF Init, Idle
<1>2. \A b \in Branches : /\ branch[b].conn = "none" /\ app.did[b] = "nothing"
                          /\ dtc[b].st = "none" /\ dtc[b].decision = "none"
                          /\ dtc[b].answer = "none" /\ pg[b].st = "none"
  BY DEF Init
<1>3. Standing
  BY <1>1, Distinct DEF Standing, Enlisting, At, Separating
<1>4. ASSUME NEW b \in Branches PROVE Knowing(b) /\ Fate(b)
  <2>1. thread[Exec(b)].pc = "idle" /\ thread[Request(b)].pc = "idle"
    BY <1>1, Distinct
  <2>2. Knowing(b)
    BY <1>2, <2>1 DEF Knowing, Uses
  <2>3. Fate(b)
    BY <1>1, <1>2, <2>1 DEF Fate, Decisions, Kept, Committed, Whereabouts, Told, Operating
  <2> QED BY <2>2, <2>3
<1> QED BY <1>3, <1>4 DEF TruthInv

LEMMA TruthStutters == TruthInv /\ UNCHANGED vars => TruthInv'
<1> SUFFICES ASSUME TruthInv, UNCHANGED <<handle, sess, app, branch, lock, thread, dtc, pg, durable>>
             PROVE  TruthInv'
  BY DEF vars
<1>1. Standing'
  BY DEF TruthInv, Standing, Enlisting, At
<1>2. ASSUME NEW b \in Branches PROVE Knowing(b)' /\ Fate(b)'
  <2>1. Knowing(b) /\ Decisions(b) /\ Kept(b) /\ Committed(b) /\ Whereabouts(b) /\ Told(b)
    BY DEF TruthInv, Fate
  <2>2. Knowing(b)'
    BY <2>1 DEF Knowing, Uses, At
  <2>3. Decisions(b)' /\ Kept(b)' /\ Committed(b)'
    BY ZenonT(40), <2>1 DEF Decisions, Kept, Committed, Operating
  <2>4. Whereabouts(b)' /\ Told(b)'
    BY <2>1 DEF Whereabouts, Told, Uses, Operating
  <2> QED BY <2>2, <2>3, <2>4 DEF Fate
<1> QED BY <1>1, <1>2 DEF TruthInv

LEMMA TruthStep ==
    ASSUME Steady, Typed, Sharing, TruthInv, [Next]_vars
    PROVE  TruthInv'
<1>1. CASE Application
  <2>1. ASSUME NEW kind \in Calls, Call(kind) PROVE TruthInv'
    BY <2>1, CallTruth
  <2>2. ASSUME NEW b \in Branches, EnlistInDtc(b) PROVE TruthInv'
    BY <2>2, EnlistInDtcTruth
  <2> QED BY <1>1, <2>1, <2>2, ExamineTruth, EnterTruth, RequestStartTruth, ExecuteTruth,
             FinishTruth, EnlistBeginsTruth, SetConnectionTruth, SetAsyncTruth, LeaveTruth,
             DtcOnDisconnectTruth, ReleaseConnectionTruth, LinkTruth DEF Application
<1>2. ASSUME NEW b \in Branches, Coordination(b) PROVE TruthInv'
  BY <1>2, PrepareRequestTruth, CommitRequestTruth, AbortRequestTruth, AbortLockedTruth,
     AbortLocalTruth, XaCommitTruth, XaRollbackTruth DEF Coordination
<1>3. ASSUME NEW b \in Branches, RequestExec(b) PROVE TruthInv'
  BY <1>3, BeginTruth, GetLockedXAConnTruth, OperateTruth, SetDoneTruth, AnswerTruth,
     SetPrepareResultTruth DEF RequestExec
<1>4. ASSUME NEW t \in Threads, Separation(t) PROVE TruthInv'
  BY <1>4, SeparateXAConnTruth, GenerateXAConnTruth, IsolateXAConnTruth, IsolateHandleTruth,
     ReconnectHandleTruth DEF Separation
<1>5. CASE UNCHANGED vars
  BY <1>5, TruthStutters
<1> QED BY <1>1, <1>2, <1>3, <1>4, <1>5 DEF Next

\* Work that was voted for waits for the decision among what the server has prepared.
LEMMA VotedWork ==
    ASSUME Sharing, TruthInv, NEW b \in Branches,
           dtc[b].st = "ready", dtc[b].decision = "none", app.did[b] = "work"
    PROVE  pg[b].st = "prepared" /\ b \in pg[b].work
<1>1. Phase(b) /\ Working(b) /\ Fate(b)
  BY DEF Sharing, TruthInv
<1>2. Operating(b) => thread[Exec(b)].kind # "prepare"
  BY <1>1 DEF Operating, Phase, Kinds
<1>3. dtc[b].answer = "none" /\ b \notin durable
  BY <1>1, <1>2 DEF Fate, Decisions, Committed
<1>4. b \notin sess.work
  BY <1>1 DEF Phase, Working
<1> QED BY <1>1, <1>2, <1>3, <1>4 DEF Fate, Whereabouts

\* Under the same conditions MSDTC is told the truth.  When CommitRequestDone,
\* PrepareRequestDone of a single-phase commit or the XA recovery reports a branch
\* committed, all the work its statements did successfully is durable; when PrepareRequestDone
\* reports it prepared, all that work is.  When it is reported aborted, none of it is durable,
\* prepared, or left in the session of the handle, whose next COMMIT would make it so; a vote
\* of no says the same, unless the connection broke behind the command that the server had
\* executed, which RequestExec reports as E_FAIL too.
THEOREM OutcomeTruthAlways ==
    ASSUME Waits, Steady
    PROVE  Spec /\ []EnlistsConnected => []OutcomeTruth
<1>1. Init => Typed /\ Sharing /\ TruthInv
  BY InitTyped, InitSharing, InitTruth
<1>2. Typed /\ Sharing /\ TruthInv /\ EnlistsConnected /\ [Next]_vars
        => Typed' /\ Sharing' /\ TruthInv'
  BY TypedStep, SharingStep, TruthStep
<1>3. Sharing /\ TruthInv => OutcomeTruth
  BY VotedWork DEF TruthInv, Fate, Told, OutcomeTruth
<1> QED BY <1>1, <1>2, <1>3, PTL DEF Spec

=============================================================================
