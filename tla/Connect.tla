------------------------------ MODULE Connect ------------------------------
(***************************************************************************)
(* The life of connection handles: CC_connect with its ways to come by a   *)
(* password, the limitless router, the retry with a fresh token and the    *)
(* initial settings; executing, fetching and ending transactions on a      *)
(* session the server may drop at any time; the failover that puts a new   *)
(* session under the old handle; SQLDisconnect and freeing the handle.     *)
(*                                                                         *)
(* The handles share the cache of tokens, which is in a library outside    *)
(* src/.  A call holds its handle's critical section, so the calls on one  *)
(* handle follow each other and those on two handles interleave.           *)
(* Transactions are one bit here: what happens inside them is              *)
(* StatementSvp's matter.                                                  *)
(***************************************************************************)
EXTENDS Integers, FiniteSets

CONSTANTS
    Conns,       \* the connection handles
    Users,       \* those on which the application also executes and fetches
    MaxSessions, \* bound on the sessions that exist at a time
    Targets,     \* the connection strings that each handle is connected with
    MayTell08,   \* may a live server report an SQLSTATE of class 08?
    CharSigned   \* is the compiler's char signed?

\* The cluster and an instance of it are known to AWS by name; an alias is a custom
\* name (an IP address, a CNAME) of the cluster.
Hosts == {"cluster", "instance", "alias"}
NoHost == "none"

\* The connection string: authtype, server, iam_host, and whether the password
\* in it is right; limitless_enabled and enable_failover.
Target == [mode : {"database", "token", "secret"}, server : Hosts,
           iam : Hosts \cup {NoHost}, right : BOOLEAN,
           limitless : BOOLEAN, failover : BOOLEAN]
NoTarget == [mode |-> "database", server |-> "cluster", iam |-> NoHost,
          right |-> FALSE, limitless |-> FALSE, failover |-> FALSE]

ASSUME ConnectAssumption ==
    /\ Conns # {} /\ IsFiniteSet(Conns) /\ Users \subseteq Conns
    /\ MaxSessions \in Nat \ {0}
    /\ \A c \in Conns : Targets[c] \subseteq Target
    /\ MayTell08 \in BOOLEAN /\ CharSigned \in BOOLEAN

VARIABLES
    conn,     \* the ConnectionClass of every handle
    call,     \* the call that is running on it
    app,      \* what the application (and the driver manager) knows of it
    cache,    \* the token cache: host -> token
    srv       \* the sessions of the server

vars == <<conn, call, app, cache, srv>>

Sessions == 1 .. MaxSessions
\* A token is good until it expires; one for a name that AWS does not know never is.
Token == {"good", "dead"}
NoToken == "none"
None == 0
Pcs == {"idle", "auth", "limitless", "login", "set", "retry", "serve", "settings",
        "run", "failover"}
Conn == [status : {"none", "connected", "down"},    \* CONN_EXECUTING apart
         pq : Sessions \cup {None},                 \* pqconn
         auto : BOOLEAN, trans : BOOLEAN,           \* transact_status
         public : BOOLEAN,                          \* autocommit_public
         failover : BOOLEAN]                        \* connInfo.enable_failover
Call == [at : Pcs,
         ci : Target,                               \* the rest of connInfo
         password : {"given", "secret", "token"}, tok : Token \cup {NoToken},
         tr : {"none", "cached", "generated", "failure"},
         wasIn : BOOLEAN,                           \* is_in_trans of PGAPI_Execute
         by : {"execute", "check"},                 \* who asks for the failover
         trouble : BOOLEAN]                         \* history: something outside failed
Told == {"none", "error", "08S01", "08S02", "08007"}
App == [open : BOOLEAN,      \* the driver manager takes the handle for connected
        told : Told,         \* the error that the last call on the handle returned
        lost : BOOLEAN]      \* history: a transaction was lost and not yet told
Session == [st : {"finished", "open", "lost"}, trans : BOOLEAN,
            refused : BOOLEAN]   \* history: it refused an initial command

\* Type invariant: handles, calls, cache and sessions stay in the values the code
\* gives them.
TypeOK ==
    /\ conn \in [Conns -> Conn]
    /\ call \in [Conns -> Call]
    /\ app \in [Conns -> App]
    /\ cache \in [Hosts -> Token \cup {NoToken}]
    /\ srv \in [Sessions -> Session]

\* CC_initialize
FreshConn == [status |-> "none", pq |-> None, auto |-> TRUE, trans |-> FALSE,
              public |-> TRUE, failover |-> FALSE]
\* CC_cleanup(FALSE) leaves the handle for the next connection.
Cleaned(k) == [FreshConn EXCEPT !.public = k.public]
Finished == [st |-> "finished", trans |-> FALSE, refused |-> FALSE]
NoCall == [at |-> "idle", ci |-> NoTarget, password |-> "given", tok |-> NoToken,
           tr |-> "none", wasIn |-> FALSE, by |-> "check", trouble |-> FALSE]

Init ==
    /\ conn = [c \in Conns |-> FreshConn]
    /\ call = [c \in Conns |-> NoCall]
    /\ app = [c \in Conns |-> [open |-> FALSE, told |-> "none", lost |-> FALSE]]
    /\ cache = [h \in Hosts |-> NoToken]
    /\ srv = [s \in Sessions |-> Finished]

-----------------------------------------------------------------------------
(* The server and the libraries *)

Open == {s \in Sessions : srv[s].st = "open"}
Held == {conn[c].pq : c \in Conns}
FreeSessions == {s \in Sessions : s \notin Held /\ srv[s].st # "open"}
NewSession == CHOOSE s \in FreeSessions : \A r \in FreeSessions : s <= r
Opened == [st |-> "open", trans |-> FALSE, refused |-> FALSE]
\* PQfinish: the server rolls back what was open.  PQfinish(NULL) does nothing.
Finish(s) == IF s = None THEN srv
             ELSE [srv EXCEPT ![s] = Finished]
\* A command on the session of handle c finds it lost.
IsLost(c) == srv[conn[c].pq].st = "lost"

Accepted(c) ==
    CASE call[c].password = "given" -> call[c].ci.right
      [] call[c].password = "secret" -> TRUE
      [] OTHER -> call[c].tok = "good"

-----------------------------------------------------------------------------
(* The driver *)

At(c, pc) == call[c].at = pc
Goto(c, pc) == call' = [call EXCEPT ![c].at = pc]
\* The call returns, or returns since something outside the driver failed.
Done(c) == call' = [call EXCEPT ![c] = NoCall]
DoneTrouble(c) == call' = [call EXCEPT ![c] = [NoCall EXCEPT !.trouble = TRUE]]

\* CC_on_abort(CONN_DEAD)
OnAbortDead(k) == [k EXCEPT !.trans = FALSE, !.status = "down", !.pq = None]
\* The bookkeeping of a call that lost its session: the command of handle c fails.
Dead(c) ==
    /\ conn' = [conn EXCEPT ![c] = OnAbortDead(conn[c])]
    /\ srv' = Finish(conn[c].pq)

\* An int passed through a char.
AsChar(x) == IF CharSigned \/ x >= 0 THEN x ELSE x + 256
\* PGAPI_Connect makes a return code of what CC_connect returned.
ConnectResult(ret) == IF ret <= 0 THEN "error" ELSE "none"
Return(c, ret) ==
    LET res == ConnectResult(AsChar(ret))
    IN app' = [app EXCEPT ![c].told = res, ![c].open = res = "none", ![c].lost = FALSE]

\* PGAPI_Connect: the connection string replaces connInfo.
Connect(c, target) ==
    /\ At(c, "idle") /\ ~app[c].open
    /\ conn' = [conn EXCEPT ![c].failover = target.failover]
    /\ call' = [call EXCEPT ![c] = [NoCall EXCEPT !.at = "auth", !.ci = target,
                                         !.trouble = conn[c].status = "down"]]
    /\ app' = [app EXCEPT ![c].told = "none"]
    /\ UNCHANGED <<cache, srv>>

\* CC_connect, database mode
AuthDatabase(c) ==
    /\ At(c, "auth") /\ call[c].ci.mode = "database"
    /\ Goto(c, "limitless")
    /\ UNCHANGED <<conn, app, cache, srv>>

\* CC_connect, secret mode: GetCredentialsFromSecretsManager
AuthSecret(c) ==
    /\ At(c, "auth") /\ call[c].ci.mode = "secret"
    /\ call' = [call EXCEPT ![c].password = "secret", ![c].at = "limitless"]
    /\ UNCHANGED <<conn, app, cache, srv>>

AuthSecretFails(c) ==
    /\ At(c, "auth") /\ call[c].ci.mode = "secret"
    /\ Return(c, -1) /\ DoneTrouble(c)
    /\ UNCHANGED <<conn, cache, srv>>

\* The host a token is made for, and looked up under
TokenHost(c) == IF call[c].ci.iam # NoHost THEN call[c].ci.iam ELSE call[c].ci.server
UseToken(c, t, tr, pc) ==
    call' = [call EXCEPT ![c].password = "token", ![c].tok = t, ![c].tr = tr,
                         ![c].at = pc, ![c].trouble = @ \/ tr = "failure"]

\* GetTokenForIAM(TRUE) finds a token in the cache.
GetCached(c, pc) ==
    /\ cache[TokenHost(c)] # NoToken
    /\ UseToken(c, cache[TokenHost(c)], "cached", pc)
    /\ UNCHANGED <<conn, app, cache, srv>>

\* GenerateConnectAuthToken
Generate(c, pc) ==
    /\ UseToken(c, IF TokenHost(c) = "alias" THEN "dead" ELSE "good", "generated", pc)
    /\ UNCHANGED <<conn, app, cache, srv>>

GenerateFails(c, pc) ==
    /\ UseToken(c, NoToken, "failure", pc)
    /\ UNCHANGED <<conn, app, cache, srv>>

\* CC_connect, the AWS modes: GetTokenForIAM(TRUE).  The cache drops what has expired
\* by its own reckoning, so a token in it may be missed.
AuthToken(c) ==
    /\ At(c, "auth") /\ call[c].ci.mode = "token"
    /\ \/ GetCached(c, "limitless")
       \/ Generate(c, "limitless")
       \/ GenerateFails(c, "limitless")

\* GetLimitlessServer when the option is off
NotLimitless(c) ==
    /\ At(c, "limitless") /\ ~call[c].ci.limitless
    /\ Goto(c, "login")
    /\ UNCHANGED <<conn, app, cache, srv>>

\* GetLimitlessServer: the option is cleared, a router may replace the server.
Limitless(c) ==
    /\ At(c, "limitless") /\ call[c].ci.limitless
    /\ \E s \in {call[c].ci.server, "instance"} :
           call' = [call EXCEPT ![c].ci.limitless = FALSE, ![c].ci.server = s,
                                ![c].at = "login"]
    /\ UNCHANGED <<conn, app, cache, srv>>

\* CheckLimitlessCluster says no.
LimitlessFails(c) ==
    /\ At(c, "limitless") /\ call[c].ci.limitless
    /\ Return(c, -1) /\ DoneTrouble(c)
    /\ UNCHANGED <<conn, cache, srv>>

\* Mistake: a cached token is taken for a generated one, no second attempt.
AfterFailure_Once(c, ret) ==
    /\ call' = [call EXCEPT ![c] = [NoCall EXCEPT !.trouble = call[c].trouble]]
    /\ Return(c, ret)
\* What CC_connect does when LIBPQ_CC_connect returned ret <= 0
AfterFailure(c, ret) ==
    IF call[c].tr = "cached"
    THEN call' = [call EXCEPT ![c].at = "retry"] /\ UNCHANGED app
    ELSE call' = [call EXCEPT ![c] = [NoCall EXCEPT !.trouble = call[c].trouble]]
         /\ Return(c, ret)

\* The same, when something outside the driver failed
AfterTrouble(c, ret) ==
    IF call[c].tr = "cached"
    THEN call' = [call EXCEPT ![c].at = "retry", ![c].trouble = TRUE] /\ UNCHANGED app
    ELSE DoneTrouble(c) /\ Return(c, ret)

\* CC_initial_log: a handle that has lost a session connects no more.
InitialLog(c) ==
    /\ At(c, "login") /\ conn[c].status # "none"
    /\ AfterTrouble(c, 0)
    /\ UNCHANGED <<conn, cache, srv>>

\* LIBPQ_connect: pqconn is replaced, whatever it was.
Login(c) ==
    /\ At(c, "login") /\ conn[c].status = "none"
    /\ Accepted(c) /\ FreeSessions # {}
    /\ conn' = [conn EXCEPT ![c].pq = NewSession]
    /\ srv' = [srv EXCEPT ![NewSession] = Opened]
    /\ Goto(c, "set")
    /\ UNCHANGED <<app, cache>>

\* LIBPQ_connect returns its char as an int, LIBPQ_CC_connect that int as a char: where
\* char is unsigned, -1 is taken for a login and the commands that follow fail.
NeedsPassword == IF CharSigned THEN -1 ELSE 0

\* The server refuses the password, perhaps since it got none, or cannot be reached.
LoginFails(c) ==
    /\ At(c, "login") /\ conn[c].status = "none"
    /\ conn' = [conn EXCEPT ![c].pq = None]
    /\ \/ /\ ~Accepted(c)
          /\ \/ call[c].tok # NoToken /\ AfterFailure(c, 0)
             \/ call[c].tok = NoToken /\ DoneTrouble(c) /\ Return(c, NeedsPassword)
       \/ AfterTrouble(c, 0)
    /\ UNCHANGED <<cache, srv>>

\* LIBPQ_CC_connect: SET DateStyle ...
SetDateStyle(c) ==
    /\ At(c, "set") /\ ~IsLost(c)
    /\ Goto(c, IF call[c].ci.mode = "token" THEN "serve" ELSE "settings")
    /\ UNCHANGED <<conn, app, cache, srv>>

SetDateStyleFails(c) ==
    /\ At(c, "set")
    /\ AfterTrouble(c, 0)
    /\ IF IsLost(c) THEN Dead(c)
       ELSE /\ srv' = [srv EXCEPT ![conn[c].pq].refused = TRUE]
            /\ UNCHANGED conn
    /\ UNCHANGED cache

\* CC_connect: the cached token did not do, GetTokenForIAM(FALSE).
RetryToken(c) ==
    /\ At(c, "retry")
    /\ \/ Generate(c, "login")
       \/ DoneTrouble(c) /\ Return(c, 0) /\ UNCHANGED <<conn, cache, srv>>

\* CC_connect: UpdateCachedToken, under the server's name
Serve(c) ==
    /\ At(c, "serve")
    /\ cache' = [cache EXCEPT ![call[c].ci.server] = call[c].tok]
    /\ call' = [call EXCEPT ![c].tok = NoToken, ![c].at = "settings"]
    /\ UNCHANGED <<conn, app, srv>>

\* CC_connect: the settings of the data source (whose refusal is only a warning) and
\* the initial commands
Settings(c) ==
    /\ At(c, "settings") /\ ~IsLost(c)
    /\ conn' = [conn EXCEPT ![c].status = "connected"]
    /\ Return(c, 1)
    /\ Done(c)
    /\ UNCHANGED <<cache, srv>>

SettingsFail(c) ==
    /\ At(c, "settings")
    /\ Return(c, 0) /\ DoneTrouble(c)
    /\ IF IsLost(c) THEN Dead(c)
       ELSE /\ srv' = [srv EXCEPT ![conn[c].pq].refused = TRUE]
            /\ UNCHANGED conn
    /\ UNCHANGED cache

-----------------------------------------------------------------------------
(* Calls on a connected handle *)

Say(c, told) == app' = [app EXCEPT ![c].told = told]
SayLoss(c, told) == app' = [app EXCEPT ![c].told = told, ![c].lost = FALSE]

\* SC_connection_lost_check, the first step of every call on a statement
LostCheck(c) ==
    /\ At(c, "idle") /\ app[c].open /\ conn[c].pq = None
    /\ IF conn[c].failover
       THEN /\ call' = [call EXCEPT ![c] = [NoCall EXCEPT !.at = "failover"]]
            /\ Say(c, "none")
       ELSE SayLoss(c, "08S01") /\ UNCHANGED call
    /\ UNCHANGED <<conn, cache, srv>>

\* PGAPI_Execute starts: it notes whether the connection is in a transaction.
Execute(c) ==
    /\ At(c, "idle") /\ app[c].open /\ conn[c].pq # None
    /\ call' = [call EXCEPT ![c] = [NoCall EXCEPT !.at = "run", !.by = "execute",
                                         !.wasIn = conn[c].trans]]
    /\ Say(c, "none")
    /\ UNCHANGED <<conn, cache, srv>>

SetTrans(c, b) ==
    /\ conn' = [conn EXCEPT ![c].trans = b]
    /\ srv' = [srv EXCEPT ![conn[c].pq].trans = b]

\* The statement runs.  With autocommit off it starts a transaction; with autocommit
\* on it may be a BEGIN, or the COMMIT of one.
Run(c) ==
    /\ At(c, "run") /\ ~IsLost(c)
    /\ \E b \in {~conn[c].auto, TRUE} \cup (IF conn[c].trans THEN {FALSE} ELSE {}) :
           SetTrans(c, b)
    /\ Say(c, "none") /\ Done(c)
    /\ UNCHANGED cache

\* The statement fails, in the transaction it is in or has just begun.
RunFails(c) ==
    /\ At(c, "run") /\ ~IsLost(c)
    /\ \E b \in {conn[c].trans, conn[c].trans \/ ~conn[c].auto} : SetTrans(c, b)
    /\ \/ Say(c, "error") /\ Done(c)
       \/ MayTell08 /\ conn[c].failover /\ Goto(c, "failover") /\ UNCHANGED app
    /\ UNCHANGED cache

\* The statement finds the session lost.
RunLost(c) ==
    /\ At(c, "run") /\ IsLost(c)
    /\ Dead(c)
    /\ IF conn[c].failover THEN Goto(c, "failover") /\ UNCHANGED app
       ELSE Done(c) /\ Say(c, "error")
    /\ UNCHANGED cache

\* FailoverConnection did not find a new session, or did not look for one.
FailoverFails(c) ==
    /\ At(c, "failover")
    /\ \/ SayLoss(c, "08S01")
       \/ call[c].by = "execute" /\ Say(c, "error")
    /\ Done(c)
    /\ UNCHANGED <<conn, cache, srv>>

\* The transaction flag after a failover: only PGAPI_Execute looks at it again, and
\* has CC_internal_rollback clear it.
TransAfter(c) == conn[c].trans /\ (call[c].by = "check" \/ ~call[c].wasIn)
\* Mistake: the transaction is asked of the failing execution, not from before it.
InTransaction_Now(c) == conn[c].trans
\* Was the application in a transaction?  By what the failing call takes for it
InTransaction(c) == IF call[c].by = "execute" THEN call[c].wasIn ELSE conn[c].trans

\* Mistake: pqconn stays what it was, now closed.
Failover_KeepsSession(c) ==
    /\ At(c, "failover") /\ FreeSessions # {}
    /\ srv' = Finish(conn[c].pq)
    /\ conn' = [conn EXCEPT ![c].status = "connected", ![c].trans = TransAfter(c)]
    /\ SayLoss(c, IF InTransaction(c) THEN "08007" ELSE "08S02")
    /\ Done(c)
    /\ UNCHANGED cache

\* FailoverConnection has connected a handle of its own: its session moves to handle c
\* and the old one is closed.
Failover(c) ==
    /\ At(c, "failover") /\ FreeSessions # {}
    /\ srv' = [Finish(conn[c].pq) EXCEPT ![NewSession] = Opened]
    /\ conn' = [conn EXCEPT ![c].pq = NewSession, ![c].status = "connected",
                            ![c].trans = TransAfter(c)]
    /\ SayLoss(c, IF InTransaction(c) THEN "08007" ELSE "08S02")
    /\ Done(c)
    /\ UNCHANGED cache

\* SQLFetch and the other calls that ask the server but do not execute
Fetch(c) ==
    /\ At(c, "idle") /\ app[c].open /\ conn[c].pq # None
    /\ IF IsLost(c) THEN Dead(c) /\ Say(c, "error")
       ELSE Say(c, "none") /\ UNCHANGED <<conn, srv>>
    /\ UNCHANGED <<call, cache>>

\* SQLEndTran: PGAPI_Transact, CC_commit or CC_abort
EndTran(c) ==
    /\ At(c, "idle") /\ app[c].open
    /\ CASE ~conn[c].trans -> Say(c, "none") /\ UNCHANGED <<conn, srv>>
         [] conn[c].trans /\ IsLost(c) -> Dead(c) /\ SayLoss(c, "error")
         [] OTHER -> /\ SetTrans(c, FALSE)
                     /\ \E told \in {"none", "error"} : Say(c, told)
    /\ UNCHANGED <<call, cache>>

\* SQLSetConnectAttr(SQL_ATTR_AUTOCOMMIT), on a connected handle or before: it acts when
\* the attribute changes, and CC_set_autocommit when the flag does.
SetAutocommit(c) ==
    /\ At(c, "idle")
    /\ LET on == ~conn[c].public
           set == [conn[c] EXCEPT !.public = on, !.auto = on]
           commits == conn[c].auto # on /\ conn[c].trans
       IN CASE commits /\ IsLost(c) ->
                 /\ conn' = [conn EXCEPT ![c] = OnAbortDead(set)]
                 /\ srv' = Finish(conn[c].pq)
            [] commits /\ ~IsLost(c) ->
                 /\ conn' = [conn EXCEPT ![c] = [set EXCEPT !.trans = FALSE]]
                 /\ srv' = [srv EXCEPT ![conn[c].pq].trans = FALSE]
            [] OTHER -> conn' = [conn EXCEPT ![c] = set] /\ UNCHANGED srv
    /\ Say(c, "none")
    /\ UNCHANGED <<call, cache>>

\* SQLDisconnect: CC_cleanup
Disconnect(c) ==
    /\ At(c, "idle") /\ app[c].open
    /\ srv' = Finish(conn[c].pq)
    /\ conn' = [conn EXCEPT ![c] = Cleaned(conn[c])]
    /\ app' = [app EXCEPT ![c] = [open |-> FALSE, told |-> "none", lost |-> FALSE]]
    /\ UNCHANGED <<call, cache>>

\* SQLFreeHandle of a handle that is not connected, and the allocation of the next
FreeConnect(c) ==
    /\ At(c, "idle") /\ ~app[c].open
    /\ srv' = Finish(conn[c].pq)
    /\ conn' = [conn EXCEPT ![c] = FreshConn]
    /\ app' = [app EXCEPT ![c].told = "none", ![c].lost = FALSE]
    /\ UNCHANGED <<call, cache>>

-----------------------------------------------------------------------------
(* What may happen at any time *)

\* A session ends: the server or the network fails.
Lose(s) ==
    /\ srv[s].st = "open"
    /\ srv' = [srv EXCEPT ![s] = IF s \in Held THEN [@ EXCEPT !.st = "lost", !.trans = FALSE]
                                ELSE Finished]
    /\ app' = [c \in Conns |-> IF conn[c].pq = s /\ srv[s].trans
                               THEN [app[c] EXCEPT !.lost = TRUE] ELSE app[c]]
    /\ UNCHANGED <<conn, call, cache>>

\* A token expires, in the cache or in the hands of a call: bad luck when it was fresh.
Expire ==
    /\ UNCHANGED <<conn, app, srv>>
    /\ \/ /\ \E h \in Hosts : cache[h] = "good" /\ cache' = [cache EXCEPT ![h] = "dead"]
          /\ UNCHANGED call
       \/ /\ \E c \in Conns :
                 /\ call[c].tok = "good"
                 /\ call' = [call EXCEPT ![c].tok = "dead",
                                         ![c].trouble = @ \/ call[c].tr = "generated"]
          /\ UNCHANGED cache

\* The step that the call running on handle c takes next
Step(c) ==
    \/ AuthDatabase(c) \/ AuthSecret(c) \/ AuthSecretFails(c) \/ AuthToken(c)
    \/ NotLimitless(c) \/ Limitless(c) \/ LimitlessFails(c)
    \/ InitialLog(c) \/ Login(c) \/ LoginFails(c)
    \/ SetDateStyle(c) \/ SetDateStyleFails(c) \/ RetryToken(c) \/ Serve(c)
    \/ Settings(c) \/ SettingsFail(c)
    \/ Run(c) \/ RunFails(c) \/ RunLost(c) \/ FailoverFails(c) \/ Failover(c)

\* The application starts a call.
Ask(c) ==
    \/ \E target \in Targets[c] : Connect(c, target)
    \/ c \in Users /\ (LostCheck(c) \/ Execute(c) \/ Fetch(c) \/ EndTran(c)
                          \/ SetAutocommit(c))
    \/ Disconnect(c) \/ FreeConnect(c)

Next ==
    \/ \E c \in Conns : Step(c) \/ Ask(c)
    \/ \E s \in Sessions : Lose(s)
    \/ Expire

Spec == Init /\ [][Next]_vars

-----------------------------------------------------------------------------
(* Properties *)

\* A session is under one handle at most, which has not closed it; and an open session
\* under none is one that had refused an initial command, so that the next attempt of
\* the handle to connect (or the retry with a fresh token) replaced pqconn.
HeldOnce ==
    /\ \A c \in Conns : conn[c].pq # None => srv[conn[c].pq].st \in {"open", "lost"}
    /\ \A c, d \in Conns : c # d /\ conn[c].pq # None => conn[c].pq # conn[d].pq
    /\ \A s \in Open \ Held : srv[s].refused

\* CC_connect gives up only when something outside it has failed in the course of the
\* call: a cached token that the server refuses, be it old or of another host, is
\* replaced by a fresh one.
NoNeedlessError ==
    [][\A c \in Conns :
          (call[c].at \in Pcs \ {"idle", "run", "failover"} /\ call'[c].at = "idle"
              /\ app'[c].told = "error") => call'[c].trouble]_vars

\* After an error that tells of a failover the handle is connected to a session of its
\* own in which no transaction is open, and 08007 only tells of a transaction that was.
FailoverTruth ==
    [][\A c \in Conns : At(c, "failover") /\ call'[c].at = "idle"
             /\ app'[c].told \in {"08S02", "08007"} =>
          /\ conn'[c].status = "connected" /\ conn'[c].pq # None
          /\ srv'[conn'[c].pq].st = "open" /\ ~srv'[conn'[c].pq].trans
          /\ app'[c].told = "08007" => call[c].wasIn]_vars

=============================================================================
