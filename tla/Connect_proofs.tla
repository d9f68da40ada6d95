---------------------------- MODULE Connect_proofs ----------------------------
(***************************************************************************)
(* Theorems about Connect, for every number of handles and sessions, every *)
(* set of connection strings and both kinds of char.                       *)
(***************************************************************************)
EXTENDS Connect, WellFoundedInduction, TLAPS

-----------------------------------------------------------------------------
(* Types.                                                                  *)

LEMMA ConstantTypes ==
    /\ FreshConn \in Conn /\ Finished \in Session /\ Opened \in Session
    /\ NoCall \in Call /\ NoTarget \in Target
    /\ Sessions \subseteq Nat \ {0} /\ None \notin Sessions /\ NoToken \notin Token
  BY ConnectAssumption DEF FreshConn, Conn, Finished, Opened, Session, NoCall, Call, NoTarget, Target, Hosts,
      NoHost, Pcs, NoToken, Token, Sessions, None

\* The updates of a call, of what the application knows, and of a handle.
LEMMA CallTypes ==
    ASSUME NEW k \in Call, NEW pc \in Pcs
    PROVE  /\ [k EXCEPT !.at = pc] \in Call
           /\ [NoCall EXCEPT !.trouble = k.trouble] \in Call
           /\ [NoCall EXCEPT !.trouble = TRUE] \in Call
           /\ [k EXCEPT !.password = "secret", !.at = pc] \in Call
           /\ \A t \in Token \cup {NoToken}, tr \in {"none", "cached", "generated", "failure"},
                 b \in BOOLEAN :
                 [k EXCEPT !.password = "token", !.tok = t, !.tr = tr, !.at = pc, !.trouble = b] \in Call
           /\ [k EXCEPT !.at = pc, !.trouble = TRUE] \in Call
           /\ [k EXCEPT !.tok = NoToken, !.at = pc] \in Call
           /\ [NoCall EXCEPT !.at = pc] \in Call
           /\ \A b \in BOOLEAN : [NoCall EXCEPT !.at = pc, !.by = "execute", !.wasIn = b] \in Call
           /\ \A target \in Target, b \in BOOLEAN :
                 [NoCall EXCEPT !.at = pc, !.ci = target, !.trouble = b] \in Call
  BY ConstantTypes DEF Call

LEMMA RouterTypes ==
    ASSUME NEW k \in Call, NEW s \in Hosts
    PROVE  [k EXCEPT !.ci.limitless = FALSE, !.ci.server = s, !.at = "login"] \in Call
  <1>1. [k.ci EXCEPT !.limitless = FALSE, !.server = s] \in Target
    BY DEF Call, Target
  <1> QED BY <1>1 DEF Call, Pcs

LEMMA AppTypes ==
    ASSUME NEW k \in App, NEW told \in Told
    PROVE  /\ [k EXCEPT !.told = told] \in App
           /\ [k EXCEPT !.told = told, !.lost = FALSE] \in App
           /\ [k EXCEPT !.lost = TRUE] \in App
           /\ \A b \in BOOLEAN : [k EXCEPT !.told = told, !.open = b, !.lost = FALSE] \in App
           /\ [open |-> FALSE, told |-> "none", lost |-> FALSE] \in App
  BY DEF App, Told

LEMMA ConnTypes ==
    ASSUME NEW k \in Conn
    PROVE  /\ Cleaned(k) \in Conn /\ OnAbortDead(k) \in Conn
           /\ \A b \in BOOLEAN : /\ [k EXCEPT !.failover = b] \in Conn
                                 /\ [k EXCEPT !.trans = b] \in Conn
                                 /\ [k EXCEPT !.public = b, !.auto = b] \in Conn
           /\ \A s \in Sessions \cup {None} :
                 /\ [k EXCEPT !.pq = s] \in Conn
                 /\ \A b \in BOOLEAN :
                       [k EXCEPT !.pq = s, !.status = "connected", !.trans = b] \in Conn
           /\ [k EXCEPT !.status = "connected"] \in Conn
  BY ConstantTypes DEF Conn, Cleaned, OnAbortDead, FreshConn

LEMMA SessionTypes ==
    ASSUME TypeOK, NEW s \in Sessions \cup {None}
    PROVE  /\ Finish(s) \in [Sessions -> Session]
           /\ \A b \in BOOLEAN : /\ [srv EXCEPT ![s].trans = b] \in [Sessions -> Session]
                                 /\ [srv EXCEPT ![s].refused = b] \in [Sessions -> Session]
           /\ \A r \in Sessions :
                 /\ [srv EXCEPT ![r] = Opened] \in [Sessions -> Session]
                 /\ [Finish(s) EXCEPT ![r] = Opened] \in [Sessions -> Session]
  BY ConstantTypes DEF Finish, TypeOK, Session

LEMMA InitTyped == Init => TypeOK
  BY ConstantTypes DEF Init, TypeOK, App, Told, Hosts

\* The server has a session to spare: NewSession picks one.
LEMMA NewSessionFree == FreeSessions # {} => NewSession \in FreeSessions
  <1> SUFFICES ASSUME FreeSessions # {} PROVE NewSession \in FreeSessions
    OBVIOUS
  <1>1. FreeSessions \subseteq Nat
    BY ConstantTypes DEF FreeSessions
  <1> DEFINE Less == OpToRel(<, Nat)
  <1>2. \A r, s \in Nat : r < s => <<r, s>> \in Less
    BY DEF OpToRel
  <1>3. IsWellFoundedOn(Less, Nat)
    BY NatLessThanWellFounded
  <1> HIDE DEF Less
  <1>4. PICK s \in FreeSessions : \A r \in FreeSessions : ~ (<<r, s>> \in Less)
    BY <1>1, <1>3, WFMin
  <1>5. \A r \in FreeSessions : ~ (r < s)
    BY <1>1, <1>2, <1>4, Zenon
  <1>6. \A r \in FreeSessions : s <= r
    BY <1>1, <1>5
  <1> QED BY <1>6 DEF NewSession

\* A call goes on or returns.
LEMMA GotoTyped ==
    ASSUME TypeOK, NEW c \in Conns, NEW pc \in Pcs, Goto(c, pc) \/ Done(c) \/ DoneTrouble(c)
    PROVE  call' \in [Conns -> Call]
  <1>1. [call[c] EXCEPT !.at = pc] \in Call /\ NoCall \in Call /\ [NoCall EXCEPT !.trouble = TRUE] \in Call
    BY ConstantTypes, CallTypes DEF TypeOK
  <1> QED BY <1>1 DEF Goto, Done, DoneTrouble, TypeOK

LEMMA ReturnTyped ==
    ASSUME TypeOK, NEW c \in Conns, NEW ret, Return(c, ret)
    PROVE  app' \in [Conns -> App]
  <1>1. ConnectResult(AsChar(ret)) \in Told
    BY DEF ConnectResult, Told
  <1> QED BY <1>1, AppTypes DEF Return, TypeOK

LEMMA AfterTyped ==
    ASSUME TypeOK, NEW c \in Conns, NEW ret, AfterFailure(c, ret) \/ AfterTrouble(c, ret)
    PROVE  call' \in [Conns -> Call] /\ app' \in [Conns -> App]
  <1>1. "retry" \in Pcs
    BY DEF Pcs
  <1>2. app' \in [Conns -> App]
    BY ReturnTyped DEF AfterFailure, AfterTrouble, TypeOK
  <1>3. call' \in [Conns -> Call]
    <2>1. PICK k \in Call : call' = [call EXCEPT ![c] = k]
      <3>1. call[c] \in Call
        BY DEF TypeOK
      <3>2. /\ [call[c] EXCEPT !.at = "retry"] \in Call
            /\ [call[c] EXCEPT !.at = "retry", !.trouble = TRUE] \in Call
            /\ [NoCall EXCEPT !.trouble = call[c].trouble] \in Call
            /\ [NoCall EXCEPT !.trouble = TRUE] \in Call
        BY <1>1, <3>1, CallTypes
      <3> QED BY <3>2, ZenonT(40) DEF AfterFailure, AfterTrouble, DoneTrouble
    <2> QED BY <2>1 DEF TypeOK
  <1> QED BY <1>2, <1>3

LEMMA UseTokenTyped ==
    ASSUME TypeOK, NEW c \in Conns, NEW pc \in Pcs,
           GetCached(c, pc) \/ Generate(c, pc) \/ GenerateFails(c, pc)
    PROVE  TypeOK'
  <1> DEFINE Used(t, tr, b) == [call[c] EXCEPT !.password = "token", !.tok = t, !.tr = tr,
                                               !.at = pc, !.trouble = b]
  <1>1. PICK t \in Token \cup {NoToken}, tr \in {"cached", "generated", "failure"} :
           UseToken(c, t, tr, pc)
    <2>1. TokenHost(c) \in Hosts \cup {NoHost}
      BY DEF TokenHost, TypeOK, Call, Target
    <2>2. GetCached(c, pc) => TokenHost(c) \in Hosts
      BY <2>1 DEF TokenHost, TypeOK, Call, Target
    <2> QED BY <2>2 DEF GetCached, Generate, GenerateFails, TypeOK, Token
  <1>2. Used(t, tr, (call[c].trouble \/ tr = "failure")) \in Call
    <2>1. call[c] \in Call /\ (call[c].trouble \/ tr = "failure") \in BOOLEAN
      BY DEF TypeOK
    <2> QED BY <2>1, CallTypes
  <1>3. call' \in [Conns -> Call]
    BY <1>1, <1>2 DEF UseToken, TypeOK
  <1> QED BY <1>3 DEF GetCached, Generate, GenerateFails, TypeOK

LEMMA AuthTyped ==
    ASSUME TypeOK, NEW c \in Conns,
           AuthDatabase(c) \/ AuthSecret(c) \/ AuthSecretFails(c) \/ AuthToken(c)
    PROVE  TypeOK'
  <1>0. "limitless" \in Pcs
    BY DEF Pcs
  <1>1. CASE AuthDatabase(c)
    BY <1>0, <1>1, CallTypes DEF AuthDatabase, Goto, TypeOK
  <1>2. CASE AuthSecret(c)
    BY <1>0, <1>2, CallTypes DEF AuthSecret, TypeOK
  <1>3. CASE AuthSecretFails(c)
    BY <1>0, <1>3, ReturnTyped, CallTypes DEF AuthSecretFails, DoneTrouble, TypeOK
  <1>4. CASE AuthToken(c)
    BY <1>0, <1>4, UseTokenTyped DEF AuthToken
  <1> QED BY <1>1, <1>2, <1>3, <1>4

LEMMA LoginTyped ==
    ASSUME TypeOK, NEW c \in Conns,
           \/ NotLimitless(c) \/ Limitless(c) \/ LimitlessFails(c)
           \/ InitialLog(c) \/ Login(c) \/ LoginFails(c)
    PROVE  TypeOK'
  <1>0. {"login", "set"} \subseteq Pcs
    BY DEF Pcs
  <1>1. CASE NotLimitless(c)
    BY <1>0, <1>1, CallTypes DEF NotLimitless, Goto, TypeOK
  <1>2. CASE Limitless(c)
    <2>1. call[c].ci.server \in Hosts /\ "instance" \in Hosts
      BY DEF TypeOK, Call, Target, Hosts
    <2>2. PICK s \in Hosts : call' = [call EXCEPT ![c].ci.limitless = FALSE, ![c].ci.server = s,
                                                 ![c].at = "login"]
      BY <1>2, <2>1 DEF Limitless
    <2>3. [call[c] EXCEPT !.ci.limitless = FALSE, !.ci.server = s, !.at = "login"] \in Call
      BY RouterTypes DEF TypeOK
    <2>4. call' \in [Conns -> Call]
      BY <2>2, <2>3 DEF TypeOK
    <2> QED BY <1>2, <2>4 DEF Limitless, TypeOK
  <1>3. CASE LimitlessFails(c)
    BY <1>0, <1>3, ReturnTyped, CallTypes DEF LimitlessFails, DoneTrouble, TypeOK
  <1>4. CASE InitialLog(c)
    BY <1>4, AfterTyped DEF InitialLog, TypeOK
  <1>5. CASE Login(c)
    <2>1. NewSession \in Sessions
      BY <1>5, NewSessionFree DEF Login, FreeSessions
    <2> QED BY <1>0, <1>5, <2>1, CallTypes, ConnTypes, SessionTypes DEF Login, Goto, TypeOK
  <1>6. CASE LoginFails(c)
    <2>1. conn' \in [Conns -> Conn]
      BY <1>6, ConnTypes DEF LoginFails, TypeOK
    <2>2. call' \in [Conns -> Call] /\ app' \in [Conns -> App]
      BY <1>0, <1>6, AfterTyped, ReturnTyped, CallTypes DEF LoginFails, DoneTrouble, TypeOK
    <2> QED BY <1>6, <2>1, <2>2 DEF LoginFails, TypeOK
  <1> QED BY <1>1, <1>2, <1>3, <1>4, <1>5, <1>6

LEMMA DeadTyped ==
    ASSUME TypeOK, NEW c \in Conns, Dead(c)
    PROVE  conn' \in [Conns -> Conn] /\ srv' \in [Sessions -> Session]
  <1>1. conn[c].pq \in Sessions \cup {None}
    BY DEF TypeOK, Conn
  <1> QED BY <1>1, ConnTypes, SessionTypes DEF Dead, TypeOK

LEMMA RefusedTyped ==
    ASSUME TypeOK, NEW c \in Conns,
           IF IsLost(c) THEN Dead(c)
           ELSE srv' = [srv EXCEPT ![conn[c].pq].refused = TRUE] /\ UNCHANGED conn
    PROVE  conn' \in [Conns -> Conn] /\ srv' \in [Sessions -> Session]
  <1>1. conn[c].pq \in Sessions \cup {None}
    BY DEF TypeOK, Conn
  <1>2. [srv EXCEPT ![conn[c].pq].refused = TRUE] \in [Sessions -> Session]
    BY <1>1, SessionTypes
  <1> QED BY <1>2, DeadTyped DEF TypeOK

LEMMA SettingsTyped ==
    ASSUME TypeOK, NEW c \in Conns,
           \/ SetDateStyle(c) \/ SetDateStyleFails(c) \/ RetryToken(c) \/ Serve(c)
           \/ Settings(c) \/ SettingsFail(c)
    PROVE  TypeOK'
  <1>0. {"serve", "settings", "login"} \subseteq Pcs
    BY DEF Pcs
  <1>1. CASE SetDateStyle(c)
    BY <1>0, <1>1, CallTypes DEF SetDateStyle, Goto, TypeOK
  <1>2. CASE SetDateStyleFails(c)
    BY <1>2, AfterTyped, RefusedTyped DEF SetDateStyleFails, TypeOK
  <1>3. CASE RetryToken(c)
    BY <1>0, <1>3, UseTokenTyped, ReturnTyped, CallTypes DEF RetryToken, DoneTrouble, TypeOK
  <1>4. CASE Serve(c)
    <2>1. call' \in [Conns -> Call]
      BY <1>0, <1>4, CallTypes DEF Serve, TypeOK
    <2>2. cache' \in [Hosts -> Token \cup {NoToken}]
      BY <1>4 DEF Serve, TypeOK, Call
    <2> QED BY <1>4, <2>1, <2>2 DEF Serve, TypeOK
  <1>5. CASE Settings(c)
    BY <1>5, ConstantTypes, ReturnTyped, ConnTypes DEF Settings, Done, TypeOK
  <1>6. CASE SettingsFail(c)
    BY <1>0, <1>6, CallTypes, ReturnTyped, RefusedTyped DEF SettingsFail, DoneTrouble, TypeOK
  <1> QED BY <1>1, <1>2, <1>3, <1>4, <1>5, <1>6

LEMMA SayTyped ==
    ASSUME TypeOK, NEW c \in Conns, NEW told \in Told, Say(c, told) \/ SayLoss(c, told)
    PROVE  app' \in [Conns -> App]
  <1>1. [app[c] EXCEPT !.told = told] \in App /\ [app[c] EXCEPT !.told = told, !.lost = FALSE] \in App
    BY AppTypes DEF TypeOK
  <1> QED BY <1>1 DEF Say, SayLoss, TypeOK

LEMMA SetTransTyped ==
    ASSUME TypeOK, NEW c \in Conns, NEW b \in BOOLEAN, SetTrans(c, b)
    PROVE  conn' \in [Conns -> Conn] /\ srv' \in [Sessions -> Session]
  <1>1. conn[c].pq \in Sessions \cup {None}
    BY DEF TypeOK, Conn
  <1>2. [srv EXCEPT ![conn[c].pq].trans = b] \in [Sessions -> Session]
    BY <1>1, SessionTypes
  <1>3. [conn[c] EXCEPT !.trans = b] \in Conn
    BY ConnTypes DEF TypeOK
  <1> QED BY <1>2, <1>3 DEF SetTrans, TypeOK

LEMMA RunTyped ==
    ASSUME TypeOK, NEW c \in Conns,
           Run(c) \/ RunFails(c) \/ RunLost(c) \/ FailoverFails(c) \/ Failover(c)
    PROVE  TypeOK'
  <1>0. "failover" \in Pcs /\ Told = {"none", "error", "08S01", "08S02", "08007"}
    BY DEF Pcs, Told
  <1>1. conn[c].auto \in BOOLEAN /\ conn[c].trans \in BOOLEAN
    BY DEF TypeOK, Conn
  <1>2. CASE Run(c)
    <2>1. PICK b \in BOOLEAN : SetTrans(c, b)
      BY <1>1, <1>2 DEF Run
    <2> QED BY <1>0, <1>2, <2>1, SetTransTyped, SayTyped, ConstantTypes DEF Run, Done, TypeOK
  <1>3. CASE RunFails(c)
    <2>1. PICK b \in BOOLEAN : SetTrans(c, b)
      BY <1>1, <1>3 DEF RunFails
    <2>2. call' \in [Conns -> Call] /\ app' \in [Conns -> App]
      BY <1>0, <1>3, SayTyped, GotoTyped DEF RunFails, TypeOK
    <2> QED BY <1>3, <2>1, <2>2, SetTransTyped DEF RunFails, TypeOK
  <1>4. CASE RunLost(c)
    <2>1. call' \in [Conns -> Call] /\ app' \in [Conns -> App]
      BY <1>0, <1>4, SayTyped, GotoTyped DEF RunLost, TypeOK
    <2> QED BY <1>4, <2>1, DeadTyped DEF RunLost, TypeOK
  <1>5. CASE FailoverFails(c)
    BY <1>0, <1>5, SayTyped, ConstantTypes DEF FailoverFails, Done, TypeOK
  <1>6. CASE Failover(c)
    <2>1. NewSession \in Sessions /\ conn[c].pq \in Sessions \cup {None}
      BY <1>6, NewSessionFree DEF Failover, FreeSessions, TypeOK, Conn
    <2>2. TransAfter(c) \in BOOLEAN
      BY DEF TransAfter
    <2>3. app' \in [Conns -> App]
      BY <1>0, <1>6, SayTyped DEF Failover
    <2>4. [conn[c] EXCEPT !.pq = NewSession, !.status = "connected", !.trans = TransAfter(c)] \in Conn
      <3>1. conn[c] \in Conn
        BY DEF TypeOK
      <3> QED BY <2>1, <2>2, <3>1, ConnTypes
    <2>5. conn' \in [Conns -> Conn]
      BY <1>6, <2>4 DEF Failover, TypeOK
    <2>6. srv' \in [Sessions -> Session]
      BY <1>6, <2>1, SessionTypes DEF Failover
    <2> QED BY <1>6, <2>3, <2>5, <2>6, ConstantTypes DEF Failover, Done, TypeOK
  <1> QED BY <1>2, <1>3, <1>4, <1>5, <1>6

LEMMA AskTyped ==
    ASSUME TypeOK, NEW c \in Conns, Ask(c)
    PROVE  TypeOK'
  <1>0. /\ {"auth", "run", "failover"} \subseteq Pcs /\ Told = {"none", "error", "08S01", "08S02", "08007"}
        /\ conn[c] \in Conn /\ conn[c].pq \in Sessions \cup {None}
        /\ Finish(conn[c].pq) \in [Sessions -> Session]
    <2>1. {"auth", "run", "failover"} \subseteq Pcs
      BY DEF Pcs
    <2>2. conn[c] \in Conn /\ conn[c].pq \in Sessions \cup {None}
      BY DEF TypeOK, Conn
    <2> QED BY <2>1, <2>2, SessionTypes DEF Told
  <1>1. ASSUME NEW target \in Targets[c], Connect(c, target) PROVE TypeOK'
    <2>1. target \in Target /\ target.failover \in BOOLEAN
      BY ConnectAssumption DEF Target
    <2>2. (conn[c].status = "down") \in BOOLEAN
      OBVIOUS
    <2>3. [NoCall EXCEPT !.at = "auth", !.ci = target, !.trouble = (conn[c].status = "down")] \in Call
      BY <1>0, <2>1, <2>2, ConstantTypes, CallTypes
    <2>4. [app[c] EXCEPT !.told = "none"] \in App /\ [conn[c] EXCEPT !.failover = target.failover] \in Conn
      BY <1>0, <2>1, AppTypes, ConnTypes DEF TypeOK
    <2> QED BY <1>1, <2>3, <2>4 DEF Connect, TypeOK
  <1>2. ASSUME LostCheck(c) PROVE TypeOK'
    <2>1. [NoCall EXCEPT !.at = "failover"] \in Call
      BY <1>0, ConstantTypes, CallTypes
    <2> QED BY <1>0, <1>2, <2>1, SayTyped DEF LostCheck, TypeOK
  <1>3. ASSUME Execute(c) PROVE TypeOK'
    <2>1. [NoCall EXCEPT !.at = "run", !.by = "execute", !.wasIn = conn[c].trans] \in Call
      <3>1. conn[c].trans \in BOOLEAN
        BY <1>0 DEF Conn
      <3> QED BY <1>0, <3>1, ConstantTypes, CallTypes
    <2> QED BY <1>0, <1>3, <2>1, SayTyped DEF Execute, TypeOK
  <1>4. ASSUME Fetch(c) PROVE TypeOK'
    BY <1>0, <1>4, DeadTyped, SayTyped DEF Fetch, TypeOK
  <1>5. ASSUME EndTran(c) PROVE TypeOK'
    <2>1. app' \in [Conns -> App]
      BY <1>0, <1>5, SayTyped DEF EndTran
    <2>2. conn' \in [Conns -> Conn] /\ srv' \in [Sessions -> Session]
      BY <1>0, <1>5, DeadTyped, SetTransTyped DEF EndTran, TypeOK
    <2> QED BY <1>5, <2>1, <2>2 DEF EndTran, TypeOK
  <1>6. ASSUME SetAutocommit(c) PROVE TypeOK'
    <2> DEFINE set == [conn[c] EXCEPT !.public = ~conn[c].public, !.auto = ~conn[c].public]
    <2>1. set \in Conn /\ OnAbortDead(set) \in Conn /\ [set EXCEPT !.trans = FALSE] \in Conn
      <3>1. set \in Conn
        <4>1. (~conn[c].public) \in BOOLEAN
          OBVIOUS
        <4> QED BY <1>0, <4>1, ConnTypes
      <3> HIDE DEF set
      <3> QED BY <3>1, ConnTypes
    <2>2. app' \in [Conns -> App]
      BY <1>0, <1>6, SayTyped DEF SetAutocommit
    <2>3. [srv EXCEPT ![conn[c].pq].trans = FALSE] \in [Sessions -> Session]
      BY <1>0, SessionTypes
    <2>4. \/ conn' = [conn EXCEPT ![c] = OnAbortDead(set)] /\ srv' = Finish(conn[c].pq)
          \/ /\ conn' = [conn EXCEPT ![c] = [set EXCEPT !.trans = FALSE]]
             /\ srv' = [srv EXCEPT ![conn[c].pq].trans = FALSE]
          \/ conn' = [conn EXCEPT ![c] = set] /\ UNCHANGED srv
      BY <1>6 DEF SetAutocommit
    <2> HIDE DEF set
    <2>5. conn' \in [Conns -> Conn]
      BY <2>1, <2>4 DEF TypeOK
    <2> QED BY <1>0, <1>6, <2>2, <2>3, <2>4, <2>5 DEF SetAutocommit, TypeOK
  <1>7. ASSUME Disconnect(c) PROVE TypeOK'
    <2>1. Cleaned(conn[c]) \in Conn /\ [open |-> FALSE, told |-> "none", lost |-> FALSE] \in App
      BY <1>0, ConnTypes DEF App, Told
    <2> QED BY <1>0, <1>7, <2>1 DEF Disconnect, TypeOK
  <1>8. ASSUME FreeConnect(c) PROVE TypeOK'
    <2>1. [app[c] EXCEPT !.told = "none", !.lost = FALSE] \in App
      BY <1>0, AppTypes DEF TypeOK
    <2> QED BY <1>0, <1>8, <2>1, ConstantTypes DEF FreeConnect, TypeOK
  <1> QED BY <1>1, <1>2, <1>3, <1>4, <1>5, <1>6, <1>7, <1>8 DEF Ask

LEMMA WorldTyped ==
    ASSUME TypeOK, Expire \/ \E s \in Sessions : Lose(s)
    PROVE  TypeOK'
  <1>1. ASSUME NEW s \in Sessions, Lose(s) PROVE TypeOK'
    <2>1. [srv[s] EXCEPT !.st = "lost", !.trans = FALSE] \in Session
      BY DEF TypeOK, Session
    <2>2. srv' \in [Sessions -> Session]
      BY <1>1, <2>1, ConstantTypes DEF Lose, TypeOK
    <2>3. app' \in [Conns -> App]
      <3>1. \A c \in Conns : app[c] \in App /\ [app[c] EXCEPT !.lost = TRUE] \in App
        BY DEF TypeOK, App
      <3> QED BY <1>1, <3>1 DEF Lose
    <2> QED BY <1>1, <2>2, <2>3 DEF Lose, TypeOK
  <1>2. ASSUME Expire PROVE TypeOK'
    <2>1. cache' \in [Hosts -> Token \cup {NoToken}]
      BY <1>2 DEF Expire, TypeOK, Token
    <2>2. call' \in [Conns -> Call]
      <3>1. ASSUME NEW c \in Conns PROVE
               [call[c] EXCEPT !.tok = "dead", !.trouble = (call[c].trouble \/ call[c].tr = "generated")] \in Call
        <4>1. call[c] \in Call /\ (call[c].trouble \/ call[c].tr = "generated") \in BOOLEAN /\ "dead" \in Token
          BY DEF TypeOK, Token
        <4> QED BY <4>1 DEF Call
      <3> QED BY <1>2, <3>1 DEF Expire, TypeOK
    <2> QED BY <1>2, <2>1, <2>2 DEF Expire, TypeOK
  <1> QED BY <1>1, <1>2

LEMMA NextTyped == TypeOK /\ [Next]_vars => TypeOK'
  <1> SUFFICES ASSUME TypeOK, [Next]_vars PROVE TypeOK'
    OBVIOUS
  <1>1. CASE UNCHANGED vars
    BY <1>1 DEF vars, TypeOK
  <1>2. ASSUME NEW c \in Conns, Step(c) PROVE TypeOK'
    BY <1>2, AuthTyped, LoginTyped, SettingsTyped, RunTyped DEF Step
  <1> QED BY <1>1, <1>2, AskTyped, WorldTyped DEF Next

\* Handles, calls, token cache and sessions keep to the values that the code gives them,
\* in every interleaving of the calls on any number of handles.
THEOREM ConnectTyped == Spec => []TypeOK
  BY InitTyped, NextTyped, PTL DEF Spec

-----------------------------------------------------------------------------
(* Sessions.  What a handle holds depends on how far its call has come: the *)
(* inductive invariant says it per handle, since a step of one handle leaves *)
(* the others and their sessions alone.                                    *)

Connecting == {"auth", "limitless", "login", "set", "retry", "serve", "settings"}

Good(c) ==
    \* A session is needed, or is not there.
    /\ call[c].at \in {"set", "serve", "settings", "run"} => conn[c].pq # None
    /\ call[c].at = "failover" /\ call[c].by = "check" => conn[c].pq = None
    /\ call[c].at = "run" => call[c].by = "execute"
    \* Connecting is for closed handles, executing for open ones.
    /\ call[c].at \in Connecting => ~app[c].open
    /\ call[c].at \in {"run", "failover"} => app[c].open
    /\ conn[c].trans => app[c].open /\ conn[c].pq # None
    \* The session that a closed handle still has did not take the initial commands.
    /\ (call[c].at \in {"idle", "auth", "limitless", "login", "retry"} /\ ~app[c].open
            /\ conn[c].pq # None)
           => srv[conn[c].pq].refused \/ srv[conn[c].pq].st = "lost"

HeldInv == TypeOK /\ HeldOnce /\ \A c \in Conns : Good(c)

\* The step is one of handle c: the others are left alone,
Only(c) == \A d \in Conns \ {c} : conn'[d] = conn[d] /\ call'[d] = call[d] /\ app'[d] = app[d]
\* and of the sessions all but the one that it has, gives up or takes.
Touch(c) ==
    /\ conn'[c].pq \in {conn[c].pq, None} \cup FreeSessions
    /\ \A s \in Sessions \ {conn[c].pq, conn'[c].pq} : srv'[s] = srv[s]
    /\ conn'[c].pq # None => srv'[conn'[c].pq].st \in {"open", "lost"}
    /\ conn[c].pq \notin {None, conn'[c].pq}
           => srv'[conn[c].pq].st # "open" \/ srv'[conn[c].pq].refused

LEMMA HeldInit == Init => HeldInv
  <1> SUFFICES ASSUME Init PROVE HeldOnce /\ \A c \in Conns : Good(c)
    BY InitTyped DEF HeldInv
  <1>1. HeldOnce
    BY DEF Init, HeldOnce, FreshConn, Finished, Open
  <1>2. \A c \in Conns : Good(c)
    BY DEF Init, Good, FreshConn, NoCall, Connecting
  <1> QED BY <1>1, <1>2

\* What such a step owes the invariant is a good handle.
LEMMA HandleStep ==
    ASSUME HeldInv, NEW c \in Conns, TypeOK', Only(c), Touch(c), Good(c)'
    PROVE  HeldInv'
  <1>0. /\ \A d \in Conns : conn[d].pq \in Sessions \cup {None} /\ conn'[d].pq \in Sessions \cup {None}
        /\ Held = {conn[d].pq : d \in Conns} /\ Held' = {conn'[d].pq : d \in Conns}
    BY DEF HeldInv, TypeOK, Conn, Held
  <1>1. \A d \in Conns \ {c} : conn[d].pq # None => conn[d].pq \notin {conn[c].pq, conn'[c].pq}
    BY DEF Touch, HeldInv, HeldOnce, FreeSessions, Held
  <1>2. \A d \in Conns \ {c} : conn[d].pq # None => srv'[conn[d].pq] = srv[conn[d].pq]
    BY <1>0, <1>1 DEF Touch
  <1>3. \A d \in Conns \ {c} : Good(d)'
    BY <1>2 DEF HeldInv, Good, Only
  <1>4. HeldOnce'
    <2>1. \A d \in Conns : conn'[d].pq # None => srv'[conn'[d].pq].st \in {"open", "lost"}
      BY <1>2 DEF Only, Touch, HeldInv, HeldOnce
    <2>2. \A d, e \in Conns : d # e /\ conn'[d].pq # None => conn'[d].pq # conn'[e].pq
      BY <1>1 DEF Only, HeldInv, HeldOnce
    <2>3. ASSUME NEW s \in Sessions, srv'[s].st = "open", s \notin Held' PROVE srv'[s].refused
      <3>1. CASE s = conn[c].pq
        BY <1>0, <2>3, <3>1, ConstantTypes DEF Touch
      <3>2. CASE s # conn[c].pq
        <4>1. srv'[s] = srv[s] /\ s \notin Held
          BY <1>0, <2>3, <3>2 DEF Touch, Only
        <4> QED BY <2>3, <4>1 DEF HeldInv, HeldOnce, Open
      <3> QED BY <3>1, <3>2
    <2> QED BY <2>1, <2>2, <2>3 DEF HeldOnce, Open
  <1> QED BY <1>3, <1>4 DEF HeldInv

\* What a call that goes on, or returns, leaves of the call and of the handle.
LEMMA CallEffects ==
    ASSUME TypeOK, NEW c \in Conns
    PROVE  /\ \A pc \in Pcs : Goto(c, pc) => call'[c].at = pc /\ call'[c].by = call[c].by
           /\ Done(c) \/ DoneTrouble(c) => call'[c].at = "idle"
           /\ \A b \in BOOLEAN : [NoCall EXCEPT !.trouble = b].at = "idle"
           /\ \A told \in Told : Say(c, told) \/ SayLoss(c, told) => app'[c].open = app[c].open
           /\ \A ret \in {-1, 0, 1} : Return(c, ret) => app'[c].open \in BOOLEAN
  BY ConstantTypes DEF TypeOK, Goto, Done, DoneTrouble, Say, SayLoss, Return, NoCall, Call, App

LEMMA AfterEffects ==
    ASSUME TypeOK, NEW c \in Conns, NEW ret, AfterFailure(c, ret) \/ AfterTrouble(c, ret)
    PROVE  (call'[c].at = "retry" /\ app' = app) \/ call'[c].at = "idle"
  BY DEF TypeOK, AfterFailure, AfterTrouble, DoneTrouble, NoCall, Call

LEMMA DeadEffects ==
    ASSUME HeldInv, NEW c \in Conns, Dead(c)
    PROVE  Touch(c) /\ conn'[c].pq = None /\ ~conn'[c].trans
  <1>1. conn'[c].pq = None /\ ~conn'[c].trans
    BY DEF Dead, OnAbortDead, HeldInv, TypeOK, Conn
  <1>2. conn[c].pq \in Sessions \cup {None}
    BY DEF HeldInv, TypeOK, Conn
  <1> QED BY <1>1, <1>2, ConstantTypes DEF Touch, Dead, Finish, Finished, HeldInv, TypeOK

\* An initial command that is refused marks the session, unless that is lost.
LEMMA RefusedEffects ==
    ASSUME HeldInv, NEW c \in Conns, conn[c].pq # None,
           IF IsLost(c) THEN Dead(c)
           ELSE srv' = [srv EXCEPT ![conn[c].pq].refused = TRUE] /\ UNCHANGED conn
    PROVE  /\ Touch(c) /\ (conn'[c].trans => conn[c].trans)
           /\ conn'[c].pq # None => srv'[conn'[c].pq].refused
  <1>1. CASE IsLost(c)
    BY <1>1, DeadEffects
  <1>2. CASE ~IsLost(c)
    <2>1. conn[c].pq \in Sessions /\ srv[conn[c].pq] \in Session /\ srv[conn[c].pq].st \in {"open", "lost"}
      BY DEF HeldInv, TypeOK, Conn, HeldOnce
    <2>2. srv'[conn[c].pq].refused /\ srv'[conn[c].pq].st = srv[conn[c].pq].st
      BY <1>2, <2>1 DEF HeldInv, TypeOK, Session
    <2> QED BY <1>2, <2>1, <2>2 DEF Touch, HeldInv, TypeOK
  <1> QED BY <1>1, <1>2

\* The transaction bit changes on both sides.
LEMMA SetTransEffects ==
    ASSUME HeldInv, NEW c \in Conns, NEW b \in BOOLEAN, conn[c].pq # None, SetTrans(c, b)
    PROVE  /\ Touch(c) /\ conn'[c].pq = conn[c].pq /\ conn'[c].trans = b
           /\ srv'[conn[c].pq].refused = srv[conn[c].pq].refused /\ srv'[conn[c].pq].st = srv[conn[c].pq].st
           /\ srv'[conn[c].pq].trans = b
  <1>1. conn[c].pq \in Sessions /\ srv[conn[c].pq] \in Session /\ srv[conn[c].pq].st \in {"open", "lost"}
        /\ conn[c] \in Conn
    BY DEF HeldInv, TypeOK, Conn, HeldOnce
  <1>2. conn'[c].pq = conn[c].pq /\ conn'[c].trans = b
    BY <1>1 DEF SetTrans, HeldInv, TypeOK, Conn
  <1>3. srv'[conn[c].pq].st = srv[conn[c].pq].st /\ srv'[conn[c].pq].refused = srv[conn[c].pq].refused
        /\ srv'[conn[c].pq].trans = b
    BY <1>1 DEF SetTrans, HeldInv, TypeOK, Session
  <1> QED BY <1>1, <1>2, <1>3 DEF SetTrans, Touch, HeldInv, TypeOK

\* A session of its own is new.
LEMMA TakeEffects ==
    ASSUME HeldInv, NEW c \in Conns, FreeSessions # {}, conn'[c].pq = NewSession,
           \/ /\ srv' = [srv EXCEPT ![NewSession] = Opened]
              /\ conn[c].pq # None => srv[conn[c].pq].refused \/ srv[conn[c].pq].st = "lost"
           \/ srv' = [Finish(conn[c].pq) EXCEPT ![NewSession] = Opened]
    PROVE  Touch(c) /\ conn'[c].pq # None /\ srv'[conn'[c].pq] = Opened
  <1>1. /\ NewSession \in Sessions /\ NewSession \in FreeSessions /\ NewSession # conn[c].pq
        /\ NewSession # None /\ conn[c].pq \in Sessions \cup {None}
    BY NewSessionFree, ConstantTypes DEF FreeSessions, Held, HeldInv, TypeOK, Conn
  <1>2. /\ srv'[NewSession] = Opened
        /\ \A s \in Sessions \ {conn[c].pq, NewSession} : srv'[s] = srv[s]
        /\ conn[c].pq # None => \/ /\ srv'[conn[c].pq] = srv[conn[c].pq]
                                   /\ srv[conn[c].pq].refused \/ srv[conn[c].pq].st = "lost"
                                \/ srv'[conn[c].pq] = Finished
    BY <1>1 DEF Finish, HeldInv, TypeOK
  <1> QED BY <1>1, <1>2 DEF Touch, Opened, Finished

LEMMA AuthGood ==
    ASSUME HeldInv, NEW c \in Conns,
           AuthDatabase(c) \/ AuthSecret(c) \/ AuthSecretFails(c) \/ AuthToken(c)
    PROVE  Only(c) /\ Touch(c) /\ Good(c)'
  <1>0. /\ conn[c] \in Conn /\ call[c] \in Call /\ app[c] \in App /\ conn[c].pq \in Sessions \cup {None}
        /\ TypeOK /\ Good(c) /\ (conn[c].pq # None => srv[conn[c].pq].st \in {"open", "lost"})
    BY DEF HeldInv, TypeOK, Conn, HeldOnce
  <1>1. CASE AuthDatabase(c)
    <2>0. conn' = conn /\ srv' = srv /\ call'[c].at = "limitless" /\ app' = app
      BY <1>0, <1>1 DEF AuthDatabase, Goto, TypeOK, Call, App, Conn
    <2>1. Only(c)
      BY <1>1 DEF AuthDatabase, Goto, Only, HeldInv, TypeOK
    <2>2. Touch(c)
      BY <1>0, <1>1, <2>0 DEF Touch, HeldInv, TypeOK
    <2>3. Good(c)'
      BY <1>0, <1>1, <2>0, <2>2 DEF AuthDatabase, At, Good, Connecting
    <2> QED BY <2>1, <2>2, <2>3
  <1>2. CASE AuthSecret(c)
    <2>0. conn' = conn /\ srv' = srv /\ call'[c].at = "limitless" /\ app' = app
      BY <1>0, <1>2 DEF AuthSecret, TypeOK, Call, App, Conn
    <2>1. Only(c)
      BY <1>2 DEF AuthSecret, Only, HeldInv, TypeOK
    <2>2. Touch(c)
      BY <1>0, <1>2, <2>0 DEF Touch, HeldInv, TypeOK
    <2>3. Good(c)'
      BY <1>0, <1>2, <2>0, <2>2 DEF AuthSecret, At, Good, Connecting
    <2> QED BY <2>1, <2>2, <2>3
  <1>3. CASE AuthSecretFails(c)
    <2>0. conn' = conn /\ srv' = srv /\ call'[c].at = "idle"
      BY <1>0, <1>3 DEF AuthSecretFails, Return, DoneTrouble, NoCall, TypeOK, Call, App, Conn
    <2>1. Only(c)
      BY <1>3 DEF AuthSecretFails, Return, DoneTrouble, Only, HeldInv, TypeOK
    <2>2. Touch(c)
      BY <1>0, <1>3, <2>0 DEF Touch, HeldInv, TypeOK
    <2>3. Good(c)'
      BY <1>0, <1>3, <2>0, <2>2 DEF AuthSecretFails, At, Good, Connecting
    <2> QED BY <2>1, <2>2, <2>3
  <1>4. CASE AuthToken(c)
    <2>0. conn' = conn /\ srv' = srv /\ call'[c].at = "limitless" /\ app' = app
      BY <1>0, <1>4 DEF AuthToken, GetCached, Generate, GenerateFails, UseToken, TypeOK, Call, App, Conn
    <2>1. Only(c)
      BY <1>4 DEF AuthToken, GetCached, Generate, GenerateFails, UseToken, Only, HeldInv, TypeOK
    <2>2. Touch(c)
      BY <1>0, <1>4, <2>0 DEF Touch, HeldInv, TypeOK
    <2>3. Good(c)'
      BY <1>0, <1>4, <2>0, <2>2 DEF AuthToken, At, Good, Connecting
    <2> QED BY <2>1, <2>2, <2>3
  <1> QED BY <1>1, <1>2, <1>3, <1>4

LEMMA LoginGood ==
    ASSUME HeldInv, NEW c \in Conns,
           NotLimitless(c) \/ Limitless(c) \/ LimitlessFails(c) \/ InitialLog(c) \/ Login(c) \/ LoginFails(c)
    PROVE  Only(c) /\ Touch(c) /\ Good(c)'
  <1>0. /\ conn[c] \in Conn /\ call[c] \in Call /\ app[c] \in App /\ conn[c].pq \in Sessions \cup {None}
        /\ TypeOK /\ Good(c) /\ (conn[c].pq # None => srv[conn[c].pq].st \in {"open", "lost"})
    BY DEF HeldInv, TypeOK, Conn, HeldOnce
  <1>1. CASE NotLimitless(c)
    <2>0. conn' = conn /\ srv' = srv /\ call'[c].at = "login" /\ app' = app
      BY <1>0, <1>1 DEF NotLimitless, Goto, TypeOK, Call, App, Conn
    <2>1. Only(c)
      BY <1>1 DEF NotLimitless, Goto, Only, HeldInv, TypeOK
    <2>2. Touch(c)
      BY <1>0, <1>1, <2>0 DEF Touch, HeldInv, TypeOK
    <2>3. Good(c)'
      BY <1>0, <1>1, <2>0, <2>2 DEF NotLimitless, At, Good, Connecting
    <2> QED BY <2>1, <2>2, <2>3
  <1>2. CASE Limitless(c)
    <2>0. conn' = conn /\ srv' = srv /\ call'[c].at = "login" /\ app' = app
      BY <1>0, <1>2 DEF Limitless, TypeOK, Call, App, Conn
    <2>1. Only(c)
      BY <1>2 DEF Limitless, Only, HeldInv, TypeOK
    <2>2. Touch(c)
      BY <1>0, <1>2, <2>0 DEF Touch, HeldInv, TypeOK
    <2>3. Good(c)'
      BY <1>0, <1>2, <2>0, <2>2 DEF Limitless, At, Good, Connecting
    <2> QED BY <2>1, <2>2, <2>3
  <1>3. CASE LimitlessFails(c)
    <2>0. conn' = conn /\ srv' = srv /\ call'[c].at = "idle"
      BY <1>0, <1>3 DEF LimitlessFails, Return, DoneTrouble, NoCall, TypeOK, Call, App, Conn
    <2>1. Only(c)
      BY <1>3 DEF LimitlessFails, Return, DoneTrouble, Only, HeldInv, TypeOK
    <2>2. Touch(c)
      BY <1>0, <1>3, <2>0 DEF Touch, HeldInv, TypeOK
    <2>3. Good(c)'
      BY <1>0, <1>3, <2>0, <2>2 DEF LimitlessFails, At, Good, Connecting
    <2> QED BY <2>1, <2>2, <2>3
  <1>4. CASE InitialLog(c)
    <2>0. conn' = conn /\ srv' = srv /\ ((call'[c].at = "retry" /\ app' = app) \/ call'[c].at = "idle")
      BY <1>0, <1>4, AfterEffects DEF InitialLog, TypeOK, Call, App, Conn
    <2>1. Only(c)
      BY <1>4 DEF InitialLog, AfterTrouble, Return, DoneTrouble, Only, HeldInv, TypeOK
    <2>2. Touch(c)
      BY <1>0, <1>4, <2>0 DEF Touch, HeldInv, TypeOK
    <2>3. Good(c)'
      BY <1>0, <1>4, <2>0, <2>2 DEF InitialLog, At, Good, Connecting
    <2> QED BY <2>1, <2>2, <2>3
  <1>5. CASE Login(c)
    <2>0. call'[c].at = "set" /\ app' = app /\ conn'[c].pq = NewSession /\ conn'[c].trans = conn[c].trans
      BY <1>0, <1>5 DEF Login, Goto, TypeOK, Call, App, Conn
    <2>1. Only(c)
      BY <1>5 DEF Login, Goto, Only, HeldInv, TypeOK
    <2>2. Touch(c) /\ conn'[c].pq # None
      <3>1. conn[c].pq # None => srv[conn[c].pq].refused \/ srv[conn[c].pq].st = "lost"
        BY <1>0, <1>5 DEF Login, At, Good, Connecting
      <3> QED BY <1>5, <2>0, <3>1, TakeEffects DEF Login
    <2>3. Good(c)'
      BY <1>0, <1>5, <2>0, <2>2 DEF Login, At, Good, Connecting
    <2> QED BY <2>1, <2>2, <2>3
  <1>6. CASE LoginFails(c)
    <2>0. conn'[c].pq = None /\ conn'[c].trans = conn[c].trans /\ srv' = srv
          /\ ((call'[c].at = "retry" /\ app' = app) \/ call'[c].at = "idle")
      BY <1>0, <1>6, AfterEffects, CallEffects DEF LoginFails, TypeOK, Call, App, Conn
    <2>1. Only(c)
      BY <1>6 DEF LoginFails, AfterFailure, AfterTrouble, Return, DoneTrouble, Only, HeldInv, TypeOK
    <2>2. Touch(c)
      BY <1>0, <1>6, <2>0, ConstantTypes DEF Touch, HeldInv, TypeOK, At, Good, Connecting, LoginFails
    <2>3. Good(c)'
      BY <1>0, <1>6, <2>0, <2>2 DEF LoginFails, At, Good, Connecting
    <2> QED BY <2>1, <2>2, <2>3
  <1> QED BY <1>1, <1>2, <1>3, <1>4, <1>5, <1>6

LEMMA SettingsGood ==
    ASSUME HeldInv, NEW c \in Conns,
           SetDateStyle(c) \/ SetDateStyleFails(c) \/ RetryToken(c) \/ Serve(c) \/ Settings(c) \/ SettingsFail(c)
    PROVE  Only(c) /\ Touch(c) /\ Good(c)'
  <1>0. /\ conn[c] \in Conn /\ call[c] \in Call /\ app[c] \in App /\ conn[c].pq \in Sessions \cup {None}
        /\ TypeOK /\ Good(c) /\ (conn[c].pq # None => srv[conn[c].pq].st \in {"open", "lost"})
    BY DEF HeldInv, TypeOK, Conn, HeldOnce
  <1>1. CASE SetDateStyle(c)
    <2>0. conn' = conn /\ srv' = srv /\ call'[c].at \in {"serve", "settings"} /\ app' = app
      BY <1>0, <1>1 DEF SetDateStyle, Goto, TypeOK, Call, App, Conn
    <2>1. Only(c)
      BY <1>1 DEF SetDateStyle, Goto, Only, HeldInv, TypeOK
    <2>2. Touch(c)
      BY <1>0, <1>1, <2>0 DEF Touch, HeldInv, TypeOK
    <2>3. Good(c)'
      BY <1>0, <1>1, <2>0, <2>2 DEF SetDateStyle, At, Good, Connecting
    <2> QED BY <2>1, <2>2, <2>3
  <1>2. CASE SetDateStyleFails(c)
    <2>0. (call'[c].at = "retry" /\ app' = app) \/ call'[c].at = "idle"
      BY <1>0, <1>2, AfterEffects DEF SetDateStyleFails, TypeOK, Call, App, Conn
    <2>1. Only(c)
      BY <1>2 DEF SetDateStyleFails, AfterTrouble, Return, DoneTrouble, Dead, Only, HeldInv, TypeOK
    <2>4. /\ Touch(c) /\ (conn'[c].trans => conn[c].trans)
          /\ conn'[c].pq # None => srv'[conn'[c].pq].refused
      <3>1. conn[c].pq # None
        BY <1>0, <1>2 DEF SetDateStyleFails, At, Good
      <3> QED BY <1>2, <3>1, RefusedEffects DEF SetDateStyleFails
    <2>3. Good(c)'
      BY <1>0, <1>2, <2>0, <2>4 DEF SetDateStyleFails, At, Good, Connecting
    <2> QED BY <2>1, <2>3, <2>4
  <1>3. CASE RetryToken(c)
    <2>0. conn' = conn /\ srv' = srv /\ ((call'[c].at = "login" /\ app' = app) \/ call'[c].at = "idle")
      BY <1>0, <1>3 DEF RetryToken, Generate, UseToken, DoneTrouble, NoCall, TypeOK, Call, App, Conn
    <2>1. Only(c)
      BY <1>3 DEF RetryToken, Generate, UseToken, DoneTrouble, Return, Only, HeldInv, TypeOK
    <2>2. Touch(c)
      BY <1>0, <1>3, <2>0 DEF Touch, HeldInv, TypeOK
    <2>3. Good(c)'
      BY <1>0, <1>3, <2>0, <2>2 DEF RetryToken, At, Good, Connecting
    <2> QED BY <2>1, <2>2, <2>3
  <1>4. CASE Serve(c)
    <2>0. conn' = conn /\ srv' = srv /\ call'[c].at = "settings" /\ app' = app
      BY <1>0, <1>4 DEF Serve, TypeOK, Call, App, Conn
    <2>1. Only(c)
      BY <1>4 DEF Serve, Only, HeldInv, TypeOK
    <2>2. Touch(c)
      BY <1>0, <1>4, <2>0 DEF Touch, HeldInv, TypeOK
    <2>3. Good(c)'
      BY <1>0, <1>4, <2>0, <2>2 DEF Serve, At, Good, Connecting
    <2> QED BY <2>1, <2>2, <2>3
  <1>5. CASE Settings(c)
    <2>0. conn'[c].pq = conn[c].pq /\ conn'[c].trans = conn[c].trans /\ srv' = srv
          /\ call'[c].at = "idle" /\ app'[c].open
      BY <1>0, <1>5 DEF Settings, Done, NoCall, Return, ConnectResult, AsChar, TypeOK, Call, App, Conn
    <2>1. Only(c)
      BY <1>5 DEF Settings, Return, Done, Only, HeldInv, TypeOK
    <2>2. Touch(c)
      BY <1>0, <1>5, <2>0 DEF Touch, HeldInv, TypeOK
    <2>3. Good(c)'
      BY <1>0, <1>5, <2>0, <2>2 DEF Settings, At, Good, Connecting
    <2> QED BY <2>1, <2>2, <2>3
  <1>6. CASE SettingsFail(c)
    <2>0. call'[c].at = "idle"
      BY <1>0, <1>6 DEF SettingsFail, DoneTrouble, NoCall, TypeOK, Call, App, Conn
    <2>1. Only(c)
      BY <1>6 DEF SettingsFail, Return, DoneTrouble, Dead, Only, HeldInv, TypeOK
    <2>4. /\ Touch(c) /\ (conn'[c].trans => conn[c].trans)
          /\ conn'[c].pq # None => srv'[conn'[c].pq].refused
      <3>1. conn[c].pq # None
        BY <1>0, <1>6 DEF SettingsFail, At, Good
      <3> QED BY <1>6, <3>1, RefusedEffects DEF SettingsFail
    <2>3. Good(c)'
      BY <1>0, <1>6, <2>0, <2>4 DEF SettingsFail, At, Good, Connecting
    <2> QED BY <2>1, <2>3, <2>4
  <1> QED BY <1>1, <1>2, <1>3, <1>4, <1>5, <1>6

LEMMA RunGood ==
    ASSUME HeldInv, NEW c \in Conns,
           Run(c) \/ RunFails(c) \/ RunLost(c) \/ FailoverFails(c) \/ Failover(c)
    PROVE  Only(c) /\ Touch(c) /\ Good(c)'
  <1>0. /\ conn[c] \in Conn /\ call[c] \in Call /\ app[c] \in App /\ conn[c].pq \in Sessions \cup {None}
        /\ TypeOK /\ Good(c) /\ (conn[c].pq # None => srv[conn[c].pq].st \in {"open", "lost"})
    BY DEF HeldInv, TypeOK, Conn, HeldOnce
  <1>1. CASE Run(c)
    <2>0. call'[c].at = "idle" /\ app'[c].open = app[c].open
      BY <1>0, <1>1 DEF Run, Done, NoCall, Say, TypeOK, Call, App, Conn
    <2>1. Only(c)
      BY <1>1 DEF Run, SetTrans, Say, Done, Only, HeldInv, TypeOK
    <2>4. PICK b \in BOOLEAN : SetTrans(c, b)
      BY <1>0, <1>1 DEF Run, Conn
    <2>5. conn[c].pq # None
      BY <1>0, <1>1 DEF Run, At, Good
    <2>6. Touch(c) /\ conn'[c].pq = conn[c].pq /\ conn'[c].trans = b
      BY <2>4, <2>5, SetTransEffects
    <2>3. Good(c)'
      BY <1>0, <1>1, <2>0, <2>5, <2>6 DEF Run, At, Good, Connecting
    <2> QED BY <2>1, <2>3, <2>6
  <1>2. CASE RunFails(c)
    <2>0. /\ call'[c].at = "idle" \/ (call'[c].at = "failover" /\ call'[c].by = call[c].by)
          /\ app'[c].open = app[c].open
      <3>1. CASE Done(c) /\ Say(c, "error")
        <4>1. "error" \in Told
          BY DEF Told
        <4> QED BY <1>0, <3>1, <4>1, CallEffects
      <3>2. CASE Goto(c, "failover") /\ UNCHANGED app
        <4>1. "failover" \in Pcs
          BY DEF Pcs
        <4> QED BY <1>0, <3>2, <4>1, CallEffects
      <3> QED BY <1>2, <3>1, <3>2 DEF RunFails
    <2>1. Only(c)
      BY <1>2 DEF RunFails, SetTrans, Say, Done, Goto, Only, HeldInv, TypeOK
    <2>4. PICK b \in BOOLEAN : SetTrans(c, b)
      BY <1>0, <1>2 DEF RunFails, Conn
    <2>5. conn[c].pq # None
      BY <1>0, <1>2 DEF RunFails, At, Good
    <2>6. Touch(c) /\ conn'[c].pq = conn[c].pq /\ conn'[c].trans = b
      BY <2>4, <2>5, SetTransEffects
    <2>3. Good(c)'
      BY <1>0, <1>2, <2>0, <2>5, <2>6 DEF RunFails, At, Good, Connecting
    <2> QED BY <2>1, <2>3, <2>6
  <1>3. CASE RunLost(c)
    <2>0. call'[c].at \in {"idle", "failover"} /\ app'[c].open = app[c].open
      BY <1>0, <1>3 DEF RunLost, Done, Goto, NoCall, Say, TypeOK, Call, App, Conn
    <2>1. Only(c)
      BY <1>3 DEF RunLost, Dead, Say, Done, Goto, Only, HeldInv, TypeOK
    <2>2. Touch(c) /\ conn'[c].pq = None /\ ~conn'[c].trans
      BY <1>3, DeadEffects DEF RunLost
    <2>3. Good(c)'
      BY <1>0, <1>3, <2>0, <2>2 DEF RunLost, At, Good, Connecting
    <2> QED BY <2>1, <2>2, <2>3
  <1>4. CASE FailoverFails(c)
    <2>0. conn' = conn /\ srv' = srv /\ call'[c].at = "idle" /\ app'[c].open = app[c].open
      BY <1>0, <1>4 DEF FailoverFails, Done, NoCall, Say, SayLoss, TypeOK, Call, App, Conn
    <2>1. Only(c)
      BY <1>4 DEF FailoverFails, Say, SayLoss, Done, Only, HeldInv, TypeOK
    <2>2. Touch(c)
      BY <1>0, <1>4, <2>0 DEF Touch, HeldInv, TypeOK
    <2>3. Good(c)'
      BY <1>0, <1>4, <2>0, <2>2 DEF FailoverFails, At, Good, Connecting
    <2> QED BY <2>1, <2>2, <2>3
  <1>5. CASE Failover(c)
    <2>0. call'[c].at = "idle" /\ app'[c].open = app[c].open /\ conn'[c].pq = NewSession
      BY <1>0, <1>5 DEF Failover, Done, NoCall, Say, SayLoss, TypeOK, Call, App, Conn
    <2>1. Only(c)
      BY <1>5 DEF Failover, Say, SayLoss, Done, Only, HeldInv, TypeOK
    <2>2. Touch(c) /\ conn'[c].pq # None
      BY <1>5, <2>0, TakeEffects DEF Failover
    <2>3. Good(c)'
      BY <1>0, <1>5, <2>0, <2>2 DEF Failover, At, Good, Connecting
    <2> QED BY <2>1, <2>2, <2>3
  <1> QED BY <1>1, <1>2, <1>3, <1>4, <1>5

LEMMA AskGood ==
    ASSUME HeldInv, NEW c \in Conns, Ask(c)
    PROVE  Only(c) /\ Touch(c) /\ Good(c)'
  <1>0. /\ conn[c] \in Conn /\ call[c] \in Call /\ app[c] \in App /\ conn[c].pq \in Sessions \cup {None}
        /\ TypeOK /\ Good(c) /\ (conn[c].pq # None => srv[conn[c].pq].st \in {"open", "lost"})
    BY DEF HeldInv, TypeOK, Conn, HeldOnce
  <1>1. ASSUME NEW target \in Targets[c], Connect(c, target) PROVE Only(c) /\ Touch(c) /\ Good(c)'
    <2>0. conn'[c].pq = conn[c].pq /\ conn'[c].trans = conn[c].trans /\ srv' = srv /\ call'[c].at = "auth"
          /\ app'[c].open = app[c].open
      BY <1>0, <1>1 DEF Connect, NoCall, TypeOK, Call, App, Conn
    <2>1. Only(c)
      BY <1>1 DEF Connect, Only, HeldInv, TypeOK
    <2>2. Touch(c)
      BY <1>0, <2>0, ConstantTypes DEF Touch
    <2>3. Good(c)'
      BY <1>0, <1>1, <2>0 DEF Connect, At, Good, Connecting
    <2> QED BY <2>1, <2>2, <2>3
  <1>2. CASE LostCheck(c)
    <2>0. conn' = conn /\ srv' = srv /\ app'[c].open = app[c].open
          /\ (call' = call \/ (call'[c].at = "failover" /\ call'[c].by = "check"))
      <3>1. Say(c, "none") \/ SayLoss(c, "08S01")
        BY <1>2 DEF LostCheck
      <3>2. app'[c].open = app[c].open
        BY <1>0, <3>1 DEF Say, SayLoss, TypeOK, App
      <3>3. call' = call \/ (call'[c].at = "failover" /\ call'[c].by = "check")
        BY <1>0, <1>2 DEF LostCheck, NoCall, TypeOK
      <3> QED BY <1>2, <3>2, <3>3 DEF LostCheck
    <2>1. Only(c)
      BY <1>2 DEF LostCheck, Say, SayLoss, Only, HeldInv, TypeOK
    <2>2. Touch(c)
      BY <1>0, <2>0, ConstantTypes DEF Touch
    <2>3. Good(c)'
      BY <1>0, <1>2, <2>0 DEF LostCheck, At, Good, Connecting
    <2> QED BY <2>1, <2>2, <2>3
  <1>3. CASE Execute(c)
    <2>0. conn' = conn /\ srv' = srv /\ app'[c].open = app[c].open
          /\ call'[c].at = "run" /\ call'[c].by = "execute"
      BY <1>0, <1>3 DEF Execute, Say, NoCall, TypeOK, Call, App, Conn
    <2>1. Only(c)
      BY <1>3 DEF Execute, Say, Only, HeldInv, TypeOK
    <2>2. Touch(c)
      BY <1>0, <2>0, ConstantTypes DEF Touch
    <2>3. Good(c)'
      BY <1>0, <1>3, <2>0 DEF Execute, At, Good, Connecting
    <2> QED BY <2>1, <2>2, <2>3
  <1>4. CASE Fetch(c)
    <2>0. call' = call /\ app'[c].open = app[c].open
      BY <1>0, <1>4, ZenonT(40) DEF Fetch, Say, TypeOK, App
    <2>1. Only(c)
      BY <1>4 DEF Fetch, Say, Dead, Only, HeldInv, TypeOK
    <2>2. CASE IsLost(c)
      <3>1. Touch(c) /\ conn'[c].pq = None /\ ~conn'[c].trans
        BY <1>4, <2>2, DeadEffects DEF Fetch
      <3> QED BY <1>0, <1>4, <2>0, <2>1, <3>1 DEF Fetch, At, Good, Connecting
    <2>3. CASE ~IsLost(c)
      <3>1. Touch(c) /\ conn' = conn /\ srv' = srv
        BY <1>0, <1>4, <2>3, ConstantTypes DEF Fetch, Touch
      <3> QED BY <1>0, <1>4, <2>0, <2>1, <3>1 DEF Fetch, At, Good, Connecting
    <2> QED BY <2>2, <2>3
  <1>5. CASE EndTran(c)
    <2>0. call' = call /\ app'[c].open = app[c].open
      <3>1. PICK told \in Told : Say(c, told) \/ SayLoss(c, told)
        BY <1>5 DEF EndTran, Told
      <3>2. app'[c].open = app[c].open
        BY <1>0, <3>1, CallEffects
      <3> QED BY <1>5, <3>2 DEF EndTran
    <2>1. Only(c)
      BY <1>5 DEF EndTran, Say, SayLoss, Dead, SetTrans, Only, HeldInv, TypeOK
    <2>2. CASE ~conn[c].trans
      <3>1. Touch(c) /\ conn' = conn /\ srv' = srv
        BY <1>0, <1>5, <2>2, ConstantTypes DEF EndTran, Touch
      <3> QED BY <1>0, <1>5, <2>0, <2>1, <3>1 DEF EndTran, At, Good, Connecting
    <2>3. CASE conn[c].trans /\ IsLost(c)
      <3>1. Touch(c) /\ conn'[c].pq = None /\ ~conn'[c].trans
        BY <1>5, <2>3, DeadEffects DEF EndTran
      <3> QED BY <1>0, <1>5, <2>0, <2>1, <3>1 DEF EndTran, At, Good, Connecting
    <2>4. CASE conn[c].trans /\ ~IsLost(c)
      <3>1. conn[c].pq # None
        BY <1>0, <2>4 DEF Good
      <3>2. Touch(c) /\ conn'[c].pq = conn[c].pq /\ ~conn'[c].trans
        BY <1>5, <2>4, <3>1, SetTransEffects DEF EndTran
      <3> QED BY <1>0, <1>5, <2>0, <2>1, <3>1, <3>2 DEF EndTran, At, Good, Connecting
    <2> QED BY <2>2, <2>3, <2>4
  <1>6. CASE SetAutocommit(c)
    <2> DEFINE on == ~conn[c].public
               set == [conn[c] EXCEPT !.public = on, !.auto = on]
               commits == conn[c].auto # on /\ conn[c].trans
    <2>0. call' = call /\ app'[c].open = app[c].open
      BY <1>0, <1>6 DEF SetAutocommit, Say, TypeOK, App
    <2>1. Only(c)
      BY <1>6 DEF SetAutocommit, Say, Only, HeldInv, TypeOK
    <2>2. set.pq = conn[c].pq /\ set.trans = conn[c].trans /\ set \in Conn
      BY <1>0 DEF Conn
    <2>3. CASE commits /\ IsLost(c)
      <3>1. conn' = [conn EXCEPT ![c] = OnAbortDead(set)] /\ srv' = Finish(conn[c].pq)
        BY <1>6, <2>3 DEF SetAutocommit
      <3> HIDE DEF set
      <3>2. conn'[c].pq = None /\ ~conn'[c].trans
        BY <2>2, <3>1 DEF OnAbortDead, HeldInv, TypeOK, Conn
      <3>3. Touch(c)
        BY <1>0, <3>1, <3>2, ConstantTypes DEF Touch, Finish, Finished, HeldInv, TypeOK
      <3> QED BY <1>0, <1>6, <2>0, <2>1, <3>2, <3>3 DEF SetAutocommit, At, Good, Connecting
    <2>4. CASE commits /\ ~IsLost(c)
      <3>1. conn' = [conn EXCEPT ![c] = [set EXCEPT !.trans = FALSE]]
            /\ srv' = [srv EXCEPT ![conn[c].pq].trans = FALSE]
        BY <1>6, <2>4 DEF SetAutocommit
      <3>2. conn[c].pq # None /\ app[c].open
        BY <1>0, <2>4 DEF Good
      <3> HIDE DEF set
      <3>3. conn'[c].pq = conn[c].pq /\ ~conn'[c].trans
        BY <2>2, <3>1 DEF HeldInv, TypeOK, Conn
      <3>4. srv'[conn[c].pq].st = srv[conn[c].pq].st
        BY <1>0, <3>1, <3>2 DEF HeldInv, TypeOK, Session
      <3>5. Touch(c)
        BY <1>0, <3>1, <3>2, <3>3, <3>4 DEF Touch, HeldInv, TypeOK
      <3> QED BY <1>0, <1>6, <2>0, <2>1, <3>2, <3>3, <3>5 DEF SetAutocommit, At, Good, Connecting
    <2>5. CASE ~commits
      <3>1. conn' = [conn EXCEPT ![c] = set] /\ srv' = srv
        BY <1>6, <2>5 DEF SetAutocommit
      <3> HIDE DEF set
      <3>2. conn'[c].pq = conn[c].pq /\ conn'[c].trans = conn[c].trans
        BY <2>2, <3>1 DEF HeldInv, TypeOK
      <3>3. Touch(c)
        BY <1>0, <3>1, <3>2, ConstantTypes DEF Touch
      <3> QED BY <1>0, <1>6, <2>0, <2>1, <3>1, <3>2, <3>3 DEF SetAutocommit, At, Good, Connecting
    <2> QED BY <2>3, <2>4, <2>5
  <1>7. ASSUME Disconnect(c) \/ FreeConnect(c) PROVE Only(c) /\ Touch(c) /\ Good(c)'
    <2>0. call' = call /\ conn'[c].pq = None /\ ~conn'[c].trans /\ ~app'[c].open /\ At(c, "idle")
          /\ srv' = Finish(conn[c].pq)
      BY <1>0, <1>7, SMTT(30) DEF Disconnect, FreeConnect, Cleaned, FreshConn, TypeOK, App, Conn
    <2>1. Only(c)
      BY <1>7 DEF Disconnect, FreeConnect, Only, HeldInv, TypeOK
    <2>2. Touch(c)
      BY <1>0, <2>0, ConstantTypes DEF Touch, Finish, Finished, HeldInv, TypeOK
    <2>3. Good(c)'
      BY <2>0 DEF At, Good, Connecting
    <2> QED BY <2>1, <2>2, <2>3
  <1> QED BY <1>1, <1>2, <1>3, <1>4, <1>5, <1>6, <1>7 DEF Ask

\* A session that is lost stays under its handle; one that no handle has just ends.
LEMMA LoseHeld ==
    ASSUME HeldInv, NEW s \in Sessions, Lose(s)
    PROVE  HeldInv'
  <1>0. TypeOK' /\ conn' = conn /\ call' = call
    BY WorldTyped DEF HeldInv, Lose
  <1>1. /\ \A r \in Sessions \ {s} : srv'[r] = srv[r]
        /\ s \in Held => srv'[s].st = "lost"
        /\ s \notin Held => srv'[s].st = "finished"
    BY DEF Lose, Finished, HeldInv, TypeOK, Session
  <1>2. \A c \in Conns : app'[c].open = app[c].open
    BY DEF Lose, HeldInv, TypeOK, App
  <1>3. \A c \in Conns : conn[c].pq \in Sessions \cup {None}
    BY DEF HeldInv, TypeOK, Conn
  <1>4. HeldOnce'
    BY <1>0, <1>1, <1>3 DEF HeldInv, HeldOnce, Open, Held
  <1>5. \A c \in Conns : Good(c)'
    BY <1>0, <1>1, <1>2, <1>3 DEF HeldInv, Good, Held
  <1> QED BY <1>0, <1>4, <1>5 DEF HeldInv

LEMMA ExpireEffects ==
    ASSUME TypeOK, Expire, NEW c \in Conns
    PROVE  call'[c].at = call[c].at /\ call'[c].by = call[c].by
  <1>1. CASE UNCHANGED call
    BY <1>1
  <1>2. ASSUME NEW d \in Conns,
               call' = [call EXCEPT ![d].tok = "dead", ![d].trouble = @ \/ call[d].tr = "generated"]
        PROVE  call'[c].at = call[c].at /\ call'[c].by = call[c].by
    <2>1. call[c] \in Call
      BY DEF TypeOK
    <2> QED BY <1>2, <2>1 DEF TypeOK, Call
  <1> QED BY <1>1, <1>2 DEF Expire

LEMMA ExpireHeld ==
    ASSUME HeldInv, Expire
    PROVE  HeldInv'
  <1>0. TypeOK' /\ conn' = conn /\ app' = app /\ srv' = srv
    BY WorldTyped DEF HeldInv, Expire
  <1>1. \A c \in Conns : call'[c].at = call[c].at /\ call'[c].by = call[c].by
    BY ExpireEffects DEF HeldInv
  <1>2. HeldOnce'
    BY <1>0 DEF HeldInv, HeldOnce, Open, Held
  <1>3. \A c \in Conns : Good(c)'
    BY <1>0, <1>1 DEF HeldInv, Good
  <1> QED BY <1>0, <1>2, <1>3 DEF HeldInv

LEMMA HeldNext == HeldInv /\ [Next]_vars => HeldInv'
  <1> SUFFICES ASSUME HeldInv, [Next]_vars PROVE HeldInv'
    OBVIOUS
  <1>0. TypeOK'
    BY NextTyped DEF HeldInv
  <1>1. CASE UNCHANGED vars
    BY <1>0, <1>1 DEF vars, HeldInv, HeldOnce, Open, Held, Good
  <1>2. ASSUME NEW c \in Conns, Step(c) PROVE HeldInv'
    <2>1. Only(c) /\ Touch(c) /\ Good(c)'
      BY <1>2, AuthGood, LoginGood, SettingsGood, RunGood DEF Step
    <2> QED BY <1>0, <2>1, HandleStep
  <1>3. ASSUME NEW c \in Conns, Ask(c) PROVE HeldInv'
    BY <1>0, <1>3, AskGood, HandleStep
  <1> QED BY <1>1, <1>2, <1>3, LoseHeld, ExpireHeld DEF Next

LEMMA HeldAlways == Spec => []HeldInv
  BY HeldInit, HeldNext, PTL DEF Spec

\* However many handles connect, fail over, disconnect and lose their sessions at once,
\* no session is under two handles, no handle keeps one that it has closed, and the only
\* sessions left open without a handle are those that LIBPQ_connect overwrote after
\* they had refused an initial command.
THEOREM HeldOnceAlways == Spec => []HeldOnce
  BY HeldAlways, PTL DEF HeldInv

\* A failover ends in a new session with no transaction in it, and 08007 is said only
\* when a transaction was open before the failing call.
THEOREM FailoverTruthAlways == Spec => FailoverTruth
  <1> DEFINE Truth == \A c \in Conns : At(c, "failover") /\ call'[c].at = "idle"
             /\ app'[c].told \in {"08S02", "08007"} =>
          /\ conn'[c].status = "connected" /\ conn'[c].pq # None
          /\ srv'[conn'[c].pq].st = "open" /\ ~srv'[conn'[c].pq].trans
          /\ app'[c].told = "08007" => call[c].wasIn
  <1>1. HeldInv /\ [Next]_vars => [Truth]_vars
    <2> SUFFICES ASSUME HeldInv, Next, NEW c \in Conns, At(c, "failover"), call'[c].at = "idle",
                        app'[c].told \in {"08S02", "08007"}
                 PROVE  /\ conn'[c].status = "connected" /\ conn'[c].pq # None
                        /\ srv'[conn'[c].pq].st = "open" /\ ~srv'[conn'[c].pq].trans
                        /\ app'[c].told = "08007" => call[c].wasIn
      OBVIOUS
    <2>0. call[c] \in Call /\ app[c] \in App /\ conn[c] \in Conn /\ Good(c)
      BY DEF HeldInv, TypeOK
    <2>1. Failover(c)
      <3>1. ASSUME NEW d \in Conns, Step(d) \/ Ask(d), d # c PROVE FALSE
        <4>1. Only(d)
          BY <3>1, AuthGood, LoginGood, SettingsGood, RunGood, AskGood DEF Step
        <4> QED BY <3>1, <4>1 DEF Only, At
      <3>2. Step(c) \/ Ask(c)
        <4>1. ~Expire
          BY ExpireEffects DEF HeldInv, At
        <4>2. ASSUME NEW s \in Sessions, Lose(s) PROVE FALSE
          BY <4>2 DEF Lose, At
        <4> QED BY <3>1, <4>1, <4>2 DEF Next
      <3>3. ~FailoverFails(c)
        BY <2>0 DEF FailoverFails, Say, SayLoss, HeldInv, TypeOK, App
      <3>4. ~Ask(c)
        BY DEF Ask, Connect, LostCheck, Execute, Fetch, EndTran, SetAutocommit, Disconnect, FreeConnect, At
      <3> QED BY <3>2, <3>3, <3>4 DEF Step, AuthDatabase, AuthSecret, AuthSecretFails, AuthToken, NotLimitless,
            Limitless, LimitlessFails, InitialLog, Login, LoginFails, SetDateStyle, SetDateStyleFails,
            RetryToken, Serve, Settings, SettingsFail, Run, RunFails, RunLost, At
    <2>2. NewSession \in Sessions /\ NewSession # None
      BY <2>1, NewSessionFree, ConstantTypes DEF Failover, FreeSessions
    <2>3. conn'[c].status = "connected" /\ conn'[c].pq = NewSession
      BY <2>0, <2>1 DEF Failover, HeldInv, TypeOK, Conn
    <2>4. srv'[NewSession] = Opened
      <3>1. Finish(conn[c].pq) \in [Sessions -> Session]
        BY <2>0, SessionTypes DEF HeldInv, Conn
      <3> QED BY <2>1, <2>2, <3>1 DEF Failover
    <2>5. app'[c].told = "08007" => InTransaction(c)
      BY <2>0, <2>1 DEF Failover, SayLoss, HeldInv, TypeOK, App
    <2>6. InTransaction(c) => call[c].wasIn
      BY <2>0 DEF InTransaction, Good, At, Call
    <2> QED BY <2>2, <2>3, <2>4, <2>5, <2>6 DEF Opened
  <1>2. Spec => [][Truth]_vars
    BY <1>1, HeldAlways, PTL DEF Spec
  <1> QED BY <1>2 DEF FailoverTruth

-----------------------------------------------------------------------------
(* Tokens.  Why a call gives up: the invariant follows the token that the  *)
(* call carries from where it came by it to the server's verdict.          *)

\* Tokens are asked for under names that AWS knows: for a custom name the connection
\* string gives the host to use (Iam_Host).
KnownNames ==
    \A c \in Conns : \A t \in Targets[c] :
        t.mode = "token" => (IF t.iam # NoHost THEN t.iam ELSE t.server) # "alias"

Tok(c) ==
    /\ call[c].ci.mode = "token" => TokenHost(c) # "alias"
    /\ call[c].tr # "none" => call[c].ci.mode = "token"
    /\ call[c].at = "retry" => call[c].tr = "cached"
    /\ call[c].at \in Connecting /\ ~call[c].trouble =>
           /\ call[c].tok # NoToken => call[c].password = "token" /\ call[c].tr \in {"cached", "generated"}
           /\ call[c].tr = "generated" => call[c].tok # "dead"

\* The call of handle c does not give up for nothing.
Fair(c) ==
    call[c].at \in Pcs \ {"idle", "run", "failover"} /\ call'[c].at = "idle" /\ app'[c].told = "error"
        => call'[c].trouble

LEMMA TokInit == Init => \A c \in Conns : Tok(c)
  BY DEF Init, Tok, NoCall, NoTarget, Connecting

\* A call that ends carries no token.
LEMMA EndedTok ==
    ASSUME TypeOK, NEW c \in Conns
    PROVE  /\ Done(c) => call'[c].at = "idle" /\ Tok(c)'
           /\ DoneTrouble(c) => call'[c].at = "idle" /\ Tok(c)' /\ call'[c].trouble
           /\ call' = [call EXCEPT ![c] = [NoCall EXCEPT !.trouble = call[c].trouble]] =>
                  call'[c].at = "idle" /\ Tok(c)' /\ call'[c].trouble = call[c].trouble
  <1>1. Done(c) => call'[c].at = "idle" /\ Tok(c)'
    BY DEF Done, NoCall, NoTarget, Tok, Connecting, TypeOK
  <1>2. DoneTrouble(c) => call'[c].at = "idle" /\ Tok(c)' /\ call'[c].trouble
    BY DEF DoneTrouble, NoCall, NoTarget, Tok, Connecting, TypeOK
  <1>3. ASSUME call' = [call EXCEPT ![c] = [NoCall EXCEPT !.trouble = call[c].trouble]]
        PROVE  call'[c].at = "idle" /\ Tok(c)' /\ call'[c].trouble = call[c].trouble
    BY <1>3 DEF NoCall, NoTarget, Tok, Connecting, TypeOK
  <1> QED BY <1>1, <1>2, <1>3

\* A call that goes on with the token it has
LEMMA TokKept ==
    ASSUME NEW c \in Conns, Tok(c),
           call'[c].tok = call[c].tok, call'[c].tr = call[c].tr, call'[c].ci = call[c].ci,
           call'[c].password = call[c].password,
           call'[c].at = "retry" => call[c].tr = "cached",
           \/ call[c].at \in Connecting /\ (call[c].trouble => call'[c].trouble)
           \/ call'[c].at \notin Connecting
    PROVE  Tok(c)'
  BY DEF Tok, TokenHost

LEMMA GotoTok ==
    ASSUME TypeOK, NEW c \in Conns, Tok(c), NEW pc \in Pcs \ {"idle", "retry"}, Goto(c, pc),
           call[c].at \in Connecting \/ pc \notin Connecting
    PROVE  Tok(c)' /\ Fair(c)
  <1>1. /\ call'[c].tok = call[c].tok /\ call'[c].tr = call[c].tr /\ call'[c].ci = call[c].ci
        /\ call'[c].password = call[c].password /\ call'[c].trouble = call[c].trouble /\ call'[c].at = pc
    BY DEF Goto, TypeOK, Call
  <1> QED BY <1>1, TokKept DEF Fair

\* An attempt that failed through the fault of something else
LEMMA TroubleTok ==
    ASSUME TypeOK, NEW c \in Conns, Tok(c), call[c].at \in Connecting, NEW ret, AfterTrouble(c, ret)
    PROVE  Tok(c)' /\ Fair(c)
  <1>1. CASE call[c].tr = "cached"
    <2>1. /\ call'[c].tok = call[c].tok /\ call'[c].tr = call[c].tr /\ call'[c].ci = call[c].ci
          /\ call'[c].password = call[c].password /\ call'[c].trouble /\ call'[c].at = "retry"
      BY <1>1 DEF AfterTrouble, TypeOK, Call
    <2> QED BY <1>1, <2>1, TokKept DEF Fair
  <1>2. CASE call[c].tr # "cached"
    BY <1>2, EndedTok DEF AfterTrouble, Fair
  <1> QED BY <1>1, <1>2

\* A token is taken from the cache or made anew.
LEMMA UseTokenTok ==
    ASSUME TypeOK, NEW c \in Conns, Tok(c), call[c].ci.mode = "token", NEW pc \in Connecting \ {"retry"},
           GetCached(c, pc) \/ Generate(c, pc) \/ GenerateFails(c, pc)
    PROVE  Tok(c)' /\ Fair(c)
  <1>0. call[c] \in Call
    BY DEF TypeOK
  <1>1. PICK t \in Token \cup {NoToken}, tr \in {"cached", "generated", "failure"} :
           UseToken(c, t, tr, pc) /\ (tr = "generated" => t = "good")
    <2>1. TokenHost(c) # "alias"
      BY DEF Tok
    <2>2. GetCached(c, pc) => cache[TokenHost(c)] \in Token \cup {NoToken}
      BY <1>0 DEF TokenHost, GetCached, TypeOK, Call, Target
    <2> QED BY <2>1, <2>2 DEF GetCached, Generate, GenerateFails, Token
  <1>2. /\ call'[c].tok = t /\ call'[c].tr = tr /\ call'[c].ci = call[c].ci
        /\ call'[c].password = "token" /\ call'[c].trouble = (call[c].trouble \/ tr = "failure")
        /\ call'[c].at = pc
    BY <1>0, <1>1 DEF UseToken, TypeOK, Call
  <1>3. tr = "failure" => call'[c].trouble
    BY <1>2
  <1>4. Tok(c)'
    BY <1>1, <1>2, <1>3 DEF Tok, TokenHost
  <1> QED BY <1>2, <1>4 DEF Fair, Connecting

LEMMA AuthTok ==
    ASSUME TypeOK, NEW c \in Conns, Tok(c),
           AuthDatabase(c) \/ AuthSecret(c) \/ AuthSecretFails(c) \/ AuthToken(c)
    PROVE  Tok(c)' /\ Fair(c)
  <1>0. call[c].at = "auth" /\ "auth" \in Connecting /\ "limitless" \in Connecting \ {"retry"} /\ "limitless" \in Pcs \ {"idle", "retry"}
        /\ call[c] \in Call
    BY DEF AuthDatabase, AuthSecret, AuthSecretFails, AuthToken, At, Connecting, Pcs, TypeOK
  <1>1. CASE AuthDatabase(c)
    BY <1>0, <1>1, GotoTok DEF AuthDatabase
  <1>2. CASE AuthSecret(c)
    <2>1. /\ call'[c].tok = call[c].tok /\ call'[c].tr = call[c].tr /\ call'[c].ci = call[c].ci
          /\ call'[c].trouble = call[c].trouble /\ call'[c].at = "limitless"
      BY <1>0, <1>2 DEF AuthSecret, TypeOK, Call
    <2>2. call[c].tr = "none" /\ (~call[c].trouble => call[c].tok = NoToken)
      BY <1>0, <1>2 DEF AuthSecret, Tok
    <2> QED BY <2>1, <2>2 DEF Tok, TokenHost, Fair
  <1>3. CASE AuthSecretFails(c)
    BY <1>3, EndedTok DEF AuthSecretFails, Fair
  <1>4. CASE AuthToken(c)
    BY <1>0, <1>4, UseTokenTok DEF AuthToken
  <1> QED BY <1>1, <1>2, <1>3, <1>4

LEMMA LoginTok ==
    ASSUME TypeOK, NEW c \in Conns, Tok(c),
           \/ NotLimitless(c) \/ Limitless(c) \/ LimitlessFails(c)
           \/ InitialLog(c) \/ Login(c) \/ LoginFails(c)
    PROVE  Tok(c)' /\ Fair(c)
  <1>0. call[c].at \in Connecting /\ {"login", "set"} \subseteq Pcs \ {"idle", "retry"} /\ call[c] \in Call
    BY DEF NotLimitless, Limitless, LimitlessFails, InitialLog, Login, LoginFails, At, Connecting, Pcs, TypeOK
  <1>1. CASE NotLimitless(c)
    BY <1>0, <1>1, GotoTok DEF NotLimitless
  <1>2. CASE Limitless(c)
    <2>1. PICK s \in {call[c].ci.server, "instance"} :
             call' = [call EXCEPT ![c].ci.limitless = FALSE, ![c].ci.server = s, ![c].at = "login"]
      BY <1>2 DEF Limitless
    <2>2. /\ call'[c].tok = call[c].tok /\ call'[c].tr = call[c].tr /\ call'[c].password = call[c].password
          /\ call'[c].trouble = call[c].trouble /\ call'[c].at = "login"
          /\ call'[c].ci.mode = call[c].ci.mode /\ call'[c].ci.iam = call[c].ci.iam /\ call'[c].ci.server = s
      BY <1>0, <2>1 DEF TypeOK, Call, Target
    <2>3. TokenHost(c)' = TokenHost(c) \/ TokenHost(c)' = "instance"
      BY <2>2 DEF TokenHost
    <2> QED BY <1>0, <2>2, <2>3 DEF Tok, Fair
  <1>3. CASE LimitlessFails(c)
    BY <1>3, EndedTok DEF LimitlessFails, Fair
  <1>4. CASE InitialLog(c)
    BY <1>0, <1>4, TroubleTok DEF InitialLog
  <1>5. CASE Login(c)
    BY <1>0, <1>5, GotoTok DEF Login
  <1>6. CASE LoginFails(c)
    <2>1. CASE ~Accepted(c) /\ call[c].tok # NoToken /\ AfterFailure(c, 0)
      <3>1. CASE call[c].tr = "cached"
        <4>1. /\ call'[c].tok = call[c].tok /\ call'[c].tr = call[c].tr /\ call'[c].ci = call[c].ci
              /\ call'[c].password = call[c].password /\ call'[c].trouble = call[c].trouble
              /\ call'[c].at = "retry"
          BY <2>1, <3>1 DEF AfterFailure, TypeOK, Call
        <4> QED BY <1>0, <3>1, <4>1, TokKept DEF Fair
      <3>2. CASE call[c].tr # "cached"
        \* A token just made is refused only when it has expired in the meantime.
        <4>1. call[c].trouble
          BY <1>0, <2>1, <3>2 DEF Accepted, Tok, Call, Token, NoToken
        <4> QED BY <2>1, <3>2, <4>1, EndedTok DEF AfterFailure, Fair
      <3> QED BY <3>1, <3>2
    <2>2. CASE DoneTrouble(c)
      BY <2>2, EndedTok DEF Fair
    <2>3. CASE AfterTrouble(c, 0)
      BY <1>0, <2>3, TroubleTok
    <2> QED BY <1>6, <2>1, <2>2, <2>3 DEF LoginFails
  <1> QED BY <1>1, <1>2, <1>3, <1>4, <1>5, <1>6

LEMMA SettingsTok ==
    ASSUME TypeOK, NEW c \in Conns, Tok(c),
           \/ SetDateStyle(c) \/ SetDateStyleFails(c) \/ RetryToken(c) \/ Serve(c)
           \/ Settings(c) \/ SettingsFail(c)
    PROVE  Tok(c)' /\ Fair(c)
  <1>0. call[c].at \in Connecting /\ {"serve", "settings", "login"} \subseteq Pcs \ {"idle", "retry"} /\ call[c] \in Call
        /\ "login" \in Connecting \ {"retry"}
    BY DEF SetDateStyle, SetDateStyleFails, RetryToken, Serve, Settings, SettingsFail, At, Connecting, Pcs, TypeOK
  <1>1. CASE SetDateStyle(c)
    BY <1>0, <1>1, GotoTok DEF SetDateStyle
  <1>2. CASE SetDateStyleFails(c)
    BY <1>0, <1>2, TroubleTok DEF SetDateStyleFails
  <1>3. CASE RetryToken(c)
    <2>1. CASE Generate(c, "login")
      BY <1>0, <1>3, <2>1, UseTokenTok DEF RetryToken, At, Tok
    <2>2. CASE DoneTrouble(c)
      BY <2>2, EndedTok DEF Fair
    <2> QED BY <1>3, <2>1, <2>2 DEF RetryToken
  <1>4. CASE Serve(c)
    <2>1. /\ call'[c].tok = NoToken /\ call'[c].tr = call[c].tr /\ call'[c].ci = call[c].ci
          /\ call'[c].password = call[c].password /\ call'[c].at = "settings"
      BY <1>0, <1>4 DEF Serve, TypeOK, Call
    <2> QED BY <2>1 DEF Tok, TokenHost, Fair, NoToken
  <1>5. CASE Settings(c)
    <2>1. app'[c].told = "none"
      BY <1>5 DEF Settings, Return, ConnectResult, AsChar, TypeOK, App
    <2> QED BY <1>5, <2>1, EndedTok DEF Settings, Fair
  <1>6. CASE SettingsFail(c)
    BY <1>6, EndedTok DEF SettingsFail, Fair
  <1> QED BY <1>1, <1>2, <1>3, <1>4, <1>5, <1>6

LEMMA RunTok ==
    ASSUME TypeOK, NEW c \in Conns, Tok(c),
           Run(c) \/ RunFails(c) \/ RunLost(c) \/ FailoverFails(c) \/ Failover(c)
    PROVE  Tok(c)' /\ Fair(c)
  <1>0. call[c].at \in {"run", "failover"} /\ "failover" \in Pcs \ {"idle", "retry"} /\ "failover" \notin Connecting
    BY DEF Run, RunFails, RunLost, FailoverFails, Failover, At, Pcs, Connecting
  <1>1. Done(c) \/ Goto(c, "failover")
    BY DEF Run, RunFails, RunLost, FailoverFails, Failover
  <1> QED BY <1>0, <1>1, EndedTok, GotoTok DEF Fair

LEMMA AskTok ==
    ASSUME KnownNames, TypeOK, NEW c \in Conns, Tok(c), Ask(c)
    PROVE  Tok(c)' /\ Fair(c)
  <1>1. call[c].at = "idle"
    BY DEF Ask, Connect, LostCheck, Execute, Fetch, EndTran, SetAutocommit, Disconnect, FreeConnect, At
  <1>2. ASSUME NEW target \in Targets[c], Connect(c, target) PROVE Tok(c)'
    <2>1. /\ call'[c].tok = NoToken /\ call'[c].tr = "none" /\ call'[c].ci = target /\ call'[c].at = "auth"
      BY <1>2 DEF Connect, NoCall, TypeOK
    <2> QED BY <2>1 DEF Tok, TokenHost, KnownNames
  <1>3. ASSUME LostCheck(c) \/ Execute(c), call' # call PROVE Tok(c)'
    <2>1. call'[c].tr = "none" /\ call'[c].ci = NoTarget /\ call'[c].at \in {"run", "failover"}
      <3>1. CASE Execute(c)
        BY <3>1 DEF Execute, NoCall, TypeOK
      <3>2. CASE LostCheck(c)
        BY <1>3, <3>2 DEF LostCheck, NoCall, TypeOK
      <3> QED BY <1>3, <3>1, <3>2
    <2> QED BY <2>1 DEF Tok, TokenHost, NoTarget, Connecting
  <1>4. call' = call => Tok(c)'
    BY DEF Tok, TokenHost
  <1> QED BY <1>1, <1>2, <1>3, <1>4 DEF Ask, Fetch, EndTran, SetAutocommit, Disconnect, FreeConnect, Fair

LEMMA ExpireTok ==
    ASSUME TypeOK, Expire, NEW c \in Conns, Tok(c)
    PROVE  Tok(c)'
  <1>1. CASE UNCHANGED call
    BY <1>1 DEF Tok, TokenHost
  <1>2. ASSUME NEW d \in Conns,
               call' = [call EXCEPT ![d].tok = "dead", ![d].trouble = @ \/ call[d].tr = "generated"],
               call[d].tok = "good"
        PROVE  Tok(c)'
    <2>1. CASE d # c
      BY <1>2, <2>1 DEF Tok, TokenHost, TypeOK
    <2>2. CASE d = c
      <3>1. /\ call'[c].tok = "dead" /\ call'[c].tr = call[c].tr /\ call'[c].ci = call[c].ci
            /\ call'[c].password = call[c].password /\ call'[c].at = call[c].at
            /\ call'[c].trouble = (call[c].trouble \/ call[c].tr = "generated")
        BY <1>2, <2>2 DEF TypeOK, Call
      <3>2. ~call'[c].trouble => ~call[c].trouble /\ call[c].tr # "generated"
        BY <3>1
      <3> QED BY <1>2, <2>2, <3>1, <3>2 DEF Tok, TokenHost, NoToken
    <2> QED BY <2>1, <2>2
  <1> QED BY <1>1, <1>2 DEF Expire

TokInv == HeldInv /\ \A c \in Conns : Tok(c)

LEMMA TokNext ==
    ASSUME KnownNames, TokInv, [Next]_vars
    PROVE  TokInv' /\ [\A c \in Conns : Fair(c)]_vars
  <1>0. HeldInv /\ TypeOK /\ HeldInv'
    BY HeldNext DEF TokInv, HeldInv
  <1>1. CASE UNCHANGED vars
    BY <1>0, <1>1 DEF vars, TokInv, Tok, TokenHost
  <1>2. ASSUME NEW c \in Conns, Step(c) \/ Ask(c) PROVE TokInv' /\ \A d \in Conns : Fair(d)
    <2>1. Tok(c)' /\ Fair(c)
      BY <1>0, <1>2, AuthTok, LoginTok, SettingsTok, RunTok, AskTok DEF Step, TokInv
    <2>2. Only(c)
      BY <1>0, <1>2, AuthGood, LoginGood, SettingsGood, RunGood, AskGood DEF Step
    <2>3. \A d \in Conns \ {c} : Tok(d)' /\ Fair(d)
      BY <2>2 DEF Only, TokInv, Tok, TokenHost, Fair
    <2> QED BY <1>0, <2>1, <2>3 DEF TokInv
  <1>3. ASSUME NEW s \in Sessions, Lose(s) PROVE TokInv' /\ \A d \in Conns : Fair(d)
    BY <1>0, <1>3 DEF Lose, TokInv, Tok, TokenHost, Fair
  <1>4. ASSUME Expire PROVE TokInv' /\ \A d \in Conns : Fair(d)
    BY <1>0, <1>4, ExpireTok, ExpireEffects DEF TokInv, Fair
  <1> QED BY <1>1, <1>2, <1>3, <1>4 DEF Next

\* CC_connect returns an error only when something outside it has failed in the course
\* of the call: a token that the server refuses came from the cache, and is replaced by
\* a fresh one, or has expired since it was made.
THEOREM NoNeedlessErrorAlways ==
    ASSUME KnownNames
    PROVE  Spec => NoNeedlessError
  <1> DEFINE AllFair == \A c \in Conns : Fair(c)
  <1>1. Init => TokInv
    BY HeldInit, TokInit DEF TokInv
  <1>2. TokInv /\ [Next]_vars => TokInv' /\ [AllFair]_vars
    BY TokNext
  <1> HIDE DEF AllFair
  <1>3. Spec => [][AllFair]_vars
    BY <1>1, <1>2, PTL DEF Spec
  <1> QED BY <1>3 DEF AllFair, Fair, NoNeedlessError

=============================================================================
