------------------------- MODULE StatementSvp_proofs -------------------------
(***************************************************************************)
(* Theorems about StatementSvp, for any number of statements, writes and   *)
(* savepoints, any set of operations and every setting of the driver.      *)
(***************************************************************************)
EXTENDS StatementSvp, WellFoundedInduction, TLAPS

-----------------------------------------------------------------------------
(* The session: a command takes a well-formed one to a well-formed one.     *)

\* The marks of the savepoints grow, and none is beyond the writes made.
Ordered(s) ==
    /\ \A i \in DOMAIN s.svps : s.svps[i].mark <= Len(s.work)
    /\ \A i, j \in DOMAIN s.svps : i <= j => s.svps[i].mark <= s.svps[j].mark

WellFormed(s) == s \in Session /\ Ordered(s)

LEMMA AnswerFields ==
    ASSUME NEW s, NEW t
    PROVE  Answer(s, t).be = s /\ Answer(s, t).tag = t
  BY DEF Answer

\* A well-formed session stays so when its status changes.
LEMMA StatusWellFormed ==
    ASSUME NEW s, WellFormed(s), NEW st \in {"I", "T", "E", "X"}
    PROVE  WellFormed([s EXCEPT !.st = st])
  BY DEF WellFormed, Ordered, Session, Frame

\* A session that has no transaction is well formed.
LEMMA FreshWellFormed ==
    ASSUME NEW d \in SUBSET Writes
    PROVE  WellFormed(FreshSession(d))
  <1>1. FreshSession(d) \in Session
    BY DEF FreshSession, Session
  <1>2. FreshSession(d).svps = << >>
    BY DEF FreshSession
  <1> QED BY <1>1, <1>2 DEF WellFormed, Ordered

LEMMA FailedWellFormed ==
    ASSUME NEW s, WellFormed(s)
    PROVE  WellFormed(Failed(s).be)
  <1>1. CASE s.st = "I"
    BY <1>1, StatusWellFormed DEF Failed, Answer
  <1>2. CASE s.st # "I"
    BY <1>2, StatusWellFormed DEF Failed, Answer
  <1> QED BY <1>1, <1>2

LEMMA GoneWellFormed ==
    ASSUME NEW s, WellFormed(s)
    PROVE  WellFormed(Gone(s))
  <1>1. WellFormed(FreshSession(s.durable))
    BY FreshWellFormed DEF WellFormed, Session
  <1> QED BY <1>1, StatusWellFormed DEF Gone

LEMMA CommitWellFormed ==
    ASSUME NEW s, WellFormed(s), NEW o \in OnCommit(s)
    PROVE  WellFormed(o.be)
  <1>1. {s.work[i] : i \in DOMAIN s.work} \subseteq Writes /\ s.durable \subseteq Writes
    BY DEF WellFormed, Session
  <1>2. \/ o.be = s
        \/ o.be = FreshSession(s.durable)
        \/ o.be = FreshSession(s.durable \cup {s.work[i] : i \in DOMAIN s.work})
    BY DEF OnCommit, Answer
  <1> QED BY <1>1, <1>2, FreshWellFormed

LEMMA SavepointWellFormed ==
    ASSUME NEW s, WellFormed(s), NEW n \in SvpNames, NEW o \in OnSavepoint(s, n)
    PROVE  WellFormed(o.be)
  <1> DEFINE new == Append(s.svps, [name |-> n, mark |-> Len(s.work)])
  <1>1. o.be = [s EXCEPT !.svps = new]
    BY DEF OnSavepoint, Answer
  <1>2. new \in Seq(Frame) /\ Len(new) = Len(s.svps) + 1 /\ DOMAIN new = 1 .. Len(new)
    BY DEF WellFormed, Session, Frame
  <1>3. \A i \in DOMAIN new : new[i].mark = IF i <= Len(s.svps) THEN s.svps[i].mark ELSE Len(s.work)
    BY DEF WellFormed, Session, Frame
  <1>4. o.be \in Session /\ o.be.svps = new /\ o.be.work = s.work
    BY <1>1, <1>2 DEF WellFormed, Session
  <1> HIDE DEF new
  <1>5. /\ s.svps \in Seq(Frame) /\ Len(s.svps) \in Nat /\ Len(s.work) \in Nat
        /\ DOMAIN s.svps = 1 .. Len(s.svps)
    BY DEF WellFormed, Session
  <1>6. \A i \in DOMAIN new : new[i].mark <= Len(s.work)
    BY <1>2, <1>3, <1>5 DEF WellFormed, Ordered
  <1>7. ASSUME NEW i \in DOMAIN new, NEW j \in DOMAIN new, i <= j
        PROVE  new[i].mark <= new[j].mark
    <2>1. CASE j <= Len(s.svps)
      BY <1>2, <1>3, <1>5, <1>7, <2>1 DEF WellFormed, Ordered
    <2>2. CASE ~(j <= Len(s.svps))
      BY <1>3, <1>6, <1>7, <2>2
    <2> QED BY <2>1, <2>2
  <1>8. Ordered(o.be)
    BY <1>4, <1>6, <1>7 DEF Ordered
  <1> QED BY <1>4, <1>8 DEF WellFormed

\* The savepoints up to one of them, and the writes up to a mark it allows.
LEMMA CutOrdered ==
    ASSUME NEW s, WellFormed(s), NEW i \in 0 .. Len(s.svps), NEW m \in 0 .. Len(s.work),
           \A j \in 1 .. i : s.svps[j].mark <= m,
           NEW c, c.svps = SubSeq(s.svps, 1, i), c.work = SubSeq(s.work, 1, m)
    PROVE  c.svps \in Seq(Frame) /\ c.work \in Seq(Writes) /\ Ordered(c)
  <1>1. s.svps \in Seq(Frame) /\ s.work \in Seq(Writes)
    BY DEF WellFormed, Session
  <1>2. /\ c.svps \in Seq(Frame) /\ Len(c.svps) = i /\ DOMAIN c.svps = 1 .. i
        /\ \A j \in 1 .. i : c.svps[j] = s.svps[j]
    BY <1>1
  <1>3. c.work \in Seq(Writes) /\ Len(c.work) = m
    BY <1>1
  <1>4. \A j, k \in 1 .. i : j <= k => s.svps[j].mark <= s.svps[k].mark
    BY <1>1 DEF WellFormed, Ordered
  <1> QED BY <1>2, <1>3, <1>4 DEF Ordered

LEMMA ReleaseWellFormed ==
    ASSUME NEW s, WellFormed(s), NEW n, NEW o \in OnRelease(s, n)
    PROVE  WellFormed(o.be)
  <1>0. PICK i \in DOMAIN s.svps :
            o = Answer([s EXCEPT !.svps = SubSeq(s.svps, 1, i - 1)], "RELEASE")
    BY DEF OnRelease, Places
  <1>1. o.be = [s EXCEPT !.svps = SubSeq(s.svps, 1, i - 1)]
    BY <1>0, AnswerFields
  <1>2. s.svps \in Seq(Frame) /\ s.work \in Seq(Writes) /\ s \in Session
    BY DEF WellFormed, Session
  <1>3. o.be.svps = SubSeq(s.svps, 1, i - 1) /\ o.be.work = s.work
    BY <1>1, <1>2 DEF Session
  <1>4. s.work = SubSeq(s.work, 1, Len(s.work))
    BY <1>2
  <1>5. i - 1 \in 0 .. Len(s.svps) /\ Len(s.work) \in 0 .. Len(s.work)
    BY <1>2
  <1>6. \A j \in 1 .. (i - 1) : s.svps[j].mark <= Len(s.work)
    BY <1>2, <1>5 DEF WellFormed, Ordered
  <1>7. o.be.svps \in Seq(Frame) /\ Ordered(o.be)
    BY <1>3, <1>4, <1>5, <1>6, CutOrdered
  <1>8. o.be \in Session
    BY <1>1, <1>2, <1>3, <1>7 DEF Session
  <1> QED BY <1>7, <1>8 DEF WellFormed

LEMMA RollbackToWellFormed ==
    ASSUME NEW s, WellFormed(s), NEW n, NEW o \in OnRollbackTo(s, n)
    PROVE  WellFormed(o.be)
  <1>0. PICK i \in DOMAIN s.svps :
            o = Answer([s EXCEPT !.st = "T", !.svps = SubSeq(s.svps, 1, i),
                                 !.work = SubSeq(s.work, 1, s.svps[i].mark)], "ROLLBACK")
    BY DEF OnRollbackTo, Places
  <1>1. o.be = [s EXCEPT !.st = "T", !.svps = SubSeq(s.svps, 1, i),
                         !.work = SubSeq(s.work, 1, s.svps[i].mark)]
    BY <1>0, AnswerFields
  <1>2. s.svps \in Seq(Frame) /\ s.work \in Seq(Writes) /\ s \in Session
    BY DEF WellFormed, Session
  <1>3. i \in 0 .. Len(s.svps)
    BY <1>2
  <1>4. s.svps[i].mark \in 0 .. Len(s.work)
    <2>0. s.svps[i] \in Frame
      BY <1>2
    <2>1. s.svps[i].mark \in Nat
      BY <2>0 DEF Frame
    <2>2. s.svps[i].mark <= Len(s.work)
      BY DEF WellFormed, Ordered
    <2> QED BY <1>2, <2>1, <2>2
  <1>5. \A j \in 1 .. i : s.svps[j].mark <= s.svps[i].mark
    BY <1>2 DEF WellFormed, Ordered
  <1>6. /\ o.be.svps = SubSeq(s.svps, 1, i) /\ o.be.work = SubSeq(s.work, 1, s.svps[i].mark)
        /\ o.be.st = "T" /\ o.be.durable = s.durable
    BY <1>1, <1>2 DEF Session
  <1>7. o.be.svps \in Seq(Frame) /\ o.be.work \in Seq(Writes) /\ Ordered(o.be)
    BY <1>3, <1>4, <1>5, <1>6, CutOrdered
  <1>8. o.be \in Session
    BY <1>1, <1>2, <1>6, <1>7 DEF Session
  <1> QED BY <1>7, <1>8 DEF WellFormed

LEMMA WriteWellFormed ==
    ASSUME NEW s, WellFormed(s), NEW w \in Writes, NEW o \in OnWrite(s, w)
    PROVE  WellFormed(o.be)
  <1>1. CASE o = Failed(s)
    BY <1>1, FailedWellFormed
  <1>2. CASE s.st = "I" /\ o.be = [s EXCEPT !.durable = @ \cup {w}]
    BY <1>2 DEF WellFormed, Ordered, Session, Frame
  <1>3. CASE o.be = [s EXCEPT !.work = Append(@, w)]
    <2>1. s.work \in Seq(Writes) /\ s.svps \in Seq(Frame)
      BY DEF WellFormed, Session
    <2>2. Append(s.work, w) \in Seq(Writes) /\ Len(Append(s.work, w)) = Len(s.work) + 1
      BY <2>1
    <2>3. o.be \in Session /\ o.be.svps = s.svps /\ o.be.work = Append(s.work, w)
      BY <1>3, <2>2 DEF WellFormed, Session
    <2>4. /\ \A i \in DOMAIN s.svps : s.svps[i] \in Frame
          /\ DOMAIN o.be.svps = DOMAIN s.svps
      BY <2>1, <2>3
    <2>5. Ordered(o.be)
      BY <2>1, <2>2, <2>3, <2>4 DEF WellFormed, Ordered, Frame
    <2> QED BY <2>3, <2>5 DEF WellFormed
  <1>4. o = Failed(s) \/ o.be = IF s.st = "I" THEN [s EXCEPT !.durable = s.durable \cup {w}]
                                             ELSE [s EXCEPT !.work = Append(s.work, w)]
    BY AnswerFields DEF OnWrite
  <1> QED BY <1>1, <1>2, <1>3, <1>4

\* Whatever the server answers, its session is well formed.
THEOREM OutcomeWellFormed ==
    ASSUME NEW s, WellFormed(s), NEW cmd \in Command, NEW o \in Outcomes(s, cmd)
    PROVE  WellFormed(o.be)
  <1>1. CASE o = Failed(s) \/ o.be = s
    BY <1>1, FailedWellFormed
  <1>2. CASE o \in OnCommit(s)
    BY <1>2, CommitWellFormed
  <1>3. CASE o \in OnRollback(s)
    <2>1. s.durable \in SUBSET Writes
      BY DEF WellFormed, Session
    <2> QED BY <1>3, <2>1, FreshWellFormed DEF OnRollback, Answer
  <1>4. CASE o \in OnBegin(s)
    <2>1. o.be = [s EXCEPT !.st = "T"]
      BY <1>4 DEF OnBegin, Answer
    <2> QED BY <2>1, StatusWellFormed
  <1>5. CASE o \in OnSavepoint(s, cmd.sp) /\ cmd.c = "SAVEPOINT"
    BY <1>5, SavepointWellFormed DEF Command
  <1>6. CASE o \in OnRelease(s, cmd.sp)
    BY <1>6, ReleaseWellFormed
  <1>7. CASE o \in OnRollbackTo(s, cmd.sp)
    BY <1>7, RollbackToWellFormed
  <1>8. CASE o \in OnWrite(s, cmd.w) /\ cmd.c = "WRITE"
    BY <1>8, WriteWellFormed DEF Command
  <1>9. CASE o \in OnRead(s) \cup OnVacuum(s) \cup OnClose(s)
    <2>1. o = Failed(s) \/ o.be = s
      BY <1>9 DEF OnRead, OnVacuum, OnClose, Answer
    <2> QED BY <1>1, <2>1
  <1> QED
    BY <1>1, <1>2, <1>3, <1>4, <1>5, <1>6, <1>7, <1>8, <1>9 DEF Outcomes, OrFailed

\* A name that has a savepoint has a newest one.
LEMMA NewestExists ==
    ASSUME NEW x \in Session, NEW n, Places(x, n) # {}
    PROVE  \E i \in Places(x, n) : IsNewest(x, n, i)
  <1>1. Places(x, n) \subseteq 1 .. Len(x.svps) /\ Len(x.svps) \in Nat
    BY DEF Places, Session
  <1> DEFINE up(i) == Len(x.svps) - i
             S == {up(i) : i \in Places(x, n)}
  <1>2. S \subseteq Nat /\ S # {}
    BY <1>1
  <1>3. PICK m \in S : \A k \in S : m <= k
    <2> DEFINE Less == OpToRel(<, Nat)
    <2>1. \A r, s \in Nat : r < s => <<r, s>> \in Less
      BY DEF OpToRel
    <2>2. IsWellFoundedOn(Less, Nat)
      BY NatLessThanWellFounded
    <2> HIDE DEF Less, S
    <2>3. PICK m \in S : \A k \in S : ~ (<<k, m>> \in Less)
      BY <1>2, <2>2, WFMin
    <2>4. \A k \in S : ~ (k < m)
      BY <1>2, <2>1, <2>3, Zenon
    <2> QED BY <1>2, <2>4
  <1>4. PICK i \in Places(x, n) : m = up(i)
    BY <1>3
  <1>5. \A j \in Places(x, n) : j <= i
    <2> TAKE j \in Places(x, n)
    <2>1. up(i) <= up(j)
      BY <1>3, <1>4
    <2> QED BY <1>1, <2>1
  <1> QED BY <1>4, <1>5 DEF IsNewest

-----------------------------------------------------------------------------
(* Messages.                                                               *)

\* What messages are, written out.
LEMMA JoinPair ==
    ASSUME NEW a, NEW b
    PROVE  <<a>> \o <<b>> = <<a,b>>
  <1> DEFINE q == <<a>> \o <<b>>
  <1>1. <<a>> \in Seq({a, b}) /\ <<b>> \in Seq({a, b}) /\ <<a, b>> \in Seq({a, b})
    OBVIOUS
  <1>2. q \in Seq({a, b}) /\ Len(q) = 2 /\ q[1] = a /\ q[2] = b
    BY <1>1
  <1>3. q = [i \in 1 .. 2 |-> q[i]]
    BY <1>2
  <1>4. <<a, b>> = [i \in 1 .. 2 |-> IF i = 1 THEN a ELSE b]
    OBVIOUS
  <1>5. \A i \in 1 .. 2 : q[i] = IF i = 1 THEN a ELSE b
    BY <1>2
  <1> HIDE DEF q
  <1>6. [i \in 1 .. 2 |-> q[i]] = [i \in 1 .. 2 |-> IF i = 1 THEN a ELSE b]
    BY <1>5
  <1> QED BY <1>3, <1>4, <1>6 DEF q

\* Three commands.
LEMMA JoinTriple ==
    ASSUME NEW a, NEW b,NEW d
    PROVE  <<a,b>> \o <<d>> = <<a,b,d>>
  <1> DEFINE q == <<a, b>> \o <<d>>
             S == {a, b, d}
  <1>1. <<a, b>> \in Seq(S) /\ <<d>> \in Seq(S) /\ Len(<<a, b>>) = 2 /\ Len(<<d>>) = 1
    OBVIOUS
  <1>2. q \in Seq(S) /\ Len(q) = 3 /\ q[1] = a /\ q[2] = b /\ q[3] = d
    BY <1>1
  <1>3. q = [i \in 1 .. 3 |-> q[i]]
    BY <1>2
  <1>4. <<a, b, d>> = [i \in 1 .. 3 |-> IF i = 1 THEN a ELSE IF i = 2 THEN b ELSE d]
    OBVIOUS
  <1>5. \A i \in 1 .. 3 : q[i] = IF i = 1 THEN a ELSE IF i = 2 THEN b ELSE d
    BY <1>2
  <1> HIDE DEF q
  <1>6. [i \in 1 .. 3 |-> q[i]] = [i \in 1 .. 3 |-> IF i = 1 THEN a ELSE IF i = 2 THEN b ELSE d]
    BY <1>5
  <1> QED BY <1>3, <1>4, <1>6 DEF q

\* All the messages there are.
LEMMA Joined ==
    ASSUME NEW a, NEW b, NEW d
    PROVE  /\ << >> \o <<a>> = <<a>> /\ <<a>> \o <<b>> = <<a, b>>
           /\ (<<a, b>> \o <<d>>) = <<a, b, d>>
           /\ << >> \o << >> = << >> /\ <<a>> \o << >> = <<a>> /\ << >> \o <<a, b>> = <<a, b>>
  <1>1. << >> \o <<a>> = <<a>>
    OBVIOUS
  <1>2. << >> \o << >> = << >> /\ <<a>> \o << >> = <<a>> /\ << >> \o <<a, b>> = <<a, b>>
    OBVIOUS
  <1> QED BY <1>1, <1>2, JoinPair, JoinTriple

\* The first command of a message, and the others.
LEMMA HeadTail ==
    ASSUME NEW a, NEW b, NEW d
    PROVE  /\ Head(<<a>>) = a /\ Head(<<a, b>>) = a /\ Head(<<a, b, d>>) = a
           /\ Tail(<<a>>) = << >> /\ Tail(<<a, b>>) = <<b>> /\ Tail(<<a, b, d>>) = <<b, d>>
  OBVIOUS

-----------------------------------------------------------------------------
(* The types of what the actions assign.                                   *)

LEMMA ConnTypes ==
    ASSUME NEW c \in Conn
    PROVE  /\ SvpInit(c) \in Conn /\ StartStmt(c) \in Conn /\ LeaveTrans(c) \in Conn
           /\ OnTransEnd(c) \in Conn /\ OnDead(c) \in Conn /\ HandleError(c) \in Conn
  <1>1. SvpInit(c) \in Conn /\ StartStmt(c) \in Conn /\ HandleError(c) \in Conn
    BY ZenonT(40) DEF Conn, SvpInit, StartStmt, HandleError
  <1>2. LeaveTrans(c) \in Conn
    BY DEF Conn, LeaveTrans
  <1>3. \A d \in Conn : SvpInit(d) \in Conn /\ StartStmt(d) \in Conn
                        /\ [d EXCEPT !.cursors = {}] \in Conn /\ [d EXCEPT !.up = FALSE] \in Conn
    BY ZenonT(40) DEF Conn, SvpInit, StartStmt
  <1>4. OnTransEnd(c) \in Conn
    BY <1>2, <1>3 DEF OnTransEnd
  <1> QED BY <1>1, <1>2, <1>3, <1>4 DEF OnDead

LEMMA StatusType ==
    ASSUME NEW c \in Conn, NEW st
    PROVE  UpdateTransactionStatus(c, st) \in Conn
  <1>1. [c EXCEPT !.inTrans = TRUE, !.inError = FALSE] \in Conn
        /\ [c EXCEPT !.inTrans = TRUE, !.inError = TRUE] \in Conn
    BY DEF Conn
  <1> QED BY <1>1, ConnTypes DEF UpdateTransactionStatus

LEMMA StatusCopiedType ==
    ASSUME TypeOK, NEW t
    PROVE  StatusCopied(t) \in Conn
  BY StatusType DEF StatusCopied, TypeOK

LEMMA TagType ==
    ASSUME NEW c \in Conn, NEW tag
    PROVE  HandleTag(c, tag) \in Conn
  BY DEF HandleTag, Conn

LEMMA CommandTypes ==
    /\ \A c \in CommandNames \ {"WRITE", "SAVEPOINT"} : Cmd(c) \in Command
    /\ \A c \in CommandNames \ {"WRITE"} : \A n \in SvpNames : SvpCmd(c, n) \in Command
    /\ \A w \in Writes : WriteCmd(w) \in Command
  BY DEF Cmd, SvpCmd, WriteCmd, Command, CommandNames, NoWrite

LEMMA MessageLaws ==
    /\ << >> \in Seq(Command)
    /\ \A cmd \in Command : <<cmd>> \in Seq(Command)
    /\ \A m, n \in Seq(Command) : m \o n \in Seq(Command)
  OBVIOUS

LEMMA MessageTypes ==
    ASSUME TypeOK
    PROVE  SavepointCmds \in Seq(Command) /\ UndoCmds \in Seq(Command)
  <1>1. /\ SvpCmd("RELEASE", Internal) \in Command /\ SvpCmd("SAVEPOINT", Internal) \in Command
        /\ SvpCmd("ROLLBACK TO", Internal) \in Command
    BY CommandTypes, CoreAssumption DEF CommandNames
  <1>2. UndoCmds \in Seq(Command)
    BY <1>1, MessageLaws DEF UndoCmds
  <1>3. <<SvpCmd("SAVEPOINT", Internal)>> \in Seq(Command)
        /\ <<SvpCmd("RELEASE", Internal)>> \in Seq(Command)
    BY <1>1, MessageLaws
  <1> QED BY <1>2, <1>3, MessageLaws DEF SavepointCmds

LEMMA BodyType ==
    ASSUME TypeOK, NEW k, NEW cmd \in BodyOf(k)
    PROVE  cmd \in Command /\ cmd.w \in 0 .. MaxWrites
  <1>1. /\ Cmd("BEGIN") \in Command /\ Cmd("COMMIT") \in Command /\ Cmd("ROLLBACK") \in Command
        /\ Cmd("VACUUM") \in Command /\ Cmd("READ") \in Command
    BY CommandTypes DEF CommandNames
  <1>2. \A n \in SvpNames : /\ SvpCmd("SAVEPOINT", n) \in Command
                            /\ SvpCmd("RELEASE", n) \in Command
                            /\ SvpCmd("ROLLBACK TO", n) \in Command
    BY CommandTypes DEF CommandNames
  <1>3. cmd \in Command
    BY <1>1, <1>2, CommandTypes DEF BodyOf
  <1>4. Writes \cup {NoWrite} \subseteq 0 .. MaxWrites
    BY SessionAssumption DEF Writes, NoWrite
  <1> QED BY <1>3, <1>4 DEF Command

LEMMA IdleType == Idle \in CallRec
  <1>1. FreshSession({}) \in Session
    BY DEF FreshSession, Session
  <1>2. Cmd("READ") \in Command
    BY CommandTypes DEF CommandNames
  <1> QED BY <1>1, <1>2 DEF Idle, CallRec, Kinds, Pcs, PcIdle

\* A call in progress is one of the threads'.
LEMMA CallTypes ==
    ASSUME TypeOK, NEW t \in Threads, NEW pc \in Pcs
    PROVE  /\ [calls EXCEPT ![t].pc = pc] \in [Threads -> CallRec]
           /\ [calls EXCEPT ![t].pc = pc, ![t].fail = FALSE] \in [Threads -> CallRec]
           /\ \A e \in BOOLEAN :
                [calls EXCEPT ![t].pc = pc, ![t].err = e] \in [Threads -> CallRec]
           /\ [calls EXCEPT ![t] = Idle] \in [Threads -> CallRec]
  BY IdleType, ZenonT(40) DEF TypeOK, CallRec

-----------------------------------------------------------------------------
(* Type correctness.  ROLLBACK TO cuts the work of the session at the mark *)
(* of a savepoint, so the induction needs the marks to be in order.        *)

TypeInv == TypeOK /\ Ordered(be)

LEMMA TypeInit == Init => TypeInv
  <1> SUFFICES ASSUME Init PROVE TypeInv
    OBVIOUS
  <1>1. conn \in Conn
    <2>1. PICK a \in Autocommits : conn =
             [autocommit |-> a, inTrans |-> FALSE, manual |-> FALSE, inError |-> FALSE,
              accessed |-> FALSE, rbpoint |-> FALSE, svp |-> FALSE, op |-> "none",
              optIn |-> TRUE, optPrev |-> TRUE, up |-> TRUE, cursors |-> {}]
      BY DEF Init
    <2>2. a \in BOOLEAN
      BY CoreAssumption
    <2> QED BY <2>1, <2>2 DEF Conn
  <1>2. WellFormed(be)
    BY FreshWellFormed DEF Init
  <1>3. writes \in 0 .. MaxWrites
    BY SessionAssumption DEF Init
  <1>4. calls \in [Threads -> CallRec]
    BY IdleType DEF Init
  <1>5. wire \in [Threads -> Seq(Command)] /\ cs \in Threads \cup {NoOne}
    BY MessageLaws DEF Init
  <1> QED BY <1>1, <1>2, <1>3, <1>4, <1>5 DEF TypeInv, TypeOK, WellFormed

\* Steps that leave the session alone.
LEMMA TypeDriver ==
    ASSUME TypeInv, UNCHANGED be, conn' \in Conn, calls' \in [Threads -> CallRec],
           wire' \in [Threads -> Seq(Command)], cs' \in Threads \cup {NoOne},
           writes' \in 0 .. MaxWrites
    PROVE  TypeInv'
  BY DEF TypeInv, TypeOK, Ordered

LEMMA TypeStep == TypeInv /\ [Next]_vars => TypeInv'
  <1> SUFFICES ASSUME TypeInv, [Next]_vars PROVE TypeInv'
    OBVIOUS
  <1>a. /\ TypeOK /\ conn \in Conn /\ be \in Session /\ calls \in [Threads -> CallRec]
        /\ wire \in [Threads -> Seq(Command)] /\ cs \in Threads \cup {NoOne}
        /\ writes \in 0 .. MaxWrites
    BY DEF TypeInv, TypeOK
  <1>b. Stmts \subseteq Threads /\ Dbc \in Threads
    BY DEF Threads
  <1>c. /\ Cmd("BEGIN") \in Command /\ Cmd("COMMIT") \in Command /\ Cmd("ROLLBACK") \in Command
        /\ Cmd("CLOSE") \in Command /\ Cmd("READ") \in Command
    BY CommandTypes DEF CommandNames
  <1>d. /\ "precommit" \in Pcs /\ "begin" \in Pcs /\ "svp" \in Pcs /\ "main" \in Pcs
        /\ "commit" \in Pcs /\ "undo" \in Pcs /\ "abort" \in Pcs /\ "close" \in Pcs
        /\ "endtran" \in Pcs /\ "autocommit" \in Pcs /\ "exec" \in Pcs /\ "request" \in Pcs
        /\ "ready" \in Pcs /\ "post" \in Pcs /\ "discard" \in Pcs /\ "aborting" \in Pcs
        /\ "sync" \in Pcs /\ "end" \in Pcs
    BY DEF Pcs, PcWire
  <1>e. /\ <<Cmd("BEGIN")>> \in Seq(Command) /\ <<Cmd("COMMIT")>> \in Seq(Command)
        /\ <<Cmd("ROLLBACK")>> \in Seq(Command)
    BY <1>c, MessageLaws
  <1>f. \A t \in Threads : \A m \in Seq(Command) : [wire EXCEPT ![t] = m] \in [Threads -> Seq(Command)]
    BY <1>a
  <1>g. \A t \in Threads : \A pc \in Pcs :
          /\ [calls EXCEPT ![t].pc = pc] \in [Threads -> CallRec]
          /\ [calls EXCEPT ![t].pc = pc, ![t].fail = FALSE] \in [Threads -> CallRec]
          /\ \A e \in BOOLEAN :
               [calls EXCEPT ![t].pc = pc, ![t].err = e] \in [Threads -> CallRec]
          /\ [calls EXCEPT ![t] = Idle] \in [Threads -> CallRec]
    BY <1>a, CallTypes
  <1>h. \A c \in CallRec : \A pc \in Pcs : \A l, w \in BOOLEAN :
          [c EXCEPT !.pc = pc, !.lock = l, !.fail = FALSE, !.wasIn = w] \in CallRec
    BY DEF CallRec
  <1>1. ASSUME NEW s \in Stmts, Call(s) PROVE TypeInv'
    <2>1. PICK o \in Ops : \E cmd \in BodyOf(o.kind) : \E e \in BOOLEAN :
             /\ calls' = [calls EXCEPT ![s] =
                  [Idle EXCEPT !.pc = IF o.kind = "local" THEN "discard" ELSE "exec",
                               !.kind = o.kind, !.prot = o.prot, !.cmd = cmd,
                               !.err = e, !.before = be]]
             /\ writes' = IF cmd.w = NoWrite THEN writes ELSE cmd.w
      BY <1>1 DEF Call
    <2>p. PICK cmd \in BodyOf(o.kind), e \in BOOLEAN :
             /\ calls' = [calls EXCEPT ![s] =
                  [Idle EXCEPT !.pc = IF o.kind = "local" THEN "discard" ELSE "exec",
                               !.kind = o.kind, !.prot = o.prot, !.cmd = cmd,
                               !.err = e, !.before = be]]
             /\ writes' = IF cmd.w = NoWrite THEN writes ELSE cmd.w
      BY <2>1
    <2>2. o \in [kind : Kinds, prot : {"simple", "ext"}]
      BY CoreAssumption
    <2>3. cmd \in Command /\ cmd.w \in 0 .. MaxWrites
      BY <1>a, BodyType
    <2>4. [Idle EXCEPT !.pc = IF o.kind = "local" THEN "discard" ELSE "exec",
                       !.kind = o.kind, !.prot = o.prot, !.cmd = cmd,
                       !.err = e, !.before = be] \in CallRec
      BY <1>a, <1>d, <2>2, <2>3, IdleType DEF CallRec
    <2>5. calls' \in [Threads -> CallRec]
      BY <1>a, <1>b, <2>p, <2>4
    <2>6. writes' \in 0 .. MaxWrites
      BY <1>a, <2>p, <2>3
    <2> QED BY <1>1, <1>a, <2>5, <2>6, TypeDriver DEF Call
  <1>2. ASSUME NEW s \in Stmts, Down(s) PROVE TypeInv'
    <2>1. calls' \in [Threads -> CallRec] /\ cs' \in Threads
      BY <1>2, <1>a, <1>b, <1>d, <1>g DEF Down
    <2> QED BY <1>2, <1>a, <2>1, TypeDriver DEF Down
  <1>3. ASSUME NEW s \in Stmts, PreCommit(s) PROVE TypeInv'
    <2>1. calls' \in [Threads -> CallRec] /\ wire' \in [Threads -> Seq(Command)] /\ cs' \in Threads
      BY <1>3, <1>a, <1>b, <1>d, <1>e, <1>f, <1>g DEF PreCommit, Send
    <2> QED BY <1>3, <1>a, <2>1, TypeDriver DEF PreCommit
  <1>4. ASSUME NEW s \in Stmts, BeginFirst(s) PROVE TypeInv'
    <2>1. calls' \in [Threads -> CallRec] /\ wire' \in [Threads -> Seq(Command)] /\ cs' \in Threads
      BY <1>4, <1>a, <1>b, <1>d, <1>e, <1>f, <1>g DEF BeginFirst, Send
    <2> QED BY <1>4, <1>a, <2>1, TypeDriver DEF BeginFirst
  <1>5. ASSUME NEW s \in Stmts, PreCommitDone(s) \/ BeginDone(s) \/ UndoDone(s) PROVE TypeInv'
    <2>1. conn' \in Conn
      BY <1>5, <1>a, StatusCopiedType DEF PreCommitDone, BeginDone, UndoDone
    <2>2. PICK pc \in {"exec", "request", "end"} : calls' = [calls EXCEPT ![s].pc = pc]
      BY <1>5 DEF PreCommitDone, BeginDone, UndoDone, GoTo
    <2>3. calls' \in [Threads -> CallRec]
      BY <1>b, <1>d, <1>g, <2>2
    <2> QED BY <1>5, <1>a, <2>1, <2>3, TypeDriver DEF PreCommitDone, BeginDone, UndoDone
  <1>6. ASSUME NEW s \in Stmts, DirectSavepoint(s) PROVE TypeInv'
    <2>1. conn' \in Conn
      BY <1>6, <1>a DEF DirectSavepoint, ReadOnly, Conn
    <2>2. calls' = [calls EXCEPT ![s] = [calls[s] EXCEPT !.pc = "svp", !.lock = TRUE,
                                            !.fail = FALSE, !.wasIn = calls[s].pc = "exec"]]
      BY <1>6, <1>a, <1>b DEF DirectSavepoint
    <2>4. calls' \in [Threads -> CallRec]
      BY <1>a, <1>b, <1>d, <2>2, <1>h
    <2>3. wire' \in [Threads -> Seq(Command)] /\ cs' \in Threads
      BY <1>6, <1>a, <1>b, <1>f, MessageTypes DEF DirectSavepoint
    <2> QED BY <1>6, <1>a, <2>1, <2>4, <2>3, TypeDriver DEF DirectSavepoint
  <1>7. ASSUME NEW s \in Stmts, SavepointMade(s) PROVE TypeInv'
    <2>1. \A c \in Conn : [c EXCEPT !.op = "none", !.accessed = TRUE] \in Conn
      BY DEF Conn
    <2>2. conn' \in Conn
      BY <1>7, <1>a, <2>1, StatusCopiedType DEF SavepointMade
    <2>3. \/ \E pc \in {"discard", "post"} : calls' = [calls EXCEPT ![s].pc = pc, ![s].err = TRUE]
          \/ calls' = [calls EXCEPT ![s].pc = "ready"]
      BY <1>7, <1>a DEF SavepointMade, GoTo
    <2>4. calls' \in [Threads -> CallRec]
      <3>1. CASE calls' = [calls EXCEPT ![s].pc = "ready"]
        BY <1>b, <1>d, <1>g, <3>1
      <3>2. ASSUME NEW pc \in {"discard", "post"},
                   calls' = [calls EXCEPT ![s].pc = pc, ![s].err = TRUE]
            PROVE  calls' \in [Threads -> CallRec]
        <4>1. pc \in Pcs /\ TRUE \in BOOLEAN
          BY <1>d
        <4> QED BY <1>b, <1>g, <3>2, <4>1
      <3> QED BY <2>3, <3>1, <3>2
    <2> QED BY <1>7, <1>a, <2>2, <2>4, TypeDriver DEF SavepointMade
  <1>8. ASSUME NEW s \in Stmts, SendMain(s) PROVE TypeInv'
    <2>0. \A a, b \in BOOLEAN : \A op \in {"none", "savepoint"} :
            [conn EXCEPT !.optIn = a, !.accessed = b, !.op = op] \in Conn
      BY <1>a DEF Conn
    <2>c. conn.optIn \in BOOLEAN /\ conn.accessed \in BOOLEAN /\ conn.op \in {"none", "savepoint"}
      BY <1>a DEF Conn
    <2>1. conn' \in Conn
      <3>1. PICK r, x \in BOOLEAN, op \in {"savepoint", conn.op} :
               \/ conn' = conn
               \/ conn' = [conn EXCEPT !.optIn = conn.optIn /\ r, !.accessed = conn.accessed \/ x,
                                       !.op = op]
        BY <1>8 DEF SendMain, ReadOnly
      <3> QED BY <1>a, <2>0, <2>c, <3>1
    <2>a. calls' = [calls EXCEPT ![s] = [calls[s] EXCEPT !.pc = "main",
                       !.lock = calls[s].lock \/ (calls[s].pc # "ready" /\ EntersSvp(s)),
                       !.fail = FALSE,
                       !.wasIn = IF calls[s].pc = "exec" THEN conn.inTrans ELSE calls[s].wasIn]]
      BY <1>8, <1>a, <1>b DEF SendMain
    <2>b. EntersSvp(s) \in BOOLEAN /\ conn.inTrans \in BOOLEAN /\ calls[s] \in CallRec
          /\ calls[s].lock \in BOOLEAN /\ calls[s].wasIn \in BOOLEAN
      BY <1>a, <1>b DEF EntersSvp, Conn, CallRec
    <2>2. calls' \in [Threads -> CallRec]
      <3> DEFINE l == calls[s].lock \/ (calls[s].pc # "ready" /\ EntersSvp(s))
                 w == IF calls[s].pc = "exec" THEN conn.inTrans ELSE calls[s].wasIn
      <3>1. l \in BOOLEAN /\ w \in BOOLEAN
        BY <2>b
      <3>2. [calls[s] EXCEPT !.pc = "main", !.lock = l, !.fail = FALSE, !.wasIn = w] \in CallRec
        <4> HIDE DEF l, w
        <4> QED BY <1>d, <1>h, <2>b, <3>1
      <3> QED BY <1>a, <1>b, <2>a, <3>2
    <2>3. calls[s].cmd \in Command
      BY <1>a, <1>b DEF CallRec
    <2>4. wire' \in [Threads -> Seq(Command)]
      <3> DEFINE direct == calls[s].pc = "ready"
                 prefix == IF calls[s].prot = "simple" /\ ~direct /\ IssueBegin(s)
                           THEN <<Cmd("BEGIN")>> ELSE << >>
                 savepoint == IF ~direct /\ NeedsSvp(s) THEN SavepointCmds ELSE << >>
      <3>1. prefix \in Seq(Command) /\ savepoint \in Seq(Command)
        BY <1>a, <1>e, MessageLaws, MessageTypes
      <3>2. <<calls[s].cmd>> \in Seq(Command)
        BY <2>3, MessageLaws
      <3> HIDE DEF prefix, savepoint
      <3>3. prefix \o savepoint \o <<calls[s].cmd>> \in Seq(Command)
        BY <3>1, <3>2, MessageLaws
      <3>4. wire' = [wire EXCEPT ![s] = prefix \o savepoint \o <<calls[s].cmd>>]
        BY <1>8 DEF SendMain, prefix, savepoint
      <3> QED BY <1>b, <1>f, <3>3, <3>4
    <2> QED BY <1>8, <1>a, <1>b, <2>1, <2>2, <2>4, TypeDriver DEF SendMain
  <1>9. ASSUME NEW s \in Stmts, MainDone(s) PROVE TypeInv'
    <2>1. \A c \in Conn : [c EXCEPT !.cursors = @ \cup {s}] \in Conn
      BY DEF Conn
    <2>2. conn' \in Conn
      BY <1>9, <1>a, <2>1, StatusCopiedType DEF MainDone
    <2>3. calls[s].fail \in BOOLEAN
      BY <1>a, <1>b DEF CallRec
    <2>4. calls' \in [Threads -> CallRec]
      BY <1>9, <1>a, <1>b, <1>d, <2>3, <1>g DEF MainDone
    <2> QED BY <1>9, <1>a, <2>2, <2>4, TypeDriver DEF MainDone
  <1>10. ASSUME NEW s \in Stmts, PostCommit(s) \/ Undo(s) PROVE TypeInv'
    <2>1. PICK pc \in {"commit", "undo"}, m \in {<<Cmd("COMMIT")>>, UndoCmds} :
             /\ calls' = [calls EXCEPT ![s].pc = pc, ![s].fail = FALSE]
             /\ wire' = [wire EXCEPT ![s] = m]
      BY <1>10 DEF PostCommit, Undo, Send
    <2>2. m \in Seq(Command)
      BY <1>a, <1>e, MessageTypes
    <2>3. calls' \in [Threads -> CallRec] /\ wire' \in [Threads -> Seq(Command)]
      BY <1>b, <1>d, <1>f, <1>g, <2>1, <2>2
    <2> QED BY <1>10, <1>a, <2>3, TypeDriver DEF PostCommit, Undo
  <1>11. ASSUME NEW s \in Stmts, PostCommitDone(s) PROVE TypeInv'
    <2>1. conn' \in Conn
      BY <1>11, <1>a, StatusCopiedType DEF PostCommitDone
    <2>2. calls' \in [Threads -> CallRec] /\ cs' \in Threads \cup {NoOne}
      BY <1>11, <1>a, <1>b, <1>d, <1>g DEF PostCommitDone, GoTo, LeaveCs
    <2> QED BY <1>11, <1>a, <2>1, <2>2, TypeDriver DEF PostCommitDone
  <1>12. ASSUME NEW s \in Stmts, Post(s) PROVE TypeInv'
    <2>1. conn' \in Conn
      BY <1>12, <1>a DEF Post, Conn
    <2>2. PICK e \in BOOLEAN :
             calls' = [calls EXCEPT ![s].pc = "discard", ![s].err = calls[s].err \/ e]
      BY <1>12 DEF Post
    <2>3. calls[s].err \in BOOLEAN
      BY <1>a, <1>b DEF CallRec
    <2>4. calls' \in [Threads -> CallRec]
      BY <1>a, <1>b, <1>d, <1>g, <2>2, <2>3
    <2>5. cs' \in Threads \cup {NoOne}
      BY <1>12, <1>b DEF Post, LeaveCs
    <2> QED BY <1>12, <1>a, <2>1, <2>4, <2>5, TypeDriver DEF Post
  <1>13. ASSUME NEW s \in Stmts, Discard(s) \/ DecideAbort(s) PROVE TypeInv'
    <2>1. PICK pc \in {"end", "aborting"} : calls' = [calls EXCEPT ![s].pc = pc]
      BY <1>13 DEF Discard, DecideAbort, GoTo
    <2>2. calls' \in [Threads -> CallRec]
      BY <1>b, <1>d, <1>g, <2>1
    <2> QED BY <1>13, <1>a, <2>2, TypeDriver DEF Discard, DecideAbort
  <1>14. ASSUME NEW s \in Stmts, Abort(s) PROVE TypeInv'
    <2>1. \/ /\ calls' = [calls EXCEPT ![s].pc = "abort", ![s].fail = FALSE]
             /\ wire' = [wire EXCEPT ![s] = <<Cmd("ROLLBACK")>>] /\ cs' = s
          \/ /\ calls' = [calls EXCEPT ![s].pc = "end"]
             /\ wire' = wire /\ cs' = cs
      BY <1>14 DEF Abort, Send, GoTo
    <2>2. /\ calls' \in [Threads -> CallRec] /\ wire' \in [Threads -> Seq(Command)]
          /\ cs' \in Threads \cup {NoOne}
      <3>1. CASE wire' = wire /\ cs' = cs /\ calls' = [calls EXCEPT ![s].pc = "end"]
        BY <1>a, <1>b, <1>d, <1>g, <3>1
      <3>2. CASE /\ calls' = [calls EXCEPT ![s].pc = "abort", ![s].fail = FALSE]
                 /\ wire' = [wire EXCEPT ![s] = <<Cmd("ROLLBACK")>>] /\ cs' = s
        BY <1>b, <1>d, <1>e, <1>f, <1>g, <3>2
      <3> QED BY <2>1, <3>1, <3>2
    <2> QED BY <1>14, <1>a, <2>2, TypeDriver DEF Abort
  <1>15. ASSUME NEW s \in Stmts, AbortDone(s) \/ CloseDone(s) PROVE TypeInv'
    <2>1. calls' = [calls EXCEPT ![s].pc = "sync"] /\ cs' \in {s, NoOne}
      BY <1>15 DEF AbortDone, CloseDone, GoTo, LeaveCs
    <2>2. calls' \in [Threads -> CallRec] /\ cs' \in Threads \cup {NoOne}
      BY <1>b, <1>d, <1>g, <2>1
    <2> QED BY <1>15, <1>a, <2>2, TypeDriver DEF AbortDone, CloseDone
  <1>16. ASSUME NEW s \in Stmts, Sync(s) PROVE TypeInv'
    <2>1. conn' \in Conn
      BY <1>16, <1>a, StatusCopiedType DEF Sync
    <2>2. \/ calls' = [calls EXCEPT ![s] = Idle]
          \/ calls' = [calls EXCEPT ![s].pc = "end"]
      BY <1>16 DEF Sync, GoTo
    <2>3. calls' \in [Threads -> CallRec]
      <3>1. CASE calls' = [calls EXCEPT ![s] = Idle]
        <4>1. "end" \in Pcs
          BY <1>d
        <4> QED BY <1>b, <1>g, <3>1, <4>1
      <3>2. CASE calls' = [calls EXCEPT ![s].pc = "end"]
        BY <1>b, <1>d, <1>g, <3>2
      <3> QED BY <2>2, <3>1, <3>2
    <2> QED BY <1>16, <1>a, <2>1, <2>3, TypeDriver DEF Sync
  <1>17. ASSUME NEW s \in Stmts, EndCall(s) PROVE TypeInv'
    <2>1. [conn EXCEPT !.optPrev = conn.optIn, !.optIn = TRUE] \in Conn
      BY <1>a DEF Conn
    <2>2. conn' \in Conn
      BY <1>17, <1>a, <2>1, ConnTypes DEF EndCall
    <2>3. calls' \in [Threads -> CallRec] /\ cs' \in Threads \cup {NoOne}
      BY <1>17, <1>a, <1>b, <1>d, <1>g DEF EndCall
    <2> QED BY <1>17, <1>a, <2>2, <2>3, TypeDriver DEF EndCall
  <1>18. ASSUME NEW s \in Stmts, Close(s) PROVE TypeInv'
    <2>1. conn' \in Conn
      BY <1>18, <1>a DEF Close, Conn
    <2>2. [Idle EXCEPT !.pc = "close", !.kind = "close", !.before = be] \in CallRec
      BY <1>a, <1>d, IdleType DEF CallRec
    <2>3. calls' \in [Threads -> CallRec]
      BY <1>18, <1>a, <1>b, <2>2 DEF Close
    <2>4. \A m \in {<< >>, <<Cmd("COMMIT")>>} : <<Cmd("CLOSE")>> \o m \in Seq(Command)
      BY <1>c, <1>e, MessageLaws
    <2>5. wire' \in [Threads -> Seq(Command)]
      BY <1>18, <1>a, <1>b, <1>f, <2>4 DEF Close
    <2>6. cs' \in Threads \cup {NoOne}
      BY <1>18, <1>a, <1>b DEF Close
    <2> QED BY <1>18, <1>a, <2>1, <2>3, <2>5, <2>6, TypeDriver DEF Close
  <1>19. ASSUME NEW k \in {"commit", "rollback"}, EndTran(k) PROVE TypeInv'
    <2> DEFINE cmd == Cmd(IF k = "commit" THEN "COMMIT" ELSE "ROLLBACK")
    <2>1. cmd \in Command
      BY <1>c
    <2> HIDE DEF cmd
    <2>2. wire' = [wire EXCEPT ![Dbc] = <<cmd>>] /\ <<cmd>> \in Seq(Command)
      BY <1>19, <2>1, MessageLaws DEF EndTran, cmd
    <2>3. wire' \in [Threads -> Seq(Command)] /\ Head(wire'[Dbc]) = cmd
      BY <1>a, <1>b, <1>f, <2>2
    <2>4. [Idle EXCEPT !.pc = "endtran", !.kind = k, !.cmd = cmd, !.before = be] \in CallRec
      BY <1>a, <1>d, <2>1, IdleType DEF CallRec, Kinds
    <2>5. calls' \in [Threads -> CallRec]
      BY <1>19, <1>a, <1>b, <2>3, <2>4 DEF EndTran
    <2> QED BY <1>19, <1>a, <1>b, <2>3, <2>5, TypeDriver DEF EndTran
  <1>20. CASE EndTranDone
    <2>1. conn' \in Conn
      BY <1>20, <1>a, StatusCopiedType, ConnTypes DEF EndTranDone
    <2>2. calls' \in [Threads -> CallRec]
      BY <1>20, <1>a, <1>b, <1>d, <1>g DEF EndTranDone
    <2> QED BY <1>20, <1>a, <2>1, <2>2, TypeDriver DEF EndTranDone
  <1>21. CASE SetAutocommit
    <2>1. conn' \in Conn
      BY <1>21, <1>a DEF SetAutocommit, Conn
    <2>2. [Idle EXCEPT !.pc = "autocommit", !.kind = "autocommit", !.before = be] \in CallRec
      BY <1>a, <1>d, IdleType DEF CallRec
    <2>3. calls' \in [Threads -> CallRec] /\ wire' \in [Threads -> Seq(Command)]
          /\ cs' \in Threads \cup {NoOne}
      BY <1>21, <1>a, <1>b, <1>e, <1>f, <2>2 DEF SetAutocommit
    <2> QED BY <1>21, <1>a, <2>1, <2>3, TypeDriver DEF SetAutocommit
  <1>22. CASE SetAutocommitDone
    <2>1. \A c \in Conn : [c EXCEPT !.autocommit = ~@] \in Conn
      BY DEF Conn
    <2>2. conn' \in Conn
      BY <1>22, <1>a, <2>1, StatusCopiedType DEF SetAutocommitDone
    <2>3. calls' \in [Threads -> CallRec]
      BY <1>22, <1>a, <1>b, <1>d, <1>g DEF SetAutocommitDone
    <2> QED BY <1>22, <1>a, <2>2, <2>3, TypeDriver DEF SetAutocommitDone
  <1>23. ASSUME NEW t \in Threads, Reply(t) PROVE TypeInv'
    <2>1. PICK o \in Outcomes(be, Head(wire[t])) :
             /\ be' = o.be
             /\ IF o.tag = "ERROR"
                THEN /\ wire' = [wire EXCEPT ![t] = << >>]
                     /\ calls' = [calls EXCEPT ![t].fail = TRUE]
                     /\ conn' = HandleError(conn)
                ELSE /\ wire' = [wire EXCEPT ![t] = Tail(@)]
                     /\ conn' = IF Queried(t) THEN HandleTag(conn, o.tag) ELSE conn
                     /\ UNCHANGED calls
      BY <1>23 DEF Reply
    <2>2. wire[t] \in Seq(Command) /\ wire[t] # << >>
      BY <1>23, <1>a DEF Reply
    <2>3. Head(wire[t]) \in Command /\ Tail(wire[t]) \in Seq(Command)
      BY <2>2
    <2>4. WellFormed(be')
      BY <2>1, <2>3, OutcomeWellFormed DEF TypeInv, TypeOK, WellFormed
    <2>5. conn' \in Conn
      BY <1>a, <2>1, ConnTypes, TagType
    <2>6. wire' \in [Threads -> Seq(Command)]
      BY <1>a, <1>f, <2>1, <2>3, MessageLaws
    <2>7. [calls EXCEPT ![t].fail = TRUE] \in [Threads -> CallRec]
      BY <1>a DEF CallRec
    <2>8. calls' \in [Threads -> CallRec]
      BY <1>a, <2>1, <2>7
    <2> QED BY <1>23, <1>a, <2>4, <2>5, <2>6, <2>8 DEF Reply, TypeInv, TypeOK, WellFormed, Ordered
  <1>24. ASSUME NEW t \in Threads, Lose(t) PROVE TypeInv'
    <2>1. Head(wire[t]) \in Command
      BY <1>24, <1>a DEF Lose
    <2>2. PICK last \in {be} \cup {o.be : o \in Outcomes(be, Head(wire[t]))} : be' = Gone(last)
      BY <1>24 DEF Lose
    <2>3. WellFormed(be)
      BY DEF TypeInv, TypeOK, WellFormed
    <2>4. WellFormed(be')
      BY <2>1, <2>2, <2>3, OutcomeWellFormed, GoneWellFormed
    <2>5. conn' \in Conn
      BY <1>24, <1>a, ConnTypes DEF Lose
    <2>6. wire' \in [Threads -> Seq(Command)]
      BY <1>24, MessageLaws DEF Lose
    <2>7. \A x \in Threads : [calls[x] EXCEPT !.fail = TRUE] \in CallRec
      BY <1>a, ZenonT(40) DEF CallRec
    <2>8. calls' \in [Threads -> CallRec]
      BY <1>24, <1>a, <2>7 DEF Lose
    <2> QED BY <1>24, <1>a, <2>4, <2>5, <2>6, <2>8 DEF Lose, TypeInv, TypeOK, WellFormed, Ordered
  <1>25. ASSUME NEW s \in Stmts, Reconnect(s) PROVE TypeInv'
    <2>1. conn' \in Conn
      BY <1>25, <1>a DEF Reconnect, Conn
    <2>2. WellFormed(be')
      BY <1>25, <1>a, FreshWellFormed DEF Reconnect, Session
    <2> QED BY <1>25, <1>a, <2>1, <2>2 DEF Reconnect, TypeInv, TypeOK, WellFormed, Ordered
  <1>26. CASE UNCHANGED vars
    BY <1>26 DEF vars, TypeInv, TypeOK, Ordered
  <1> QED
    BY <1>1, <1>2, <1>3, <1>4, <1>5, <1>6, <1>7, <1>8, <1>9, <1>10, <1>11, <1>12, <1>13,
       <1>14, <1>15, <1>16, <1>17, <1>18, <1>19, <1>20, <1>21, <1>22, <1>23, <1>24, <1>25,
       <1>26 DEF Next, Progress, DbcProgress

\* Every variable keeps its type (TypeOK of StatementSvp), whatever the
\* application, the server, the network and the threads do.
THEOREM TypeCorrect == Spec => []TypeOK
  <1>1. TypeInv => TypeOK
    BY DEF TypeInv
  <1> QED BY TypeInit, TypeStep, <1>1, PTL DEF Spec

-----------------------------------------------------------------------------
(* The critical section.  A thread that has something on the wire is in    *)
(* the critical section of the connection, except for the ROLLBACK TO that *)
(* CC_internal_rollback sends with PQexec.                                 *)

Covered(t) ==
    /\ wire[t] # << >> => calls[t].pc \in PcWire
    /\ calls[t].pc \in PcWire /\ calls[t].pc # "undo" => cs = t
    /\ calls[t].pc = "post" => cs = t
    /\ calls[t].lock => cs = t

CsInv == \A t \in Threads : Covered(t)

\* A step of thread s leaves the other threads in their critical section when
\* it enters or leaves only its own.
LEMMA CsFrame ==
    ASSUME CsInv, NEW s \in Threads,
           \A u \in Threads \ {s} : calls'[u] = calls[u] /\ wire'[u] = wire[u],
           cs' = cs \/ cs = NoOne \/ cs = s,
           Covered(s)'
    PROVE  CsInv'
  <1> SUFFICES ASSUME NEW u \in Threads \ {s} PROVE Covered(u)'
    BY DEF CsInv
  <1>1. Covered(u) /\ calls'[u] = calls[u] /\ wire'[u] = wire[u]
    BY DEF CsInv
  <1>2. u # NoOne /\ u # s
    BY CoreAssumption DEF Threads
  <1> QED BY <1>1, <1>2 DEF Covered

LEMMA CsInit == Init => CsInv
  BY DEF Init, CsInv, Covered, Idle, PcIdle, PcWire

LEMMA CsStep == TypeOK /\ CsInv /\ [Next]_vars => CsInv'
  <1> SUFFICES ASSUME TypeOK, CsInv, [Next]_vars PROVE CsInv'
    OBVIOUS
  <1>a. calls \in [Threads -> CallRec] /\ wire \in [Threads -> Seq(Command)]
    BY DEF TypeOK
  <1>b. Stmts \subseteq Threads /\ Dbc \in Threads
    BY DEF Threads
  <1>c. \A t \in Threads : Covered(t)
    BY DEF CsInv
  <1>d. \A s \in Threads : \A c : [calls EXCEPT ![s] = c][s] = c
           /\ \A u \in Threads \ {s} : [calls EXCEPT ![s] = c][u] = calls[u]
    BY <1>a
  <1>e. \A s \in Threads : \A m : [wire EXCEPT ![s] = m][s] = m
           /\ \A u \in Threads \ {s} : [wire EXCEPT ![s] = m][u] = wire[u]
    BY <1>a
  <1>1. ASSUME NEW s \in Stmts, Call(s) PROVE CsInv'
    <2>1. PICK o \in Ops : \E cmd \in BodyOf(o.kind), e \in BOOLEAN :
             calls' = [calls EXCEPT ![s] =
                  [Idle EXCEPT !.pc = IF o.kind = "local" THEN "discard" ELSE "exec",
                               !.kind = o.kind, !.prot = o.prot, !.cmd = cmd,
                               !.err = e, !.before = be]]
      BY <1>1 DEF Call
    <2>2. PICK cmd \in BodyOf(o.kind), e \in BOOLEAN :
             calls' = [calls EXCEPT ![s] =
                  [Idle EXCEPT !.pc = IF o.kind = "local" THEN "discard" ELSE "exec",
                               !.kind = o.kind, !.prot = o.prot, !.cmd = cmd,
                               !.err = e, !.before = be]]
      BY <2>1
    <2>3. calls'[s].pc \in {"discard", "exec"} /\ ~calls'[s].lock
      BY <1>a, <1>b, <2>2 DEF Idle
    <2>4. wire' = wire /\ cs' = cs /\ wire[s] = << >>
      BY <1>1, <1>b, <1>c DEF Call, MayCall, Covered, PcWire, PcIdle
    <2>5. Covered(s)'
      BY <1>b, <2>3, <2>4 DEF Covered, PcWire
    <2>6. \A u \in Threads \ {s} : calls'[u] = calls[u]
      BY <1>b, <1>d, <2>2
    <2> QED BY <1>b, <2>4, <2>5, <2>6, CsFrame
  <1>2. ASSUME NEW s \in Stmts, Down(s) PROVE CsInv'
    <2>1. calls' = [calls EXCEPT ![s].pc = "post", ![s].err = TRUE] /\ wire' = wire
          /\ cs' = s /\ (cs = NoOne \/ cs = s) /\ wire[s] = << >>
      BY <1>2, <1>b, <1>c DEF Down, FreeFor, Covered, PcWire
    <2>2. calls'[s].pc = "post" /\ \A u \in Threads \ {s} : calls'[u] = calls[u]
      BY <1>a, <1>b, <2>1 DEF CallRec
    <2>3. Covered(s)'
      BY <1>b, <2>1, <2>2 DEF Covered
    <2> QED BY <1>b, <2>1, <2>2, <2>3, CsFrame
  <1>3. ASSUME NEW s \in Stmts, PreCommit(s) \/ BeginFirst(s) PROVE CsInv'
    <2>1. PICK pc \in {"precommit", "begin"}, m \in {<<Cmd("COMMIT")>>, <<Cmd("BEGIN")>>} :
             calls' = [calls EXCEPT ![s].pc = pc, ![s].fail = FALSE]
             /\ wire' = [wire EXCEPT ![s] = m] /\ cs' = s /\ (cs = NoOne \/ cs = s)
      BY <1>3 DEF PreCommit, BeginFirst, Send, FreeFor
    <2>2. calls'[s].pc = pc /\ \A u \in Threads \ {s} : calls'[u] = calls[u]
      BY <1>a, <1>b, <2>1 DEF CallRec
    <2>3. Covered(s)'
      BY <1>b, <2>1, <2>2 DEF Covered, PcWire
    <2>4. \A u \in Threads \ {s} : wire'[u] = wire[u]
      BY <1>b, <1>e, <2>1
    <2> QED BY <1>b, <2>1, <2>2, <2>3, <2>4, CsFrame
  <1>4. ASSUME NEW s \in Stmts, PreCommitDone(s) \/ BeginDone(s) \/ UndoDone(s) PROVE CsInv'
    <2>1. PICK pc \in {"exec", "request", "end"} :
             calls' = [calls EXCEPT ![s].pc = pc] /\ wire' = wire /\ cs' = cs /\ wire[s] = << >>
      BY <1>4 DEF PreCommitDone, BeginDone, UndoDone, GoTo, Answered
    <2>2. calls'[s].pc = pc /\ calls'[s].lock = calls[s].lock
          /\ \A u \in Threads \ {s} : calls'[u] = calls[u]
      BY <1>a, <1>b, <2>1 DEF CallRec
    <2>3. Covered(s)'
      BY <1>b, <1>c, <2>1, <2>2 DEF Covered, PcWire
    <2> QED BY <1>b, <2>1, <2>2, <2>3, CsFrame
  <1>5. ASSUME NEW s \in Stmts, DirectSavepoint(s) \/ SendMain(s) PROVE CsInv'
    <2>1. cs' = s /\ (cs = NoOne \/ cs = s) /\ \E m : wire' = [wire EXCEPT ![s] = m]
      BY <1>5 DEF DirectSavepoint, SendMain, FreeFor
    <2>2. \E pc \in {"svp", "main"} : \E lock, was :
             calls' = [calls EXCEPT ![s].pc = pc, ![s].lock = lock, ![s].fail = FALSE,
                                    ![s].wasIn = was]
      <3>1. CASE DirectSavepoint(s)
        BY <3>1 DEF DirectSavepoint
      <3>2. CASE SendMain(s)
        <4> DEFINE enters == calls[s].pc # "ready" /\ EntersSvp(s)
                   was == IF calls[s].pc = "exec" THEN conn.inTrans ELSE calls[s].wasIn
        <4>1. calls' = [calls EXCEPT ![s].pc = "main", ![s].fail = FALSE,
                          ![s].lock = calls[s].lock \/ enters, ![s].wasIn = was]
          BY <3>2 DEF SendMain
        <4> HIDE DEF enters, was
        <4>2. calls' = [calls EXCEPT ![s].pc = "main", ![s].lock = calls[s].lock \/ enters,
                          ![s].fail = FALSE, ![s].wasIn = was]
          BY <1>a, <1>b, <4>1 DEF CallRec
        <4> QED BY <4>2
      <3> QED BY <1>5, <3>1, <3>2
    <2>3. PICK pc \in {"svp", "main"} : \E lock, was :
             calls' = [calls EXCEPT ![s].pc = pc, ![s].lock = lock, ![s].fail = FALSE,
                                    ![s].wasIn = was]
      BY <2>2
    <2>4. calls'[s].pc = pc /\ \A u \in Threads \ {s} : calls'[u] = calls[u]
      BY <1>a, <1>b, <2>3 DEF CallRec
    <2>5. Covered(s)'
      BY <1>b, <2>1, <2>4 DEF Covered, PcWire
    <2>6. \A u \in Threads \ {s} : wire'[u] = wire[u]
      BY <1>b, <1>e, <2>1
    <2> QED BY <1>b, <2>1, <2>4, <2>5, <2>6, CsFrame
  <1>6. ASSUME NEW s \in Stmts, SavepointMade(s) PROVE CsInv'
    <2>1. wire' = wire /\ cs' = cs /\ wire[s] = << >> /\ cs = s
      BY <1>6, <1>b, <1>c DEF SavepointMade, Answered, Covered, PcWire
    <2>2. \/ \E pc \in {"discard", "post"} : calls' = [calls EXCEPT ![s].err = TRUE, ![s].pc = pc]
          \/ calls' = [calls EXCEPT ![s].pc = "ready"]
      BY <1>6 DEF SavepointMade, GoTo
    <2>3. calls'[s].pc \in {"discard", "post", "ready"}
          /\ \A u \in Threads \ {s} : calls'[u] = calls[u]
      <3>1. CASE calls' = [calls EXCEPT ![s].pc = "ready"]
        BY <1>a, <1>b, <3>1 DEF CallRec
      <3>2. ASSUME NEW pc \in {"discard", "post"},
                   calls' = [calls EXCEPT ![s].err = TRUE, ![s].pc = pc]
            PROVE  calls'[s].pc = pc /\ \A u \in Threads \ {s} : calls'[u] = calls[u]
        BY <1>a, <1>b, <3>2 DEF CallRec
      <3> QED BY <2>2, <3>1, <3>2
    <2>4. Covered(s)'
      BY <1>b, <2>1, <2>3 DEF Covered, PcWire
    <2> QED BY <1>b, <2>1, <2>3, <2>4, CsFrame
  <1>7. ASSUME NEW s \in Stmts, MainDone(s) PROVE CsInv'
    <2>1. calls' = [calls EXCEPT ![s].pc = "post", ![s].err = calls[s].fail]
          /\ wire' = wire /\ cs' = cs /\ wire[s] = << >> /\ cs = s
      BY <1>7, <1>b, <1>c DEF MainDone, Answered, Covered, PcWire
    <2>2. calls'[s].pc = "post" /\ \A u \in Threads \ {s} : calls'[u] = calls[u]
      BY <1>a, <1>b, <2>1 DEF CallRec
    <2>3. Covered(s)'
      BY <1>b, <2>1, <2>2 DEF Covered
    <2> QED BY <1>b, <2>1, <2>2, <2>3, CsFrame
  <1>8. ASSUME NEW s \in Stmts, PostCommit(s) PROVE CsInv'
    <2>1. calls' = [calls EXCEPT ![s].pc = "commit", ![s].fail = FALSE]
          /\ wire' = [wire EXCEPT ![s] = <<Cmd("COMMIT")>>] /\ cs' = cs /\ cs = s
      BY <1>8, <1>b, <1>c DEF PostCommit, Send, Covered
    <2>2. calls'[s].pc = "commit" /\ \A u \in Threads \ {s} : calls'[u] = calls[u]
      BY <1>a, <1>b, <2>1 DEF CallRec
    <2>3. Covered(s)'
      BY <1>b, <2>1, <2>2 DEF Covered, PcWire
    <2>4. \A u \in Threads \ {s} : wire'[u] = wire[u]
      BY <1>b, <1>e, <2>1
    <2> QED BY <1>b, <2>1, <2>2, <2>3, <2>4, CsFrame
  \* LEAVE_CONN_CS keeps what lock_CC_for_rb holds.
  <1>9. ASSUME NEW s \in Stmts, PostCommitDone(s) \/ AbortDone(s) \/ CloseDone(s) PROVE CsInv'
    <2>1. PICK pc \in {"discard", "sync"} : calls' = [calls EXCEPT ![s].pc = pc]
          /\ wire' = wire /\ wire[s] = << >> /\ cs' = (IF calls[s].lock THEN s ELSE NoOne)
      BY <1>9 DEF PostCommitDone, AbortDone, CloseDone, GoTo, Answered, LeaveCs
    <2>2. cs = s
      BY <1>9, <1>b, <1>c DEF PostCommitDone, AbortDone, CloseDone, Answered, Covered, PcWire
    <2>3. calls'[s].pc = pc /\ calls'[s].lock = calls[s].lock
          /\ \A u \in Threads \ {s} : calls'[u] = calls[u]
      BY <1>a, <1>b, <2>1 DEF CallRec
    <2>4. Covered(s)'
      BY <1>b, <2>1, <2>3 DEF Covered, PcWire
    <2> QED BY <1>b, <2>1, <2>2, <2>3, <2>4, CsFrame
  <1>10. ASSUME NEW s \in Stmts, Post(s) PROVE CsInv'
    <2>1. PICK e : calls' = [calls EXCEPT ![s].pc = "discard", ![s].err = calls[s].err \/ e]
          /\ wire' = wire /\ cs' = (IF calls[s].lock THEN s ELSE NoOne)
      BY <1>10 DEF Post, LeaveCs
    <2>2. cs = s /\ wire[s] = << >>
      BY <1>10, <1>b, <1>c DEF Post, Covered, PcWire
    <2>3. calls'[s].pc = "discard" /\ calls'[s].lock = calls[s].lock
          /\ \A u \in Threads \ {s} : calls'[u] = calls[u]
      BY <1>a, <1>b, <2>1 DEF CallRec
    <2>4. Covered(s)'
      BY <1>b, <2>1, <2>2, <2>3 DEF Covered, PcWire
    <2> QED BY <1>b, <2>1, <2>2, <2>3, <2>4, CsFrame
  <1>11. ASSUME NEW s \in Stmts, Discard(s) \/ DecideAbort(s) PROVE CsInv'
    <2>1. PICK pc \in {"end", "aborting"} : calls' = [calls EXCEPT ![s].pc = pc]
          /\ wire' = wire /\ cs' = cs /\ wire[s] = << >>
      BY <1>11, <1>b, <1>c DEF Discard, DecideAbort, GoTo, Covered, PcWire
    <2>2. calls'[s].pc = pc /\ calls'[s].lock = calls[s].lock
          /\ \A u \in Threads \ {s} : calls'[u] = calls[u]
      BY <1>a, <1>b, <2>1 DEF CallRec
    <2>3. Covered(s)'
      BY <1>b, <1>c, <2>1, <2>2 DEF Covered, PcWire
    <2> QED BY <1>b, <2>1, <2>2, <2>3, CsFrame
  <1>12. ASSUME NEW s \in Stmts, Undo(s) PROVE CsInv'
    <2>1. calls' = [calls EXCEPT ![s].pc = "undo", ![s].fail = FALSE]
          /\ wire' = [wire EXCEPT ![s] = UndoCmds] /\ cs' = cs
      BY <1>12 DEF Undo, Send
    <2>2. calls'[s].pc = "undo" /\ calls'[s].lock = calls[s].lock
          /\ \A u \in Threads \ {s} : calls'[u] = calls[u]
      BY <1>a, <1>b, <2>1 DEF CallRec
    <2>3. Covered(s)'
      BY <1>b, <1>c, <2>1, <2>2 DEF Covered, PcWire
    <2>4. \A u \in Threads \ {s} : wire'[u] = wire[u]
      BY <1>b, <1>e, <2>1
    <2> QED BY <1>b, <2>1, <2>2, <2>3, <2>4, CsFrame
  <1>13. ASSUME NEW s \in Stmts, Abort(s) PROVE CsInv'
    <2>1. CASE /\ calls' = [calls EXCEPT ![s].pc = "abort", ![s].fail = FALSE]
               /\ wire' = [wire EXCEPT ![s] = <<Cmd("ROLLBACK")>>] /\ cs' = s
      <3>1. calls'[s].pc = "abort" /\ \A u \in Threads \ {s} : calls'[u] = calls[u]
        BY <1>a, <1>b, <2>1 DEF CallRec
      <3>2. Covered(s)'
        BY <1>b, <2>1, <3>1 DEF Covered, PcWire
      <3>3. \A u \in Threads \ {s} : wire'[u] = wire[u]
        BY <1>b, <1>e, <2>1
      <3>4. cs = NoOne \/ cs = s
        BY <1>13 DEF Abort, FreeFor
      <3> QED BY <1>b, <3>1, <3>2, <3>3, <3>4, CsFrame
    <2>2. CASE calls' = [calls EXCEPT ![s].pc = "end"] /\ wire' = wire /\ cs' = cs
      <3>1. wire[s] = << >>
        BY <1>13, <1>b, <1>c DEF Abort, Covered, PcWire
      <3>2. calls'[s].pc = "end" /\ calls'[s].lock = calls[s].lock
            /\ \A u \in Threads \ {s} : calls'[u] = calls[u]
        BY <1>a, <1>b, <2>2 DEF CallRec
      <3>3. Covered(s)'
        BY <1>b, <1>c, <2>2, <3>1, <3>2 DEF Covered, PcWire
      <3> QED BY <1>b, <2>2, <3>2, <3>3, CsFrame
    <2> QED BY <1>13, <2>1, <2>2 DEF Abort, Send, GoTo
  <1>14. ASSUME NEW s \in Stmts, Sync(s) PROVE CsInv'
    <2>1. wire' = wire /\ cs' = cs /\ wire[s] = << >>
      BY <1>14, <1>b, <1>c DEF Sync, Covered, PcWire
    <2>2. calls' = [calls EXCEPT ![s] = Idle] \/ calls' = [calls EXCEPT ![s].pc = "end"]
      BY <1>14 DEF Sync, GoTo
    <2>3. calls'[s].pc \in {PcIdle, "end"} /\ (calls'[s].lock => calls[s].lock)
          /\ \A u \in Threads \ {s} : calls'[u] = calls[u]
      <3>1. CASE calls' = [calls EXCEPT ![s] = Idle]
        BY <1>b, <1>d, <3>1 DEF Idle
      <3>2. CASE calls' = [calls EXCEPT ![s].pc = "end"]
        BY <1>a, <1>b, <3>2 DEF CallRec
      <3> QED BY <2>2, <3>1, <3>2
    <2>4. Covered(s)'
      BY <1>b, <1>c, <2>1, <2>3 DEF Covered, PcWire, PcIdle
    <2> QED BY <1>b, <2>1, <2>3, <2>4, CsFrame
  <1>15. ASSUME NEW s \in Stmts, EndCall(s) PROVE CsInv'
    <2>1. calls' = [calls EXCEPT ![s] = Idle] /\ wire' = wire /\ wire[s] = << >>
          /\ cs' = (IF calls[s].lock THEN NoOne ELSE cs)
      BY <1>15, <1>b, <1>c DEF EndCall, Covered, PcWire
    <2>2. calls[s].lock => cs = s
      BY <1>b, <1>c DEF Covered
    <2>3. calls'[s] = Idle /\ \A u \in Threads \ {s} : calls'[u] = calls[u]
      BY <1>b, <1>d, <2>1
    <2>4. Covered(s)'
      BY <2>1, <2>3 DEF Covered, PcWire, Idle, PcIdle
    <2> QED BY <1>b, <2>1, <2>2, <2>3, <2>4, CsFrame
  <1>16. ASSUME NEW s \in Stmts, Close(s) PROVE CsInv'
    <2>1. CASE calls' = calls /\ wire' = wire /\ cs' = cs
      BY <2>1 DEF CsInv, Covered
    <2>2. ASSUME NEW m, NEW c, c.pc = "close", cs' = s,
                 wire' = [wire EXCEPT ![s] = m], calls' = [calls EXCEPT ![s] = c]
          PROVE  CsInv'
      <3>1. calls'[s] = c /\ \A u \in Threads \ {s} : calls'[u] = calls[u] /\ wire'[u] = wire[u]
        BY <1>b, <1>d, <1>e, <2>2
      <3>2. Covered(s)'
        BY <2>2, <3>1 DEF Covered, PcWire
      <3>3. cs = NoOne
        BY <1>16 DEF Close
      <3> QED BY <1>b, <3>1, <3>2, <3>3, CsFrame
    <2>3. [Idle EXCEPT !.pc = "close", !.kind = "close", !.before = be].pc = "close"
      BY DEF Idle
    <2> QED BY <1>16, <2>1, <2>2, <2>3 DEF Close
  <1>17. ASSUME NEW k \in {"commit", "rollback"}, EndTran(k) PROVE CsInv'
    <2>1. PICK m, c : wire' = [wire EXCEPT ![Dbc] = m] /\ calls' = [calls EXCEPT ![Dbc] = c]
                      /\ c = [Idle EXCEPT !.pc = "endtran", !.kind = k,
                                          !.cmd = Head(wire'[Dbc]), !.before = be]
      BY <1>17 DEF EndTran
    <2>2. calls'[Dbc].pc = "endtran"
      BY <1>b, <1>d, <2>1 DEF Idle
    <2>3. cs' = Dbc /\ cs = NoOne
      BY <1>17 DEF EndTran
    <2>4. Covered(Dbc)'
      BY <2>2, <2>3 DEF Covered, PcWire
    <2> QED BY <1>b, <1>d, <1>e, <2>1, <2>3, <2>4, CsFrame
  <1>18. CASE SetAutocommit
    <2>1. CASE calls' = calls /\ wire' = wire /\ cs' = cs
      BY <2>1 DEF CsInv, Covered
    <2>2. CASE cs' = Dbc /\ \E m, c : /\ wire' = [wire EXCEPT ![Dbc] = m]
                                      /\ calls' = [calls EXCEPT ![Dbc] = c] /\ c.pc = "autocommit"
      <3>1. Covered(Dbc)'
        BY <1>b, <1>d, <2>2 DEF Covered, PcWire
      <3> QED BY <1>18, <1>b, <1>d, <1>e, <2>2, <3>1, CsFrame DEF SetAutocommit
    <2>3. [Idle EXCEPT !.pc = "autocommit", !.kind = "autocommit", !.before = be].pc = "autocommit"
      BY DEF Idle
    <2> QED BY <1>18, <2>1, <2>2, <2>3 DEF SetAutocommit
  <1>19. CASE EndTranDone \/ SetAutocommitDone
    <2>1. calls' = [calls EXCEPT ![Dbc] = Idle] /\ wire' = wire /\ wire[Dbc] = << >>
          /\ cs' = NoOne /\ cs = Dbc
      BY <1>19, <1>b, <1>c DEF EndTranDone, SetAutocommitDone, Answered, Covered, PcWire
    <2>2. Covered(Dbc)'
      BY <1>b, <1>d, <2>1 DEF Covered, PcWire, Idle, PcIdle
    <2> QED BY <1>b, <1>d, <2>1, <2>2, CsFrame
  <1>20. ASSUME NEW t \in Threads, Reply(t) PROVE CsInv'
    <2>1. cs' = cs /\ wire[t] # << >> /\ \E m : wire' = [wire EXCEPT ![t] = m]
      BY <1>20 DEF Reply
    <2>2. calls' = calls \/ calls' = [calls EXCEPT ![t].fail = TRUE]
      BY <1>20 DEF Reply
    <2>3. calls'[t].pc = calls[t].pc /\ calls'[t].lock = calls[t].lock
          /\ \A u \in Threads \ {t} : calls'[u] = calls[u]
      BY <1>a, <2>2 DEF CallRec
    <2>4. Covered(t)'
      BY <1>c, <2>1, <2>3 DEF Covered
    <2> QED BY <1>e, <2>1, <2>3, <2>4, CsFrame
  <1>21. ASSUME NEW t \in Threads, Lose(t) PROVE CsInv'
    <2>1. \A x \in Threads : wire'[x] = << >>
      BY <1>21 DEF Lose
    <2>2. \A x \in Threads : calls'[x].pc = calls[x].pc /\ calls'[x].lock = calls[x].lock
      BY <1>21, <1>a DEF Lose, CallRec
    <2>3. cs' = cs
      BY <1>21 DEF Lose
    <2> QED BY <1>c, <2>1, <2>2, <2>3 DEF CsInv, Covered
  <1>22. ASSUME NEW s \in Stmts, Reconnect(s) PROVE CsInv'
    BY <1>22 DEF Reconnect, CsInv, Covered
  <1>23. CASE UNCHANGED vars
    BY <1>23 DEF vars, CsInv, Covered
  <1> QED
    BY <1>1, <1>2, <1>3, <1>4, <1>5, <1>6, <1>7, <1>8, <1>9, <1>10, <1>11, <1>12, <1>13,
       <1>14, <1>15, <1>16, <1>17, <1>18, <1>19, <1>20, <1>21, <1>22, <1>23
    DEF Next, Progress, DbcProgress

\* A thread with a message on the wire is in the critical section, except
\* while CC_internal_rollback has PQexec undo a statement.
THEOREM CriticalSection == Spec => []CsInv
  <1> QED BY TypeCorrect, CsInit, CsStep, PTL DEF Spec

-----------------------------------------------------------------------------
(* Levels 0 and 1 make no savepoint of their own, and so undo nothing with *)
(* a message outside the critical section.                                 *)

QuietConn(c) == c.op = "none" /\ ~c.rbpoint
QuietCalls == \A t \in Threads : calls[t].pc \notin {"undo", "svp"}
QuietInv == QuietConn(conn) /\ QuietCalls

LEMMA QuietFlags ==
    ASSUME NEW c \in Conn, QuietConn(c)
    PROVE  /\ QuietConn(StartStmt(c)) /\ QuietConn(OnTransEnd(c)) /\ QuietConn(OnDead(c))
           /\ QuietConn(HandleError(c))
           /\ \A st : QuietConn(UpdateTransactionStatus(c, st))
           /\ \A tag : QuietConn(HandleTag(c, tag))
  <1>1. \A d \in Conn : QuietConn(d) =>
           /\ QuietConn(StartStmt(d)) /\ QuietConn(SvpInit(d)) /\ QuietConn(LeaveTrans(d))
           /\ QuietConn([d EXCEPT !.cursors = {}]) /\ QuietConn([d EXCEPT !.up = FALSE])
    BY DEF QuietConn, StartStmt, SvpInit, LeaveTrans, Conn
  <1>2. QuietConn(OnTransEnd(c))
    BY <1>1, ConnTypes DEF OnTransEnd
  <1>3. QuietConn(OnDead(c))
    BY <1>1, <1>2, ConnTypes DEF OnDead
  <1>4. QuietConn(HandleError(c))
        /\ QuietConn([c EXCEPT !.inTrans = TRUE, !.inError = FALSE])
        /\ QuietConn([c EXCEPT !.inTrans = TRUE, !.inError = TRUE])
    BY DEF QuietConn, HandleError, Conn
  <1>5. \A st : QuietConn(UpdateTransactionStatus(c, st))
    BY <1>2, <1>4 DEF UpdateTransactionStatus
  <1>6. \A tag : QuietConn(HandleTag(c, tag))
    BY DEF QuietConn, HandleTag, Conn
  <1> QED BY <1>1, <1>2, <1>3, <1>4, <1>5, <1>6

LEMMA QuietInit == Init => QuietInv
  BY DEF Init, QuietInv, QuietConn, QuietCalls, Idle, PcIdle

\* No step of these levels asks for a savepoint, or finds one to go back to.
LEMMA QuietConnStep ==
    ASSUME RollbackLevel # 2, TypeOK, QuietInv, [Next]_vars
    PROVE  QuietConn(conn')
  <1>a. conn \in Conn /\ QuietConn(conn)
    BY DEF TypeOK, QuietInv
  <1>b. \A s : ~NeedsSvp(s)
    BY DEF NeedsSvp
  <1>c. \A t : QuietConn(StatusCopied(t)) /\ StatusCopied(t) \in Conn
    BY <1>a, QuietFlags, StatusCopiedType DEF StatusCopied
  <1>1. ASSUME NEW s \in Stmts, Progress(s) PROVE QuietConn(conn')
    <2>1. CASE conn' = conn \/ conn' = StatusCopied(s)
      BY <1>a, <1>c, <2>1
    <2>2. CASE DirectSavepoint(s)
      BY <1>b, <2>2 DEF DirectSavepoint
    <2>3. CASE SavepointMade(s)
      BY <1>c, <2>3 DEF SavepointMade, QuietConn, Conn
    <2>4. CASE SendMain(s)
      <3> DEFINE optIn == conn.optIn /\ ReadOnly(s)
                 accessed == conn.accessed \/ calls[s].kind \notin TransKinds \cup {"special"}
      <3>1. conn' = conn \/ conn' = [conn EXCEPT !.optIn = optIn, !.accessed = accessed,
                                                 !.op = conn.op]
        BY <1>b, <2>4 DEF SendMain
      <3> HIDE DEF optIn, accessed
      <3> QED BY <1>a, <3>1 DEF QuietConn, Conn
    <2>5. CASE MainDone(s)
      <3>1. \A c \in Conn : QuietConn(c) => QuietConn([c EXCEPT !.cursors = @ \cup {s}])
        BY DEF QuietConn, Conn
      <3> QED BY <1>a, <1>c, <2>5, <3>1 DEF MainDone
    <2>6. CASE Post(s)
      <3> DEFINE manual == conn.manual \/ /\ calls[s].kind \notin SelectKinds \cup {"ro"}
                                          /\ conn.inTrans /\ ~calls[s].wasIn
      <3>1. conn' = [conn EXCEPT !.manual = manual]
        BY <2>6 DEF Post
      <3> HIDE DEF manual
      <3> QED BY <1>a, <3>1 DEF QuietConn, Conn
    <2>7. CASE EndCall(s)
      <3>1. QuietConn([conn EXCEPT !.optPrev = conn.optIn, !.optIn = TRUE])
            /\ [conn EXCEPT !.optPrev = conn.optIn, !.optIn = TRUE] \in Conn
        BY <1>a DEF QuietConn, Conn
      <3> QED BY <1>a, <2>7, <3>1, QuietFlags DEF EndCall
    <2> QED
      BY <1>1, <2>1, <2>2, <2>3, <2>4, <2>5, <2>6, <2>7
      DEF Progress, Down, PreCommit, PreCommitDone, BeginFirst, BeginDone, PostCommit,
          PostCommitDone, Discard, Undo, UndoDone, DecideAbort, Abort, AbortDone, Sync, CloseDone
  <1>2. ASSUME NEW s \in Stmts, Call(s) \/ Close(s) \/ Reconnect(s) PROVE QuietConn(conn')
    BY <1>a, <1>2 DEF Call, Close, Reconnect, QuietConn, Conn
  <1>3. ASSUME NEW k \in {"commit", "rollback"}, EndTran(k) PROVE QuietConn(conn')
    BY <1>a, <1>3 DEF EndTran
  <1>4. CASE SetAutocommit \/ DbcProgress
    <2>1. \A c \in Conn : QuietConn(c) => QuietConn([c EXCEPT !.autocommit = ~@])
      BY DEF QuietConn, Conn
    <2>2. QuietConn(OnTransEnd(StatusCopied(Dbc)))
      BY <1>c, QuietFlags
    <2> QED BY <1>a, <1>c, <1>4, <2>1, <2>2
            DEF SetAutocommit, DbcProgress, EndTranDone, SetAutocommitDone
  <1>5. ASSUME NEW t \in Threads, Reply(t) PROVE QuietConn(conn')
    BY <1>a, <1>5, QuietFlags DEF Reply
  <1>6. ASSUME NEW t \in Threads, Lose(t) PROVE QuietConn(conn')
    BY <1>a, <1>6, QuietFlags DEF Lose
  <1>7. CASE UNCHANGED vars
    BY <1>a, <1>7 DEF vars
  <1> QED BY <1>1, <1>2, <1>3, <1>4, <1>5, <1>6, <1>7 DEF Next

\* A call gets to "undo" or "svp" only from a savepoint.
LEMMA QuietCallsStep ==
    ASSUME RollbackLevel # 2, TypeOK, QuietInv, [Next]_vars
    PROVE  QuietCalls'
  <1>a. calls \in [Threads -> CallRec]
    BY DEF TypeOK
  <1>b. Stmts \subseteq Threads /\ Dbc \in Threads
    BY DEF Threads
  <1>c. \A t \in Threads : calls[t].pc \notin {"undo", "svp"}
    BY DEF QuietInv, QuietCalls
  <1>d. Idle.pc \notin {"undo", "svp"}
    BY DEF Idle, PcIdle
  \* A step that only moves thread s, to another place.
  <1>e. ASSUME NEW s \in Threads, NEW c, calls' = [calls EXCEPT ![s] = c],
               c.pc \notin {"undo", "svp"}
        PROVE  QuietCalls'
    BY <1>a, <1>c, <1>e DEF QuietCalls
  <1>1. ASSUME NEW s \in Stmts, Call(s) PROVE QuietCalls'
    <2>0. PICK o \in Ops : \E cmd \in BodyOf(o.kind), e \in BOOLEAN :
             calls' = [calls EXCEPT ![s] =
                  [Idle EXCEPT !.pc = IF o.kind = "local" THEN "discard" ELSE "exec",
                               !.kind = o.kind, !.prot = o.prot, !.cmd = cmd,
                               !.err = e, !.before = be]]
      BY <1>1 DEF Call
    <2>1. PICK cmd \in BodyOf(o.kind), e \in BOOLEAN : calls' = [calls EXCEPT ![s] =
                  [Idle EXCEPT !.pc = IF o.kind = "local" THEN "discard" ELSE "exec",
                               !.kind = o.kind, !.prot = o.prot, !.cmd = cmd,
                               !.err = e, !.before = be]]
      BY <2>0
    <2>2. [Idle EXCEPT !.pc = IF o.kind = "local" THEN "discard" ELSE "exec",
                       !.kind = o.kind, !.prot = o.prot, !.cmd = cmd,
                       !.err = e, !.before = be].pc \in {"discard", "exec"}
      BY DEF Idle
    <2> QED BY <1>b, <1>e, <2>1, <2>2
  <1>2. ASSUME NEW s \in Stmts,
               \E pc \in {"precommit", "begin", "main", "commit", "abort"} :
                  \E lock, was : calls' = [calls EXCEPT ![s].pc = pc, ![s].fail = FALSE,
                                              ![s].lock = lock, ![s].wasIn = was]
        PROVE  QuietCalls'
    <2>1. PICK pc \in {"precommit", "begin", "main", "commit", "abort"} : \E lock, was :
                  calls' = [calls EXCEPT ![s].pc = pc, ![s].fail = FALSE,
                                              ![s].lock = lock, ![s].wasIn = was]
      BY <1>2
    <2>2. calls'[s].pc = pc /\ \A u \in Threads \ {s} : calls'[u] = calls[u]
      BY <1>a, <1>b, <2>1 DEF CallRec
    <2> QED BY <1>c, <2>2 DEF QuietCalls
  <1>3. ASSUME NEW s \in Stmts,
               \E pc \in Pcs \ {"undo", "svp"} :
                  \/ calls' = [calls EXCEPT ![s].pc = pc]
                  \/ calls' = [calls EXCEPT ![s].pc = pc, ![s].fail = FALSE]
                  \/ \E e : calls' = [calls EXCEPT ![s].pc = pc, ![s].err = e]
        PROVE  QuietCalls'
    <2>1. PICK pc \in Pcs \ {"undo", "svp"} :
                  \/ calls' = [calls EXCEPT ![s].pc = pc]
                  \/ calls' = [calls EXCEPT ![s].pc = pc, ![s].fail = FALSE]
                  \/ \E e : calls' = [calls EXCEPT ![s].pc = pc, ![s].err = e]
      BY <1>3
    <2>2. CASE calls' = [calls EXCEPT ![s].pc = pc]
      <3>1. calls'[s].pc = pc /\ \A u \in Threads \ {s} : calls'[u] = calls[u]
        BY <1>a, <1>b, <2>2 DEF CallRec
      <3> QED BY <1>c, <3>1 DEF QuietCalls
    <2>3. CASE calls' = [calls EXCEPT ![s].pc = pc, ![s].fail = FALSE]
      <3>1. calls'[s].pc = pc /\ \A u \in Threads \ {s} : calls'[u] = calls[u]
        BY <1>a, <1>b, <2>3 DEF CallRec
      <3> QED BY <1>c, <3>1 DEF QuietCalls
    <2>4. ASSUME NEW e, calls' = [calls EXCEPT ![s].pc = pc, ![s].err = e] PROVE QuietCalls'
      <3>1. calls'[s].pc = pc /\ \A u \in Threads \ {s} : calls'[u] = calls[u]
        BY <1>a, <1>b, <2>4 DEF CallRec
      <3> QED BY <1>c, <3>1 DEF QuietCalls
    <2> QED BY <2>1, <2>2, <2>3, <2>4
  <1>4. ASSUME NEW s \in Stmts, Down(s) \/ MainDone(s) \/ Post(s) PROVE QuietCalls'
    <2>1. \E pc \in {"post", "discard"} : \E e : calls' = [calls EXCEPT ![s].pc = pc, ![s].err = e]
      BY <1>4 DEF Down, MainDone, Post
    <2> QED BY <1>3, <2>1 DEF Pcs
  <1>5. ASSUME NEW s \in Stmts, PreCommit(s) \/ BeginFirst(s) \/ PostCommit(s) PROVE QuietCalls'
    <2>1. \E pc \in {"precommit", "begin", "commit"} :
              calls' = [calls EXCEPT ![s].pc = pc, ![s].fail = FALSE]
      BY <1>5 DEF PreCommit, BeginFirst, PostCommit, Send
    <2> QED BY <1>3, <2>1 DEF Pcs, PcWire
  <1>6. ASSUME NEW s \in Stmts,
               \/ PreCommitDone(s) \/ BeginDone(s) \/ UndoDone(s) \/ PostCommitDone(s)
               \/ Discard(s) \/ DecideAbort(s) \/ AbortDone(s) \/ CloseDone(s)
        PROVE  QuietCalls'
    <2>1. \E pc \in {"exec", "request", "end", "discard", "aborting", "sync"} :
              calls' = [calls EXCEPT ![s].pc = pc]
      BY <1>6 DEF PreCommitDone, BeginDone, UndoDone, PostCommitDone, Discard, DecideAbort,
                  AbortDone, CloseDone, GoTo
    <2> QED BY <1>3, <2>1 DEF Pcs
  <1>7. ASSUME NEW s \in Stmts, DirectSavepoint(s) \/ SavepointMade(s) \/ Undo(s) PROVE FALSE
    <2>1. ~HasRbPoint /\ ~NeedsSvp(s) /\ calls[s].pc # "svp"
      BY <1>b, <1>c DEF QuietInv, QuietConn, HasRbPoint, NeedsSvp
    <2> QED BY <1>7, <2>1 DEF DirectSavepoint, SavepointMade, Undo, Answered
  <1>8. ASSUME NEW s \in Stmts, SendMain(s) PROVE QuietCalls'
    <2> DEFINE enters == calls[s].pc # "ready" /\ EntersSvp(s)
               was == IF calls[s].pc = "exec" THEN conn.inTrans ELSE calls[s].wasIn
    <2>1. calls' = [calls EXCEPT ![s].pc = "main", ![s].fail = FALSE,
                      ![s].lock = calls[s].lock \/ enters, ![s].wasIn = was]
      BY <1>8 DEF SendMain
    <2> HIDE DEF enters, was
    <2> QED BY <1>2, <2>1
  <1>9. ASSUME NEW s \in Stmts, Abort(s) PROVE QuietCalls'
    <2>1. \/ calls' = [calls EXCEPT ![s].pc = "abort", ![s].fail = FALSE]
          \/ calls' = [calls EXCEPT ![s].pc = "end"]
      BY <1>9 DEF Abort, Send, GoTo
    <2> QED BY <1>3, <2>1 DEF Pcs, PcWire
  <1>10. ASSUME NEW s \in Stmts, Sync(s) \/ EndCall(s) PROVE QuietCalls'
    <2>1. calls' = [calls EXCEPT ![s] = Idle] \/ calls' = [calls EXCEPT ![s].pc = "end"]
      BY <1>10 DEF Sync, EndCall, GoTo
    <2>2. CASE calls' = [calls EXCEPT ![s].pc = "end"]
      BY <1>3, <2>2 DEF Pcs
    <2> QED BY <1>b, <1>d, <1>e, <2>1, <2>2
  <1>11. ASSUME NEW s \in Stmts, Close(s) PROVE QuietCalls'
    <2>1. [Idle EXCEPT !.pc = "close", !.kind = "close", !.before = be].pc = "close"
      BY DEF Idle
    <2>2. calls' = calls \/ calls' = [calls EXCEPT ![s] =
                [Idle EXCEPT !.pc = "close", !.kind = "close", !.before = be]]
      BY <1>11 DEF Close
    <2>3. CASE calls' = calls
      BY <1>c, <2>3 DEF QuietCalls
    <2> QED BY <1>b, <1>e, <2>1, <2>2, <2>3
  <1>12. ASSUME NEW k \in {"commit", "rollback"}, EndTran(k) PROVE QuietCalls'
    <2>1. PICK cmd : calls' = [calls EXCEPT ![Dbc] =
                [Idle EXCEPT !.pc = "endtran", !.kind = k, !.cmd = cmd, !.before = be]]
      BY <1>12 DEF EndTran
    <2>2. [Idle EXCEPT !.pc = "endtran", !.kind = k, !.cmd = cmd, !.before = be].pc = "endtran"
      BY DEF Idle
    <2> QED BY <1>b, <1>e, <2>1, <2>2
  <1>13. CASE SetAutocommit
    <2>1. [Idle EXCEPT !.pc = "autocommit", !.kind = "autocommit", !.before = be].pc = "autocommit"
      BY DEF Idle
    <2>2. calls' = calls \/ calls' = [calls EXCEPT ![Dbc] =
                [Idle EXCEPT !.pc = "autocommit", !.kind = "autocommit", !.before = be]]
      BY <1>13 DEF SetAutocommit
    <2>3. CASE calls' = calls
      BY <1>c, <2>3 DEF QuietCalls
    <2> QED BY <1>b, <1>e, <2>1, <2>2, <2>3
  <1>14. CASE DbcProgress
    <2>1. calls' = [calls EXCEPT ![Dbc] = Idle]
      BY <1>14 DEF DbcProgress, EndTranDone, SetAutocommitDone
    <2> QED BY <1>b, <1>d, <1>e, <2>1
  <1>15. ASSUME NEW t \in Threads, Reply(t) PROVE QuietCalls'
    <2>1. calls' = calls \/ calls' = [calls EXCEPT ![t].fail = TRUE]
      BY <1>15 DEF Reply
    <2>2. \A u \in Threads : calls'[u].pc = calls[u].pc
      BY <1>a, <2>1 DEF CallRec
    <2> QED BY <1>c, <2>2 DEF QuietCalls
  <1>16. ASSUME NEW t \in Threads, Lose(t) PROVE QuietCalls'
    <2>1. \A u \in Threads : calls'[u].pc = calls[u].pc
      BY <1>16, <1>a DEF Lose, CallRec
    <2> QED BY <1>c, <2>1 DEF QuietCalls
  <1>17. ASSUME calls' = calls PROVE QuietCalls'
    BY <1>c, <1>17 DEF QuietCalls
  <1> QED
    BY <1>1, <1>4, <1>5, <1>6, <1>7, <1>8, <1>9, <1>10, <1>11, <1>12, <1>13, <1>14, <1>15,
       <1>16, <1>17
    DEF Next, Progress, Reconnect, vars

\* OneInFlight of StatementSvp: when the driver undoes whole transactions or
\* nothing at all, the critical section keeps two threads from having messages
\* in flight at the same time on one connection, however many threads and
\* statement handles there are and with the connection breaking at any time.
THEOREM OneMessage ==
    ASSUME RollbackLevel # 2
    PROVE  Spec => []OneInFlight
  <1>1. QuietInv /\ TypeOK /\ [Next]_vars => QuietInv'
    BY QuietConnStep, QuietCallsStep DEF QuietInv, QuietConn, QuietCalls
  <1>2. QuietInv /\ CsInv => OneInFlight
    BY DEF QuietInv, QuietCalls, CsInv, Covered, OneInFlight
  <1> QED BY TypeCorrect, CriticalSection, QuietInit, <1>1, <1>2, PTL DEF Spec
===============================================================================
