------------------------- MODULE TransactionContract -------------------------
(***************************************************************************)
(* What the driver promises an application that has switched autocommit    *)
(* off and left the level of rollback on errors at Statement(2): it works  *)
(* on a PostgreSQL session of its own, in which a transaction begins with  *)
(* the first statement and a statement that returns SQL_ERROR has no       *)
(* effect at all.  A call is made, may turn out to fail, and returns; what *)
(* it does to the session is visible when it returns.                      *)
(***************************************************************************)
EXTENDS PgSession

VARIABLES
    session,    \* a record as PgSession has them, with user savepoints only
    call        \* the call in progress

NoCall == [busy |-> FALSE, cmd |-> Cmd("READ"), failed |-> FALSE]
DoesNothing == Cmd("READ")

Data == {DoesNothing} \cup {WriteCmd(w) : w \in Writes}
Control == {Cmd("BEGIN"), Cmd("COMMIT"), Cmd("ROLLBACK")}
           \cup {SvpCmd(c, n) : c \in {"SAVEPOINT", "RELEASE", "ROLLBACK TO"}, n \in SvpNames}

Make == /\ ~call.busy /\ session.st # "X"
        /\ \E cmd \in Data \cup Control : \E failed \in BOOLEAN :
              call' = [busy |-> TRUE, cmd |-> cmd, failed |-> failed]
        /\ UNCHANGED session

Fail == /\ call.busy /\ ~call.failed
        /\ call' = [call EXCEPT !.failed = TRUE]
        /\ UNCHANGED session

\* The first statement begins the transaction.
Begun == IF session.st = "I" THEN [session EXCEPT !.st = "T"] ELSE session

Return == call.busy /\ call' = NoCall

\* A call that succeeds does what its command does.  SQLEndTran succeeds when
\* the server took the command, whatever it made of it.  A call that writes
\* nothing may stay clear of the transaction.
Succeed == /\ Return /\ ~call.failed
           /\ \/ \E o \in Outcomes(Begun, call.cmd) : o.tag # "ERROR" /\ session' = o.be
              \/ call.cmd = DoesNothing /\ UNCHANGED session

\* A statement on data that fails does nothing, except that a transaction with
\* no work in it may be ended (its savepoints go with it).
FailData == /\ Return /\ call.failed /\ call.cmd \in Data
            /\ \/ UNCHANGED session
               \/ session.work = << >> /\ session' = FreshSession(session.durable)

\* A failing transaction command has the server's effect.
FailControl == /\ Return /\ call.failed
               /\ \E o \in Outcomes(Begun, call.cmd) : o.tag = "ERROR" /\ session' = o.be

\* The connection broke during the call, which the application is told: the
\* transaction is gone, unless it was being committed and the answer got lost.
Lost == /\ Return /\ call.failed
        /\ \E d \in {session.durable} \cup
                    {d \in {session.durable \cup {session.work[i] : i \in DOMAIN session.work}} :
                        call.cmd.c = "COMMIT"} :
              session' = Gone(FreshSession(d))

\* The next call fails over to a new connection.
Reconnect == /\ ~call.busy /\ session.st = "X"
             /\ session' = FreshSession(session.durable)
             /\ UNCHANGED call

Init == session = FreshSession({}) /\ call = NoCall
Next == Make \/ Fail \/ Succeed \/ FailData \/ FailControl \/ Lost \/ Reconnect
Spec == Init /\ [][Next]_<<session, call>>
==============================================================================
