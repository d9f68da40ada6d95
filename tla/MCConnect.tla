----------------------------- MODULE MCConnect -----------------------------
(* Instances of Connect. *)
EXTENDS Connect, TLC
CONSTANTS c1, c2

\* A connection string
Str(mode, server, iam, limitless, failover) ==
    [mode |-> mode, server |-> server, iam |-> iam, right |-> TRUE,
     limitless |-> limitless, failover |-> failover]

\* One handle connects in all three modes, the other by an alias of the cluster.
SharedTargets ==
    c1 :> {Str("token", "cluster", NoHost, FALSE, TRUE),
           Str("secret", "cluster", NoHost, TRUE, FALSE),
           [Str("database", "cluster", NoHost, FALSE, FALSE) EXCEPT !.right = FALSE]}
    @@ c2 :> {Str("token", "alias", "cluster", FALSE, FALSE)}

=============================================================================
