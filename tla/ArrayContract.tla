---------------------------- MODULE ArrayContract ----------------------------
(***************************************************************************)
(* What an application that executes a statement for an array of parameter *)
(* sets, in autocommit mode, may rely on: the rows it has not told the     *)
(* driver to ignore take effect in the order of the array, none of them    *)
(* twice and none left out, until the execution is over; and once it is    *)
(* over (finished, failed or cancelled) none of its rows ever does.        *)
(***************************************************************************)
EXTENDS Integers, Sequences, FiniteSets

CONSTANTS MaxRows

VARIABLES
    exec,   \* how many executions have begun
    todo,   \* the rows the execution in progress has yet to execute
    done    \* the rows in effect, in the order they took effect

Init == exec = 0 /\ todo = {} /\ done = << >>

Begin == /\ todo = {}
         /\ exec' = exec + 1
         /\ todo' \in SUBSET (0 .. MaxRows - 1)
         /\ UNCHANGED done

\* A message of the driver's takes effect as a whole: the next few rows.
Apply == /\ \E last \in todo :
               LET rows == {r \in todo : r <= last} IN
               /\ todo' = todo \ rows
               /\ Len(done') = Len(done) + Cardinality(rows)
               /\ SubSeq(done', 1, Len(done)) = done
               /\ \A i \in Len(done) + 1 .. Len(done') :
                     /\ done'[i].exec = exec /\ done'[i].row \in rows
                     /\ i > Len(done) + 1 => done'[i].row > done'[i - 1].row
         /\ UNCHANGED exec

Over == todo' = {} /\ UNCHANGED <<exec, done>>

Next == Begin \/ Apply \/ Over
Spec == Init /\ [][Next]_<<exec, todo, done>>
==============================================================================
