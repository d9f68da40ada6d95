---------------------------- MODULE MCQueryText ----------------------------
(* Instances of QueryText: texts of any length with up to two commands.  *)
EXTENDS QueryText

=============================================================================
