------------------------------ MODULE MCKeyset ------------------------------
(* Instances of Keyset. *)
EXTENDS Keyset
=============================================================================
