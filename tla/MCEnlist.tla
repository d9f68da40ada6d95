------------------------------ MODULE MCEnlist ------------------------------
(***************************************************************************)
(* Instances of Enlist for TLC.                                            *)
(***************************************************************************)
EXTENDS Enlist, TLC

\* The branches are enlisted one after the other and are otherwise alike.
BranchSymmetry == Permutations(Branches)
=============================================================================
