----------------------------- MODULE MCBulkOps -----------------------------
(* Instances of BulkOps: rowsets of two rows over three tuples, the middle  *)
(* one of which has left the rowset.                                       *)
EXTENDS BulkOps

AnyLive == {{0, 2}}
AnyIgnore == {{}, {0}}

=============================================================================
