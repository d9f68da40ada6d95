----------------------------- MODULE MCParamExec -----------------------------
(***************************************************************************)
(* Small instances of ParamExec: what the application keeps clear of.      *)
(***************************************************************************)
EXTENDS ParamExec

Everything == {"cancelBatch", "badValueInBatch", "directAfterCancel", "ignoredTailFails", "busyCancel"}
==============================================================================
