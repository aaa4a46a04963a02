-------------------------- MODULE MCReloadTriggers --------------------------
(***************************************************************************)
(* Instances of ReloadTriggers for TLC.  MaxEdits is the only bound.       *)
(***************************************************************************)
EXTENDS ReloadTriggers
=============================================================================
