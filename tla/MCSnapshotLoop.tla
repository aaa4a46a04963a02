--------------------------- MODULE MCSnapshotLoop ---------------------------
(***************************************************************************)
(* Instances of SnapshotLoop for TLC.                                      *)
(***************************************************************************)
EXTENDS SnapshotLoop, TLC

\* The hosts are alike; the run with temporal properties does without.
Alike == Permutations(Targets)
=============================================================================
