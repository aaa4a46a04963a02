----------------------------- MODULE MCCollector -----------------------------
(***************************************************************************)
(* Instances of Collector for TLC.  The module has no counters, so the     *)
(* number of callers is the only bound: with three there can be a leader,  *)
(* a rider of its collection and a rider of an earlier one at once.        *)
(***************************************************************************)
EXTENDS Collector, TLC

\* The callers run the same code.
Symmetry == Permutations(Callers)
=============================================================================
