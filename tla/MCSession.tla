------------------------------ MODULE MCSession ------------------------------
(***************************************************************************)
(* Instances of Session for TLC.  Two clients: the one in the map and one  *)
(* that a Reset left to the requests inside it.  The sessions outnumber    *)
(* the BMC's limit, so that it can be at its limit and hand out a new      *)
(* identity while both clients still hold dead ones.                       *)
(***************************************************************************)
EXTENDS Session, TLC

Symmetry == Permutations(Clients) \cup Permutations(Sessions)
=============================================================================
