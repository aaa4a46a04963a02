-------------------------- MODULE MCCollectorCache --------------------------
(***************************************************************************)
(* Instances of CollectorCache for TLC.  Objects are reused once nothing   *)
(* refers to them, so the module needs no bound besides its constants.     *)
(***************************************************************************)
EXTENDS CollectorCache, TLC

\* Every file there can be.
AllFiles == Hosts

\* Files that have at most one entry, a target's or the default one.
SmallFiles == {hs \in Hosts : \A k, l \in Keys : k = l \/ NoCreds \in {hs[k], hs[l]}}

\* Files that have an entry for every target and no default: reloads that only
\* change logins, which is when a reload calls Reset.
LoginFiles == {hs \in Hosts : hs[Default] = NoCreds /\ \A t \in Targets : hs[t] # NoCreds}

\* Requests and objects are interchangeable; targets, logins and groups are not
\* worth permuting.
Symmetry == Permutations(Requests) \cup Permutations(Objects)
=============================================================================
