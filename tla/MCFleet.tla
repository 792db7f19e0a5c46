------------------------------- MODULE MCFleet -------------------------------
(***************************************************************************)
(* Fleet for TLC: no more addresses than endpoints, so that an address     *)
(* that becomes free is used again.  Symmetry is used in the runs that     *)
(* check no liveness property.                                             *)
(***************************************************************************)
EXTENDS Fleet, TLC

Symmetry == Permutations(Wakers) \cup Permutations(IPs) \cup Permutations(Endpoints)
=============================================================================
