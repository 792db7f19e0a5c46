---------------------------- MODULE MCBranchPoint ----------------------------
(***************************************************************************)
(* BranchPoint for TLC: Half = 2 gives four LSNs, so that the order of     *)
(* positions crosses the boundary between the halves.                      *)
(***************************************************************************)
EXTENDS BranchPoint
=============================================================================
