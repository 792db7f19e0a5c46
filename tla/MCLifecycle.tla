----------------------------- MODULE MCLifecycle -----------------------------
(***************************************************************************)
(* Lifecycle for TLC.  Wakers and addresses are interchangeable; symmetry  *)
(* is used in the runs that check no liveness property.                    *)
(***************************************************************************)
EXTENDS Lifecycle, TLC

Symmetry == Permutations(Wakers) \cup Permutations(IPs)
=============================================================================
