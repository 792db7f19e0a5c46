---------------------------- MODULE MCProvisioning ----------------------------
(***************************************************************************)
(* Provisioning for TLC: three branches give a chain of main, child and    *)
(* grandchild, two names both a collision and none.                        *)
(***************************************************************************)
EXTENDS Provisioning
=============================================================================
