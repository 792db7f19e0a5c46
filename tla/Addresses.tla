------------------------------ MODULE Addresses ------------------------------
(***************************************************************************)
(* Compute addresses.  compute_addr is "<pod ip>:55433" with a constant    *)
(* port, so an address is identified with the pod IP.                      *)
(***************************************************************************)

CONSTANTS
  IPs,    \* addresses the cluster can give to a compute pod
  NULL    \* SQL NULL, an empty pod IP, and "no address"

ASSUME NullAssumption == NULL \notin IPs

MaybeIP == IPs \cup {NULL}
=============================================================================
