-------------------------------- MODULE Calls --------------------------------
(***************************************************************************)
(* Remote calls that may fail.  Every statement, Kubernetes request and    *)
(* HTTP request of the control plane is one atomic step with an outcome;   *)
(* whatever goes wrong is charged against a bounded budget.                *)
(***************************************************************************)
EXTENDS Naturals

CONSTANTS
  Faults,       \* the kinds of adverse events that may happen
  MaxFaults     \* bound on the number of adverse events

(***************************************************************************)
(* call   : a remote call fails without effect.                            *)
(* lost   : a remote call takes effect, but the caller sees an error.      *)
(* bad    : an answer carries an LSN that does not parse.                  *)
(* cancel : the HTTP client of a request goes away.                        *)
(* slow   : an owner is still working when staleAfter has passed.          *)
(* ready  : readyTimeout passes, though the pod would have become ready.   *)
(* wake   : the deadline of Wake passes while it waits.                    *)
(* wait   : the deadline of a polling loop of the storage clients passes.  *)
(* ctl    : compute_ctl reports failed.                                    *)
(* pod    : a pod dies or disappears.                                      *)
(* crash  : the control plane process restarts.                            *)
(* hang   : compute_ctl takes a request and never answers it.              *)
(* db     : the state database goes away for a while.                      *)
(* reuse  : the IP of a dead pod is given away while the pod still has it. *)
(***************************************************************************)
FaultKinds == {"call", "lost", "bad", "cancel", "slow", "ready", "wake", "wait",
               "ctl", "pod", "crash", "hang", "db", "reuse"}

ASSUME FaultsAssumption == Faults \subseteq FaultKinds
ASSUME MaxFaultsAssumption == MaxFaults \in Nat

VARIABLE
  faults        \* adverse events so far

Charge(kind) ==
  /\ kind \in Faults
  /\ faults < MaxFaults
  /\ faults' = faults + 1

Outcomes == {"ok", "call", "lost"}

Cost(o) == IF o = "ok" THEN UNCHANGED faults ELSE Charge(o)

\* The target of the call after it: changed unless the call had no effect.
After(o, new, old) == IF o = "call" THEN old ELSE new
=============================================================================
