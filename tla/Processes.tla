------------------------------ MODULE Processes ------------------------------
(***************************************************************************)
(* What the goroutines that act on an endpoint have in common: a program   *)
(* counter, one address in a local variable, and the calls of Stop.        *)
(*                                                                         *)
(* The processes are the concurrent Wake calls, the sweep loop, and one    *)
(* handler each of the debug stop and the delete requests.  pc[a] names    *)
(* the next remote call of process a; every remote call is one step.       *)
(***************************************************************************)
EXTENDS EndpointStore, K8sRuntime, Calls

ASSUME WakersAssumption == Wakers \cap {"sweeper", "debug", "deleter"} = {}

VARIABLES
  pc,           \* pc[a]: the next call of process a
  loc,          \* loc[a]: the address process a holds in a local variable
  seen          \* history: the pod IPs there were during the call of a waker

Actors == Wakers \cup {"sweeper", "debug", "deleter"}

cluster == <<pod, cm>>

-----------------------------------------------------------------------------
(***************************************************************************)
(* Program counters, and the owners of the endpoint: a waker from winning  *)
(* the CAS to `starting` until it returns, the sweeper from winning the    *)
(* CAS to `suspending` until it returns.                                   *)
(***************************************************************************)
WakeOwnerPc  == {"clear_pod", "clear_cm", "spec", "start_cm", "get_cm",
                 "update_cm", "start_pod", "poll", "probe", "set_running",
                 "fail_pod", "fail_cm", "fail_cas"}
CallingPc    == {"lock", "verify", "reconcile", "cas_suspended", "cas_failed",
                 "take_starting", "take_suspending"} \cup WakeOwnerPc
WakerPc      == {"idle", "replied"} \cup CallingPc
SweepOwnerPc == {"terminate", "sw_pod", "sw_cm", "sw_set"}
SweeperPc    == {"idle", "check", "sw_reconcile", "fetch", "sw_cas"}
                  \cup SweepOwnerPc
DebugPc      == {"idle", "dbg_pod", "dbg_cm", "dbg_set"}
DeleterPc    == {"idle", "del_pod", "del_cm", "del_tl", "del_row"}
PcValues     == WakerPc \cup SweeperPc \cup DebugPc \cup DeleterPc

Owners == {w \in Wakers : pc[w] \in WakeOwnerPc}
            \cup {a \in {"sweeper"} : pc[a] \in SweepOwnerPc}

ProcessInit ==
  /\ pc = [a \in Actors |-> "idle"]
  /\ loc = [a \in Actors |-> NULL]
  /\ seen = [w \in Wakers |-> {}]
  /\ faults = 0

Goto(a, l) == pc' = [pc EXCEPT ![a] = l]

-----------------------------------------------------------------------------
(***************************************************************************)
(* Runtime.Stop: delete the pod, then the ConfigMap; an error of the first *)
(* call skips the second.                                                  *)
(***************************************************************************)
StopPod(a, here, next, onErr) ==
  /\ pc[a] = here
  /\ \E o \in Outcomes :
       /\ Cost(o)
       /\ pod' = After(o, DeletedPod, pod)
       /\ Goto(a, IF o = "ok" THEN next ELSE onErr)
  /\ UNCHANGED <<row, cm, loc, seen>>

StopConfigMap(a, here, next, onErr) ==
  /\ pc[a] = here
  /\ \E o \in Outcomes :
       /\ Cost(o)
       /\ cm' = After(o, DeletedConfigMap, cm)
       /\ Goto(a, IF o = "ok" THEN next ELSE onErr)
  /\ UNCHANGED <<row, pod, loc, seen>>
=============================================================================
