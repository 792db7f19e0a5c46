------------------------------- MODULE Requests -------------------------------
(***************************************************************************)
(* The handlers of internal/api that stop the compute of an endpoint:      *)
(* debugStop, and deleteBranch / deleteProject.  The two deletes take the  *)
(* same steps for an endpoint; they differ in the pageserver call.         *)
(***************************************************************************)
EXTENDS Processes

CONSTANT Handlers     \* which of the handlers are used

ASSUME HandlersAssumption == Handlers \subseteq {"debug", "deleter"}

\* The request's client goes away: every later call of the handler fails.
CancelRequest(a) ==
  /\ pc[a] # "idle"
  /\ Charge("cancel")
  /\ Goto(a, "idle")
  /\ UNCHANGED <<row, cluster, loc, seen>>

-----------------------------------------------------------------------------
(***************************************************************************)
(* debugStop: Stop, then an unconditional write to suspended.              *)
(***************************************************************************)
DebugStop ==
  /\ "debug" \in Handlers
  /\ pc["debug"] = "idle"
  /\ Goto("debug", "dbg_pod")
  /\ UNCHANGED <<row, cluster, loc, seen, faults>>

DebugStopPod       == StopPod("debug", "dbg_pod", "dbg_cm", "idle")
DebugStopConfigMap == StopConfigMap("debug", "dbg_cm", "dbg_set", "idle")

DebugSetSuspended ==
  /\ pc["debug"] = "dbg_set"
  /\ \E o \in Outcomes :
       /\ Cost(o)
       /\ row' = After(o, SetEndpointSuspended, row)
  /\ Goto("debug", "idle")
  /\ UNCHANGED <<cluster, loc, seen>>

DebugStep == DebugStopPod \/ DebugStopConfigMap \/ DebugSetSuspended

-----------------------------------------------------------------------------
(***************************************************************************)
(* deleteBranch / deleteProject: Stop (an error is only logged, and a      *)
(* failed lookup of the endpoint skips it), delete the storage, delete the *)
(* rows.  An error of the last two ends the request.                       *)
(***************************************************************************)
DeleteRequest ==
  /\ "deleter" \in Handlers
  /\ pc["deleter"] = "idle"
  /\ row.exists
  /\ \/ Goto("deleter", "del_pod") /\ UNCHANGED faults
     \/ Goto("deleter", "del_tl") /\ Charge("call")
  /\ UNCHANGED <<row, cluster, loc, seen>>

DeleteStopPod       == StopPod("deleter", "del_pod", "del_cm", "del_tl")
DeleteStopConfigMap == StopConfigMap("deleter", "del_cm", "del_tl", "del_tl")

\* DeleteTimeline or DeleteTenant; the storage itself is not modelled here.
DeleteStorage ==
  /\ pc["deleter"] = "del_tl"
  /\ \E o \in Outcomes :
       /\ Cost(o)
       /\ Goto("deleter", IF o = "ok" THEN "del_row" ELSE "idle")
  /\ UNCHANGED <<row, cluster, loc, seen>>

DeleteRow ==
  /\ pc["deleter"] = "del_row"
  /\ \E o \in Outcomes :
       /\ Cost(o)
       /\ row' = After(o, DeletedRow, row)
  /\ Goto("deleter", "idle")
  /\ UNCHANGED <<cluster, loc, seen>>

DeleteStep ==
  DeleteStopPod \/ DeleteStopConfigMap \/ DeleteStorage \/ DeleteRow
=============================================================================
