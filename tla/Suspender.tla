------------------------------ MODULE Suspender ------------------------------
(***************************************************************************)
(* internal/suspend: the sweep, run by one goroutine on a ticker (main.go).*)
(* Its context is the process's, so only a crash cancels it.               *)
(***************************************************************************)
EXTENDS Processes

VARIABLE
  grace     \* the sweep's copy of the row: was last_started_at recent?

SuspenderInit == grace = FALSE

SweepEnds == Goto("sweeper", "idle") /\ loc' = [loc EXCEPT !["sweeper"] = NULL]
SweepGoes(l) == Goto("sweeper", l) /\ UNCHANGED loc

\* Sweep: the copy of the running endpoint that sweepOne works on.
ListRunning ==
  /\ pc["sweeper"] = "idle"
  /\ InState("running")
  /\ Goto("sweeper", "check")
  /\ loc' = [loc EXCEPT !["sweeper"] = row.addr]
  /\ grace' = row.grace
  /\ UNCHANGED <<row, cluster, seen, faults>>

\* sweepOne: is the pod there at all?
CheckPod ==
  /\ pc["sweeper"] = "check"
  /\ \/ /\ ~PodExists
        /\ SweepGoes("sw_reconcile")
        /\ UNCHANGED faults
     \/ /\ PodExists
        /\ IF loc["sweeper"] = NULL THEN SweepEnds ELSE SweepGoes("fetch")
        /\ UNCHANGED faults
     \/ /\ Charge("call")
        /\ SweepEnds
  /\ UNCHANGED <<row, cluster, seen, grace>>

\* running without a pod: an unconditional write to suspended.
SweepReconcile ==
  /\ pc["sweeper"] = "sw_reconcile"
  /\ \E o \in Outcomes :
       /\ Cost(o)
       /\ row' = After(o, SetEndpointSuspended, row)
  /\ SweepEnds
  /\ UNCHANGED <<cluster, seen, grace>>

\* Mutant: without activity there is nothing to measure.
IdleAfterActivity == pod.act = "old"

\* The idle test: last_active, or the copied last_started_at if there is none.
Idle == pod.act = "old" \/ (pod.act = "none" /\ ~grace)

FetchLastActive ==
  /\ pc["sweeper"] = "fetch"
  /\ \/ /\ Answers(loc["sweeper"]) /\ Idle
        /\ SweepGoes("sw_cas")
        /\ UNCHANGED faults
     \/ /\ ~(Answers(loc["sweeper"]) /\ Idle)
        /\ SweepEnds
        /\ UNCHANGED faults
     \/ /\ Charge("call")
        /\ SweepEnds
  /\ UNCHANGED <<row, cluster, seen, grace>>

CasSuspending ==
  /\ pc["sweeper"] = "sw_cas"
  /\ \E o \in Outcomes :
       /\ Cost(o)
       /\ row' = After(o, TransitionEndpoint("running", "suspending"), row)
       /\ IF o = "ok" /\ InState("running") THEN SweepGoes("terminate") ELSE SweepEnds
  /\ UNCHANGED <<cluster, seen, grace>>

\* POST /terminate at the copied address; its failure is only logged.
Terminate ==
  /\ pc["sweeper"] = "terminate"
  /\ SweepGoes("sw_pod")
  /\ \/ /\ Answers(loc["sweeper"])
        /\ pod' = [pod EXCEPT !.st = "dead"]
        /\ UNCHANGED faults
     \/ /\ Answers(loc["sweeper"])
        /\ Charge("call")
        /\ UNCHANGED pod
     \/ /\ ~Answers(loc["sweeper"])
        /\ UNCHANGED <<pod, faults>>
  /\ UNCHANGED <<row, cm, seen, grace>>

\* Stop; its error ends sweepOne with the row still `suspending`.
SweepStopPod       == /\ StopPod("sweeper", "sw_pod", "sw_cm", "idle")
                      /\ UNCHANGED grace
SweepStopConfigMap == /\ StopConfigMap("sweeper", "sw_cm", "sw_set", "idle")
                      /\ UNCHANGED grace

SweepSetSuspended ==
  /\ pc["sweeper"] = "sw_set"
  /\ \E o \in Outcomes :
       /\ Cost(o)
       /\ row' = After(o, SetEndpointSuspended, row)
  /\ SweepEnds
  /\ UNCHANGED <<cluster, seen, grace>>

SweepStep ==
  \/ ListRunning \/ CheckPod \/ SweepReconcile \/ FetchLastActive
  \/ CasSuspending \/ Terminate \/ SweepStopPod \/ SweepStopConfigMap
  \/ SweepSetSuspended
=============================================================================
