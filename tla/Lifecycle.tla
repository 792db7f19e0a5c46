------------------------------ MODULE Lifecycle ------------------------------
(***************************************************************************)
(* One endpoint and everything that acts on it: the wakers, the sweep, the *)
(* debug and delete handlers, the cluster, time, and restarts.             *)
(***************************************************************************)
EXTENDS Waker, Suspender, Requests

CONSTANT
  ReadyBelowStale   \* readyTimeout() is set below staleAfter; by default they are equal

ASSUME ReadyAssumption == ReadyBelowStale \in BOOLEAN

vars == <<row, pod, cm, pc, loc, seen, faults, grace>>
procs == <<pc, loc, grace>>

Init ==
  /\ StoreInit
  /\ RuntimeInit
  /\ ProcessInit
  /\ SuspenderInit

-----------------------------------------------------------------------------
(***************************************************************************)
(* The cluster, with the kinds of faults its bad steps belong to.          *)
(***************************************************************************)
Boots(ip) ==
  /\ PodBoots(ip)
  /\ seen' = [w \in Wakers |->
                IF pc[w] \in CallingPc THEN seen[w] \cup {ip} ELSE seen[w]]
  /\ UNCHANGED <<row, cm, procs, faults>>

BecomesReady   == CtlReady     /\ UNCHANGED <<row, cm, procs, seen, faults>>
Removed        == PodGone      /\ UNCHANGED <<row, cm, procs, seen, faults>>
ComputeFails   == CtlFails /\ Charge("ctl") /\ UNCHANGED <<row, cm, procs, seen>>
ContainerExits == PodDies /\ Charge("pod") /\ UNCHANGED <<row, cm, procs, seen>>
NodeLost       == PodVanishes /\ Charge("pod") /\ UNCHANGED <<row, cm, procs, seen>>

-----------------------------------------------------------------------------
(***************************************************************************)
(* Time.  A row whose owner is at work turns stale only by a fault, unless *)
(* the owner waits, until readyTimeout and so longer than staleAfter, for  *)
(* a pod that never becomes ready.                                         *)
(***************************************************************************)
Abandoned ==
  row.exists /\ row.state \in {"starting", "suspending"} /\ Owners = {}

AbandonedAges ==
  /\ Abandoned
  /\ RowAges
  /\ UNCHANGED <<cluster, procs, seen, faults>>

WaitsInVain(w) == pc[w] \in {"poll", "probe"} /\ Doomed

WaitedAges ==
  /\ ~ReadyBelowStale /\ \E w \in Wakers : WaitsInVain(w)
  /\ RowAges
  /\ UNCHANGED <<cluster, procs, seen, faults>>

OwnedAges ==
  /\ ~Abandoned
  /\ RowAges
  /\ Charge("slow")
  /\ UNCHANGED <<cluster, procs, seen>>

\* Activity is never older than the start: when it is long ago, so is that.
Idles ==
  /\ ActivityAges
  /\ row' = [row EXCEPT !.grace = FALSE]
  /\ grace' = FALSE
  /\ UNCHANGED <<cm, pc, loc, seen, faults>>

\* The sweep's copy of last_started_at is as old as the row's, or older.
StartAges ==
  /\ GraceEnds
  /\ grace' = FALSE
  /\ UNCHANGED <<cluster, pc, loc, seen, faults>>

-----------------------------------------------------------------------------
(***************************************************************************)
(* The control plane restarts: the requests and the sweep are gone, the    *)
(* database and the cluster stay as they are.                              *)
(***************************************************************************)
Crash ==
  /\ \E a \in Actors : pc[a] # "idle"
  /\ Charge("crash")
  /\ pc' = [a \in Actors |-> "idle"]
  /\ loc' = [a \in Actors |-> NULL]
  /\ seen' = [w \in Wakers |-> {}]
  /\ grace' = FALSE
  /\ cm' = [cm EXCEPT !.readers = {}]
  /\ UNCHANGED <<row, pod>>

WakerNext(w) ==
  /\ Call(w) \/ WakeStep(w) \/ Cancel(w) \/ Connect(w) \/ Hangup(w)
  /\ UNCHANGED grace

RequestNext ==
  /\ \/ DebugStop \/ DebugStep \/ CancelRequest("debug")
     \/ DeleteRequest \/ DeleteStep \/ CancelRequest("deleter")
  /\ UNCHANGED grace

ClusterNext ==
  \/ \E ip \in IPs : Boots(ip)
  \/ BecomesReady \/ ComputeFails \/ ContainerExits \/ NodeLost
  \/ Removed

Next ==
  \/ \E w \in Wakers : WakerNext(w)
  \/ SweepStep
  \/ RequestNext
  \/ ClusterNext
  \/ AbandonedAges \/ WaitedAges \/ OwnedAges \/ StartAges \/ Idles
  \/ Crash

Spec == Init /\ [][Next]_vars

-----------------------------------------------------------------------------
(***************************************************************************)
(* Fairness.  Goroutines are scheduled, the ticker ticks, clocks advance   *)
(* and the cluster finishes what it was asked to do.  No fault ever has to *)
(* happen, and clients call, connect and hang up as they like.             *)
(***************************************************************************)
Works(A) == A /\ UNCHANGED faults

Fairness ==
  /\ \A w \in Wakers : /\ WF_vars(Works(WakeStep(w)) /\ UNCHANGED grace)
                       /\ SF_vars(Works(ReadyTimeout(w)) /\ UNCHANGED grace)
  /\ WF_vars(Works(SweepStep))
  /\ WF_vars(Works(DebugStep) /\ UNCHANGED grace)
  /\ WF_vars(Works(DeleteStep) /\ UNCHANGED grace)
  /\ WF_vars(\E ip \in IPs : Boots(ip))
  /\ WF_vars(BecomesReady)
  /\ WF_vars(Removed)
  /\ WF_vars(Idles)
  /\ WF_vars(AbandonedAges)
  /\ WF_vars(StartAges)

FairSpec == Spec /\ Fairness

-----------------------------------------------------------------------------
(***************************************************************************)
(* Properties that hold whatever goes wrong.                               *)
(***************************************************************************)

PcOK(p) ==
  /\ p \in [Actors -> PcValues]
  /\ \A w \in Wakers : p[w] \in WakerPc
  /\ p["sweeper"] \in SweeperPc
  /\ p["debug"] \in DebugPc
  /\ p["deleter"] \in DeleterPc

\* Every variable keeps its type: the row satisfies the CHECK constraint of
\* schema.sql, and each handler stays at one of its own calls.
TypeOK ==
  /\ row \in Rows
  /\ pod \in Pods
  /\ cm \in ConfigMaps
  /\ PcOK(pc)
  /\ loc \in [Actors -> MaybeIP]
  /\ seen \in [Wakers -> SUBSET IPs]
  /\ faults \in 0..MaxFaults
  /\ grace \in BOOLEAN

\* Wake never answers with an address of the past: an address it returns was
\* the IP of the endpoint's pod at some moment of that very call, although
\* the row it reads may be arbitrarily old (wake.go, verify-running).
FreshAddress ==
  \A w \in Wakers : pc[w] = "replied" => loc[w] \in seen[w]

\* Deleting the endpoint never leaves a Wake call hanging: a call in flight
\* when the row disappears still returns.
CallsDrain ==
  \A w \in Wakers :
    (~row.exists /\ pc[w] \in CallingPc) ~> pc[w] \in {"idle", "replied"}

-----------------------------------------------------------------------------
(***************************************************************************)
(* Properties of an orderly world: calls succeed, pods stay, nothing takes *)
(* longer than staleAfter (for which readyTimeout has to be set below it), *)
(* nobody uses the debug and delete handlers.  Computes may still fail to  *)
(* come up, and a call that waits for another's start may run into its     *)
(* deadline.                                                               *)
(***************************************************************************)
OrderlyWorld == Faults \subseteq {"ctl", "wake"} /\ Handlers = {} /\ ReadyBelowStale

\* The CAS is a mutual exclusion: at most one process is between winning the
\* endpoint and giving it up, the sweep included (wake.go: "only the winner
\* starts"; suspend.go: "not ours to handle").
SingleOwner == \A a, b \in Owners : a = b

\* A running endpoint is served: the pod is there, at the recorded address,
\* ready, and nobody has asked to remove it.
RunningIsServed ==
  row.exists /\ row.state = "running"
    => pod.st = "ready" /\ pod.ip = row.addr /\ ~pod.term

Quiet == \A a \in Actors : pc[a] \in {"idle", "replied"}

\* No ghost compute: when every process is done and the row says suspended
\* or failed, no pod is left running (scale to zero means zero).
NoGhost ==
  Quiet /\ row.exists /\ row.state \in {"suspended", "failed"} => ~PodLive

\* The state of the row tells who owns the endpoint.
OwnershipMatches ==
  /\ row.state = "starting" => \E w \in Wakers : Owners = {w}
  /\ row.state = "suspending" => Owners = {"sweeper"}
  /\ row.state \in {"suspended", "running", "failed"} => Owners = {}

NoTakeover ==
  /\ row.exists /\ ~row.stale
  /\ \A w \in Wakers :
       pc[w] \notin {"take_starting", "take_suspending", "clear_pod", "clear_cm"}

PodShape ==
  /\ pod.st \in {"booting", "ready", "broken", "dead"} => pod.ip \in IPs
  /\ pod.term => pod.st \in {"broken", "dead"}

StartOnTrack(w) ==
  /\ pc[w] \in {"get_cm", "update_cm", "start_pod", "poll", "probe", "set_running"}
       => cm.exists
  /\ pc[w] = "update_cm" => w \in cm.readers
  /\ pc[w] = "set_running" => pod.st = "ready" /\ pod.ip = loc[w]
  /\ pc[w] = "fail_pod" => pod.st \in {"none", "broken", "dead"}
  /\ pc[w] \in {"fail_cm", "fail_cas"} => pod.term \/ pod.st = "none"

SweepOnTrack ==
  /\ pc["sweeper"] # "sw_reconcile"
  /\ pc["sweeper"] \in {"check", "fetch", "sw_cas", "terminate"}
       => pod.st = "ready" /\ pod.ip = loc["sweeper"]
  /\ pc["sweeper"] = "sw_pod" => pod.st \in {"none", "dead"}
  /\ pc["sweeper"] \in {"sw_cm", "sw_set"} => pod.term \/ pod.st = "none"

\* A live pod behind a suspended row is about to be claimed by some waker,
\* unless that one gives up first.
GhostIsClaimed ==
  "wake" \notin Faults /\ row.state \in {"suspended", "failed"} /\ PodLive
    => \E w \in Wakers : pc[w] \in {"lock", "cas_suspended", "cas_failed"}

\* The inductive invariant behind the four properties: the row names the
\* owner, each owner finds the pod and the ConfigMap as it left them, and the
\* sweep only ever works on a pod that is up.
OrderlyInv ==
  /\ OwnershipMatches
  /\ NoTakeover
  /\ PodShape
  /\ \A w \in Wakers : StartOnTrack(w)
  /\ SweepOnTrack
  /\ RunningIsServed
  /\ GhostIsClaimed
  /\ pc["debug"] = "idle" /\ pc["deleter"] = "idle"

Machine == INSTANCE EndpointMachine WITH state <- row.state

\* The row moves along the documented edges only.
ImplementsMachine == Machine!Spec

\* Once the clients stay away, the endpoint ends up without a compute, also
\* when the compute was never used (the sweep's last_started_at fallback).
ScaleToZero ==
  <>[](\A w \in Wakers : pc[w] = "idle")
    => <>[](row.state \in {"suspended", "failed"} /\ ~PodExists)

\* As long as the endpoint exists and calls keep coming in, addresses keep
\* going out.
Responsive ==
  []row.exists /\ []<>(\E w \in Wakers : pc[w] = "lock")
    => []<>(\E w \in Wakers : pc[w] = "replied")

-----------------------------------------------------------------------------
(***************************************************************************)
(* What comments and tests say, and the code does not keep.  Each of these *)
(* is refuted by a run of its own.                                         *)
(***************************************************************************)

\* Sweep: "Errors on individual endpoints are logged, not fatal: the next
\* sweep retries" (suspend.go).
SweepRetries == row.state = "suspending" ~> row.state # "suspending"

\* A deleted branch has no compute any more (tests/integration).
DeleteLeavesNoCompute == Quiet /\ ~row.exists => ~PodLive
=============================================================================
