------------------------------ MODULE K8sRuntime ------------------------------
(***************************************************************************)
(* internal/compute/k8s.go and the part of the cluster it drives: the pod  *)
(* compute-<endpoint>, the ConfigMap compute-<endpoint>-config, and the    *)
(* compute_ctl HTTP API inside the pod.  The API server, the kubelet and   *)
(* compute_ctl are external; they are modelled from what the control plane *)
(* relies on: a pod name is unique, a deleted pod lingers until its        *)
(* container has stopped, and a pod mounts its ConfigMap before it runs.   *)
(***************************************************************************)
EXTENDS Addresses

CONSTANT Wakers   \* the processes that call Start

VARIABLES
  pod,    \* the pod object and the compute_ctl in it
  cm      \* the ConfigMap object

-----------------------------------------------------------------------------
(***************************************************************************)
(* st   : "pending" no IP yet; "booting", "ready", "broken": phase Running *)
(*        and compute_ctl answers /status with init, running, failed;      *)
(*        "dead": the container exited (phase Failed, IP kept; the pod has *)
(*        restart policy Never).                                           *)
(* term : deletion was requested, the object still exists.                 *)
(* act  : last_active of compute_ctl: none (null), recent, or older than   *)
(*        suspend_after_seconds.                                           *)
(***************************************************************************)
PodStates == {"none", "pending", "booting", "ready", "broken", "dead"}

Pods == [st : PodStates, ip : MaybeIP, term : BOOLEAN,
         act : {"none", "recent", "old"}]

NoPod == [st |-> "none", ip |-> NULL, term |-> FALSE, act |-> "none"]

\* readers: the callers whose Get carries the current resourceVersion.
ConfigMaps == [exists : BOOLEAN, readers : SUBSET Wakers]

NoConfigMap  == [exists |-> FALSE, readers |-> {}]
NewConfigMap == [exists |-> TRUE, readers |-> {}]

RuntimeInit == pod = NoPod /\ cm = NoConfigMap

-----------------------------------------------------------------------------
(***************************************************************************)
(* Start, Stop and Status, one operator per API call they make.            *)
(***************************************************************************)

\* Start: Create, Get and Update of the ConfigMap.
CreatedConfigMap == IF cm.exists THEN cm ELSE NewConfigMap

ReadConfigMap(w) ==
  IF cm.exists THEN [cm EXCEPT !.readers = @ \cup {w}] ELSE cm

\* A compare-and-set on resourceVersion: any write since the Get is a conflict.
UpdatedConfigMap(w) == IF w \in cm.readers THEN NewConfigMap ELSE cm

\* Start: an existing pod (AlreadyExists) is accepted, even a dying one.
CreatedPod == IF pod.st = "none" THEN [NoPod EXCEPT !.st = "pending"] ELSE pod

\* Stop: NotFound is no error; otherwise deletion begins.
DeletedPod == IF pod.st = "none" THEN pod ELSE [pod EXCEPT !.term = TRUE]

DeletedConfigMap == NoConfigMap

\* Status
PodExists  == pod.st # "none"
PodRunning == pod.st \in {"booting", "ready", "broken"}

-----------------------------------------------------------------------------
(***************************************************************************)
(* The cluster.                                                            *)
(***************************************************************************)

\* compute_ctl listens on ip:3080.
Answers(ip) == ip # NULL /\ pod.ip = ip /\ PodRunning

\* This pod will never report ready, whatever the kubelet does.
Doomed ==
  \/ pod.term
  \/ pod.st \in {"none", "dead"}
  \/ pod.st = "pending" /\ ~cm.exists

\* A compute that consumes resources and nobody asked to stop.
PodLive == PodExists /\ pod.st # "dead" /\ ~pod.term

PodBoots(ip) ==
  /\ pod.st = "pending" /\ ~pod.term /\ cm.exists
  /\ pod' = [pod EXCEPT !.st = "booting", !.ip = ip]

CtlReady ==
  /\ pod.st = "booting" /\ ~pod.term
  /\ pod' = [pod EXCEPT !.st = "ready"]

CtlFails ==
  /\ pod.st = "booting" /\ ~pod.term
  /\ pod' = [pod EXCEPT !.st = "broken"]

PodDies ==
  /\ PodRunning
  /\ pod' = [pod EXCEPT !.st = "dead"]

\* Node loss, eviction or a delete from outside the control plane.
PodVanishes ==
  /\ PodExists /\ ~pod.term
  /\ pod' = NoPod

\* A deleted pod is finally removed.
PodGone ==
  /\ pod.term
  /\ pod' = NoPod

\* A proxied session makes compute_ctl report recent activity ...
Activity(ip) ==
  /\ Answers(ip) /\ pod.st = "ready" /\ ~pod.term
  /\ pod' = [pod EXCEPT !.act = "recent"]

\* ... until suspend_after_seconds have passed since.
ActivityAges ==
  /\ pod.act = "recent"
  /\ pod' = [pod EXCEPT !.act = "old"]
=============================================================================
