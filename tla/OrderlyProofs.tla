---------------------------- MODULE OrderlyProofs ----------------------------
(***************************************************************************)
(* Proofs about the orderly world (see Lifecycle): any number of wakers,   *)
(* addresses and failing computes.  OrderlyInv is inductive relative to    *)
(* TypeOK; mutual exclusion, RunningIsServed, NoGhost and the refinement   *)
(* of EndpointMachine follow from it.                                      *)
(*                                                                         *)
(* The argument: the row names the owner (OwnershipMatches), so an owner   *)
(* that moves knows that no other owner does, and what it left behind is   *)
(* still there.  A step of a process that is no owner moves nothing that   *)
(* the invariant looks at.                                                 *)
(***************************************************************************)
EXTENDS LifecycleProofs

\* Where a waker is that will try to claim the endpoint.
Claiming == {"lock", "cas_suspended", "cas_failed"}

\* In the orderly world every call succeeds: the only faults are a compute that
\* reports failed and a waker that has waited too long.
LEMMA NoFaults ==
  ASSUME OrderlyWorld
  PROVE  /\ \A k : k \notin {"ctl", "wake"} => ~Charge(k)
         /\ \A o \in Outcomes : Cost(o) => o = "ok"
BY DEF OrderlyWorld, Charge, Cost, Outcomes

\* What a step of a waker does to the program counters and to the owners.
LEMMA WakerMoves ==
  ASSUME TypeOK, NEW w \in Wakers, NEW l, Goto(w, l)
  PROVE  /\ pc'[w] = l
         /\ \A a \in Actors : a # w => pc'[a] = pc[a]
         /\ Owners' = IF l \in WakeOwnerPc THEN Owners \cup {w} ELSE Owners \ {w}
<1>1. w \in Actors /\ w # "sweeper" /\ "sweeper" \in Actors /\ pc \in [Actors -> PcValues]
      /\ Wakers \subseteq Actors
  BY WakersAssumption DEF Actors, TypeOK, PcOK
<1>2. pc'[w] = l /\ \A a \in Actors : a # w => pc'[a] = pc[a]
  BY <1>1 DEF Goto
<1>. QED  BY <1>1, <1>2 DEF Owners

\* The same for the sweep.
LEMMA SweeperMoves ==
  ASSUME TypeOK, NEW l, Goto("sweeper", l)
  PROVE  /\ pc'["sweeper"] = l
         /\ \A a \in Actors : a # "sweeper" => pc'[a] = pc[a]
         /\ Owners' = IF l \in SweepOwnerPc THEN Owners \cup {"sweeper"} ELSE Owners \ {"sweeper"}
<1>1. "sweeper" \in Actors /\ "sweeper" \notin Wakers /\ pc \in [Actors -> PcValues]
      /\ Wakers \subseteq Actors
  BY WakersAssumption DEF Actors, TypeOK, PcOK
<1>2. pc'["sweeper"] = l /\ \A a \in Actors : a # "sweeper" => pc'[a] = pc[a]
  BY <1>1 DEF Goto
<1>. QED  BY <1>1, <1>2 DEF Owners

\* Read the other way round: an owner knows the state of the row, and that
\* there is no other owner.
LEMMA WhoOwns ==
  ASSUME TypeOK, OwnershipMatches
  PROVE  /\ \A w \in Wakers : pc[w] \in WakeOwnerPc => row.state = "starting" /\ Owners = {w}
         /\ pc["sweeper"] \in SweepOwnerPc => row.state = "suspending" /\ Owners = {"sweeper"}
         /\ \A w \in Wakers : w \in Owners <=> pc[w] \in WakeOwnerPc
         /\ "sweeper" \in Owners <=> pc["sweeper"] \in SweepOwnerPc
         /\ "sweeper" \notin Wakers
<1>1. "sweeper" \notin Wakers
  BY WakersAssumption
<1>2. row.state \in {"suspended", "starting", "running", "suspending", "failed"}
  BY DEF TypeOK, Rows, EndpointStates
<1>3. /\ \A w \in Wakers : w \in Owners <=> pc[w] \in WakeOwnerPc
      /\ "sweeper" \in Owners <=> pc["sweeper"] \in SweepOwnerPc
  BY <1>1 DEF Owners
<1>. QED  BY <1>1, <1>2, <1>3 DEF OwnershipMatches

\* A waker moves on without touching the row or the cluster.
LEMMA QuietStep ==
  ASSUME TypeOK, OrderlyInv, NEW w \in Wakers, NEW l, Goto(w, l),
         UNCHANGED <<row, pod, cm>>,
         \A a \in Actors : a # w => loc'[a] = loc[a],
         l \in WakeOwnerPc <=> pc[w] \in WakeOwnerPc,
         l \notin {"take_starting", "take_suspending", "clear_pod", "clear_cm"},
         "wake" \notin Faults /\ row.state \in {"suspended", "failed"} /\ pc[w] \in Claiming
           => l \in Claiming,
         StartOnTrack(w)'
  PROVE  OrderlyInv'
<1>1. /\ pc'[w] = l
      /\ \A a \in Actors : a # w => pc'[a] = pc[a]
      /\ Owners' = Owners
      /\ \A v \in Wakers : v \in Actors
      /\ {"sweeper", "debug", "deleter"} \subseteq Actors
      /\ w \notin {"sweeper", "debug", "deleter"}
  <2>1. /\ pc'[w] = l
        /\ \A a \in Actors : a # w => pc'[a] = pc[a]
        /\ Owners' = IF l \in WakeOwnerPc THEN Owners \cup {w} ELSE Owners \ {w}
    BY WakerMoves
  <2>2. w \in Owners <=> pc[w] \in WakeOwnerPc
    BY WhoOwns DEF OrderlyInv
  <2>3. Owners' = Owners
    BY <2>1, <2>2
  <2>. QED  BY <2>1, <2>3, WakersAssumption DEF Actors
<1>2. OwnershipMatches'
  BY <1>1 DEF OrderlyInv, OwnershipMatches
<1>3. NoTakeover'
  BY <1>1 DEF OrderlyInv, NoTakeover
<1>4. PodShape' /\ RunningIsServed'
  BY DEF OrderlyInv, PodShape, RunningIsServed
<1>5. \A v \in Wakers : StartOnTrack(v)'
  BY <1>1 DEF OrderlyInv, StartOnTrack
<1>6. SweepOnTrack'
  BY <1>1 DEF OrderlyInv, SweepOnTrack
<1>7. GhostIsClaimed'
  BY <1>1 DEF OrderlyInv, GhostIsClaimed, PodLive, PodExists, Claiming
<1>. QED  BY <1>1, <1>2, <1>3, <1>4, <1>5, <1>6, <1>7 DEF OrderlyInv

\* The owner of a start changes the cluster, but no pod that is ready.
LEMMA OwnerStep ==
  ASSUME TypeOK, OrderlyInv, NEW w \in Wakers, NEW l \in WakeOwnerPc, Goto(w, l),
         pc[w] \in WakeOwnerPc,
         UNCHANGED row,
         \A a \in Actors : a # w => loc'[a] = loc[a],
         l \notin {"clear_pod", "clear_cm"},
         pod.st = "ready" => pod'.st = "ready" /\ pod'.ip = pod.ip,
         PodShape', StartOnTrack(w)'
  PROVE  OrderlyInv'
<1>1. /\ pc'[w] = l
      /\ \A a \in Actors : a # w => pc'[a] = pc[a]
      /\ Owners' = Owners
      /\ \A v \in Wakers : v \in Actors
      /\ {"sweeper", "debug", "deleter"} \subseteq Actors
      /\ w \notin {"sweeper", "debug", "deleter"}
  BY WakerMoves, WhoOwns, WakersAssumption DEF OrderlyInv, Actors
<1>2. /\ row.state = "starting"
      /\ pc["sweeper"] \notin SweepOwnerPc
      /\ \A v \in Wakers : v # w => pc[v] \notin WakeOwnerPc
  BY WhoOwns DEF OrderlyInv
<1>3. OwnershipMatches'
  BY <1>1 DEF OrderlyInv, OwnershipMatches
<1>4. NoTakeover'
  BY <1>1 DEF OrderlyInv, NoTakeover, WakeOwnerPc
<1>5. RunningIsServed' /\ GhostIsClaimed'
  BY <1>2 DEF RunningIsServed, GhostIsClaimed
<1>6. \A v \in Wakers : StartOnTrack(v)'
  <2>1. ASSUME NEW v \in Wakers, v # w PROVE StartOnTrack(v)'
    BY <1>1, <1>2, <2>1 DEF StartOnTrack, WakeOwnerPc
  <2>. QED  BY <2>1
<1>7. SweepOnTrack'
  BY <1>1, <1>2 DEF OrderlyInv, SweepOnTrack, SweepOwnerPc
<1>. QED  BY <1>1, <1>3, <1>4, <1>5, <1>6, <1>7 DEF OrderlyInv

\* The CAS of the start path: lost, it changes nothing; won, the row was
\* suspended or failed, so there was no owner before.
LEMMA CasOrderly ==
  ASSUME OrderlyWorld, TypeOK, OrderlyInv, NEW w \in Wakers, NEW here \in Claiming,
         NEW from \in {"suspended", "failed"}, NEW lost \in Claiming,
         Cas(w, here, from, "starting", "spec", lost)
  PROVE  OrderlyInv'
<1>1. /\ row' = TransitionEndpoint(from, "starting")
      /\ Step(w, IF InState(from) THEN "spec" ELSE lost)
      /\ pc[w] = here /\ UNCHANGED <<pod, cm>>
  BY NoFaults DEF Cas, After, cluster
<1>2. pc[w] \notin WakeOwnerPc
  BY <1>1 DEF Claiming, WakeOwnerPc
<1>3. CASE ~InState(from)
  <2>1. UNCHANGED row /\ Goto(w, lost) /\ UNCHANGED loc
    BY <1>1, <1>3 DEF TransitionEndpoint, Step
  <2>2. lost \notin WakeOwnerPc
        /\ lost \notin {"take_starting", "take_suspending", "clear_pod", "clear_cm"}
    BY DEF Claiming, WakeOwnerPc
  <2>3. StartOnTrack(w)'
    BY <2>1, <2>2, WakerMoves DEF StartOnTrack, WakeOwnerPc
  <2>. QED  BY <1>1, <1>2, <2>1, <2>2, <2>3, QuietStep
<1>4. CASE InState(from)
  <2>1. /\ row' = [row EXCEPT !.state = "starting", !.stale = FALSE]
        /\ Goto(w, "spec") /\ UNCHANGED loc
    BY <1>1, <1>4 DEF TransitionEndpoint, Step
  <2>2. row'.state = "starting" /\ row'.exists /\ ~row'.stale
    BY <2>1, <1>4 DEF TypeOK, Rows, InState
  <2>3. /\ pc'[w] = "spec"
        /\ \A a \in Actors : a # w => pc'[a] = pc[a]
        /\ Owners' = {w}
        /\ \A v \in Wakers : v \in Actors
        /\ {"sweeper", "debug", "deleter"} \subseteq Actors
        /\ w \notin {"sweeper", "debug", "deleter"}
    BY <2>1, <1>4, WakerMoves, WakersAssumption
       DEF OrderlyInv, Actors, OwnershipMatches, InState, WakeOwnerPc
  <2>4. OwnershipMatches'
    BY <2>2, <2>3 DEF OwnershipMatches
  <2>5. NoTakeover'
    BY <2>2, <2>3 DEF OrderlyInv, NoTakeover
  <2>6. PodShape' /\ RunningIsServed' /\ GhostIsClaimed'
    BY <1>1, <2>2 DEF OrderlyInv, PodShape, RunningIsServed, GhostIsClaimed
  <2>7. \A v \in Wakers : StartOnTrack(v)'
    BY <1>1, <2>1, <2>3 DEF OrderlyInv, StartOnTrack
  <2>8. SweepOnTrack'
    BY <1>1, <2>1, <2>3 DEF OrderlyInv, SweepOnTrack
  <2>. QED  BY <2>3, <2>4, <2>5, <2>6, <2>7, <2>8 DEF OrderlyInv
<1>. QED  BY <1>3, <1>4

\* verify-running resets the row: the waker that does it is about to claim
\* the endpoint, whose pod may be alive.
LEMMA ReconcileOrderly ==
  ASSUME OrderlyWorld, TypeOK, OrderlyInv, NEW w \in Wakers, Reconcile(w)
  PROVE  OrderlyInv'
<1>1. /\ row' = TransitionEndpoint("running", "suspended")
      /\ Goto(w, "lock") /\ UNCHANGED loc
      /\ pc[w] = "reconcile" /\ UNCHANGED <<pod, cm>>
  BY NoFaults DEF Reconcile, Cas, After, cluster, Step
<1>2. "lock" \notin WakeOwnerPc /\ pc[w] \notin WakeOwnerPc
  BY <1>1 DEF WakeOwnerPc
<1>3. StartOnTrack(w)'
  BY <1>1, <1>2, WakerMoves DEF StartOnTrack, WakeOwnerPc
<1>4. CASE ~InState("running")
  <2>1. UNCHANGED row
    BY <1>1, <1>4 DEF TransitionEndpoint
  <2>. QED  BY <1>1, <1>2, <1>3, <2>1, QuietStep DEF Claiming
<1>5. CASE InState("running")
  <2>1. row' = [row EXCEPT !.state = "suspended", !.stale = FALSE]
    BY <1>1, <1>5 DEF TransitionEndpoint
  <2>2. row'.state = "suspended" /\ row'.exists /\ ~row'.stale
    BY <2>1, <1>5 DEF TypeOK, Rows, InState
  <2>3. /\ pc'[w] = "lock"
        /\ \A a \in Actors : a # w => pc'[a] = pc[a]
        /\ Owners' = {}
        /\ \A v \in Wakers : v \in Actors
        /\ {"sweeper", "debug", "deleter"} \subseteq Actors
        /\ w \notin {"sweeper", "debug", "deleter"}
    BY <1>1, <1>2, <1>5, WakerMoves, WakersAssumption
       DEF OrderlyInv, Actors, OwnershipMatches, InState
  <2>4. OwnershipMatches'
    BY <2>2, <2>3 DEF OwnershipMatches
  <2>5. NoTakeover'
    BY <2>2, <2>3 DEF OrderlyInv, NoTakeover
  <2>6. PodShape' /\ RunningIsServed' /\ GhostIsClaimed'
    BY <1>1, <2>2, <2>3 DEF OrderlyInv, PodShape, RunningIsServed, GhostIsClaimed
  <2>7. \A v \in Wakers : StartOnTrack(v)'
    BY <1>1, <2>1, <2>3 DEF OrderlyInv, StartOnTrack
  <2>8. SweepOnTrack'
    BY <1>1, <2>1, <2>3 DEF OrderlyInv, SweepOnTrack
  <2>. QED  BY <2>3, <2>4, <2>5, <2>6, <2>7, <2>8 DEF OrderlyInv
<1>. QED  BY <1>4, <1>5

\* The owner of a start gives the endpoint up, as running or as failed.
LEMMA FinishOrderly ==
  ASSUME TypeOK, OrderlyInv, NEW w \in Wakers, NEW l \in {"idle", "replied"},
         Goto(w, l), pc[w] \in WakeOwnerPc,
         \A a \in Actors : a # w => loc'[a] = loc[a],
         UNCHANGED <<pod, cm>>,
         row'.exists, ~row'.stale,
         \/ row'.state = "running" /\ RunningIsServed'
         \/ row'.state = "failed" /\ ~PodLive
  PROVE  OrderlyInv'
<1>1. /\ pc'[w] = l
      /\ \A a \in Actors : a # w => pc'[a] = pc[a]
      /\ Owners' = {}
      /\ \A v \in Wakers : v \in Actors
      /\ {"sweeper", "debug", "deleter"} \subseteq Actors
      /\ w \notin {"sweeper", "debug", "deleter"}
      /\ l \notin WakeOwnerPc
  BY WakerMoves, WhoOwns, WakersAssumption DEF OrderlyInv, Actors, WakeOwnerPc
<1>2. OwnershipMatches'
  BY <1>1 DEF OwnershipMatches
<1>3. NoTakeover'
  BY <1>1 DEF OrderlyInv, NoTakeover
<1>4. PodShape' /\ RunningIsServed' /\ GhostIsClaimed'
  BY DEF OrderlyInv, PodShape, RunningIsServed, GhostIsClaimed, PodLive, PodExists
<1>5. \A v \in Wakers : StartOnTrack(v)'
  BY <1>1 DEF OrderlyInv, StartOnTrack
<1>6. SweepOnTrack'
  BY <1>1 DEF OrderlyInv, SweepOnTrack
<1>. QED  BY <1>1, <1>2, <1>3, <1>4, <1>5, <1>6 DEF OrderlyInv

\* The steps of Wake, startCompute and waitReady preserve OrderlyInv.
LEMMA WakeStepOrderly ==
  ASSUME OrderlyWorld, TypeOK, OrderlyInv, NEW w \in Wakers, WakeStep(w)
  PROVE  OrderlyInv'
<1>1. /\ row.exists /\ ~row.stale
      /\ pc[w] \notin {"take_starting", "take_suspending", "clear_pod", "clear_cm"}
      /\ StartOnTrack(w) /\ PodShape
  BY DEF OrderlyInv, NoTakeover
<1>2. /\ {"lock", "verify", "reconcile", "cas_suspended", "cas_failed"} \cap WakeOwnerPc = {}
      /\ {"idle", "replied"} \cap WakeOwnerPc = {}
      /\ {"spec", "start_cm", "get_cm", "update_cm", "start_pod"} \subseteq WakeOwnerPc
      /\ {"poll", "probe", "set_running"} \subseteq WakeOwnerPc
      /\ {"fail_pod", "fail_cm", "fail_cas"} \subseteq WakeOwnerPc
  BY DEF WakeOwnerPc
<1>3. /\ w \in Actors /\ loc \in [Actors -> MaybeIP] /\ pod \in Pods /\ cm \in ConfigMaps
      /\ row \in Rows
  BY DEF TypeOK, Actors
<1>4. \A l : Goto(w, l) => pc'[w] = l
  BY WakerMoves
<1>5. CASE ReadRow(w)
  <2>1. /\ Decision \in {"verify", "lock", "cas_suspended"}
        /\ row.state \in {"suspended", "failed"} => Decision = "cas_suspended"
    BY <1>1, <1>3 DEF Rows, EndpointStates, Decision
  <2>2. StartOnTrack(w)'
    BY <1>5, <2>1, <1>4 DEF ReadRow, StartOnTrack
  <2>3. Goto(w, Decision) /\ UNCHANGED <<row, pod, cm>> /\ pc[w] = "lock"
        /\ \A a \in Actors : a # w => loc'[a] = loc[a]
    BY <1>5, <1>3 DEF ReadRow, cluster
  <2>4. Decision \notin WakeOwnerPc
        /\ Decision \notin {"take_starting", "take_suspending", "clear_pod", "clear_cm"}
        /\ pc[w] \notin WakeOwnerPc
    BY <2>1, <2>3, <1>2
  <2>. QED  BY <2>1, <2>2, <2>3, <2>4, QuietStep DEF Claiming
<1>6. CASE ReadFails(w)
  <2>1. /\ Goto(w, "idle") /\ UNCHANGED <<row, pod, cm>> /\ pc[w] = "lock"
        /\ \A a \in Actors : a # w => loc'[a] = loc[a]
        /\ "wake" \in Faults
    BY <1>6, <1>1, <1>3, NoFaults DEF ReadFails, Fail, Charge, cluster
  <2>2. StartOnTrack(w)'
    BY <2>1, <1>4 DEF StartOnTrack
  <2>. QED  BY <2>1, <2>2, <1>2, QuietStep
<1>7. CASE VerifyRunning(w)
  <2>1. PICK l \in {"replied", "reconcile"} : Goto(w, l)
    BY <1>7, NoFaults DEF VerifyRunning, Reply, Step
  <2>2. UNCHANGED <<row, pod, cm>> /\ pc[w] = "verify"
        /\ \A a \in Actors : a # w => loc'[a] = loc[a]
    BY <1>7, <1>3, NoFaults DEF VerifyRunning, Reply, Step, cluster
  <2>3. StartOnTrack(w)'
    BY <2>1, <1>4 DEF StartOnTrack
  <2>. QED  BY <2>1, <2>2, <2>3, <1>2, QuietStep DEF Claiming
<1>8. CASE Reconcile(w)
  BY <1>8, ReconcileOrderly
<1>9. CASE CasSuspended(w) \/ CasFailed(w)
  BY <1>9, CasOrderly DEF CasSuspended, CasFailed, Claiming
<1>10. CASE TakeStarting(w) \/ TakeSuspending(w) \/ ClearPod(w) \/ ClearConfigMap(w)
  BY <1>10, <1>1 DEF TakeStarting, TakeSuspending, ClearPod, ClearConfigMap, Cas, StopPod,
                     StopConfigMap
<1>11. CASE BuildSpec(w)
  <2>1. Goto(w, "start_cm") /\ UNCHANGED <<row, pod, cm, loc>> /\ pc[w] = "spec"
    BY <1>11, <1>1, NoFaults DEF BuildSpec, Step, cluster
  <2>2. StartOnTrack(w)'
    BY <2>1, <1>4 DEF StartOnTrack
  <2>. QED  BY <2>1, <2>2, <1>2, QuietStep DEF Claiming
<1>12. CASE StartConfigMap(w)
  <2>1. /\ cm' = CreatedConfigMap /\ UNCHANGED <<row, pod, loc>> /\ pc[w] = "start_cm"
        /\ Goto(w, IF cm.exists THEN "get_cm" ELSE "start_pod")
    BY <1>12, NoFaults DEF StartConfigMap, Step, After
  <2>2. cm'.exists
    BY <2>1, <1>3 DEF CreatedConfigMap, NewConfigMap, ConfigMaps
  <2>3. StartOnTrack(w)' /\ PodShape'
    BY <2>1, <2>2, <1>1, <1>4 DEF StartOnTrack, PodShape
  <2>. QED  BY <2>1, <2>3, <1>2, OwnerStep
<1>13. CASE GetConfigMap(w)
  <2>1. /\ cm' = ReadConfigMap(w) /\ UNCHANGED <<row, pod, loc>> /\ pc[w] = "get_cm"
        /\ cm.exists /\ Goto(w, "update_cm")
    BY <1>13, <1>1, NoFaults DEF GetConfigMap, Step, StartOnTrack
  <2>2. cm'.exists /\ w \in cm'.readers
    BY <2>1, <1>3 DEF ReadConfigMap, ConfigMaps
  <2>3. StartOnTrack(w)' /\ PodShape'
    BY <2>1, <2>2, <1>1, <1>4 DEF StartOnTrack, PodShape
  <2>. QED  BY <2>1, <2>3, <1>2, OwnerStep
<1>14. CASE UpdateConfigMap(w)
  <2>1. /\ cm' = UpdatedConfigMap(w) /\ UNCHANGED <<row, pod, loc>> /\ pc[w] = "update_cm"
        /\ w \in cm.readers /\ Goto(w, "start_pod")
    BY <1>14, <1>1, NoFaults DEF UpdateConfigMap, Step, StartOnTrack, After
  <2>2. cm'.exists
    BY <2>1 DEF UpdatedConfigMap, NewConfigMap
  <2>3. StartOnTrack(w)' /\ PodShape'
    BY <2>1, <2>2, <1>1, <1>4 DEF StartOnTrack, PodShape
  <2>. QED  BY <2>1, <2>3, <1>2, OwnerStep
<1>15. CASE StartPod(w)
  <2>1. /\ pod' = CreatedPod /\ UNCHANGED <<row, cm, loc>> /\ pc[w] = "start_pod"
        /\ Goto(w, "poll") /\ cm.exists
    BY <1>15, <1>1, NoFaults DEF StartPod, Step, After, StartOnTrack
  <2>2. PodShape' /\ (pod.st = "ready" => pod' = pod)
    BY <2>1, <1>1, <1>3 DEF PodShape, CreatedPod, NoPod, Pods
  <2>3. StartOnTrack(w)'
    BY <2>1, <1>4 DEF StartOnTrack
  <2>. QED  BY <2>1, <2>2, <2>3, <1>2, OwnerStep
<1>16. CASE Poll(w)
  <2>1. /\ UNCHANGED <<row, pod, cm>> /\ pc[w] = "poll" /\ Goto(w, "probe") /\ cm.exists
        /\ \A a \in Actors : a # w => loc'[a] = loc[a]
    BY <1>16, <1>1, <1>3 DEF Poll, cluster, StartOnTrack
  <2>2. StartOnTrack(w)'
    BY <2>1, <1>4 DEF StartOnTrack
  <2>. QED  BY <2>1, <2>2, <1>2, QuietStep DEF Claiming
<1>17. CASE Probe(w)
  <2>1. /\ UNCHANGED <<row, pod, cm, loc>> /\ pc[w] = "probe" /\ cm.exists
        /\ \/ Goto(w, "set_running") /\ Answers(loc[w]) /\ pod.st = "ready"
           \/ Goto(w, "fail_pod") /\ pod.st = "broken"
           \/ Goto(w, "poll")
    BY <1>17, <1>1, NoFaults DEF Probe, cluster, StartOnTrack, Step
  <2>2. PICK l \in {"set_running", "fail_pod", "poll"} : Goto(w, l)
    BY <2>1
  <2>3. StartOnTrack(w)'
    BY <2>1, <1>4 DEF StartOnTrack, Answers
  <2>. QED  BY <2>1, <2>2, <2>3, <1>2, QuietStep DEF Claiming
<1>18. CASE ReadyTimeout(w)
  <2>1. /\ UNCHANGED <<row, pod, cm, loc>> /\ pc[w] = "poll" /\ cm.exists
        /\ Doomed /\ Goto(w, "fail_pod")
    BY <1>18, <1>1, NoFaults DEF ReadyTimeout, cluster, StartOnTrack, Step
  <2>2. StartOnTrack(w)'
    BY <2>1, <1>1, <1>4 DEF StartOnTrack, Doomed, PodShape
  <2>. QED  BY <2>1, <2>2, <1>2, QuietStep DEF Claiming
<1>19. CASE SetRunning(w)
  <2>1. /\ row' = SetEndpointRunning(loc[w]) /\ Goto(w, "replied") /\ pc[w] = "set_running"
        /\ UNCHANGED <<pod, cm>> /\ \A a \in Actors : a # w => loc'[a] = loc[a]
    BY <1>19, <1>3, NoFaults DEF SetRunning, After, Reply, cluster
  <2>2. /\ row'.exists /\ ~row'.stale /\ row'.state = "running" /\ row'.addr = loc[w]
    BY <2>1, <1>1, <1>3 DEF SetEndpointRunning, Rows
  <2>3. RunningIsServed'
    BY <2>1, <2>2, <1>1 DEF RunningIsServed, StartOnTrack, PodShape
  <2>. QED  BY <2>1, <2>2, <2>3, <1>2, FinishOrderly
<1>20. CASE FailStopPod(w)
  <2>1. /\ pod' = DeletedPod /\ UNCHANGED <<row, cm, loc>> /\ pc[w] = "fail_pod"
        /\ Goto(w, "fail_cm")
    BY <1>20, NoFaults DEF FailStopPod, StopPod, After
  <2>2. PodShape' /\ pod.st # "ready" /\ (pod'.term \/ pod'.st = "none")
    BY <2>1, <1>1, <1>3 DEF PodShape, StartOnTrack, DeletedPod, Pods
  <2>3. StartOnTrack(w)'
    BY <2>1, <2>2, <1>4 DEF StartOnTrack
  <2>. QED  BY <2>1, <2>2, <2>3, <1>2, OwnerStep
<1>21. CASE FailStopConfigMap(w)
  <2>1. /\ UNCHANGED <<row, pod, loc>> /\ pc[w] = "fail_cm" /\ Goto(w, "fail_cas")
    BY <1>21, NoFaults DEF FailStopConfigMap, StopConfigMap, After
  <2>2. StartOnTrack(w)' /\ PodShape'
    BY <2>1, <1>1, <1>4 DEF StartOnTrack, PodShape
  <2>. QED  BY <2>1, <2>2, <1>2, OwnerStep
<1>22. CASE MarkFailed(w)
  <2>1. /\ row' = TransitionEndpoint("starting", "failed") /\ Goto(w, "idle")
        /\ pc[w] = "fail_cas" /\ UNCHANGED <<pod, cm>>
        /\ \A a \in Actors : a # w => loc'[a] = loc[a]
    BY <1>22, <1>3, NoFaults DEF MarkFailed, After, Fail, cluster
  <2>2. row.state = "starting"
    BY <2>1, <1>2, WhoOwns DEF OrderlyInv
  <2>3. row'.exists /\ ~row'.stale /\ row'.state = "failed"
    BY <2>1, <2>2, <1>1, <1>3 DEF TransitionEndpoint, InState, Rows
  <2>4. ~PodLive
    BY <2>1, <1>1 DEF StartOnTrack, PodLive, PodExists
  <2>. QED  BY <2>1, <2>3, <2>4, <1>2, FinishOrderly
<1>. QED
  BY <1>5, <1>6, <1>7, <1>8, <1>9, <1>10, <1>11, <1>12, <1>13, <1>14, <1>15, <1>16,
     <1>17, <1>18, <1>19, <1>20, <1>21, <1>22 DEF WakeStep

\* A step of the cluster or of time, which never harms a ready pod and never
\* brings a dead one back.
LEMMA EnvStep ==
  ASSUME OrderlyInv, UNCHANGED <<cm, pc, loc>>,
         row'.state = row.state, row'.exists = row.exists,
         row'.stale = row.stale, row'.addr = row.addr,
         pod.st = "ready" => pod'.st = "ready" /\ pod'.ip = pod.ip /\ pod'.term = pod.term,
         pod.st \in {"none", "broken", "dead"} => pod'.st \in {"none", pod.st},
         pod.term \/ pod.st = "none" => pod'.term \/ pod'.st = "none",
         PodLive' => PodLive,
         PodShape'
  PROVE  OrderlyInv'
<1>1. Owners' = Owners
  BY DEF Owners
<1>2. OwnershipMatches' /\ NoTakeover'
  BY <1>1 DEF OrderlyInv, OwnershipMatches, NoTakeover
<1>3. RunningIsServed' /\ GhostIsClaimed'
  BY DEF OrderlyInv, RunningIsServed, GhostIsClaimed
<1>4. \A w \in Wakers : StartOnTrack(w)'
  BY DEF OrderlyInv, StartOnTrack
<1>5. SweepOnTrack'
  BY DEF OrderlyInv, SweepOnTrack
<1>. QED  BY <1>2, <1>3, <1>4, <1>5 DEF OrderlyInv

\* The steps of a waker and of its client preserve OrderlyInv.
LEMMA WakerOrderly ==
  ASSUME OrderlyWorld, TypeOK, OrderlyInv, NEW w \in Wakers, WakerNext(w)
  PROVE  OrderlyInv'
<1>1. /\ {"lock", "idle", "replied"} \cap WakeOwnerPc = {}
      /\ w \in Actors /\ loc \in [Actors -> MaybeIP] /\ pod \in Pods
  BY DEF WakeOwnerPc, TypeOK, Actors
<1>2. \A l : Goto(w, l) => pc'[w] = l
  BY WakerMoves
<1>3. CASE Call(w)
  <2>1. Goto(w, "lock") /\ UNCHANGED <<row, pod, cm, loc>> /\ pc[w] = "idle"
    BY <1>3 DEF Call, cluster
  <2>2. StartOnTrack(w)'
    BY <2>1, <1>2 DEF StartOnTrack
  <2>. QED  BY <2>1, <2>2, <1>1, QuietStep DEF Claiming
<1>4. CASE Hangup(w)
  <2>1. Goto(w, "idle") /\ UNCHANGED <<row, pod, cm>> /\ pc[w] = "replied"
        /\ \A a \in Actors : a # w => loc'[a] = loc[a]
    BY <1>4, <1>1 DEF Hangup, Fail, cluster
  <2>2. StartOnTrack(w)'
    BY <2>1, <1>2 DEF StartOnTrack
  <2>. QED  BY <2>1, <2>2, <1>1, QuietStep DEF Claiming
<1>5. CASE Cancel(w)
  BY <1>5, NoFaults DEF Cancel
<1>6. CASE Connect(w)
  <2>1. /\ UNCHANGED <<row, cm, pc, loc>>
        /\ pod'.st = pod.st /\ pod'.ip = pod.ip /\ pod'.term = pod.term
    BY <1>6, <1>1 DEF Connect, Activity, Pods
  <2>2. PodShape' /\ (PodLive' => PodLive)
    BY <2>1 DEF OrderlyInv, PodShape, PodLive, PodExists
  <2>. QED  BY <2>1, <2>2, EnvStep
<1>. QED  BY <1>3, <1>4, <1>5, <1>6, WakeStepOrderly DEF WakerNext

\* The sweep moves on without touching row and ConfigMap; only as the owner
\* does it touch the pod.
LEMMA SweepMove ==
  ASSUME TypeOK, OrderlyInv, NEW l, Goto("sweeper", l),
         UNCHANGED <<row, cm>>,
         \A w \in Wakers : loc'[w] = loc[w],
         l \in SweepOwnerPc <=> pc["sweeper"] \in SweepOwnerPc,
         UNCHANGED pod \/ (pc["sweeper"] \in SweepOwnerPc /\ PodShape'),
         SweepOnTrack'
  PROVE  OrderlyInv'
<1>1. /\ \A a \in Actors : a # "sweeper" => pc'[a] = pc[a]
      /\ Owners' = Owners
      /\ \A v \in Wakers : v \in Actors /\ v # "sweeper"
      /\ {"debug", "deleter"} \subseteq Actors
  BY SweeperMoves, WhoOwns DEF OrderlyInv, Actors
<1>2. OwnershipMatches' /\ NoTakeover'
  BY <1>1 DEF OrderlyInv, OwnershipMatches, NoTakeover
<1>3. CASE UNCHANGED pod
  <2>1. PodShape' /\ RunningIsServed' /\ GhostIsClaimed'
    BY <1>1, <1>3 DEF OrderlyInv, PodShape, RunningIsServed, GhostIsClaimed, PodLive, PodExists
  <2>2. \A v \in Wakers : StartOnTrack(v)'
    BY <1>1, <1>3 DEF OrderlyInv, StartOnTrack
  <2>. QED  BY <1>1, <1>2, <2>1, <2>2 DEF OrderlyInv
<1>4. CASE pc["sweeper"] \in SweepOwnerPc /\ PodShape'
  <2>1. /\ row.state = "suspending"
        /\ \A v \in Wakers : pc'[v] \notin WakeOwnerPc
    BY <1>1, <1>4, WhoOwns DEF OrderlyInv
  <2>2. RunningIsServed' /\ GhostIsClaimed'
    BY <2>1 DEF RunningIsServed, GhostIsClaimed
  <2>3. \A v \in Wakers : StartOnTrack(v)'
    BY <2>1 DEF StartOnTrack, WakeOwnerPc
  <2>. QED  BY <1>1, <1>2, <1>4, <2>2, <2>3 DEF OrderlyInv
<1>. QED  BY <1>3, <1>4

\* The steps of the sweep preserve OrderlyInv.  Its copy of the row cannot be
\* out of date in a harmful way: the pod it looked at is still the ready one.
LEMMA SweepOrderly ==
  ASSUME OrderlyWorld, TypeOK, OrderlyInv, SweepStep
  PROVE  OrderlyInv'
<1>1. /\ row \in Rows /\ pod \in Pods /\ cm \in ConfigMaps /\ loc \in [Actors -> MaybeIP]
      /\ "sweeper" \in Actors /\ \A w \in Wakers : w # "sweeper" /\ w \in Actors
      /\ {"debug", "deleter"} \subseteq Actors
  BY WakersAssumption DEF TypeOK, Actors
<1>2. /\ {"idle", "check", "sw_reconcile", "fetch", "sw_cas"} \cap SweepOwnerPc = {}
      /\ {"terminate", "sw_pod", "sw_cm", "sw_set"} \subseteq SweepOwnerPc
  BY DEF SweepOwnerPc
<1>3. row.exists /\ ~row.stale /\ PodShape /\ SweepOnTrack
  BY DEF OrderlyInv, NoTakeover
<1>4. \A l : Goto("sweeper", l) => pc'["sweeper"] = l
  BY SweeperMoves
<1>5. CASE ListRunning
  <2>1. /\ Goto("sweeper", "check") /\ UNCHANGED <<row, pod, cm>>
        /\ pc["sweeper"] = "idle" /\ row.state = "running"
        /\ loc'["sweeper"] = row.addr /\ \A w \in Wakers : loc'[w] = loc[w]
    BY <1>5, <1>1 DEF ListRunning, cluster, InState
  <2>2. SweepOnTrack'
    BY <2>1, <1>3, <1>4 DEF OrderlyInv, RunningIsServed, SweepOnTrack
  <2>. QED  BY <2>1, <2>2, <1>2, SweepMove
<1>6. CASE CheckPod \/ FetchLastActive
  <2>1. /\ UNCHANGED <<row, pod, cm>> /\ pc["sweeper"] \in {"check", "fetch"}
        /\ \A w \in Wakers : loc'[w] = loc[w]
        /\ PodExists
    BY <1>6, <1>1, <1>3, NoFaults DEF CheckPod, FetchLastActive, cluster, SweepEnds, SweepGoes,
                                      SweepOnTrack, PodExists
  <2>2. \/ Goto("sweeper", "idle")
        \/ Goto("sweeper", "fetch") /\ UNCHANGED loc
        \/ Goto("sweeper", "sw_cas") /\ UNCHANGED loc
    BY <1>6, <2>1, NoFaults DEF CheckPod, FetchLastActive, SweepEnds, SweepGoes
  <2>3. PICK l \in {"idle", "fetch", "sw_cas"} : Goto("sweeper", l)
    BY <2>2
  <2>4. SweepOnTrack'
    BY <2>1, <2>2, <1>3, <1>4 DEF SweepOnTrack
  <2>. QED  BY <2>1, <2>3, <2>4, <1>2, SweepMove
<1>7. CASE SweepReconcile
  BY <1>7, <1>3 DEF SweepReconcile, SweepOnTrack
<1>8. CASE CasSuspending
  <2>1. /\ row' = TransitionEndpoint("running", "suspending")
        /\ IF InState("running") THEN SweepGoes("terminate") ELSE SweepEnds
        /\ pc["sweeper"] = "sw_cas" /\ UNCHANGED <<pod, cm>>
    BY <1>8, NoFaults DEF CasSuspending, After, cluster
  <2>2. CASE ~InState("running")
    <3>1. /\ Goto("sweeper", "idle") /\ UNCHANGED row
          /\ \A w \in Wakers : loc'[w] = loc[w]
      BY <2>1, <2>2, <1>1 DEF SweepEnds, TransitionEndpoint
    <3>2. SweepOnTrack'
      BY <3>1, <1>4 DEF SweepOnTrack
    <3>. QED  BY <2>1, <3>1, <3>2, <1>2, SweepMove
  <2>3. CASE InState("running")
    <3>1. /\ Goto("sweeper", "terminate") /\ UNCHANGED loc
          /\ row' = [row EXCEPT !.state = "suspending", !.stale = FALSE]
      BY <2>1, <2>3 DEF SweepGoes, TransitionEndpoint
    <3>2. row'.state = "suspending" /\ row'.exists /\ ~row'.stale
      BY <3>1, <1>1, <1>3 DEF Rows
    <3>3. /\ pc'["sweeper"] = "terminate"
          /\ \A a \in Actors : a # "sweeper" => pc'[a] = pc[a]
          /\ Owners' = {"sweeper"}
      BY <3>1, <2>3, <1>2, SweeperMoves DEF OrderlyInv, OwnershipMatches, InState
    <3>4. OwnershipMatches' /\ NoTakeover'
      BY <3>2, <3>3, <1>1 DEF OrderlyInv, OwnershipMatches, NoTakeover
    <3>5. PodShape' /\ RunningIsServed' /\ GhostIsClaimed'
      BY <2>1, <3>2, <1>3 DEF PodShape, RunningIsServed, GhostIsClaimed
    <3>6. \A v \in Wakers : StartOnTrack(v)'
      BY <2>1, <3>1, <3>3, <1>1 DEF OrderlyInv, StartOnTrack
    <3>7. SweepOnTrack'
      BY <2>1, <3>1, <3>3, <1>3 DEF SweepOnTrack
    <3>. QED  BY <3>3, <3>4, <3>5, <3>6, <3>7, <1>1 DEF OrderlyInv
  <2>. QED  BY <2>2, <2>3
<1>9. CASE Terminate
  <2>1. Answers(loc["sweeper"])
    BY <1>9, <1>3, NullAssumption DEF Terminate, SweepOnTrack, Answers, PodRunning, PodShape
  <2>2. /\ Goto("sweeper", "sw_pod") /\ UNCHANGED <<row, cm, loc>>
        /\ pc["sweeper"] = "terminate" /\ pod' = [pod EXCEPT !.st = "dead"]
    BY <1>9, <2>1, NoFaults DEF Terminate, SweepGoes
  <2>3. PodShape'
    BY <2>2, <1>1, <1>3 DEF PodShape, SweepOnTrack, Pods
  <2>4. SweepOnTrack'
    BY <2>2, <1>1, <1>4 DEF SweepOnTrack, Pods
  <2>. QED  BY <2>2, <2>3, <2>4, <1>2, SweepMove
<1>10. CASE SweepStopPod
  <2>1. /\ Goto("sweeper", "sw_cm") /\ UNCHANGED <<row, cm, loc>>
        /\ pc["sweeper"] = "sw_pod" /\ pod' = DeletedPod
    BY <1>10, NoFaults DEF SweepStopPod, StopPod, After
  <2>2. PodShape' /\ (pod'.term \/ pod'.st = "none")
    BY <2>1, <1>1, <1>3 DEF PodShape, SweepOnTrack, DeletedPod, Pods
  <2>3. SweepOnTrack'
    BY <2>1, <2>2, <1>4 DEF SweepOnTrack
  <2>. QED  BY <2>1, <2>2, <2>3, <1>2, SweepMove
<1>11. CASE SweepStopConfigMap
  <2>1. /\ Goto("sweeper", "sw_set") /\ UNCHANGED <<row, pod, loc>>
        /\ pc["sweeper"] = "sw_cm"
    BY <1>11, NoFaults DEF SweepStopConfigMap, StopConfigMap, After
  <2>2. /\ pc'["sweeper"] = "sw_set"
        /\ \A a \in Actors : a # "sweeper" => pc'[a] = pc[a]
        /\ Owners' = Owners
        /\ row.state = "suspending"
        /\ \A v \in Wakers : pc'[v] \notin WakeOwnerPc
    BY <2>1, <1>1, <1>2, SweeperMoves, WhoOwns DEF OrderlyInv
  <2>3. OwnershipMatches' /\ NoTakeover' /\ PodShape' /\ RunningIsServed' /\ GhostIsClaimed'
    BY <2>1, <2>2, <1>1, <1>3 DEF OrderlyInv, OwnershipMatches, NoTakeover, PodShape,
                                  RunningIsServed, GhostIsClaimed
  <2>4. \A v \in Wakers : StartOnTrack(v)'
    BY <2>2 DEF StartOnTrack, WakeOwnerPc
  <2>5. SweepOnTrack'
    BY <2>1, <2>2, <1>3 DEF SweepOnTrack
  <2>. QED  BY <2>2, <2>3, <2>4, <2>5, <1>1 DEF OrderlyInv
<1>12. CASE SweepSetSuspended
  <2>1. /\ Goto("sweeper", "idle") /\ UNCHANGED <<pod, cm>> /\ pc["sweeper"] = "sw_set"
        /\ row' = SetEndpointSuspended /\ \A w \in Wakers : loc'[w] = loc[w]
    BY <1>12, <1>1, NoFaults DEF SweepSetSuspended, After, SweepEnds, cluster
  <2>2. row'.state = "suspended" /\ row'.exists /\ ~row'.stale
    BY <2>1, <1>1, <1>3 DEF SetEndpointSuspended, Rows
  <2>3. /\ pc'["sweeper"] = "idle"
        /\ \A a \in Actors : a # "sweeper" => pc'[a] = pc[a]
        /\ Owners' = {}
    BY <2>1, <1>2, SweeperMoves, WhoOwns DEF OrderlyInv
  <2>4. OwnershipMatches' /\ NoTakeover'
    BY <2>2, <2>3, <1>1 DEF OrderlyInv, OwnershipMatches, NoTakeover
  <2>5. PodShape' /\ RunningIsServed' /\ GhostIsClaimed'
    BY <2>1, <2>2, <1>3 DEF PodShape, RunningIsServed, GhostIsClaimed, SweepOnTrack, PodLive,
                            PodExists
  <2>6. \A v \in Wakers : StartOnTrack(v)'
    BY <2>1, <2>3, <1>1 DEF OrderlyInv, StartOnTrack
  <2>7. SweepOnTrack'
    BY <2>3 DEF SweepOnTrack
  <2>. QED  BY <2>3, <2>4, <2>5, <2>6, <2>7, <1>1 DEF OrderlyInv
<1>. QED  BY <1>5, <1>6, <1>7, <1>8, <1>9, <1>10, <1>11, <1>12 DEF SweepStep

\* Nobody uses the debug and delete handlers.
LEMMA RequestOrderly ==
  ASSUME OrderlyWorld, OrderlyInv, RequestNext
  PROVE  FALSE
BY NoFaults DEF OrderlyWorld, OrderlyInv, RequestNext, DebugStop, DebugStep, CancelRequest,
                DeleteRequest, DeleteStep, DebugStopPod, DebugStopConfigMap, DebugSetSuspended,
                DeleteStopPod, DeleteStopConfigMap, DeleteStorage, DeleteRow, StopPod,
                StopConfigMap

\* The steps of the cluster preserve OrderlyInv.
LEMMA ClusterOrderly ==
  ASSUME OrderlyWorld, TypeOK, OrderlyInv, ClusterNext
  PROVE  OrderlyInv'
<1>1. pod \in Pods /\ PodShape
  BY DEF TypeOK, OrderlyInv
<1>2. UNCHANGED <<row, cm, pc, loc>>
  BY DEF ClusterNext, Boots, BecomesReady, ComputeFails, ContainerExits, NodeLost, Removed, procs
<1>3. CASE \E ip \in IPs : Boots(ip)
  <2>1. PICK ip \in IPs : /\ pod.st = "pending"
                          /\ pod' = [pod EXCEPT !.st = "booting", !.ip = ip]
    BY <1>3 DEF Boots, PodBoots
  <2>2. PodShape' /\ (PodLive' => PodLive) /\ pod'.term = pod.term
    BY <2>1, <1>1 DEF PodShape, Pods, PodLive, PodExists
  <2>. QED  BY <1>2, <2>1, <2>2, EnvStep
<1>4. CASE BecomesReady \/ ComputeFails
  <2>1. PICK s \in {"ready", "broken"} : /\ pod.st = "booting" /\ ~pod.term
                                         /\ pod' = [pod EXCEPT !.st = s]
    BY <1>4 DEF BecomesReady, CtlReady, ComputeFails, CtlFails
  <2>2. PodShape' /\ (PodLive' => PodLive) /\ pod'.term = pod.term
    BY <2>1, <1>1 DEF PodShape, Pods, PodLive, PodExists
  <2>. QED  BY <1>2, <2>1, <2>2, EnvStep
<1>5. CASE Removed
  <2>1. pod.term /\ pod' = NoPod /\ pod'.st = "none"
    BY <1>5 DEF Removed, PodGone, NoPod
  <2>2. PodShape' /\ ~PodLive' /\ pod.st # "ready"
    BY <2>1, <1>1 DEF PodShape, NoPod, PodLive, PodExists
  <2>. QED  BY <1>2, <2>1, <2>2, EnvStep
<1>6. CASE ContainerExits \/ NodeLost
  BY <1>6, NoFaults DEF ContainerExits, NodeLost
<1>. QED  BY <1>3, <1>4, <1>5, <1>6 DEF ClusterNext

\* Time preserves OrderlyInv: no row is abandoned, so none turns stale.
LEMMA TimeOrderly ==
  ASSUME OrderlyWorld, TypeOK, OrderlyInv,
         AbandonedAges \/ WaitedAges \/ OwnedAges \/ StartAges \/ Idles \/ Crash
  PROVE  OrderlyInv'
<1>1. row \in Rows /\ pod \in Pods
  BY DEF TypeOK
<1>2. CASE AbandonedAges
  BY <1>2 DEF AbandonedAges, Abandoned, OrderlyInv, OwnershipMatches
<1>3. CASE WaitedAges \/ OwnedAges \/ Crash
  BY <1>3, NoFaults DEF WaitedAges, OwnedAges, Crash, OrderlyWorld
<1>4. CASE StartAges \/ Idles
  <2>1. /\ UNCHANGED <<cm, pc, loc>>
        /\ row'.state = row.state /\ row'.exists = row.exists
        /\ row'.stale = row.stale /\ row'.addr = row.addr
        /\ pod'.st = pod.st /\ pod'.ip = pod.ip /\ pod'.term = pod.term
    BY <1>4, <1>1 DEF StartAges, GraceEnds, Idles, ActivityAges, cluster, Rows, Pods
  <2>2. PodShape' /\ (PodLive' => PodLive)
    BY <2>1 DEF OrderlyInv, PodShape, PodLive, PodExists
  <2>. QED  BY <2>1, <2>2, EnvStep
<1>. QED  BY <1>2, <1>3, <1>4

\* OrderlyInv holds in the initial state.
LEMMA OrderlyInit ==
  ASSUME Init
  PROVE  OrderlyInv
<1>1. /\ row.state = "suspended" /\ row.exists /\ ~row.stale
      /\ pod.st = "none" /\ ~pod.term
      /\ \A a \in Actors : pc[a] = "idle"
      /\ Wakers \subseteq Actors /\ {"sweeper", "debug", "deleter"} \subseteq Actors
  BY DEF Init, StoreInit, RuntimeInit, ProcessInit, NoRow, NoPod, Actors
<1>2. Owners = {}
  BY <1>1 DEF Owners, WakeOwnerPc, SweepOwnerPc
<1>3. OwnershipMatches /\ NoTakeover
  BY <1>1, <1>2 DEF OwnershipMatches, NoTakeover
<1>4. PodShape /\ SweepOnTrack /\ RunningIsServed /\ GhostIsClaimed
  BY <1>1 DEF PodShape, SweepOnTrack, RunningIsServed, GhostIsClaimed, PodLive, PodExists
<1>5. \A w \in Wakers : StartOnTrack(w)
  BY <1>1 DEF StartOnTrack
<1>. QED  BY <1>1, <1>3, <1>4, <1>5 DEF OrderlyInv

\* Every step preserves OrderlyInv.
LEMMA OrderlyStep ==
  ASSUME OrderlyWorld, TypeOK, OrderlyInv, [Next]_vars
  PROVE  OrderlyInv'
<1>1. CASE Next
  BY <1>1, WakerOrderly, SweepOrderly, RequestOrderly, ClusterOrderly, TimeOrderly DEF Next
<1>2. CASE UNCHANGED vars
  <2>1. Owners' = Owners
    BY <1>2 DEF vars, Owners
  <2>2. OwnershipMatches' /\ NoTakeover' /\ PodShape' /\ RunningIsServed' /\ GhostIsClaimed'
    BY <1>2, <2>1 DEF vars, OrderlyInv, OwnershipMatches, NoTakeover, PodShape,
                      RunningIsServed, GhostIsClaimed, PodLive, PodExists
  <2>3. SweepOnTrack' /\ \A w \in Wakers : StartOnTrack(w)'
    BY <1>2 DEF vars, OrderlyInv, SweepOnTrack, StartOnTrack
  <2>. QED  BY <1>2, <2>2, <2>3 DEF OrderlyInv, vars
<1>. QED  BY <1>1, <1>2

\* For any number of wakers and addresses, OrderlyInv holds in every state of
\* the orderly world.
THEOREM OrderlyAlways ==
  ASSUME OrderlyWorld
  PROVE  Spec => []OrderlyInv
<1>1. Init => OrderlyInv
  BY OrderlyInit
<1>2. TypeOK /\ OrderlyInv /\ [Next]_vars => OrderlyInv'
  BY OrderlyStep
<1>. QED  BY <1>1, <1>2, TypeCorrect, PTL DEF Spec

\* The CAS of TransitionEndpoint is a mutual exclusion of all wakers and the
\* sweep (SingleOwner).
THEOREM OneOwner ==
  ASSUME OrderlyWorld
  PROVE  Spec => []SingleOwner
<1>1. TypeOK /\ OrderlyInv => SingleOwner
  <2>1. TypeOK => row.state \in {"suspended", "starting", "running", "suspending", "failed"}
    BY DEF TypeOK, Rows, EndpointStates
  <2>. QED  BY <2>1 DEF OrderlyInv, OwnershipMatches, SingleOwner
<1>. QED  BY <1>1, TypeCorrect, OrderlyAlways, PTL

\* A row that says running has a ready pod at its address that nobody is
\* removing (RunningIsServed).
THEOREM RunningServed ==
  ASSUME OrderlyWorld
  PROVE  Spec => []RunningIsServed
<1>1. OrderlyInv => RunningIsServed
  BY DEF OrderlyInv
<1>. QED  BY <1>1, OrderlyAlways, PTL

\* When every process is done, a suspended or failed endpoint has no live pod
\* (NoGhost), if no waker gives up while it waits: one that has just reset the
\* row of a healthy compute would leave that compute behind.
THEOREM NoGhostComputes ==
  ASSUME OrderlyWorld, "wake" \notin Faults
  PROVE  Spec => []NoGhost
<1>1. OrderlyInv => NoGhost
  BY DEF OrderlyInv, NoGhost, GhostIsClaimed, Quiet, Actors
<1>. QED  BY <1>1, OrderlyAlways, PTL

\* A step from one end of an edge to the other is a step of the machine.
LEMMA EdgeStep ==
  ASSUME NEW e \in Machine!Edges, row.state = e[1], row'.state = e[2]
  PROVE  Machine!Next
BY DEF Machine!Next, Machine!Move

\* A waker that changes the state of the row moves along an edge.
LEMMA WakerEdges ==
  ASSUME OrderlyWorld, TypeOK, OrderlyInv, NEW w \in Wakers, WakerNext(w), ~UNCHANGED row.state
  PROVE  Machine!Next
<1>1. /\ row \in Rows /\ row.exists
      /\ pc[w] \notin {"take_starting", "take_suspending", "clear_pod", "clear_cm"}
      /\ pc[w] \in {"set_running", "fail_cas"} => row.state = "starting"
  BY WhoOwns DEF TypeOK, OrderlyInv, NoTakeover, WakeOwnerPc
<1>2. \/ Reconcile(w) \/ CasSuspended(w) \/ CasFailed(w) \/ SetRunning(w) \/ MarkFailed(w)
  BY <1>1 DEF WakerNext, WakeStep, Call, Cancel, Connect, Hangup, ReadRow, ReadFails,
              VerifyRunning, TakeStarting, TakeSuspending, ClearPod, ClearConfigMap, BuildSpec,
              StartConfigMap, GetConfigMap, UpdateConfigMap, StartPod, Poll, Probe, ReadyTimeout,
              FailStopPod, FailStopConfigMap, StopPod, StopConfigMap, Cas
<1>3. CASE Reconcile(w) \/ CasSuspended(w) \/ CasFailed(w)
  <2>1. PICK e \in {<<"running", "suspended">>, <<"suspended", "starting">>,
                    <<"failed", "starting">>} : row' = TransitionEndpoint(e[1], e[2])
    BY <1>3, NoFaults DEF Reconcile, CasSuspended, CasFailed, Cas, After
  <2>2. row.state = e[1] /\ row'.state = e[2]
    BY <2>1, <1>1 DEF TransitionEndpoint, InState, Rows
  <2>3. e \in Machine!Edges
    BY DEF Machine!Edges
  <2>. QED  BY <2>2, <2>3, EdgeStep
<1>4. CASE SetRunning(w)
  <2>1. row.state = "starting" /\ row'.state = "running"
    BY <1>1, <1>4, NoFaults DEF SetRunning, After, SetEndpointRunning, Rows
  <2>2. <<"starting", "running">> \in Machine!Edges
    BY DEF Machine!Edges
  <2>. QED  BY <2>1, <2>2, EdgeStep
<1>5. CASE MarkFailed(w)
  <2>1. row.state = "starting" /\ row'.state = "failed"
    BY <1>1, <1>5, NoFaults DEF MarkFailed, After, TransitionEndpoint, InState, Rows
  <2>2. <<"starting", "failed">> \in Machine!Edges
    BY DEF Machine!Edges
  <2>. QED  BY <2>1, <2>2, EdgeStep
<1>. QED  BY <1>2, <1>3, <1>4, <1>5

\* The sweep that changes the state of the row moves along an edge.
LEMMA SweepEdges ==
  ASSUME OrderlyWorld, TypeOK, OrderlyInv, SweepStep, ~UNCHANGED row.state
  PROVE  Machine!Next
<1>1. /\ row \in Rows /\ row.exists /\ pc["sweeper"] # "sw_reconcile"
      /\ pc["sweeper"] = "sw_set" => row.state = "suspending"
  BY WhoOwns DEF TypeOK, OrderlyInv, NoTakeover, SweepOnTrack, SweepOwnerPc
<1>2. CasSuspending \/ SweepSetSuspended
  BY <1>1 DEF SweepStep, ListRunning, CheckPod, SweepReconcile, FetchLastActive, Terminate,
              SweepStopPod, SweepStopConfigMap, StopPod, StopConfigMap
<1>3. CASE CasSuspending
  <2>1. row.state = "running" /\ row'.state = "suspending"
    BY <1>1, <1>3, NoFaults DEF CasSuspending, After, TransitionEndpoint, InState, Rows
  <2>2. <<"running", "suspending">> \in Machine!Edges
    BY DEF Machine!Edges
  <2>. QED  BY <2>1, <2>2, EdgeStep
<1>4. CASE SweepSetSuspended
  <2>1. row.state = "suspending" /\ row'.state = "suspended"
    BY <1>1, <1>4, NoFaults DEF SweepSetSuspended, After, SetEndpointSuspended, Rows
  <2>2. <<"suspending", "suspended">> \in Machine!Edges
    BY DEF Machine!Edges
  <2>. QED  BY <2>1, <2>2, EdgeStep
<1>. QED  BY <1>2, <1>3, <1>4

\* The row moves along the edges of the documented machine only
\* (ImplementsMachine), with row.state as the refinement mapping.
THEOREM MachineRefined ==
  ASSUME OrderlyWorld
  PROVE  Spec => ImplementsMachine
<1>1. Init => Machine!Init
  BY DEF Init, StoreInit, NoRow, Machine!Init
<1>2. TypeOK /\ OrderlyInv /\ [Next]_vars => [Machine!Next]_(row.state)
  <2>. SUFFICES ASSUME TypeOK, OrderlyInv, Next, ~UNCHANGED row.state PROVE Machine!Next
    BY DEF vars
  <2>1. CASE \E w \in Wakers : WakerNext(w)
    BY <2>1, WakerEdges
  <2>2. CASE SweepStep
    BY <2>2, SweepEdges
  <2>3. CASE RequestNext
    BY <2>3, RequestOrderly
  <2>4. CASE ClusterNext
    BY <2>4 DEF ClusterNext, Boots, BecomesReady, ComputeFails, ContainerExits, NodeLost,
                Removed
  <2>5. CASE AbandonedAges \/ WaitedAges \/ OwnedAges \/ StartAges \/ Idles \/ Crash
    <3>1. row \in Rows
      BY DEF TypeOK
    <3>. QED  BY <2>5, <3>1 DEF AbandonedAges, WaitedAges, OwnedAges, StartAges, Idles, Crash, RowAges,
                                GraceEnds, Rows
  <2>. QED  BY <2>1, <2>2, <2>3, <2>4, <2>5 DEF Next
<1>. QED  BY <1>1, <1>2, TypeCorrect, OrderlyAlways, PTL DEF Spec, ImplementsMachine, Machine!Spec
=============================================================================
