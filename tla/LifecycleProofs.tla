--------------------------- MODULE LifecycleProofs ---------------------------
(***************************************************************************)
(* Proofs about one endpoint, for every set of wakers and addresses, every *)
(* kind and number of faults, and every choice of handlers.                *)
(***************************************************************************)
EXTENDS Lifecycle, TLAPS

-----------------------------------------------------------------------------
(***************************************************************************)
(* Type correctness.                                                       *)
(***************************************************************************)

\* Every statement on the endpoint row yields a well-typed row.
LEMMA RowOps ==
  ASSUME row \in Rows
  PROVE  /\ \A from, to \in EndpointStates : TransitionEndpoint(from, to) \in Rows
         /\ \A ip \in MaybeIP : SetEndpointRunning(ip) \in Rows
         /\ SetEndpointSuspended \in Rows
         /\ DeletedRow \in Rows
BY DEF Rows, TransitionEndpoint, SetEndpointRunning, SetEndpointSuspended,
       DeletedRow, NoRow, EndpointStates, MaybeIP

\* Every Kubernetes call yields a well-typed pod and ConfigMap.
LEMMA KubeOps ==
  ASSUME pod \in Pods, cm \in ConfigMaps
  PROVE  /\ CreatedPod \in Pods
         /\ DeletedPod \in Pods
         /\ CreatedConfigMap \in ConfigMaps
         /\ DeletedConfigMap \in ConfigMaps
         /\ \A w \in Wakers : /\ ReadConfigMap(w) \in ConfigMaps
                              /\ UpdatedConfigMap(w) \in ConfigMaps
                              /\ [cm EXCEPT !.readers = @ \ {w}] \in ConfigMaps
BY DEF Pods, ConfigMaps, PodStates, NoPod, NoConfigMap, NewConfigMap, CreatedPod,
       DeletedPod, CreatedConfigMap, DeletedConfigMap, ReadConfigMap,
       UpdatedConfigMap, MaybeIP

\* The bound on adverse events is never exceeded.
LEMMA Counting ==
  ASSUME faults \in 0..MaxFaults
  PROVE  /\ \A k \in FaultKinds : Charge(k) => faults' \in 0..MaxFaults
         /\ \A o \in Outcomes : Cost(o) => faults' \in 0..MaxFaults
BY MaxFaultsAssumption DEF Charge, Cost, Outcomes

\* A process that moves to one of its own calls leaves every pc well-typed.
LEMMA GotoOK ==
  ASSUME PcOK(pc)
  PROVE  /\ \A w \in Wakers, l \in WakerPc : Goto(w, l) => PcOK(pc')
         /\ \A l \in SweeperPc : Goto("sweeper", l) => PcOK(pc')
         /\ \A l \in DebugPc : Goto("debug", l) => PcOK(pc')
         /\ \A l \in DeleterPc : Goto("deleter", l) => PcOK(pc')
<1>1. WakerPc \subseteq PcValues /\ SweeperPc \subseteq PcValues
      /\ DebugPc \subseteq PcValues /\ DeleterPc \subseteq PcValues
  BY DEF PcValues
<1>2. /\ \A w \in Wakers : w \in Actors /\ w \notin {"sweeper", "debug", "deleter"}
      /\ "sweeper" \in Actors /\ "debug" \in Actors /\ "deleter" \in Actors
  BY WakersAssumption DEF Actors
<1>. QED  BY <1>1, <1>2 DEF PcOK, Goto

\* What the three ways to leave a step of Wake do to the local variables.
LEMMA LocalsOK ==
  ASSUME loc \in [Actors -> MaybeIP], seen \in [Wakers -> SUBSET IPs], PcOK(pc)
  PROVE  /\ \A w \in Wakers, l \in WakerPc :
              Step(w, l) => /\ loc' \in [Actors -> MaybeIP]
                            /\ seen' \in [Wakers -> SUBSET IPs]
                            /\ PcOK(pc')
         /\ \A w \in Wakers, ip \in MaybeIP :
              Reply(w, ip) => /\ loc' \in [Actors -> MaybeIP]
                              /\ seen' \in [Wakers -> SUBSET IPs]
                              /\ PcOK(pc')
         /\ \A w \in Wakers :
              Fail(w) => /\ loc' \in [Actors -> MaybeIP]
                         /\ seen' \in [Wakers -> SUBSET IPs]
                         /\ PcOK(pc')
<1>1. {"replied", "idle"} \subseteq WakerPc
  BY DEF WakerPc
<1>. QED  BY <1>1, GotoOK DEF Step, Reply, Fail, Actors, MaybeIP

\* The compare-and-swaps of the wake path (TransitionEndpoint) keep the types.
LEMMA CasType ==
  ASSUME TypeOK, NEW w \in Wakers, NEW here, NEW from \in EndpointStates,
         NEW to \in EndpointStates, NEW won \in WakerPc, NEW lost \in WakerPc,
         Cas(w, here, from, to, won, lost), UNCHANGED grace
  PROVE  TypeOK'
BY RowOps, Counting, LocalsOK DEF TypeOK, Cas, cluster, After

\* Both calls of Runtime.Stop keep the types, whoever makes them.
LEMMA StopType ==
  ASSUME TypeOK, NEW a, NEW here, NEW next, NEW onErr,
         \/ StopPod(a, here, next, onErr)
         \/ StopConfigMap(a, here, next, onErr),
         Goto(a, next) \/ Goto(a, onErr) => PcOK(pc'),
         UNCHANGED grace
  PROVE  TypeOK'
<1>1. CASE StopPod(a, here, next, onErr)
  BY <1>1, KubeOps, Counting DEF TypeOK, StopPod, After
<1>2. CASE StopConfigMap(a, here, next, onErr)
  BY <1>2, KubeOps, Counting DEF TypeOK, StopConfigMap, After
<1>. QED  BY <1>1, <1>2

\* Every step of Wake, startCompute and waitReady keeps the types.
LEMMA WakeStepType ==
  ASSUME TypeOK, NEW w \in Wakers, WakeStep(w), UNCHANGED grace
  PROVE  TypeOK'
<1>1. /\ {"lock", "verify", "reconcile", "cas_failed", "take_suspending"} \subseteq WakerPc
      /\ {"cas_suspended", "take_starting"} \subseteq WakerPc
      /\ WakeOwnerPc \subseteq WakerPc
  BY DEF WakerPc, CallingPc
<1>2. /\ {"clear_pod", "clear_cm", "spec", "start_cm", "get_cm", "update_cm"} \subseteq WakerPc
      /\ {"start_pod", "poll", "probe", "set_running"} \subseteq WakerPc
      /\ {"fail_pod", "fail_cm", "fail_cas"} \subseteq WakerPc
  BY <1>1 DEF WakeOwnerPc
<1>3. {"suspended", "starting", "running", "suspending", "failed"} \subseteq EndpointStates
  BY DEF EndpointStates
<1>4. \A l \in WakerPc : Goto(w, l) => PcOK(pc')
  BY GotoOK DEF TypeOK
<1>5. CASE ReadRow(w)
  <2>1. Decision \in WakerPc
    BY <1>1 DEF TypeOK, Rows, EndpointStates, Decision
  <2>. QED  BY <1>5, <2>1, <1>4 DEF TypeOK, ReadRow, cluster, Rows, MaybeIP
<1>6. CASE ReadFails(w)
  BY <1>6, Counting, LocalsOK DEF TypeOK, ReadFails, cluster, FaultKinds
<1>7. CASE VerifyRunning(w)
  <2>1. loc[w] \in MaybeIP
    BY DEF TypeOK, Actors
  <2>. QED  BY <1>7, <2>1, <1>1, Counting, LocalsOK DEF TypeOK, VerifyRunning, cluster, FaultKinds
<1>8. CASE Reconcile(w) \/ CasSuspended(w) \/ CasFailed(w) \/ TakeStarting(w) \/ TakeSuspending(w)
  BY <1>8, <1>1, <1>2, <1>3, CasType
     DEF Reconcile, CasSuspended, CasFailed, TakeStarting, TakeSuspending
<1>9. CASE ClearPod(w) \/ ClearConfigMap(w) \/ FailStopPod(w) \/ FailStopConfigMap(w)
  BY <1>9, <1>2, <1>4, StopType DEF ClearPod, ClearConfigMap, FailStopPod, FailStopConfigMap
<1>10. CASE BuildSpec(w)
  BY <1>10, <1>2, Counting, LocalsOK DEF TypeOK, BuildSpec, cluster, FaultKinds
<1>11. CASE StartConfigMap(w)
  BY <1>11, <1>2, Counting, LocalsOK, KubeOps DEF TypeOK, StartConfigMap, After
<1>12. CASE GetConfigMap(w)
  BY <1>12, <1>2, Counting, LocalsOK, KubeOps DEF TypeOK, GetConfigMap, FaultKinds
<1>13. CASE UpdateConfigMap(w)
  BY <1>13, <1>2, Counting, LocalsOK, KubeOps DEF TypeOK, UpdateConfigMap, After
<1>14. CASE StartPod(w)
  BY <1>14, <1>2, Counting, LocalsOK, KubeOps DEF TypeOK, StartPod, After
<1>15. CASE Poll(w)
  BY <1>15, <1>2, <1>4 DEF TypeOK, Poll, cluster, Pods
<1>16. CASE Probe(w)
  BY <1>16, <1>2, Counting, LocalsOK DEF TypeOK, Probe, cluster, FaultKinds
<1>17. CASE ReadyTimeout(w)
  BY <1>17, <1>2, Counting, LocalsOK DEF TypeOK, ReadyTimeout, cluster, FaultKinds
<1>18. CASE SetRunning(w)
  <2>1. loc[w] \in MaybeIP
    BY DEF TypeOK, Actors
  <2>. QED  BY <1>18, <2>1, <1>2, RowOps, Counting, LocalsOK DEF TypeOK, SetRunning, After, cluster
<1>19. CASE MarkFailed(w)
  BY <1>19, <1>3, RowOps, Counting, LocalsOK DEF TypeOK, MarkFailed, After, cluster
<1>. QED
  BY <1>5, <1>6, <1>7, <1>8, <1>9, <1>10, <1>11, <1>12, <1>13, <1>14, <1>15,
     <1>16, <1>17, <1>18, <1>19 DEF WakeStep

\* So do the client's own steps.
LEMMA WakerType ==
  ASSUME TypeOK, NEW w \in Wakers, WakerNext(w)
  PROVE  TypeOK'
<1>. UNCHANGED grace
  BY DEF WakerNext
<1>1. CASE Call(w)
  <2>1. "lock" \in WakerPc
    BY DEF WakerPc, CallingPc
  <2>. QED  BY <1>1, <2>1, GotoOK DEF TypeOK, Call, cluster
<1>2. CASE WakeStep(w)
  BY <1>2, WakeStepType
<1>3. CASE Cancel(w)
  BY <1>3, Counting, LocalsOK, KubeOps DEF TypeOK, Cancel, FaultKinds
<1>4. CASE Connect(w)
  BY <1>4 DEF TypeOK, Connect, Activity, Pods
<1>5. CASE Hangup(w)
  BY <1>5, LocalsOK DEF TypeOK, Hangup, cluster
<1>. QED  BY <1>1, <1>2, <1>3, <1>4, <1>5 DEF WakerNext

\* Every step of the sweep keeps the types.
LEMMA SweepType ==
  ASSUME TypeOK, SweepStep
  PROVE  TypeOK'
<1>1. /\ {"idle", "check", "sw_reconcile", "fetch", "sw_cas"} \subseteq SweeperPc
      /\ {"terminate", "sw_pod", "sw_cm", "sw_set"} \subseteq SweeperPc
  BY DEF SweeperPc, SweepOwnerPc
<1>2. \A l \in SweeperPc : Goto("sweeper", l) => PcOK(pc')
  BY GotoOK DEF TypeOK
<1>3. /\ SweepEnds => PcOK(pc') /\ loc' \in [Actors -> MaybeIP]
      /\ \A l \in SweeperPc : SweepGoes(l) => PcOK(pc') /\ loc' \in [Actors -> MaybeIP]
  BY <1>1, <1>2 DEF SweepEnds, SweepGoes, TypeOK, MaybeIP
<1>4. {"running", "suspending"} \subseteq EndpointStates
  BY DEF EndpointStates
<1>5. CASE ListRunning
  BY <1>5, <1>1, <1>2 DEF TypeOK, ListRunning, cluster, Rows, MaybeIP
<1>6. CASE CheckPod
  BY <1>6, <1>1, <1>3, Counting DEF TypeOK, CheckPod, cluster, FaultKinds
<1>7. CASE SweepReconcile
  BY <1>7, <1>3, Counting, RowOps DEF TypeOK, SweepReconcile, cluster, After
<1>8. CASE FetchLastActive
  BY <1>8, <1>1, <1>3, Counting DEF TypeOK, FetchLastActive, cluster, FaultKinds
<1>9. CASE CasSuspending
  BY <1>9, <1>1, <1>3, <1>4, Counting, RowOps DEF TypeOK, CasSuspending, cluster, After
<1>10. CASE Terminate
  BY <1>10, <1>1, <1>3, Counting DEF TypeOK, Terminate, Pods, PodStates, FaultKinds
<1>11. CASE SweepStopPod \/ SweepStopConfigMap
  BY <1>11, <1>1, <1>2, StopType DEF SweepStopPod, SweepStopConfigMap
<1>12. CASE SweepSetSuspended
  BY <1>12, <1>3, Counting, RowOps DEF TypeOK, SweepSetSuspended, cluster, After
<1>. QED
  BY <1>5, <1>6, <1>7, <1>8, <1>9, <1>10, <1>11, <1>12 DEF SweepStep

\* Every step of debugStop and of the deletes keeps the types.
LEMMA RequestType ==
  ASSUME TypeOK, RequestNext
  PROVE  TypeOK'
<1>. UNCHANGED grace
  BY DEF RequestNext
<1>1. /\ {"idle", "dbg_pod", "dbg_cm", "dbg_set"} \subseteq DebugPc
      /\ {"idle", "del_pod", "del_cm", "del_tl", "del_row"} \subseteq DeleterPc
  BY DEF DebugPc, DeleterPc
<1>2. /\ \A l \in DebugPc : Goto("debug", l) => PcOK(pc')
      /\ \A l \in DeleterPc : Goto("deleter", l) => PcOK(pc')
  BY GotoOK DEF TypeOK
<1>3. CASE DebugStop
  BY <1>3, <1>1, <1>2 DEF TypeOK, DebugStop, cluster
<1>4. CASE DebugStep
  <2>1. CASE DebugStopPod \/ DebugStopConfigMap
    BY <2>1, <1>1, <1>2, StopType DEF DebugStopPod, DebugStopConfigMap
  <2>2. CASE DebugSetSuspended
    BY <2>2, <1>1, <1>2, Counting, RowOps DEF TypeOK, DebugSetSuspended, cluster, After
  <2>. QED  BY <1>4, <2>1, <2>2 DEF DebugStep
<1>5. CASE DeleteRequest
  BY <1>5, <1>1, <1>2, Counting DEF TypeOK, DeleteRequest, cluster, FaultKinds
<1>6. CASE DeleteStep
  <2>1. CASE DeleteStopPod \/ DeleteStopConfigMap
    BY <2>1, <1>1, <1>2, StopType DEF DeleteStopPod, DeleteStopConfigMap
  <2>2. CASE DeleteStorage
    BY <2>2, <1>1, <1>2, Counting DEF TypeOK, DeleteStorage, cluster
  <2>3. CASE DeleteRow
    BY <2>3, <1>1, <1>2, Counting, RowOps DEF TypeOK, DeleteRow, cluster, After
  <2>. QED  BY <1>6, <2>1, <2>2, <2>3 DEF DeleteStep
<1>7. CASE CancelRequest("debug") \/ CancelRequest("deleter")
  BY <1>7, <1>1, <1>2, Counting DEF TypeOK, CancelRequest, cluster, FaultKinds
<1>. QED  BY <1>3, <1>4, <1>5, <1>6, <1>7 DEF RequestNext

\* Every step of the cluster keeps the types.
LEMMA ClusterType ==
  ASSUME TypeOK, ClusterNext
  PROVE  TypeOK'
<1>1. ASSUME NEW ip \in IPs, Boots(ip) PROVE TypeOK'
  BY <1>1 DEF TypeOK, Boots, PodBoots, Pods, PodStates, MaybeIP, procs
<1>2. CASE BecomesReady
  BY <1>2 DEF TypeOK, BecomesReady, CtlReady, Pods, PodStates, procs
<1>3. CASE ComputeFails
  BY <1>3, Counting DEF TypeOK, ComputeFails, CtlFails, Pods, PodStates, procs, FaultKinds
<1>4. CASE ContainerExits
  BY <1>4, Counting DEF TypeOK, ContainerExits, PodDies, Pods, PodStates, procs, FaultKinds
<1>5. CASE NodeLost
  BY <1>5, Counting
     DEF TypeOK, NodeLost, PodVanishes, NoPod, Pods, PodStates, MaybeIP, procs, FaultKinds
<1>6. CASE Removed
  BY <1>6 DEF TypeOK, Removed, PodGone, NoPod, Pods, PodStates, MaybeIP, procs
<1>. QED  BY <1>1, <1>2, <1>3, <1>4, <1>5, <1>6 DEF ClusterNext

\* Time and restarts keep the types.
LEMMA TimeType ==
  ASSUME TypeOK, AbandonedAges \/ WaitedAges \/ OwnedAges \/ StartAges \/ Idles \/ Crash
  PROVE  TypeOK'
<1>1. CASE AbandonedAges \/ WaitedAges
  BY <1>1 DEF TypeOK, AbandonedAges, WaitedAges, RowAges, Rows, procs, cluster
<1>2. CASE OwnedAges
  BY <1>2, Counting DEF TypeOK, OwnedAges, RowAges, Rows, procs, cluster, FaultKinds
<1>3. CASE StartAges
  BY <1>3 DEF TypeOK, StartAges, GraceEnds, Rows, cluster
<1>4. CASE Idles
  BY <1>4 DEF TypeOK, Idles, ActivityAges, Rows, Pods
<1>5. CASE Crash
  <2>1. PcOK(pc')
    BY <1>5 DEF Crash, PcOK, Actors, PcValues, WakerPc, SweeperPc, DebugPc, DeleterPc
  <2>. QED  BY <1>5, <2>1, Counting DEF TypeOK, Crash, ConfigMaps, MaybeIP, FaultKinds
<1>. QED  BY <1>1, <1>2, <1>3, <1>4, <1>5

\* A freshly created endpoint is well-typed.
LEMMA InitType == Init => TypeOK
<1>. SUFFICES ASSUME Init PROVE TypeOK
  OBVIOUS
<1>1. row \in Rows /\ pod \in Pods /\ cm \in ConfigMaps /\ grace \in BOOLEAN
  BY DEF Init, StoreInit, RuntimeInit, SuspenderInit, NoRow, Rows, EndpointStates,
         NoPod, Pods, PodStates, NoConfigMap, ConfigMaps, MaybeIP
<1>2. PcOK(pc)
  BY DEF Init, ProcessInit, PcOK, Actors, PcValues, WakerPc, SweeperPc, DebugPc, DeleterPc
<1>. QED
  BY <1>1, <1>2, MaxFaultsAssumption DEF Init, ProcessInit, TypeOK, MaybeIP

\* For any number of wakers, addresses and faults, every variable keeps its
\* type (TypeOK): the row stays within schema.sql, each process within its calls.
THEOREM TypeCorrect == Spec => []TypeOK
<1>1. TypeOK /\ [Next]_vars => TypeOK'
  <2>. SUFFICES ASSUME TypeOK, [Next]_vars PROVE TypeOK'
    OBVIOUS
  <2>1. CASE Next
    BY <2>1, WakerType, SweepType, RequestType, ClusterType, TimeType DEF Next
  <2>2. CASE UNCHANGED vars
    BY <2>2 DEF vars, TypeOK
  <2>. QED  BY <2>1, <2>2
<1>. QED  BY <1>1, InitType, PTL DEF Spec

-----------------------------------------------------------------------------
(***************************************************************************)
(* Fresh addresses.  FreshAddress speaks of the end of a call only.  It is *)
(* inductive once it also says that a call in progress has seen the IP the *)
(* pod has now, and that an address on its way to the answer was seen.     *)
(***************************************************************************)

Sees(w) ==
  /\ pc[w] \in CallingPc => {pod.ip} \cap IPs \subseteq seen[w]
  /\ pc[w] \in {"probe", "set_running", "replied"} => loc[w] \in seen[w]

FreshInv == TypeOK /\ \A w \in Wakers : Sees(w)

\* A waker that is not involved keeps seeing the pod's IP: the IP may only
\* stay or disappear.
LEMMA OtherSees ==
  ASSUME FreshInv, NEW w \in Wakers, pc'[w] = pc[w], loc'[w] = loc[w],
         seen[w] \subseteq seen'[w], pod'.ip \in {pod.ip, NULL}
  PROVE  Sees(w)'
BY NullAssumption DEF FreshInv, Sees

\* Creating an existing pod, and deleting one, never gives it another IP.
LEMMA IPKept ==
  ASSUME pod \in Pods
  PROVE  /\ CreatedPod.ip \in {pod.ip, NULL}
         /\ DeletedPod.ip \in {pod.ip, NULL}
BY DEF Pods, CreatedPod, DeletedPod, NoPod

\* A waker that moves on to a call that uses no address keeps Sees.
LEMMA StepSees ==
  ASSUME FreshInv, NEW w \in Wakers, NEW l,
         Step(w, l), pod'.ip \in {pod.ip, NULL}, pc[w] \in CallingPc,
         l \notin {"probe", "set_running", "replied"}
  PROVE  \A v \in Wakers : Sees(v)'
<1>1. Sees(w)'
  BY NullAssumption DEF FreshInv, TypeOK, PcOK, Sees, Step, Goto, Actors
<1>2. ASSUME NEW v \in Wakers, v # w PROVE Sees(v)'
  BY <1>2, OtherSees DEF FreshInv, TypeOK, PcOK, Step, Goto, Actors
<1>. QED  BY <1>1, <1>2

\* A waker that returns an error forgets what it saw.
LEMMA FailSees ==
  ASSUME FreshInv, NEW w \in Wakers, Fail(w), pod'.ip \in {pod.ip, NULL}
  PROVE  \A v \in Wakers : Sees(v)'
<1>1. Sees(w)'
  BY DEF FreshInv, TypeOK, PcOK, Sees, Fail, Goto, Actors, CallingPc, WakeOwnerPc
<1>2. ASSUME NEW v \in Wakers, v # w PROVE Sees(v)'
  BY <1>2, OtherSees DEF FreshInv, TypeOK, PcOK, Fail, Goto, Actors
<1>. QED  BY <1>1, <1>2

\* Runtime.Stop, whoever calls it, keeps Sees.
LEMMA StopSees ==
  ASSUME FreshInv, NEW a \in Actors, NEW here, NEW next, NEW onErr,
         \/ StopPod(a, here, next, onErr)
         \/ StopConfigMap(a, here, next, onErr),
         a \in Wakers => here \in CallingPc,
         {next, onErr} \cap {"probe", "set_running", "replied"} = {}
  PROVE  \A v \in Wakers : Sees(v)'
<1>1. /\ pod'.ip \in {pod.ip, NULL} /\ UNCHANGED <<loc, seen>> /\ pc[a] = here
      /\ \E l \in {next, onErr} : Goto(a, l)
  BY IPKept DEF FreshInv, TypeOK, StopPod, StopConfigMap, After
<1>2. PICK l \in {next, onErr} : Goto(a, l)
  BY <1>1
<1>3. CASE a \in Wakers
  BY <1>1, <1>2, <1>3, StepSees DEF Step
<1>4. ASSUME a \notin Wakers, NEW v \in Wakers PROVE Sees(v)'
  <2>1. v # a /\ pc'[v] = pc[v]
    BY <1>2, <1>4 DEF FreshInv, TypeOK, PcOK, Goto, Actors
  <2>. QED  BY <1>1, <2>1, OtherSees
<1>. QED  BY <1>3, <1>4

\* The compare-and-swaps of the wake path keep Sees.
LEMMA CasSees ==
  ASSUME FreshInv, NEW w \in Wakers, NEW here \in CallingPc, NEW from, NEW to,
         NEW won, NEW lost, Cas(w, here, from, to, won, lost),
         {won, lost} \cap {"probe", "set_running", "replied"} = {}
  PROVE  \A v \in Wakers : Sees(v)'
<1>1. pod'.ip \in {pod.ip, NULL} /\ pc[w] \in CallingPc
  BY DEF Cas, cluster
<1>2. (\E l \in {won, lost} : Step(w, l)) \/ Fail(w)
  BY DEF Cas
<1>. QED  BY <1>1, <1>2, StepSees, FailSees

\* Every step of Wake keeps Sees; the address enters in Poll (Status) and is
\* confirmed in VerifyRunning (Status again).
LEMMA WakeStepSees ==
  ASSUME FreshInv, NEW w \in Wakers, WakeStep(w)
  PROVE  \A v \in Wakers : Sees(v)'
<1>1. /\ {"lock", "verify", "reconcile", "cas_failed", "take_suspending"} \subseteq CallingPc
      /\ {"cas_suspended", "take_starting"} \subseteq CallingPc
      /\ {"clear_pod", "clear_cm", "spec", "start_cm", "get_cm", "update_cm"} \subseteq CallingPc
      /\ {"start_pod", "poll", "probe", "set_running"} \subseteq CallingPc
      /\ {"fail_pod", "fail_cm", "fail_cas"} \subseteq CallingPc
      /\ "replied" \notin CallingPc
  BY DEF CallingPc, WakeOwnerPc
<1>2. ASSUME NEW v \in Wakers, v # w, UNCHANGED <<pod, seen>>,
             \E l : Goto(w, l), loc'[v] = loc[v]
      PROVE  Sees(v)'
  BY <1>2, OtherSees DEF FreshInv, TypeOK, PcOK, Goto, Actors
<1>3. TypeOK /\ pc[w] \in WakerPc /\ w \in Actors
  BY DEF FreshInv, TypeOK, PcOK, Actors
<1>5. CASE ReadRow(w)
  <2>1. Decision \in {"verify", "take_starting", "lock", "cas_suspended"}
    BY <1>3 DEF TypeOK, Rows, EndpointStates, Decision
  <2>2. Sees(w)'
    BY <1>5, <2>1, <1>1, <1>3 DEF FreshInv, TypeOK, PcOK, Sees, ReadRow, Goto, cluster
  <2>3. ASSUME NEW v \in Wakers, v # w PROVE Sees(v)'
    BY <1>5, <2>3, <1>2, <1>3 DEF ReadRow, cluster, TypeOK
  <2>. QED  BY <2>2, <2>3
<1>6. CASE ReadFails(w)
  BY <1>6, FailSees DEF ReadFails, cluster
<1>7. CASE VerifyRunning(w)
  <2>1. CASE AddressMatches(w) /\ Reply(w, loc[w])
    <3>1. loc[w] \in IPs /\ loc[w] = pod.ip
      BY <2>1, <1>3 DEF AddressMatches, TypeOK, Pods, MaybeIP
    <3>2. loc[w] \in seen[w]
      BY <3>1, <1>7, <1>1 DEF VerifyRunning, FreshInv, Sees
    <3>3. Sees(w)'
      BY <2>1, <3>2, <1>1, <1>3 DEF TypeOK, PcOK, Sees, Reply, Goto
    <3>4. ASSUME NEW v \in Wakers, v # w PROVE Sees(v)'
      BY <1>7, <2>1, <3>4, <1>2, <1>3 DEF VerifyRunning, Reply, cluster, TypeOK
    <3>. QED  BY <3>3, <3>4
  <2>2. CASE Step(w, "reconcile")
    BY <1>7, <2>2, <1>1, StepSees DEF VerifyRunning, cluster
  <2>3. CASE Fail(w)
    BY <1>7, <2>3, FailSees DEF VerifyRunning, cluster
  <2>. QED  BY <1>7, <2>1, <2>2, <2>3 DEF VerifyRunning
<1>8. CASE Reconcile(w) \/ CasSuspended(w) \/ CasFailed(w) \/ TakeStarting(w) \/ TakeSuspending(w)
  BY <1>8, <1>1, CasSees
     DEF Reconcile, CasSuspended, CasFailed, TakeStarting, TakeSuspending
<1>9. CASE ClearPod(w) \/ ClearConfigMap(w) \/ FailStopPod(w) \/ FailStopConfigMap(w)
  BY <1>9, <1>1, <1>3, StopSees DEF ClearPod, ClearConfigMap, FailStopPod, FailStopConfigMap
<1>10. CASE BuildSpec(w)
  BY <1>10, <1>1, StepSees DEF BuildSpec, cluster
<1>11. CASE StartConfigMap(w)
  BY <1>11, <1>1, StepSees DEF StartConfigMap
<1>12. CASE GetConfigMap(w)
  BY <1>12, <1>1, StepSees DEF GetConfigMap
<1>13. CASE UpdateConfigMap(w)
  BY <1>13, <1>1, StepSees DEF UpdateConfigMap
<1>14. CASE StartPod(w)
  BY <1>14, <1>1, <1>3, StepSees, IPKept DEF StartPod, After, TypeOK
<1>15. CASE Poll(w)
  <2>1. pod.ip \in IPs
    BY <1>15, <1>3 DEF Poll, TypeOK, Pods, MaybeIP
  <2>2. pod.ip \in seen[w]
    BY <2>1, <1>15, <1>1 DEF Poll, FreshInv, Sees
  <2>3. Sees(w)'
    BY <1>15, <2>2, <1>1, <1>3 DEF TypeOK, PcOK, Sees, Poll, Goto, cluster
  <2>4. ASSUME NEW v \in Wakers, v # w PROVE Sees(v)'
    BY <1>15, <2>4, <1>2, <1>3 DEF Poll, cluster, TypeOK
  <2>. QED  BY <2>3, <2>4
<1>16. CASE Probe(w)
  <2>1. CASE Step(w, "set_running")
    <3>1. Sees(w)'
      BY <1>16, <2>1, <1>1, <1>3 DEF FreshInv, TypeOK, PcOK, Sees, Probe, Step, Goto, cluster
    <3>2. ASSUME NEW v \in Wakers, v # w PROVE Sees(v)'
      BY <1>16, <2>1, <3>2, <1>2 DEF Probe, Step, cluster
    <3>. QED  BY <3>1, <3>2
  <2>2. CASE Step(w, "fail_pod") \/ Step(w, "poll")
    BY <1>16, <2>2, <1>1, StepSees DEF Probe, cluster
  <2>. QED  BY <1>16, <2>1, <2>2 DEF Probe
<1>17. CASE ReadyTimeout(w)
  BY <1>17, <1>1, StepSees DEF ReadyTimeout, cluster
<1>18. CASE SetRunning(w)
  <2>1. CASE Reply(w, loc[w])
    <3>1. Sees(w)'
      BY <1>18, <2>1, <1>1, <1>3 DEF FreshInv, TypeOK, PcOK, Sees, SetRunning, Reply, Goto, cluster
    <3>2. ASSUME NEW v \in Wakers, v # w PROVE Sees(v)'
      BY <1>18, <2>1, <3>2, <1>2, <1>3 DEF SetRunning, Reply, cluster, TypeOK
    <3>. QED  BY <3>1, <3>2
  <2>2. CASE Step(w, "fail_pod")
    BY <1>18, <2>2, <1>1, StepSees DEF SetRunning, cluster
  <2>. QED  BY <1>18, <2>1, <2>2 DEF SetRunning
<1>19. CASE MarkFailed(w)
  BY <1>19, FailSees DEF MarkFailed, cluster
<1>. QED
  BY <1>5, <1>6, <1>7, <1>8, <1>9, <1>10, <1>11, <1>12, <1>13, <1>14, <1>15,
     <1>16, <1>17, <1>18, <1>19 DEF WakeStep

\* So do the client's own steps; a call starts with the IP of that moment.
LEMMA WakerSees ==
  ASSUME FreshInv, NEW w \in Wakers, WakerNext(w)
  PROVE  \A v \in Wakers : Sees(v)'
<1>1. CASE Call(w)
  <2>1. Sees(w)'
    BY <1>1 DEF FreshInv, TypeOK, PcOK, Sees, Call, Goto, Actors, cluster, CallingPc, WakeOwnerPc
  <2>2. ASSUME NEW v \in Wakers, v # w PROVE Sees(v)'
    BY <1>1, <2>2, OtherSees DEF FreshInv, TypeOK, PcOK, Call, Goto, Actors, cluster
  <2>. QED  BY <2>1, <2>2
<1>2. CASE WakeStep(w)
  BY <1>2, WakeStepSees
<1>3. CASE Cancel(w)
  BY <1>3, FailSees DEF Cancel
<1>4. CASE Connect(w)
  <2>1. pod'.ip = pod.ip
    BY <1>4 DEF Connect, Activity, FreshInv, TypeOK, Pods
  <2>. QED  BY <1>4, <2>1, OtherSees DEF Connect
<1>5. CASE Hangup(w)
  BY <1>5, FailSees DEF Hangup, cluster
<1>. QED  BY <1>1, <1>2, <1>3, <1>4, <1>5 DEF WakerNext

\* The sweep never changes the IP of a pod.
LEMMA SweepSees ==
  ASSUME FreshInv, SweepStep
  PROVE  \A v \in Wakers : Sees(v)'
<1>1. /\ "sweeper" \notin Wakers /\ "sweeper" \in Actors
      /\ \A v \in Wakers : v # "sweeper" /\ v \in Actors
  BY WakersAssumption DEF Actors
<1>2. CASE SweepStopPod \/ SweepStopConfigMap
  BY <1>1, <1>2, StopSees DEF SweepStopPod, SweepStopConfigMap
<1>3. CASE Terminate
  <2>1. pod'.ip = pod.ip
    BY <1>3 DEF Terminate, FreshInv, TypeOK, Pods
  <2>2. \A v \in Wakers : pc'[v] = pc[v] /\ UNCHANGED <<loc, seen>>
    BY <1>1, <1>3 DEF Terminate, SweepGoes, Goto, FreshInv, TypeOK, PcOK
  <2>. QED  BY <2>1, <2>2, OtherSees
<1>4. CASE ListRunning \/ CheckPod \/ SweepReconcile \/ FetchLastActive \/ CasSuspending
           \/ SweepSetSuspended
  <2>1. UNCHANGED <<pod, seen>> /\ (SweepEnds \/ \E l : SweepGoes(l) \/ ListRunning)
    BY <1>4 DEF ListRunning, CheckPod, SweepReconcile, FetchLastActive, CasSuspending,
                SweepSetSuspended, cluster
  <2>2. \A v \in Wakers : pc'[v] = pc[v] /\ loc'[v] = loc[v]
    BY <1>1, <2>1 DEF SweepEnds, SweepGoes, ListRunning, Goto, FreshInv, TypeOK, PcOK
  <2>. QED  BY <2>1, <2>2, OtherSees
<1>. QED  BY <1>2, <1>3, <1>4 DEF SweepStep

\* Neither do debugStop and the deletes.
LEMMA RequestSees ==
  ASSUME FreshInv, RequestNext
  PROVE  \A v \in Wakers : Sees(v)'
<1>1. /\ {"debug", "deleter"} \cap Wakers = {} /\ {"debug", "deleter"} \subseteq Actors
      /\ \A v \in Wakers : v \notin {"debug", "deleter"} /\ v \in Actors
  BY WakersAssumption DEF Actors
<1>2. CASE DebugStopPod \/ DebugStopConfigMap \/ DeleteStopPod \/ DeleteStopConfigMap
  BY <1>1, <1>2, StopSees
     DEF DebugStopPod, DebugStopConfigMap, DeleteStopPod, DeleteStopConfigMap
<1>3. CASE DebugStop \/ DebugSetSuspended \/ CancelRequest("debug") \/ DeleteRequest
           \/ DeleteStorage \/ DeleteRow \/ CancelRequest("deleter")
  <2>1. UNCHANGED <<pod, loc, seen>> /\ \E a \in {"debug", "deleter"} : \E l : Goto(a, l)
    BY <1>3 DEF DebugStop, DebugSetSuspended, CancelRequest, DeleteRequest,
                DeleteStorage, DeleteRow, cluster
  <2>2. \A v \in Wakers : pc'[v] = pc[v]
    BY <1>1, <2>1 DEF Goto, FreshInv, TypeOK, PcOK
  <2>. QED  BY <2>1, <2>2, OtherSees
<1>. QED  BY <1>2, <1>3 DEF RequestNext, DebugStep, DeleteStep

\* The cluster gives a pod its IP once; every call in progress sees it.
LEMMA ClusterSees ==
  ASSUME FreshInv, ClusterNext
  PROVE  \A v \in Wakers : Sees(v)'
<1>1. ASSUME NEW ip \in IPs, Boots(ip), NEW v \in Wakers PROVE Sees(v)'
  <2>1. pod'.ip = ip /\ UNCHANGED <<pc, loc>>
    BY <1>1 DEF Boots, PodBoots, FreshInv, TypeOK, Pods, procs
  <2>2. seen'[v] = IF pc[v] \in CallingPc THEN seen[v] \cup {ip} ELSE seen[v]
    BY <1>1 DEF Boots
  <2>. QED  BY <2>1, <2>2 DEF FreshInv, Sees
<1>2. CASE BecomesReady \/ ComputeFails \/ ContainerExits \/ NodeLost \/ Removed
  <2>1. pod'.ip \in {pod.ip, NULL} /\ UNCHANGED <<pc, loc, seen>>
    BY <1>2 DEF BecomesReady, ComputeFails, ContainerExits, NodeLost, Removed, CtlReady,
                CtlFails, PodDies, PodVanishes, PodGone, NoPod, FreshInv, TypeOK, Pods, procs
  <2>. QED  BY <2>1, OtherSees
<1>. QED  BY <1>1, <1>2 DEF ClusterNext

\* Time changes no IP, and a restart ends every call.
LEMMA TimeSees ==
  ASSUME FreshInv, AbandonedAges \/ WaitedAges \/ OwnedAges \/ StartAges \/ Idles \/ Crash
  PROVE  \A v \in Wakers : Sees(v)'
<1>1. CASE AbandonedAges \/ WaitedAges \/ OwnedAges \/ StartAges
  BY <1>1, OtherSees DEF AbandonedAges, WaitedAges, OwnedAges, StartAges, procs, cluster
<1>2. CASE Idles
  <2>1. pod'.ip = pod.ip
    BY <1>2 DEF Idles, ActivityAges, FreshInv, TypeOK, Pods
  <2>. QED  BY <1>2, <2>1, OtherSees DEF Idles
<1>3. CASE Crash
  BY <1>3 DEF Crash, Sees, Actors, CallingPc, WakeOwnerPc
<1>. QED  BY <1>1, <1>2, <1>3

\* For any number of wakers, addresses and faults, Wake only returns an
\* address that the pod had during the call (FreshAddress).
THEOREM AddressesAreFresh == Spec => []FreshAddress
<1>1. Init => FreshInv
  <2>1. Init => \A w \in Wakers : Sees(w)
    BY DEF Init, ProcessInit, Sees, Actors, CallingPc, WakeOwnerPc
  <2>. QED  BY <2>1, InitType DEF FreshInv
<1>2. FreshInv /\ [Next]_vars => FreshInv'
  <2>. SUFFICES ASSUME FreshInv, [Next]_vars PROVE FreshInv'
    OBVIOUS
  <2>1. CASE Next
    <3>1. TypeOK'
      BY <2>1, WakerType, SweepType, RequestType, ClusterType, TimeType DEF Next, FreshInv
    <3>2. \A w \in Wakers : Sees(w)'
      BY <2>1, WakerSees, SweepSees, RequestSees, ClusterSees, TimeSees DEF Next
    <3>. QED  BY <3>1, <3>2 DEF FreshInv
  <2>2. CASE UNCHANGED vars
    BY <2>2 DEF vars, FreshInv, TypeOK, Sees
  <2>. QED  BY <2>1, <2>2
<1>3. FreshInv => FreshAddress
  BY DEF FreshInv, Sees, FreshAddress
<1>. QED  BY <1>1, <1>2, <1>3, PTL DEF Spec
=============================================================================
