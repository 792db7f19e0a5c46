-------------------------------- MODULE Waker --------------------------------
(***************************************************************************)
(* internal/wake: Wake, startCompute and waitReady, called by the proxy's  *)
(* wake_compute (internal/proxycontract) and by debug start (internal/api).*)
(* Both callers answer with the address or with an error; a failed call    *)
(* returns to "idle", a successful one waits in "replied" with loc set.    *)
(***************************************************************************)
EXTENDS Processes

Step(w, l) == Goto(w, l) /\ UNCHANGED <<loc, seen>>

Reply(w, ip) ==
  /\ Goto(w, "replied")
  /\ loc' = [loc EXCEPT ![w] = ip]
  /\ UNCHANGED seen

Fail(w) ==
  /\ Goto(w, "idle")
  /\ loc' = [loc EXCEPT ![w] = NULL]
  /\ seen' = [seen EXCEPT ![w] = {}]

\* A request comes in, and its endpoint was found (GetAccessControl): an error
\* or a missing row there ends it before it gets here, with nothing changed.
Call(w) ==
  /\ pc[w] = "idle"
  /\ Goto(w, "lock")
  /\ seen' = [seen EXCEPT ![w] = {pod.ip} \cap IPs]
  /\ UNCHANGED <<row, cluster, loc, faults>>

-----------------------------------------------------------------------------
(***************************************************************************)
(* The decision, taken under SELECT ... FOR UPDATE.  The lock is released  *)
(* when the closure returns: what follows acts on what was read.           *)
(***************************************************************************)

\* Mutant: a suspending endpoint is taken over without waiting.
DecisionImpatient ==
  CASE row.state = "running"                      -> "verify"
    [] row.state = "suspending"                   -> "take_starting"
    [] row.state = "starting" /\ row.stale        -> "take_starting"
    [] row.state = "starting" /\ ~row.stale       -> "lock"
    [] row.state \in {"suspended", "failed"}      -> "cas_suspended"

\* Mutant: no takeover at all.
DecisionPatient ==
  CASE row.state = "running"                      -> "verify"
    [] row.state \in {"starting", "suspending"}   -> "lock"
    [] row.state \in {"suspended", "failed"}      -> "cas_suspended"

Decision ==
  CASE row.state = "running"                                  -> "verify"
    [] row.state \in {"starting", "suspending"} /\ row.stale  -> "take_starting"
    [] row.state \in {"starting", "suspending"} /\ ~row.stale -> "lock"
    [] row.state \in {"suspended", "failed"}                  -> "cas_suspended"

ReadRow(w) ==
  /\ pc[w] = "lock"
  /\ row.exists
  /\ Goto(w, Decision)
  /\ loc' = [loc EXCEPT ![w] = IF row.state = "running" THEN row.addr ELSE NULL]
  /\ UNCHANGED <<row, cluster, seen, faults>>

\* Mutant: a missing row is read again and again.
ReadRetriesMissing(w) ==
  /\ pc[w] = "lock"
  /\ \/ ~row.exists /\ UNCHANGED <<pc, loc, seen, faults>>
     \/ (Charge("call") \/ Charge("wake")) /\ Fail(w)
  /\ UNCHANGED <<row, cluster>>

\* ErrNotFound, a database error, or the deadline of the loop.
ReadFails(w) ==
  /\ pc[w] = "lock"
  /\ \/ ~row.exists /\ UNCHANGED faults
     \/ Charge("call")
     \/ Charge("wake")
  /\ Fail(w)
  /\ UNCHANGED <<row, cluster>>

-----------------------------------------------------------------------------
(***************************************************************************)
(* verify-running: trust the stored address only if the pod is Running     *)
(* with that very IP, otherwise put the row back to suspended.             *)
(***************************************************************************)

\* Mutant: the stored address is trusted.
AddressTrusted(w) == loc[w] # NULL

AddressMatches(w) == PodRunning /\ loc[w] # NULL /\ loc[w] = pod.ip

VerifyRunning(w) ==
  /\ pc[w] = "verify"
  /\ \/ /\ AddressMatches(w)
        /\ Reply(w, loc[w])
        /\ UNCHANGED faults
     \/ /\ ~AddressMatches(w)
        /\ Step(w, "reconcile")
        /\ UNCHANGED faults
     \/ /\ Charge("call")
        /\ Fail(w)
  /\ UNCHANGED <<row, cluster>>

\* A CAS of the wake path: won and lost are where its boolean answer leads.
Cas(w, here, from, to, won, lost) ==
  /\ pc[w] = here
  /\ \E o \in Outcomes :
       /\ Cost(o)
       /\ row' = After(o, TransitionEndpoint(from, to), row)
       /\ IF o = "ok"
          THEN Step(w, IF InState(from) THEN won ELSE lost)
          ELSE Fail(w)
  /\ UNCHANGED cluster

\* The CAS of the reconciliation ignores its answer; compute_addr stays.
Reconcile(w) == Cas(w, "reconcile", "running", "suspended", "lock", "lock")

\* start: try both source states in turn; the winner owns `starting`.
CasSuspended(w) ==
  Cas(w, "cas_suspended", "suspended", "starting", "spec", "cas_failed")

\* Mutant: the second attempt repeats the first source state.
CasSuspendedAgain(w) ==
  Cas(w, "cas_failed", "suspended", "starting", "spec", "lock")

CasFailed(w) == Cas(w, "cas_failed", "failed", "starting", "spec", "lock")

\* takeover: the CAS compares the state only, never the age that was read.
TakeStarting(w) ==
  Cas(w, "take_starting", "starting", "starting", "clear_pod", "take_suspending")
TakeSuspending(w) ==
  Cas(w, "take_suspending", "suspending", "starting", "clear_pod", "lock")

\* The takeover's Stop, whose error is ignored.
ClearPod(w)       == StopPod(w, "clear_pod", "clear_cm", "spec")
ClearConfigMap(w) == StopConfigMap(w, "clear_cm", "spec", "spec")

-----------------------------------------------------------------------------
(***************************************************************************)
(* startCompute: build the spec, Start, wait until ready, set running.     *)
(* Every error leads to "fail_pod".                                        *)
(***************************************************************************)

\* The spec builder joins endpoint, branch and project: no row, no spec.
BuildSpec(w) ==
  /\ pc[w] = "spec"
  /\ \/ /\ Step(w, IF row.exists THEN "start_cm" ELSE "fail_pod")
        /\ UNCHANGED faults
     \/ Charge("call") /\ Step(w, "fail_pod")
  /\ UNCHANGED <<row, cluster>>

StartConfigMap(w) ==
  /\ pc[w] = "start_cm"
  /\ \E o \in Outcomes :
       /\ Cost(o)
       /\ cm' = After(o, CreatedConfigMap, cm)
       /\ Step(w, IF o # "ok" THEN "fail_pod"
                  ELSE IF cm.exists THEN "get_cm" ELSE "start_pod")
  /\ UNCHANGED <<row, pod>>

GetConfigMap(w) ==
  /\ pc[w] = "get_cm"
  /\ \/ /\ cm' = ReadConfigMap(w)
        /\ Step(w, IF cm.exists THEN "update_cm" ELSE "fail_pod")
        /\ UNCHANGED faults
     \/ /\ Charge("call")
        /\ Step(w, "fail_pod")
        /\ UNCHANGED cm
  /\ UNCHANGED <<row, pod>>

UpdateConfigMap(w) ==
  /\ pc[w] = "update_cm"
  /\ \E o \in Outcomes :
       /\ Cost(o)
       /\ cm' = After(o, UpdatedConfigMap(w), [cm EXCEPT !.readers = @ \ {w}])
       /\ Step(w, IF o = "ok" /\ w \in cm.readers THEN "start_pod" ELSE "fail_pod")
  /\ UNCHANGED <<row, pod>>

StartPod(w) ==
  /\ pc[w] = "start_pod"
  /\ \E o \in Outcomes :
       /\ Cost(o)
       /\ pod' = After(o, CreatedPod, pod)
       /\ Step(w, IF o = "ok" THEN "poll" ELSE "fail_pod")
  /\ UNCHANGED <<row, cm>>

\* waitReady: Status, until the pod has an IP (an error is just retried) ...
Poll(w) ==
  /\ pc[w] = "poll"
  /\ pod.ip # NULL
  /\ Goto(w, "probe")
  /\ loc' = [loc EXCEPT ![w] = pod.ip]
  /\ UNCHANGED <<row, cluster, seen, faults>>

\* Mutant: any answer but `failed` counts as ready.
ProbeAnyAnswer(w) ==
  /\ pc[w] = "probe"
  /\ Step(w, CASE Answers(loc[w]) /\ pod.st # "broken" -> "set_running"
               [] Answers(loc[w]) /\ pod.st = "broken" -> "fail_pod"
               [] OTHER                                -> "poll")
  /\ UNCHANGED <<row, cluster, faults>>

\* ... then GET /status at that IP.
Probe(w) ==
  /\ pc[w] = "probe"
  /\ \/ /\ Step(w, CASE Answers(loc[w]) /\ pod.st = "ready"  -> "set_running"
                     [] Answers(loc[w]) /\ pod.st = "broken" -> "fail_pod"
                     [] OTHER                                -> "poll")
        /\ UNCHANGED faults
     \/ Charge("call") /\ Step(w, "poll")
  /\ UNCHANGED <<row, cluster>>

\* A doomed pod always times out, any other one only by a fault.  The row may
\* be stale by then or not: readyTimeout() is a setting of the Waker.
ReadyTimeout(w) ==
  /\ pc[w] = "poll"
  /\ \/ Doomed /\ UNCHANGED faults
     \/ Charge("ready")
  /\ Step(w, "fail_pod")
  /\ UNCHANGED <<row, cluster>>

SetRunning(w) ==
  /\ pc[w] = "set_running"
  /\ \E o \in Outcomes :
       /\ Cost(o)
       /\ row' = After(o, SetEndpointRunning(loc[w]), row)
       /\ IF o = "ok" THEN Reply(w, loc[w]) ELSE Step(w, "fail_pod")
  /\ UNCHANGED cluster

\* fail(): Stop, whose error is ignored, then starting -> failed.

\* Mutant: a failed start leaves its pod behind.
FailKeepsPod(w) ==
  /\ pc[w] = "fail_pod"
  /\ Step(w, "fail_cm")
  /\ UNCHANGED <<row, cluster, faults>>

FailStopPod(w)       == StopPod(w, "fail_pod", "fail_cm", "fail_cas")
FailStopConfigMap(w) == StopConfigMap(w, "fail_cm", "fail_cas", "fail_cas")

MarkFailed(w) ==
  /\ pc[w] = "fail_cas"
  /\ \E o \in Outcomes :
       /\ Cost(o)
       /\ row' = After(o, TransitionEndpoint("starting", "failed"), row)
  /\ Fail(w)
  /\ UNCHANGED cluster

-----------------------------------------------------------------------------
(***************************************************************************)
(* The client.  When its request is cancelled every later call under that  *)
(* context fails at once, those of fail() included, so the call ends here. *)
(***************************************************************************)
Cancel(w) ==
  /\ pc[w] \in CallingPc
  /\ Charge("cancel")
  /\ Fail(w)
  /\ cm' = [cm EXCEPT !.readers = @ \ {w}]
  /\ UNCHANGED <<row, pod>>

\* The proxy connects the client to the compute, which sees activity.
Connect(w) ==
  /\ pc[w] = "replied"
  /\ Activity(loc[w])
  /\ UNCHANGED <<row, cm, pc, loc, seen, faults>>

Hangup(w) ==
  /\ pc[w] = "replied"
  /\ Fail(w)
  /\ UNCHANGED <<row, cluster, faults>>

WakeStep(w) ==
  \/ ReadRow(w) \/ ReadFails(w) \/ VerifyRunning(w) \/ Reconcile(w)
  \/ CasSuspended(w) \/ CasFailed(w) \/ TakeStarting(w) \/ TakeSuspending(w)
  \/ ClearPod(w) \/ ClearConfigMap(w)
  \/ BuildSpec(w) \/ StartConfigMap(w) \/ GetConfigMap(w) \/ UpdateConfigMap(w)
  \/ StartPod(w) \/ Poll(w) \/ Probe(w) \/ ReadyTimeout(w) \/ SetRunning(w)
  \/ FailStopPod(w) \/ FailStopConfigMap(w) \/ MarkFailed(w)
=============================================================================
