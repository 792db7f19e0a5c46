-------------------------------- MODULE Fleet --------------------------------
(***************************************************************************)
(* Several endpoints, one sweep.  Sweep lists copies of all running rows   *)
(* and then works through them one by one, in an order the query does not  *)
(* fix, while their computes come, go, and pass their IPs on to others.    *)
(*                                                                         *)
(* Any number of Wake calls are under way, several of them for the same    *)
(* endpoint if they like.  Sweep and Wake are modelled call by call, as in *)
(* Lifecycle; Stop is one step, Start and the spec builder are one, and    *)
(* ConfigMaps and computes that report a failure are left out.             *)
(***************************************************************************)
EXTENDS Addresses, Startup

CONSTANTS
  Endpoints,
  Wakers,           \* concurrent Wake calls
  ReadyBelowStale,  \* readyTimeout() is set below staleAfter; by default they are equal
  Nothing           \* no endpoint, no copy

Copies == [ep : Endpoints, addr : MaybeIP, past : BOOLEAN]

ASSUME NothingAssumption == Nothing \notin Endpoints \cup Copies
ASSUME ReadyAssumption == ReadyBelowStale \in BOOLEAN

VARIABLES
  rows,     \* rows[e]: the endpoint row, as in EndpointStore
  pods,     \* pods[e]: the pod of e, as in K8sRuntime
  wake,     \* wake[w]: next call, endpoint and address of a Wake call
  sweep     \* the sweep: next call, copies to visit, copy being worked on

Row(e) == INSTANCE EndpointStore WITH row <- rows[e]
Pod(e) == INSTANCE K8sRuntime
            WITH pod <- pods[e], cm <- [exists |-> TRUE, readers |-> {}]

vars == <<rows, pods, wake, sweep, phase, tries, db, faults>>
startup == <<phase, tries, db>>

Resting == [pc |-> "idle", todo |-> {}, cur |-> Nothing]
NoCall  == [pc |-> "idle", ep |-> Nothing, addr |-> NULL]

NewRow == [exists |-> TRUE, state |-> "suspended", addr |-> NULL,
           stale |-> FALSE, grace |-> FALSE]
NoPod  == [st |-> "none", ip |-> NULL, term |-> FALSE, act |-> "none"]

Init ==
  /\ rows = [e \in Endpoints |-> NewRow]
  /\ pods = [e \in Endpoints |-> NoPod]
  /\ wake = [w \in Wakers |-> NoCall]
  /\ sweep = Resting
  /\ faults = 0
  /\ StartupInit

\* The sweep is at one of these calls for e.
WorksOn(e, S) == sweep.pc \in S /\ sweep.cur.ep = e

\* Only of a running row is compute_addr ever read, and last_started_at too, or
\* else from a copy that the sweep has yet to look at.
Unread(e) ==
  \/ sweep.pc # "hung" /\ \E c \in sweep.todo : c.ep = e
  \/ WorksOn(e, {"fetch"})

SetRow(e, r) ==
  rows' = [rows EXCEPT ![e] =
             IF r.state = "running" THEN r
             ELSE [r EXCEPT !.addr = NULL, !.grace = r.grace /\ Unread(e)]]
SetPod(e, p) == pods' = [pods EXCEPT ![e] = p]

-----------------------------------------------------------------------------
(***************************************************************************)
(* Sweep                                                                   *)
(***************************************************************************)
Onward(todo) ==
  sweep' = IF todo = {} THEN Resting
           ELSE [pc |-> "visit", todo |-> todo, cur |-> Nothing]

\* Mutant: the first error ends the pass.
Abort(todo) == sweep' = Resting

\* An error of one endpoint is logged; the pass goes on with the others.
Skip(todo) == Onward(todo)

Goes(l) == sweep' = [sweep EXCEPT !.pc = l]

\* The ticker; a tick during a pass is dropped.
ListEndpointsByState ==
  /\ Serving /\ sweep.pc = "idle"
  /\ \E o \in {"ok", "call"} :
       /\ Statement(o)
       /\ IF o = "ok"
          THEN Onward({[ep |-> e, addr |-> rows[e].addr, past |-> FALSE] :
                         e \in {f \in Endpoints : Row(f)!InState("running")}})
          ELSE UNCHANGED sweep
  /\ UNCHANGED <<rows, pods, wake, startup>>

Status(c) ==
  LET rest == sweep.todo \ {c} IN
  /\ sweep.pc = "visit"
  /\ \/ /\ ~Pod(c.ep)!PodExists
        /\ sweep' = [pc |-> "reconcile", todo |-> rest, cur |-> c]
        /\ UNCHANGED faults
     \/ /\ Pod(c.ep)!PodExists
        /\ IF c.addr = NULL THEN Skip(rest)
           ELSE sweep' = [pc |-> "fetch", todo |-> rest, cur |-> c]
        /\ UNCHANGED faults
     \/ Charge("call") /\ Skip(rest)
  /\ UNCHANGED <<rows, pods, wake, startup>>

\* The statement that ends the work on an endpoint.
SetSuspended(here) ==
  /\ sweep.pc = here
  /\ \E o \in Outcomes :
       /\ Statement(o)
       /\ SetRow(sweep.cur.ep, After(o, Row(sweep.cur.ep)!SetEndpointSuspended,
                                     rows[sweep.cur.ep]))
       /\ IF o = "ok" THEN Onward(sweep.todo) ELSE Skip(sweep.todo)
  /\ UNCHANGED <<pods, wake, startup>>

ReconcileGone == SetSuspended("reconcile")
Release       == SetSuspended("release")

\* Whoever has the IP answers; nothing is compared with the pod of cur.ep.
Listening(ip) == {f \in Endpoints : Pod(f)!Answers(ip)}

\* Less than suspend_after_seconds since the start that the copy knows of,
\* which may be over sooner than those since a later start.
Fresh(c) == {rows[c.ep].grace} \cup (IF c.past THEN {FALSE} ELSE {})

\* A client that was given the address of the compute of f is at work.
Busy(f) == \E w \in Wakers : wake[w].pc = "served" /\ Pod(f)!Answers(wake[w].addr)

(***************************************************************************)
(* Whether the activity that f reports is fresh.  It is null if nobody has *)
(* used f, and then the start in the copy counts; it is now while a client *)
(* is at work; and it may be long ago if f has been up that long.          *)
(***************************************************************************)
LastActive(f, c) ==
  Fresh(c) \cup (IF Busy(f) THEN {TRUE} ELSE {})
           \cup (IF pods[f].act = "old" THEN {FALSE} ELSE {})

FetchLastActive ==
  /\ sweep.pc = "fetch"
  /\ LET who == Listening(sweep.cur.addr) IN
     \/ /\ who = {} /\ Skip(sweep.todo)
        /\ UNCHANGED faults
     \/ /\ \E f \in who : \E fresh \in LastActive(f, sweep.cur) :
             IF fresh THEN Onward(sweep.todo) ELSE Goes("cas")
        /\ UNCHANGED faults
     \/ Charge("call") /\ Skip(sweep.todo)
     \/ who # {} /\ Charge("hang") /\ Goes("hung")
  /\ UNCHANGED <<rows, pods, wake, startup>>

\* Mutant: the compute is stopped first, and the row updated at the end.
CasNone ==
  /\ sweep.pc = "cas"
  /\ Goes("terminate")
  /\ UNCHANGED <<rows, pods, wake, startup, faults>>

CasSuspending ==
  /\ sweep.pc = "cas"
  /\ LET e == sweep.cur.ep IN
     \E o \in Outcomes :
       /\ Statement(o)
       /\ SetRow(e, After(o, Row(e)!TransitionEndpoint("running", "suspending"), rows[e]))
       /\ IF o = "ok" /\ Row(e)!InState("running") THEN Goes("terminate")
          ELSE IF o = "ok" THEN Onward(sweep.todo) ELSE Skip(sweep.todo)
  /\ UNCHANGED <<pods, wake, startup>>

\* A failure of terminate is only logged.
Terminate ==
  /\ sweep.pc = "terminate"
  /\ LET who == Listening(sweep.cur.addr) IN
     \/ /\ \E f \in who : SetPod(f, [pods[f] EXCEPT !.st = "dead"])
        /\ Goes("stop")
        /\ UNCHANGED faults
     \/ /\ \/ who = {} /\ Goes("stop") /\ UNCHANGED faults
           \/ Charge("call") /\ Goes("stop")
           \/ who # {} /\ Charge("hang") /\ Goes("hung")
        /\ UNCHANGED pods
  /\ UNCHANGED <<rows, wake, startup>>

Stop ==
  /\ sweep.pc = "stop"
  /\ \E o \in Outcomes :
       /\ Cost(o)
       /\ SetPod(sweep.cur.ep, After(o, Pod(sweep.cur.ep)!DeletedPod, pods[sweep.cur.ep]))
       /\ IF o = "ok" THEN Goes("release") ELSE Skip(sweep.todo)
  /\ UNCHANGED <<rows, wake, startup>>

SweepStep ==
  \/ ListEndpointsByState
  \/ \E c \in sweep.todo : Status(c)
  \/ ReconcileGone \/ FetchLastActive \/ CasSuspending \/ Terminate \/ Stop \/ Release

-----------------------------------------------------------------------------
(***************************************************************************)
(* Wake                                                                    *)
(***************************************************************************)
To(w, l)       == wake' = [wake EXCEPT ![w].pc = l]
Holds(w, l, a) == wake' = [wake EXCEPT ![w] = [pc |-> l, ep |-> @.ep, addr |-> a]]
Quits(w)       == wake' = [wake EXCEPT ![w] = NoCall]

Call(w, e) ==
  /\ Serving /\ wake[w].pc = "idle"
  /\ wake' = [wake EXCEPT ![w] = [pc |-> "read", ep |-> e, addr |-> NULL]]
  /\ UNCHANGED <<rows, pods, sweep, startup, faults>>

\* Mutant: no takeover, a transitional row is left to its owner.
NeverTakes(r) ==
  CASE r.state = "running"                    -> "verify"
    [] r.state \in {"starting", "suspending"} -> "read"
    [] r.state \in {"suspended", "failed"}    -> "claim_suspended"

\* The decision under the row lock, which is released before it is acted on.
Decision(r) ==
  CASE r.state = "running"                                -> "verify"
    [] r.state \in {"starting", "suspending"} /\ r.stale  -> "take_starting"
    [] r.state \in {"starting", "suspending"} /\ ~r.stale -> "read"
    [] r.state \in {"suspended", "failed"}                -> "claim_suspended"

\* An error of the statement, or the deadline of the loop, ends the call.
Read(w) ==
  LET r == rows[wake[w].ep] IN
  /\ wake[w].pc = "read"
  /\ \/ /\ db /\ Holds(w, Decision(r), IF r.state = "running" THEN r.addr ELSE NULL)
        /\ UNCHANGED faults
     \/ (Statement("call") \/ Charge("wake")) /\ Quits(w)
  /\ UNCHANGED <<rows, pods, sweep, startup>>

\* verify-running: the pod has to be Running at the address read before.
Verified(w) ==
  LET e == wake[w].ep IN
  wake[w].addr # NULL /\ pods[e].ip = wake[w].addr /\ Pod(e)!PodRunning

VerifyRunning(w) ==
  /\ wake[w].pc = "verify"
  /\ \/ Verified(w) /\ To(w, "served") /\ UNCHANGED faults
     \/ ~Verified(w) /\ Holds(w, "reconcile", NULL) /\ UNCHANGED faults
     \/ Charge("call") /\ Quits(w)
  /\ UNCHANGED <<rows, pods, sweep, startup>>

\* A CAS of the wake path: won and lost are where its boolean answer leads.
Cas(w, here, from, to, won, lost) ==
  LET e == wake[w].ep IN
  /\ wake[w].pc = here
  /\ \E o \in Outcomes :
       /\ Statement(o)
       /\ SetRow(e, After(o, Row(e)!TransitionEndpoint(from, to), rows[e]))
       /\ IF o = "ok" THEN To(w, IF Row(e)!InState(from) THEN won ELSE lost) ELSE Quits(w)
  /\ UNCHANGED <<pods, sweep, startup>>

Reconcile(w)      == Cas(w, "reconcile", "running", "suspended", "read", "read")
ClaimSuspended(w) == Cas(w, "claim_suspended", "suspended", "starting", "start", "claim_failed")
ClaimFailed(w)    == Cas(w, "claim_failed", "failed", "starting", "start", "read")
TakeStarting(w)   == Cas(w, "take_starting", "starting", "starting", "clear", "take_suspending")
TakeSuspending(w) == Cas(w, "take_suspending", "suspending", "starting", "clear", "read")

\* Stop by a waker, whose error is ignored.
WakeStops(w, here, next) ==
  LET e == wake[w].ep IN
  /\ wake[w].pc = here
  /\ \E o \in {"ok", "call"} :
       /\ Cost(o)
       /\ SetPod(e, After(o, Pod(e)!DeletedPod, pods[e]))
  /\ To(w, next)
  /\ UNCHANGED <<rows, sweep, startup>>

\* The takeover clears what the last owner has left, a failed start itself.
Clear(w) == WakeStops(w, "clear", "start")
Fail(w)  == WakeStops(w, "fail", "mark")

\* Start accepts a pod that is there already, even one that is going away.
\* Without the database there is no specification to start from.
Start(w) ==
  LET e == wake[w].ep IN
  /\ wake[w].pc = "start"
  /\ \/ /\ db
        /\ \E o \in Outcomes :
             /\ Cost(o)
             /\ SetPod(e, After(o, Pod(e)!CreatedPod, pods[e]))
             /\ To(w, IF o = "ok" THEN "poll" ELSE "fail")
     \/ ~db /\ To(w, "fail") /\ UNCHANGED <<pods, faults>>
  /\ UNCHANGED <<rows, sweep, startup>>

\* waitReady: Status, until the pod has an IP ...
Poll(w) ==
  LET ip == pods[wake[w].ep].ip IN
  /\ wake[w].pc = "poll" /\ ip # NULL
  /\ Holds(w, "probe", ip)
  /\ UNCHANGED <<rows, pods, sweep, startup, faults>>

\* Mutant: a pod that has an IP is ready.
ProbeNothing(w) ==
  /\ wake[w].pc = "probe"
  /\ To(w, "set")
  /\ UNCHANGED <<rows, pods, sweep, startup, faults>>

\* ... then GET /status, which is answered by whoever has that IP by now.
Probe(w) ==
  /\ wake[w].pc = "probe"
  /\ \/ Listening(wake[w].addr) # {} /\ To(w, "set") /\ UNCHANGED faults
     \/ Listening(wake[w].addr) = {} /\ Holds(w, "poll", NULL) /\ UNCHANGED faults
     \/ Charge("call") /\ Holds(w, "poll", NULL)
  /\ UNCHANGED <<rows, pods, sweep, startup>>

\* A doomed pod always times out, any other one only by a fault.
ReadyTimeout(w) ==
  /\ wake[w].pc = "poll"
  /\ \/ Pod(wake[w].ep)!Doomed /\ UNCHANGED faults
     \/ Charge("ready")
  /\ To(w, "fail")
  /\ UNCHANGED <<rows, pods, sweep, startup>>

\* The copies of e that the sweep holds are now of an earlier start.
Past(c, e) ==
  IF c # Nothing /\ c.ep = e THEN [ep |-> e, addr |-> c.addr, past |-> TRUE] ELSE c

Outdated(e) ==
  sweep' = [pc |-> sweep.pc, todo |-> {Past(c, e) : c \in sweep.todo},
            cur |-> Past(sweep.cur, e)]

SetRunning(w) ==
  LET e == wake[w].ep IN
  /\ wake[w].pc = "set"
  /\ \E o \in Outcomes :
       /\ Statement(o)
       /\ SetRow(e, After(o, Row(e)!SetEndpointRunning(wake[w].addr), rows[e]))
       /\ IF o = "ok" THEN To(w, "served") ELSE Holds(w, "fail", NULL)
       /\ IF o = "call" THEN UNCHANGED sweep ELSE Outdated(e)
  /\ UNCHANGED <<pods, startup>>

\* The CAS that ends a failed start; its error is only logged.
MarkFailed(w) ==
  LET e == wake[w].ep IN
  /\ wake[w].pc = "mark"
  /\ \E o \in Outcomes :
       /\ Statement(o)
       /\ SetRow(e, After(o, Row(e)!TransitionEndpoint("starting", "failed"), rows[e]))
  /\ Quits(w)
  /\ UNCHANGED <<pods, sweep, startup>>

WakeStep(w) ==
  \/ Read(w) \/ VerifyRunning(w) \/ Reconcile(w)
  \/ ClaimSuspended(w) \/ ClaimFailed(w) \/ TakeStarting(w) \/ TakeSuspending(w)
  \/ Clear(w) \/ Start(w) \/ Poll(w) \/ Probe(w) \/ ReadyTimeout(w) \/ SetRunning(w)
  \/ Fail(w) \/ MarkFailed(w)

\* The client that got the address leaves.
Leave(w) ==
  /\ wake[w].pc = "served"
  /\ Quits(w)
  /\ UNCHANGED <<rows, pods, sweep, startup, faults>>

-----------------------------------------------------------------------------
(***************************************************************************)
(* The cluster and the clock.  The IP of a pod is free as soon as its      *)
(* container has exited, although the pod object still shows it.           *)
(***************************************************************************)
Holders(ip) == {f \in Endpoints : pods[f].ip = ip}
Probed(ip)  == \E w \in Wakers : wake[w].pc = "probe" /\ wake[w].addr = ip

Boots(e, ip) ==
  /\ pods[e].st = "pending" /\ ~pods[e].term
  /\ \A f \in Holders(ip) : pods[f].st = "dead"
  /\ IF Holders(ip) = {} /\ ~Probed(ip) THEN UNCHANGED faults ELSE Charge("reuse")
  /\ SetPod(e, [pods[e] EXCEPT !.st = "ready", !.ip = ip])
  /\ UNCHANGED <<rows, wake, sweep, startup>>

Removed(e) ==
  /\ pods[e].term
  /\ SetPod(e, NoPod)
  /\ UNCHANGED <<rows, wake, sweep, startup, faults>>

ContainerExits(e) ==
  /\ pods[e].st = "ready"
  /\ Charge("pod")
  /\ SetPod(e, [pods[e] EXCEPT !.st = "dead"])
  /\ UNCHANGED <<rows, wake, sweep, startup>>

NodeLost(e) ==
  /\ pods[e].st = "ready" /\ ~pods[e].term
  /\ Charge("pod")
  /\ SetPod(e, NoPod)
  /\ UNCHANGED <<rows, wake, sweep, startup>>

\* The calls of an owner, and of one that waits for its pod.
Waiting  == {"poll", "probe"}
Starting == {"clear", "start", "set", "fail", "mark"} \cup Waiting

\* Somebody is at work on a transitional row, and not just waiting in vain.
Attended(e) ==
  \/ \E w \in Wakers :
       /\ wake[w].ep = e /\ wake[w].pc \in Starting
       /\ ReadyBelowStale \/ ~(wake[w].pc \in Waiting /\ Pod(e)!Doomed)
  \/ WorksOn(e, {"terminate", "stop", "release"})

\* staleAfter passes since the last statement.  An owner is done by then unless
\* it is slow; a sweep that hangs does not touch the row any more.
Ages(e) ==
  /\ rows[e].state \in {"starting", "suspending"} /\ ~rows[e].stale
  /\ IF Attended(e) THEN Charge("slow") ELSE UNCHANGED faults
  /\ SetRow(e, [rows[e] EXCEPT !.stale = TRUE])
  /\ UNCHANGED <<pods, wake, sweep, startup>>

\* suspend_after_seconds, here the same for all, pass since the start.
GraceEnds(e) ==
  /\ rows[e].grace
  /\ SetRow(e, [rows[e] EXCEPT !.grace = FALSE])
  /\ SetPod(e, IF pods[e].st = "ready" THEN [pods[e] EXCEPT !.act = "old"] ELSE pods[e])
  /\ UNCHANGED <<wake, sweep, startup, faults>>

-----------------------------------------------------------------------------
Boot == /\ Migrate \/ Restart
        /\ UNCHANGED <<rows, pods, wake, sweep, db, faults>>

Outage   == DatabaseFails /\ UNCHANGED <<rows, pods, wake, sweep, process>>
Recovery == DatabaseBack /\ UNCHANGED <<rows, pods, wake, sweep, process, faults>>

\* The process ends: requests and sweep are gone.
Crash ==
  /\ Serving
  /\ Charge("crash")
  /\ phase' = "down"
  /\ wake' = [w \in Wakers |-> NoCall]
  /\ sweep' = Resting
  /\ UNCHANGED <<rows, pods, tries, db>>

Next ==
  \/ SweepStep
  \/ \E w \in Wakers : \/ \E e \in Endpoints : Call(w, e)
                       \/ WakeStep(w) \/ Leave(w)
  \/ \E e \in Endpoints :
       \/ \E ip \in IPs : Boots(e, ip)
       \/ Removed(e) \/ ContainerExits(e) \/ NodeLost(e)
       \/ Ages(e) \/ GraceEnds(e)
  \/ Boot \/ Outage \/ Recovery \/ Crash

Spec == Init /\ [][Next]_vars

(***************************************************************************)
(* The ticker ticks, goroutines run, pods boot and go, clocks advance, the *)
(* process is restarted and the database comes back.  Nothing has to fail, *)
(* and nobody has to call or leave.                                        *)
(***************************************************************************)
Works(A) == A /\ UNCHANGED faults

Fairness ==
  /\ WF_vars(Works(SweepStep))
  /\ \A w \in Wakers : WF_vars(Works(WakeStep(w))) /\ SF_vars(Works(ReadyTimeout(w)))
  /\ \A e \in Endpoints :
       /\ WF_vars(Works(\E ip \in IPs : Boots(e, ip)))
       /\ WF_vars(Removed(e))
       /\ WF_vars(Works(Ages(e))) /\ WF_vars(GraceEnds(e))
  /\ WF_vars(Boot) /\ WF_vars(Recovery)

FairSpec == Spec /\ Fairness

-----------------------------------------------------------------------------
Unused(e) == ~Busy(e) /\ \A w \in Wakers : wake[w].ep # e

\* A running row whose pod exists, and does not answer at the address.
Stranded(e) ==
  Row(e)!InState("running") /\ Pod(e)!PodExists /\ ~Pod(e)!Answers(rows[e].addr)

\* An endpoint that nobody uses does not stay running, whatever the computes
\* of the other endpoints do: their errors are logged and the pass goes on
\* (suspend.go, Sweep).  Two things are left out, because the code does not
\* handle them: a running row whose compute is dead while its pod is still
\* there, and a pass that hangs.
IdleIsSwept ==
  \A e \in Endpoints :
    <>[](Unused(e) /\ ~Stranded(e) /\ sweep.pc # "hung")
      => <>[](rows[e].state # "running")

\* A terminate of the sweep, and whose compute it hits.
Kills(f) == sweep.pc = "terminate" /\ sweep'.pc = "stop" /\ pods'[f] # pods[f]

KillsItsOwn == \A f \in Endpoints : Kills(f) => f = sweep.cur.ep

\* Callers are served again and again, whatever call fails and whenever the
\* process or the database goes down; also when the sweep hangs for good in the
\* middle of a suspension, the takeover of the stale row gets the endpoint back
\* (wake.go, Wake).  Left out, because the code does not handle it: a sweep that
\* terminates the computes of endpoints it is not working on again and again.
WakesGoOn ==
  <>[][KillsItsOwn]_vars =>
    \A e \in Endpoints :
      []<>(\E w \in Wakers : wake[w].ep = e /\ wake[w].pc = "read")
        => []<>(\E w \in Wakers : wake[w].ep = e /\ wake[w].pc = "served")

-----------------------------------------------------------------------------
(***************************************************************************)
(* Properties of a steady world: calls succeed, pods stay, owners are done *)
(* within staleAfter.  A Wake call may still give up, and compute_ctl may  *)
(* fail to answer the sweep.                                               *)
(***************************************************************************)
SteadyWorld == Faults \subseteq {"wake", "hang"} /\ ReadyBelowStale

\* The sweep terminates, at an address it has from a copy of the row, the
\* compute of the endpoint it is working on and no other, although wakers may
\* reset, claim and restart the endpoint while the copy is in use, and its CAS
\* compares nothing but the state (suspend.go, sweepOne).
RightCompute == [][KillsItsOwn]_vars

(***************************************************************************)
(* The inductive invariant behind it.                                      *)
(***************************************************************************)
FleetRows == [exists : {TRUE},
              state : {"suspended", "starting", "running", "suspending", "failed"},
              addr : MaybeIP, stale : BOOLEAN, grace : BOOLEAN]

FleetPods == [st : {"none", "pending", "ready", "dead"}, ip : MaybeIP,
              term : BOOLEAN, act : {"none", "old"}]

Deciding == {"read", "verify", "reconcile", "claim_suspended", "claim_failed",
             "take_starting", "take_suspending"}
Calling  == {"served"} \cup Deciding \cup Starting

WakeCalls == [pc : Calling, ep : Endpoints, addr : MaybeIP] \cup {NoCall}

Working == {"reconcile", "fetch", "cas", "terminate", "stop", "release"}

Passes == [pc : {"idle", "visit", "hung"} \cup Working,
           todo : SUBSET Copies, cur : Copies \cup {Nothing}]

TypeOK ==
  /\ rows \in [Endpoints -> FleetRows]
  /\ pods \in [Endpoints -> FleetPods]
  /\ wake \in [Wakers -> WakeCalls]
  /\ sweep \in Passes

\* A pass visits an endpoint once.
VisitsOnce ==
  /\ \A c, d \in sweep.todo : c.ep = d.ep => c = d
  /\ \A c \in sweep.todo : sweep.cur \in Copies => c.ep # sweep.cur.ep
  /\ sweep.pc \in Working => sweep.cur \in Copies

\* Pods have an IP from boot on, and no two share one.
OwnIP ==
  /\ \A e \in Endpoints : pods[e].ip = NULL <=> pods[e].st \in {"none", "pending"}
  /\ \A e, f \in Endpoints : pods[e].ip # NULL /\ pods[e].ip = pods[f].ip => e = f

Starts(w, e) == wake[w].ep = e /\ wake[w].pc \in Starting
SweepOwns(e) == WorksOn(e, {"terminate", "stop", "release"})

\* The row names the owner, is never stale, and a running one is served.
RowHolds(e) ==
  /\ ~rows[e].stale
  /\ rows[e].state = "starting" <=> \E w \in Wakers : Starts(w, e)
  /\ \A v, w \in Wakers : Starts(v, e) /\ Starts(w, e) => v = w
  /\ rows[e].state = "suspending" <=> SweepOwns(e)

ReadyAt(e, ip) == pods[e].st = "ready" /\ ~pods[e].term /\ pods[e].ip = ip

\* Only what has been terminated, or never came up, is deleted.
PodHolds(e) ==
  /\ rows[e].state = "running" => ReadyAt(e, rows[e].addr)
  /\ pods[e].term => pods[e].st = "dead"

\* What a start relies on.
StartHolds(w) ==
  LET e == wake[w].ep IN
  /\ wake[w].pc \notin {"take_starting", "take_suspending", "clear"}
  /\ wake[w].pc = "probe" => wake[w].addr # NULL
  /\ wake[w].pc = "probe" =>
       \A f \in Endpoints : pods[f].ip = wake[w].addr => f = e
  /\ wake[w].pc = "set" => ReadyAt(e, wake[w].addr)
  /\ wake[w].pc = "fail" => pods[e].st \in {"none", "dead"}
  /\ wake[w].pc = "mark" => pods[e].st = "none" \/ pods[e].term

\* Until the sweep has claimed the row it works on, or has passed it by, the
\* compute is up at the address in the copy, whatever the row says by now.
CopiesHold ==
  /\ \A c \in sweep.todo : ReadyAt(c.ep, c.addr)
  /\ sweep.pc \in {"fetch", "cas", "terminate"} => ReadyAt(sweep.cur.ep, sweep.cur.addr)
  /\ sweep.pc # "reconcile"
  /\ sweep.pc = "stop" => pods[sweep.cur.ep].st \in {"none", "dead"}
  /\ sweep.pc = "release" => pods[sweep.cur.ep].st = "none" \/ pods[sweep.cur.ep].term

\* Nothing goes on before the database is there.
ServingHolds ==
  \/ db
  \/ phase # "serving" /\ wake = [w \in Wakers |-> NoCall] /\ sweep = Resting

Agree ==
  /\ ServingHolds /\ OwnIP /\ CopiesHold
  /\ \A e \in Endpoints : RowHolds(e) /\ PodHolds(e)
  /\ \A w \in Wakers : StartHolds(w)

\* Rows, owners, pods and the sweep's copies agree, while any number of wakers
\* act on observations that may be out of date (wake.go and suspend.go: each
\* changes the row before it touches the pod).  A sweep that hangs while it
\* owns a row leaves that row to takeovers, but does nothing more itself.
FleetInv == TypeOK /\ VisitsOnce /\ (sweep.pc # "hung" => Agree)

=============================================================================
