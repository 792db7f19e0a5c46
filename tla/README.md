# firth-pgsql in TLA+

A formal model of the firth-pgsql control plane: the Go program that gives
serverless Postgres endpoints a lifecycle on Kubernetes (wake on connect, scale
to zero) and keeps projects and branches in step with Neon's storage.

- [1. The system](#1-the-system)
- [2. Modules](#2-modules)
- [3. Runs](#3-runs)
- [4. Fairness](#4-fairness)
- [5. Proofs](#5-proofs)
- [6. What the checks found](#6-what-the-checks-found)
- [7. What is not modelled](#7-what-is-not-modelled)
- [8. Plan](#8-plan)

`tlc -config X.cfg M` checks a run, `tlapm M.tla` the proofs of a module.

## 1. The system

The control plane is one process. Each HTTP request runs in a goroutine of its
own, one more goroutine runs the sweep on a ticker. They share no memory that
matters: everything goes through the state database, the Kubernetes API, the
compute inside a pod, the pageserver and the safekeepers. Each of these calls is
atomic, may fail, and may take effect although the caller sees an error.

| Component | Code | State | Operations |
|---|---|---|---|
| endpoint store | `internal/state` | one row per endpoint: state, address, `updated_at`, `last_started_at` | compare-and-swap on the state, two unconditional writes, a locked read, deletion by cascade |
| waker | `internal/wake`, called by `internal/proxycontract` and debug start | locals of a `Wake` call | decide under the row lock; verify a running pod; claim and start; take over a stale row; wait; clean up after a failure |
| suspender | `internal/suspend` | a copy of the running rows per sweep | reconcile a missing pod; ask the compute for its last activity; claim; terminate; stop; release |
| kubernetes runtime | `internal/compute/k8s.go` | pod and ConfigMap of an endpoint | `Start` (create or update the ConfigMap, create the pod), `Stop`, `Status` |
| debug and delete handlers | `internal/api` | locals of a request | stop the compute; write `suspended`, or delete storage and rows |
| provisioning | `internal/api`, `internal/neonclient/pageserver.go` | rows of projects and branches; tenants and timelines on the pageserver | create and delete of projects and branches, with compensations |
| branch point | `internal/api`, `internal/neonclient/safekeeper.go`, `internal/lsn` | locals of a request | highest commit LSN of the safekeepers; wait until the pageserver has it; branch there |
| read-only API | `internal/api`, `specBuilder` in `cmd/controlplane` | locals of a request | list the branches of a project, then look each one up in the database or on the pageserver; three reads for a compute specification |
| startup | `cmd/controlplane` | the retry counter | apply the schema, retry, give up; then serve, and sweep on a ticker |
| access control, authentication, SCRAM, identifiers, compute specification | the other packages | none | section 7 |

Interactions. The proxy calls `wake_compute`, gets an address and connects the
client to it; the compute reports activity, which the sweep reads. Wakers and
sweep claim an endpoint by a CAS on the state of its row; a claim whose owner
has died is taken over once `updated_at` is two minutes old. Debug and delete
handlers do not claim anything: they stop the compute under whoever owns it.
Creates write storage first and rows last; deletes do the same in the same
order, so that a row is the last thing to go.

What is hard here, and what each component has to keep:

- *Claims.* One owner at a time; each owner finds pod and ConfigMap as it left
  them; the row moves along its documented edges only.
- *Values read under a lock and used after it.* Wake answers with an address that
  was read before; the sweep acts on a copy of the row.
- *Crashes, cancelled requests, lost answers, deadlines* in the middle of a
  start or a suspend. The endpoint must come back.
- *Scale to zero.* A compute that nobody uses goes away, also one that never was
  used; no compute is left behind a row that says suspended.
- *Two stores without a transaction.* Storage without a row is never found again;
  a row without storage cannot be served.
- *One sweep for all endpoints.* A compute that is dead, slow or silent must not
  keep the sweep from the others; an address in a copy of a row must not lead
  to the compute of another endpoint, which may have got the IP since.
- *A branch point read from lagging replicas.* A branch must contain what was
  committed before it was asked for, and must exist on the pageserver.

`PROJECT.json` lists these hazards one by one with their lines, and the
properties that cover them.

## 2. Modules

```
Addresses ── EndpointStore ─┐
         └── K8sRuntime ────┤
Calls ──────────────────────┴─ Processes ─┬─ Waker ─────┐
                                          ├─ Suspender ─┼─ Lifecycle ── MCLifecycle
                                          └─ Requests ──┘      │
                              EndpointMachine (abstract) ──────┤
                                              LifecycleProofs ─┴─ OrderlyProofs
Lsn ──┐
Calls ┴─ BranchPoint ─┬─ MCBranchPoint
                      └─ BranchProofs
Calls ── Provisioning ─┬─ MCProvisioning
              │        └─ ProvisioningProofs ── RacesProofs
              └── BranchMachine (abstract)
Calls ── Startup ──┬─ Fleet ─┬─ MCFleet
Addresses ─────────┘    │    └─ FleetProofs
                        └── EndpointStore, K8sRuntime (one instance per endpoint)
```

**Calls** is the vocabulary of failing calls. A call ends with `ok`, `call` (it
failed, without effect) or `lost` (it took effect, the caller sees an error).
Everything that goes wrong is charged against `MaxFaults` and has to be of a
kind in `Faults`, so a run says exactly which faults it allows. A proof makes no
assumption on either, unless it says so.

**EndpointStore** is the row of one endpoint (every statement is keyed by the
endpoint, so rows do not interact). Times are abstracted to the two questions
the code asks: is `updated_at` older than `staleAfter` (`stale`), and is
`last_started_at` younger than the suspend delay (`grace`).

**K8sRuntime** has one operator per API call that `Start`, `Stop` and `Status`
make, and the cluster behind them: a pod boots if its ConfigMap is there, gets
an IP, becomes ready or broken, dies, lingers while it is being deleted. The
ConfigMap remembers which callers hold its current `resourceVersion`.

**Processes** has the program counters. `pc[a]` names the next remote call of
process `a`: between two calls anything else may happen. `loc[a]` is the
address it holds in a local variable.

**Waker**, **Suspender** and **Requests** are the handlers, an action per call,
with their error paths: an error of the reconciling CAS ends the call, an error
of the takeover's `Stop` is ignored, a cancelled request cannot even clean up.
`Requests` treats `deleteBranch` and `deleteProject` alike, since they do the
same to an endpoint. The lookup of the endpoint that `wakeCompute` makes before
it calls `Wake` has no action of its own: it changes nothing and ends the request
the way a failing read does.

**Lifecycle** composes them and adds the cluster, time and restarts. Time does
what it does in the code. A row whose owner is gone ages (`AbandonedAges`). One
whose owner is still working ages only by a fault of kind `slow` (`OwnedAges`),
with an exception (`WaitedAges`): `staleAfter` and the default `readyTimeout` are
both two minutes, and the second begins later, so a start that waits for a pod
that can never become ready outlives its claim without any fault. `main` sets no
`ReadyTimeout`, so this is what is deployed. The constant `ReadyBelowStale` says
that `readyTimeout` is configured below `staleAfter`; then there is no such aging.

**EndpointMachine** is the abstract specification: the state machine that the
package comment of `internal/state` documents. `ImplementsMachine` says that
the row of Lifecycle refines it, with `state <- row.state`.

**Lsn** models a log position as its pair of halves, with the width of a half as
a parameter. `Parse` is the number the code compares, `Precedes` the order it
has to agree with.

**BranchPoint** is one `createBranch` request from the moment it knows the
parent, safekeeper by safekeeper and poll by poll, against commits,
replication and ingestion that go on meanwhile. What the model takes from
outside: a commit LSN reaches the members one by one, and the highest one
covers all acknowledged commits.

**Provisioning** is the four handlers that create and delete, on the rows of one
project and its tenant and timelines, and the three readers that look at both
meanwhile: `getProject`, `usage` and `specBuilder`. `req[r]` has the next call
of request `r` and the local variables that later calls use (the branch, its
parent, the branches of a list still to be looked up). Identifiers are random, so no two
branches share a timeline and projects cannot meet; names are chosen by clients
and can collide. The pageserver (external) deletes timelines asynchronously,
refuses to delete one that has children or to branch from one that is going
away, and answers 404 for what does not exist.

**BranchMachine** is the abstract specification of a branch as one object that is
absent, staged, live or broken, instead of a row here and a timeline there.
`ImplementsBranches` says that every branch of Provisioning refines it, with
`stage` computed from both stores. A branch that was promised and that nobody
asked to delete is live; a row is never left without a timeline except on the
way out. One edge had to be added to the obvious ones (`LateRow`): the tenant
is deleted between the timeline and the row of a create, and the row comes all
the same.

**Startup** is `main`: the migration loop, which retries and then gives up, and
the database that may be away (every statement fails while it is). Kubernetes
starts the process again.

**Fleet** has several endpoints, one sweep and any number of `Wake` calls, several
of them for the same endpoint if they like. EndpointStore and K8sRuntime are
instantiated per endpoint. The sweep goes through its copies of the rows call by
call, in any order; a `Wake` call reads the row, verifies, reconciles, claims and
starts call by call, as in Lifecycle, and acts on observations that may be out of
date. Condensed are only `Stop` (one step) and `Start` with the specification
builder (one step); ConfigMaps and computes that report a failure are left to
Lifecycle. What Lifecycle cannot show is here: whoever has an IP answers at it
(`Listening`), and the IP of a pod whose container has exited can go to a new pod
although the old one still shows it (fault `reuse`). A copy of a row remembers
whether the endpoint has been started again since (`past`): the start time in it
is then an older one. What of a row nobody can read any more is forgotten
(`SetRow`, `Unread`). `SteadyWorld` is the counterpart of `OrderlyWorld`: no call
fails, pods stay, owners are done within `staleAfter`; `Wake` calls may give up
(`wake`) and the compute may leave the sweep without an answer for good (`hang`).

`MCLifecycle` and `MCFleet` define symmetry sets; runs with liveness properties do
not use them.

## 3. Runs

Passing runs:

| Run | Instance | States | Properties |
|---|---|---|---|
| `orderly` | 2 wakers, sweep, 2 IPs, fair; one compute may fail to come up | 138k | `SingleOwner`, `RunningIsServed`, `NoGhost`, `OrderlyInv`, `ImplementsMachine`, `ScaleToZero`, `Responsive` |
| `faults` | 1 waker, sweep, debug stop, 2 IPs; two faults of any kind | 2.0M | `TypeOK`, `FreshAddress` |
| `recovery` | 1 waker, sweep, delete, fair; two faults of any kind | 305k | `Responsive`, `CallsDrain` |
| `branch` | 3 safekeepers, 4 LSNs, fair; two faults of any kind | 77k | `BranchComplete`, `BranchInv`, `BranchIngested`, `BranchHappens` |
| `provision` | 2 requests, 3 branches, 2 names, fair; two faults of any kind | 505k | `CreatedIsKept`, `RacesAgree`, `ProvisioningInv`, `RacesInv`, `RowOutlivesStorage`, `DeleteSucceeds`, `ReadsAnswer`, `ImplementsBranches` |
| `fleet` | 2 endpoints, 2 wakers, 2 IPs, steady world; one call gives up or hangs | 193k | `FleetInv`, `RightCompute` |
| `outages` | 2 endpoints, 1 client that calls for either, 2 IPs, 1 retry, default timeouts, fair; one fault of any kind | 545k | `IdleIsSwept`, `WakesGoOn` |

What they show:

- `SingleOwner`, `RunningIsServed`, `NoGhost` hold in the *orderly world*
  (`OrderlyWorld`): calls succeed, pods stay, a start takes less than
  `staleAfter` (so `readyTimeout` is configured below it), nobody uses the debug
  and delete handlers; computes may still fail (`ctl`). Two wakers are enough for
  an owner and one that read the row before the sweep or the owner changed it;
  the theorems of section 5 cover any number, and calls that run into their deadline while they wait for another's
  start (`wake`). With both kinds of fault, two of them and the same processes,
  TLC confirms all but `NoGhost` (54k states up to symmetry).
- `FreshAddress` holds whatever goes wrong: an address that Wake returns was the
  address of the endpoint's pod at some moment of that call. Two faults are one
  that makes the recorded address wrong and one more while the call deals with
  it. The proof in section 5 covers any number of wakers.
- `ScaleToZero`: when clients stay away for good, the endpoint ends without a
  compute. `Responsive`: while the endpoint exists and calls keep coming, answers
  keep going out, also after crashes. `recovery` has one client: with two, and a
  cancelled request, two takeover owners can go on stopping each other's pods
  for as long as their calls time out in step.
- `CallsDrain`: a call in flight when the row is deleted returns.
- `BranchComplete`, `BranchIngested`: a branch contains everything acknowledged
  before the request, provided all members answered it; and in any case starts
  at an LSN the pageserver has. `BranchHappens`: a client that keeps asking gets
  branches, although commits go on. Four LSNs cross the boundary of the halves,
  three members allow one that is up to date, one that lags and one that has
  nothing.
- `CreatedIsKept`: what a create has answered with 201 keeps its row and its
  timeline until somebody asks for its deletion, whatever fails in other
  requests. `RacesAgree`: races alone (same name, parent or project deleted
  under a create, the same thing deleted twice) leave database and pageserver in
  agreement, the compensations and the order of the deletes see to that.
  `RowOutlivesStorage`: no delete forgets storage, whatever fails.
  `DeleteSucceeds`: a repeated branch delete gets through, except for children.
  `ReadsAnswer`: as long as no call fails, and once the deletes are over, no
  half-finished create or delete is left that would make every later read of the
  project fail. A read that overlaps a delete may answer with an error, and an
  insert whose answer was lost leaves a row that no read gets past.
  `ImplementsBranches`: see BranchMachine.
  Three branches allow a chain main, child, grandchild; two names allow both a
  collision and none.
- `OrderlyInv`, `BranchInv`, `ProvisioningInv`, `RacesInv` and `FleetInv` are the
  inductive invariants of section 5. The runs check them before the proofs do,
  and a mutant of the code breaks each of them.
- `IdleIsSwept`: an endpoint that nobody uses does not stay running because of
  the troubles of another one. It leaves out what the code does not handle: a
  running row whose compute is dead while its pod is still there, and a pass that
  hangs, since the HTTP client of the sweep has no timeout.
- `WakesGoOn`: callers are served again and again, also when the sweep hangs for
  good with a row in `suspending`, when the database goes away, and when the
  process dies or gives up its migration. The precondition excludes a sweep that
  terminates computes of endpoints it is not working on for ever (section 6).
  `outages` has one client: after one slow start two takeover owners of the same
  endpoint can go on stopping each other's pods, as in Lifecycle.
- `RightCompute`: in the steady world the sweep terminates the compute of the
  endpoint it is working on and no other, although a second waker may reset,
  claim and restart that endpoint meanwhile. Two wakers are one that acts on an
  old observation and one that makes it old; with two endpoints and two IPs an
  IP that is given up is soon the IP of the other. Outside the steady world it
  does not hold: see `foreign_kill` in section 6.

Deadlock is checked, except in the provisioning run: identifiers are handed
out once, and with all of them used there is nothing left to ask for.

For each of these properties `PROJECT.json` names a mutant: a definition of the
model, changed as a plausible mistake in the code would change it, with which
the property fails.

The violation runs are in section 6.

## 4. Fairness

Lifecycle assumes weak fairness of what runs on its own: the next call of each
goroutine, the ticker of the sweep, the cluster (a pod boots, becomes ready, a
deleted pod goes), and the clocks (`Idles`, `StartAges`, `AbandonedAges`). The
one strong fairness is `ReadyTimeout` of a pod that can never become ready:
waitReady polls in a loop, the deadline is enabled only at the top of it, and
real time passes while it loops. Fairness never forces a fault (`Works`
excludes steps that charge one), and clients never have to call, connect or
hang up.

BranchPoint assumes that the handler runs and the pageserver ingests;
Provisioning that handlers run and accepted deletes finish; Fleet what Lifecycle
does (with the same strong fairness of `ReadyTimeout`), and that the process is
restarted and the database comes back. A call that hangs stays hung.

## 5. Proofs

All theorems are for any number of wakers, addresses, endpoints, requests,
branches, names, safekeepers and faults, and any width of an LSN half. Two modules
restrict the kinds of fault.

**LifecycleProofs**, without assumptions on faults or handlers:

- `TypeCorrect`: `Spec => []TypeOK`. One lemma per group of actions, and lemmas
  for the shared ones (`Cas`, `StopPod`, `StopConfigMap`) and for the operators of
  the store and the runtime.
- `AddressesAreFresh`: `Spec => []FreshAddress`. What has to be added to make it
  inductive: while a call is running, the pod's address is in the call's
  history, and an address that waitReady holds is in the history as well. The
  address of verify-running need not be: it is compared before it is returned.

**OrderlyProofs**, each under `OrderlyWorld`: of the faults only `ctl` (a compute
does not come up) and `wake` (a call that waits gives up), `readyTimeout` below
`staleAfter`, no debug and delete handlers. This is as far as it goes: each other
kind in Lifecycle breaks `SingleOwner`, `RunningIsServed` and `NoGhost`, alone and
happening once, with two wakers; and with the default timeouts `two_owners` shows a
takeover from an owner that is alive.

- `OrderlyAlways`: `Spec => []OrderlyInv`. None of the safety properties is
  inductive by itself. `OrderlyInv` says who owns the endpoint in which state of
  the row (`OwnershipMatches`), that no row ever becomes stale (`NoTakeover`),
  what each owner can rely on at each call (`StartOnTrack`, `SweepOnTrack`), and
  that a live pod behind a suspended row is about to be claimed
  (`GhostIsClaimed`, needed because verify-running resets the row before the
  start).
- `OneOwner`, `RunningServed`, `NoGhostComputes` follow from it. The last one also
  assumes that there is no `wake`: a waker that gives up just after it has reset
  the row leaves the compute behind it.
- `MachineRefined`: `Spec => Machine!Spec`: the initial row is the machine's
  initial state, every step takes an edge or stutters. The unconditional writes
  (`SetEndpointRunning`, `SetEndpointSuspended`) follow an edge only because of
  `OwnershipMatches`.

**BranchProofs**:

- `ParseOrder`: comparing parsed LSNs is comparing positions.
- `BranchPointIngested`: `Spec => []BranchIngested`, for any faults.
- `BranchHasCommits`: `Spec => []BranchComplete`, for any faults. `BranchInv`
  (`BranchAlways`) carries it: some member has covered the commits
  before the request since it came in (`FloorCovered`), because the newest
  commit is known to one (`CommitKnown`); once this member is asked and answers,
  the best answer covers them too.

**ProvisioningProofs**, without assumptions on faults:

- `HandlersRely`: `Spec => []ProvisioningInv`. A handler looks things up once and
  then works through several calls to two stores, so what has to be shown is
  that its knowledge keeps. The parts: requests have the locals their next call
  needs (`Targets`); until the project has been promised nothing else goes on
  (`MainFirst`); an identifier is handed out once and to one request, and what a
  create works on is promised to nobody yet (`FreshIds`); before its insert a
  branch has no row and nobody deletes it (`Unborn`); a row is inserted for a
  timeline that is there, or whose tenant has been deleted (`Staged`); only what
  somebody asked to delete is deleted, and when its row goes the timeline is
  gone (`GoneFirst`).
- `CreatedStaysCreated` (`CreatedIsKept`) is part of that invariant. A compensation
  deletes the timeline of its own branch, which is promised to nobody
  (`FreshIds`); the one that drops a whole tenant runs while there is nothing else
  in it (`MainFirst`); deletes take only what is doomed (`GoneFirst`).
- `RowGoesLast` (`RowOutlivesStorage`), from `GoneFirst`. Nothing can bring the
  timeline back in between: a branch can only be staged once.
- `BranchMachineRefined` (`ImplementsBranches`): `Machine!Init` holds of the first
  state, and every step leaves all stages alone or moves them along an edge of
  BranchMachine. Deleting a tenant moves many at once.

**RacesProofs**, on top of them:

- `RacesAreRepaired`: `Spec => []RacesInv`, that is, `InStep` is inductive as long
  as no call has failed. For each disagreement of the stores it names who will
  end it: a tenant without a project row belongs to a create that will insert it,
  a project row without a tenant to a delete that will remove it
  (`ProjectInStep`); a timeline without a row to a create that will insert the row
  or drop the timeline (`StorageInStep`); a row whose timeline is going or gone to
  a delete (`RowsInStep`). A branch that is being created has no children and no
  other request deletes it (`Childless`), so its compensation gets through.
- `RacesLeaveAgreement` (`RacesAgree`): with no request left, nobody is named.

**FleetProofs**, each under `SteadyWorld`: of the faults only `wake` and `hang`, and
`readyTimeout` below `staleAfter`.

- `FleetAgrees`: `Spec => []FleetInv`. The row names its owner: one start, or the
  sweep, or nobody (`RowHolds`). A running row is served by its own pod
  (`PodHolds`), each start finds its pod as it left it (`StartHolds`), no two pods
  share an address (`OwnIP`), a pass visits an endpoint once (`VisitsOnce`). The
  heart of it is `CopiesHold`. The sweep's copy of a *row* does not stay up to
  date: a waker with an old observation can reset the row of a healthy compute,
  and the row is `suspended` or `starting` by then. But the reset does not touch
  the pod, and the next start finds it there and adopts it, at the same address.
  A pod is deleted only by the owner of the row: the sweep itself, after its CAS,
  or a failed start, which in the steady world has no pod that ever was ready.
  So until the sweep has claimed the row or passed it by, the compute is up at
  the address in the copy, whatever the row says. A sweep that hangs as the owner
  of a row leaves it to takeovers, and nothing is claimed from there on; it does
  nothing more itself (`HungStays`).
- `SweepKillsItsOwn` (`RightCompute`): the sweep terminates at an address that its
  own endpoint's pod has, and no other pod has it.

The restriction is tight. With any one of the other kinds (`call`, `lost`, `pod`,
`crash`, `db`, `ready`, `slow`, `reuse`), happening once, TLC refutes `RightCompute`
on the instance of `fleet`, and also without any fault under the default timeouts.

The proofs rest on the assumptions that the modules state for their constants:
`NULL` is no address, wakers are not named like the other processes, there is at
least one safekeeper, `Half` is positive, `Faults` are known kinds, a missing
branch or copy is not a branch or copy.

Every safety property of the passing runs is proved. Only model-checked is
liveness (`ScaleToZero`, `Responsive`, `CallsDrain`, `BranchHappens`,
`DeleteSucceeds`, `ReadsAnswer`, `IdleIsSwept`, `WakesGoOn`), which needs fairness
and ENABLED and is out of reach of the prover.

## 6. What the checks found

Each has a run of its own that ends in a counterexample, and an entry under
`findings` that quotes the comment, test or design text it contradicts.

| Run | What happens |
|---|---|
| `two_owners` | With the default timeouts and no fault: a start waits for a pod that is being deleted until its claim is stale, and the takeover CAS from `starting` to `starting` makes a second waker an owner next to it. |
| `sweep_stuck` | A failed `Stop` leaves the row in `suspending`, which no sweep looks at again. |
| `delete_leak` | A start in flight creates its pod after the delete's `Stop`; the pod outlives the row. |
| `branch_lag` | The one safekeeper that knows the last commit does not answer; the branch misses the commit. |
| `foreign_kill` | One failing `SetEndpointRunning`: its `fail()` deletes the pod, the next start adopts the dying pod and records its address, the IP goes to another endpoint, and the sweep terminates that one's compute. |

Met on the way, without a run of their own: two wakers that read the same stale row
of a cancelled request both win its takeover; Wake can answer with the address of
a compute that the sweep has claimed since the read under the lock; when
`CreateTimeline` fails, the tenant attached before it stays without a row; `Start`
accepts a pod that is being deleted, and then waits for it in vain; a cancelled
request cannot clean up, because `fail()` and the compensations use its
context; an insert that commits while its answer is lost is compensated, which
drops the storage of a live row; `DeleteTenant` takes 404 for an error, so a
project whose row deletion failed once cannot be deleted any more; the sweep
notices a running row whose pod has disappeared, but not one whose pod is dead;
verify-running can reset the row of a compute that another waker has just
brought up, because its CAS compares the state only; for the same reason, and
without any fault, the sweep can suspend a compute within its grace period on
account of the start time in its copy of the row, if one waker has reset the row
on an old observation and another has started the endpoint again meanwhile. The sweep's reconcile compares nothing at all: if a waker notices the lost
pod first, resets the row and claims it, the sweep's `SetEndpointSuspended`
overwrites `starting`, and a second waker claims the row as well.

Fleet adds what happens between endpoints. There are other ways than that of
`foreign_kill` to the same end. One needs a second waker that saw an earlier running
row: its verify-running resets the row, the start that adopts the pod fails at
one call and removes it, the next start gets another IP, and the sweep's CAS,
which compares the state only, goes through with the old address. The sweep asks of a pod only whether it exists, where verify-running also compares
phase and IP: if a pod dies behind its running row and the IP goes to another
endpoint, the sweep asks that endpoint's compute for its activity, takes the
answer (or the old start time) for its own, and terminates it; the victim's row
then says running without a compute, and the same can happen to it. waitReady has
the same gap: it asks whoever has the IP in the status of a pod that `Start` has
accepted, even if that pod is already dead, and the address recorded may be that
of another endpoint. And when only the answer of `SetEndpointRunning` is lost,
`fail()` removes the pod behind a row that says running.

## 7. What is not modelled

- Access control (one read and a comparison) and the authentication gate (a
  comparison) change nothing and read nothing twice.
- SCRAM verifiers (cryptography), random identifiers (taken as fresh), the
  compute specification (a constant record), deployment files.
- `SetEndpointSuspendAfter` and the pageserver client's `CreateBranch` have no
  caller; `last_active_at` is never read.
- In Lifecycle every HTTP call of the sweep returns; calls that hang are in Fleet.
  Fleet has no debug and delete handlers, no ConfigMaps, and its computes do not
  report a failure.
- Delays are not measured: deadlines fire or not, and polls are as frequent as
  the scheduler likes.

## 8. Plan

Done: the lifecycle of an endpoint, the branch point, provisioning with its
readers and its abstract specification, and several endpoints under one sweep,
each with its proofs.

Left: compose Provisioning with Lifecycle, a create that is followed by a wake, a
delete that races one, for the row and the storage together.
