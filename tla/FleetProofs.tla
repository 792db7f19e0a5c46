----------------------------- MODULE FleetProofs -----------------------------
(***************************************************************************)
(* Proof that in a steady world the sweep terminates the right compute     *)
(* (RightCompute of Fleet), for any number of endpoints, addresses and     *)
(* concurrent wakers.  FleetInv is inductive.  Wakers act on observations  *)
(* that are out of date, and one of them may reset a healthy running row;  *)
(* but a pod that is ready is only ever adopted by the next start, so the  *)
(* address in a copy of the sweep stays that of the endpoint's own pod     *)
(* until the sweep has claimed the row itself.                             *)
(***************************************************************************)
EXTENDS Fleet, TLAPS

RowStates == {"suspended", "starting", "running", "suspending", "failed"}

-----------------------------------------------------------------------------
(***************************************************************************)
(* What the operators do                                                   *)
(***************************************************************************)
LEMMA SetRowSets ==
  ASSUME TypeOK, NEW e \in Endpoints, NEW r \in FleetRows, SetRow(e, r)
  PROVE  /\ rows' \in [Endpoints -> FleetRows]
         /\ rows'[e].state = r.state /\ rows'[e].stale = r.stale
         /\ r.state = "running" => rows'[e].addr = r.addr
         /\ \A f \in Endpoints : f # e => rows'[f] = rows[f]
<1>1. CASE r.state = "running"
  BY <1>1 DEF SetRow, TypeOK
<1>2. CASE r.state # "running"
  <2>. DEFINE s == [r EXCEPT !.addr = NULL, !.grace = r.grace /\ Unread(e)]
  <2>1. s \in FleetRows /\ s.state = r.state /\ s.stale = r.stale
    BY DEF FleetRows, MaybeIP
  <2>2. rows' = [rows EXCEPT ![e] = s]
    BY <1>2 DEF SetRow
  <2>. HIDE DEF s
  <2>. QED  BY <1>2, <2>1, <2>2 DEF TypeOK
<1>. QED  BY <1>1, <1>2

\* A compare-and-swap on the state of the row.
LEMMA CasDoes ==
  ASSUME TypeOK, NEW e \in Endpoints, NEW from \in RowStates, NEW to \in RowStates
  PROVE  /\ Row(e)!InState(from) <=> rows[e].state = from
         /\ Row(e)!TransitionEndpoint(from, to) \in FleetRows
         /\ rows[e].state = from =>
              /\ Row(e)!TransitionEndpoint(from, to).state = to
              /\ Row(e)!TransitionEndpoint(from, to).stale = FALSE
         /\ rows[e].state # from => Row(e)!TransitionEndpoint(from, to) = rows[e]
<1>1. rows[e] \in FleetRows /\ rows[e].exists
  BY DEF TypeOK, FleetRows
<1>2. Row(e)!InState(from) <=> rows[e].state = from
  BY <1>1 DEF Row!InState
<1>3. CASE rows[e].state = from
  <2>1. Row(e)!TransitionEndpoint(from, to) = [rows[e] EXCEPT !.state = to, !.stale = FALSE]
    BY <1>2, <1>3 DEF Row!TransitionEndpoint
  <2>. DEFINE r == [rows[e] EXCEPT !.state = to, !.stale = FALSE]
  <2>2. r \in FleetRows /\ r.state = to /\ r.stale = FALSE
    BY <1>1 DEF FleetRows, RowStates
  <2>. QED  BY <1>2, <1>3, <2>1, <2>2
<1>4. CASE rows[e].state # from
  BY <1>1, <1>2, <1>4 DEF Row!TransitionEndpoint
<1>. QED  BY <1>2, <1>3, <1>4

LEMMA SetSuspendedDoes ==
  ASSUME TypeOK, NEW e \in Endpoints
  PROVE  /\ Row(e)!SetEndpointSuspended \in FleetRows
         /\ Row(e)!SetEndpointSuspended.state = "suspended"
         /\ Row(e)!SetEndpointSuspended.stale = FALSE
<1>1. rows[e] \in FleetRows /\ rows[e].exists
  BY DEF TypeOK, FleetRows
<1>. DEFINE r == [rows[e] EXCEPT !.state = "suspended", !.addr = NULL, !.stale = FALSE]
<1>2. r \in FleetRows /\ r.state = "suspended" /\ r.stale = FALSE
  BY <1>1 DEF FleetRows, MaybeIP
<1>. QED  BY <1>1, <1>2 DEF Row!SetEndpointSuspended

LEMMA SetRunningDoes ==
  ASSUME TypeOK, NEW e \in Endpoints, NEW ip \in MaybeIP
  PROVE  /\ Row(e)!SetEndpointRunning(ip) \in FleetRows
         /\ Row(e)!SetEndpointRunning(ip).state = "running"
         /\ Row(e)!SetEndpointRunning(ip).addr = ip
         /\ Row(e)!SetEndpointRunning(ip).stale = FALSE
<1>1. rows[e] \in FleetRows /\ rows[e].exists
  BY DEF TypeOK, FleetRows
<1>. DEFINE r == [rows[e] EXCEPT !.state = "running", !.addr = ip, !.stale = FALSE, !.grace = TRUE]
<1>2. r \in FleetRows /\ r.state = "running" /\ r.addr = ip /\ r.stale = FALSE
  BY <1>1 DEF FleetRows
<1>. QED  BY <1>1, <1>2 DEF Row!SetEndpointRunning

LEMMA SetPodSets ==
  ASSUME TypeOK, NEW e \in Endpoints, NEW p \in FleetPods, SetPod(e, p)
  PROVE  /\ pods' \in [Endpoints -> FleetPods]
         /\ pods'[e] = p
         /\ \A f \in Endpoints : f # e => pods'[f] = pods[f]
BY DEF SetPod, TypeOK

LEMMA NoPodTyped ==
  NoPod \in FleetPods /\ NoPod.st = "none" /\ NoPod.ip = NULL /\ NoPod.term = FALSE
BY DEF NoPod, FleetPods, MaybeIP

\* Stop and Start of a pod.
LEMMA PodCallsDo ==
  ASSUME TypeOK, NEW e \in Endpoints
  PROVE  /\ Pod(e)!DeletedPod \in FleetPods
         /\ Pod(e)!DeletedPod.st = pods[e].st /\ Pod(e)!DeletedPod.ip = pods[e].ip
         /\ pods[e].st # "none" => Pod(e)!DeletedPod.term = TRUE
         /\ pods[e].st = "none" => Pod(e)!DeletedPod = pods[e]
         /\ Pod(e)!CreatedPod \in FleetPods
         /\ pods[e].st # "none" => Pod(e)!CreatedPod = pods[e]
         /\ pods[e].st = "none" => /\ Pod(e)!CreatedPod.st = "pending"
                                   /\ Pod(e)!CreatedPod.ip = NULL
                                   /\ Pod(e)!CreatedPod.term = FALSE
<1>1. pods[e] \in FleetPods
  BY DEF TypeOK
<1>. DEFINE d == [pods[e] EXCEPT !.term = TRUE]
            n == [[st |-> "none", ip |-> NULL, term |-> FALSE, act |-> "none"] EXCEPT !.st = "pending"]
<1>2. d \in FleetPods /\ d.st = pods[e].st /\ d.ip = pods[e].ip /\ d.term = TRUE
  BY <1>1 DEF FleetPods
<1>3. n \in FleetPods /\ n.st = "pending" /\ n.ip = NULL /\ n.term = FALSE
  BY DEF FleetPods, MaybeIP
<1>4. Pod(e)!DeletedPod = IF pods[e].st = "none" THEN pods[e] ELSE d
  BY DEF Pod!DeletedPod
<1>5. Pod(e)!CreatedPod = IF pods[e].st = "none" THEN n ELSE pods[e]
  BY DEF Pod!CreatedPod, Pod!NoPod
<1>. HIDE DEF d, n
<1>. QED  BY <1>1, <1>2, <1>3, <1>4, <1>5

\* Only a pod that is ready answers, and only one that is not going away may
\* become ready.
LEMMA WhoListens ==
  ASSUME TypeOK, NEW ip
  PROVE  Listening(ip) = {f \in Endpoints : ip # NULL /\ pods[f].ip = ip /\ pods[f].st = "ready"}
BY DEF TypeOK, FleetPods, Listening, Pod!Answers, Pod!PodRunning

LEMMA WhoIsDoomed ==
  ASSUME NEW e \in Endpoints, Pod(e)!Doomed
  PROVE  pods[e].term \/ pods[e].st \in {"none", "dead"}
BY DEF Pod!Doomed

\* The steps of a Wake call.
LEMMA InCall ==
  ASSUME TypeOK, NEW w \in Wakers, wake[w].pc # "idle"
  PROVE  /\ wake[w] \in [pc : Calling, ep : Endpoints, addr : MaybeIP]
         /\ wake[w].ep \in Endpoints /\ wake[w].addr \in MaybeIP
BY DEF TypeOK, WakeCalls, NoCall

LEMMA NoCallTyped ==
  NoCall \in WakeCalls /\ NoCall.pc = "idle" /\ NoCall.ep = Nothing /\ NoCall.addr = NULL
BY DEF WakeCalls, NoCall

LEMMA HoldsHolds ==
  ASSUME TypeOK, NEW w \in Wakers, wake[w].pc # "idle", NEW l \in Calling, NEW a \in MaybeIP,
         Holds(w, l, a)
  PROVE  /\ wake' \in [Wakers -> WakeCalls]
         /\ wake'[w].pc = l /\ wake'[w].ep = wake[w].ep /\ wake'[w].addr = a
         /\ \A v \in Wakers : v # w => wake'[v] = wake[v]
<1>. DEFINE c == [pc |-> l, ep |-> wake[w].ep, addr |-> a]
<1>1. wake[w] \in [pc : Calling, ep : Endpoints, addr : MaybeIP] /\ wake \in [Wakers -> WakeCalls]
  BY InCall DEF TypeOK
<1>2. wake' = [wake EXCEPT ![w] = c]
  BY <1>1 DEF Holds
<1>3. c \in WakeCalls
  BY <1>1 DEF WakeCalls
<1>. QED  BY <1>1, <1>2, <1>3

LEMMA ToGoes ==
  ASSUME TypeOK, NEW w \in Wakers, wake[w].pc # "idle", NEW l \in Calling, To(w, l)
  PROVE  /\ wake' \in [Wakers -> WakeCalls]
         /\ wake'[w].pc = l /\ wake'[w].ep = wake[w].ep /\ wake'[w].addr = wake[w].addr
         /\ \A v \in Wakers : v # w => wake'[v] = wake[v]
<1>. DEFINE c == [pc |-> l, ep |-> wake[w].ep, addr |-> wake[w].addr]
<1>1. wake[w] \in [pc : Calling, ep : Endpoints, addr : MaybeIP] /\ wake \in [Wakers -> WakeCalls]
  BY InCall DEF TypeOK
<1>2. wake' = [wake EXCEPT ![w] = c]
  <2>1. [wake[w] EXCEPT !.pc = l] = c
    BY <1>1
  <2>. QED  BY <2>1 DEF To
<1>3. c \in WakeCalls
  BY <1>1 DEF WakeCalls
<1>. QED  BY <1>1, <1>2, <1>3

LEMMA QuitsQuits ==
  ASSUME TypeOK, NEW w \in Wakers, Quits(w)
  PROVE  /\ wake' \in [Wakers -> WakeCalls] /\ wake'[w] = NoCall
         /\ \A v \in Wakers : v # w => wake'[v] = wake[v]
BY NoCallTyped DEF Quits, TypeOK

\* The steps of the sweep: on to the next copy, or to the next call for this one.
LEMMA OnwardGoes ==
  ASSUME NEW T \in SUBSET Copies, Onward(T)
  PROVE  /\ sweep' \in Passes
         /\ sweep'.todo = T /\ sweep'.cur = Nothing /\ sweep'.pc \in {"idle", "visit"}
BY DEF Onward, Resting, Passes

LEMMA OnwardVisits ==
  ASSUME TypeOK, VisitsOnce, NEW T \in SUBSET sweep.todo, Onward(T)
  PROVE  /\ sweep' \in Passes /\ VisitsOnce'
         /\ sweep'.todo = T /\ sweep'.cur = Nothing /\ sweep'.pc \in {"idle", "visit"}
<1>1. T \in SUBSET Copies
  BY DEF TypeOK, Passes
<1>2. /\ sweep' \in Passes
      /\ sweep'.todo = T /\ sweep'.cur = Nothing /\ sweep'.pc \in {"idle", "visit"}
  BY <1>1, OnwardGoes
<1>. QED  BY <1>2, NothingAssumption DEF VisitsOnce, Working

LEMMA GoesVisits ==
  ASSUME TypeOK, VisitsOnce, sweep.pc \in Working, NEW l \in Working \cup {"hung"}, Goes(l)
  PROVE  /\ sweep' \in Passes /\ VisitsOnce'
         /\ sweep'.todo = sweep.todo /\ sweep'.cur = sweep.cur /\ sweep'.pc = l
<1>1. /\ sweep' \in Passes
      /\ sweep'.todo = sweep.todo /\ sweep'.cur = sweep.cur /\ sweep'.pc = l
  BY DEF TypeOK, Goes, Passes, Working
<1>2. sweep.cur \in Copies
  BY DEF VisitsOnce
<1>. QED  BY <1>1, <1>2 DEF VisitsOnce

\* The sweep works on an endpoint of which it has no other copy.
LEMMA WorksAlone ==
  ASSUME TypeOK, VisitsOnce, sweep.pc \in Working
  PROVE  /\ sweep.cur \in Copies /\ sweep.cur.ep \in Endpoints /\ sweep.cur.addr \in MaybeIP
         /\ \A c \in sweep.todo : c.ep # sweep.cur.ep
BY DEF VisitsOnce, Copies

\* A new start makes copies old, and changes nothing else about them.
LEMMA OutdatedMarks ==
  ASSUME TypeOK, VisitsOnce, NEW e \in Endpoints, Outdated(e)
  PROVE  /\ sweep' \in Passes /\ VisitsOnce' /\ sweep'.pc = sweep.pc
         /\ \A c \in sweep'.todo : \E d \in sweep.todo : c.ep = d.ep /\ c.addr = d.addr
         /\ sweep.pc \in Working => /\ sweep'.cur.ep = sweep.cur.ep
                                    /\ sweep'.cur.addr = sweep.cur.addr
<1>1. /\ sweep'.pc = sweep.pc
      /\ sweep'.todo = {Past(c, e) : c \in sweep.todo}
      /\ sweep'.cur = Past(sweep.cur, e)
  BY DEF Outdated
<1>2. ASSUME NEW c \in Copies
      PROVE  /\ Past(c, e) \in Copies /\ Past(c, e).ep = c.ep /\ Past(c, e).addr = c.addr
             /\ c.ep # e => Past(c, e) = c
  BY NothingAssumption DEF Past, Copies
<1>3. Past(Nothing, e) = Nothing
  BY DEF Past
<1>4. /\ sweep.todo \subseteq Copies
      /\ sweep.cur \in Copies \/ sweep.cur = Nothing
  BY DEF TypeOK, Passes
<1>5. sweep' \in Passes
  <2>1. Past(sweep.cur, e) \in Copies \cup {Nothing}
    BY <1>2, <1>3, <1>4
  <2>2. {Past(c, e) : c \in sweep.todo} \in SUBSET Copies
    BY <1>2, <1>4
  <2>. QED  BY <2>1, <2>2 DEF Outdated, TypeOK, Passes
<1>6. ASSUME NEW c \in sweep'.todo
      PROVE  \E d \in sweep.todo : d \in Copies /\ c = Past(d, e) /\ c.ep = d.ep /\ c.addr = d.addr
  BY <1>1, <1>2, <1>4
<1>7. VisitsOnce'
  <2>1. ASSUME NEW c \in sweep'.todo, NEW d \in sweep'.todo, c.ep = d.ep
        PROVE  c = d
    BY <1>6, <2>1 DEF VisitsOnce
  <2>2. sweep'.cur \in Copies => sweep.cur \in Copies /\ sweep'.cur.ep = sweep.cur.ep
    BY <1>1, <1>2, <1>3, <1>4, NothingAssumption
  <2>3. \A c \in sweep'.todo : sweep'.cur \in Copies => c.ep # sweep'.cur.ep
    BY <1>6, <2>2 DEF VisitsOnce
  <2>4. sweep.cur \in Copies => sweep'.cur \in Copies
    BY <1>1, <1>2
  <2>. QED  BY <1>1, <2>1, <2>3, <2>4 DEF VisitsOnce
<1>8. sweep.pc \in Working => sweep'.cur.ep = sweep.cur.ep /\ sweep'.cur.addr = sweep.cur.addr
  BY <1>1, <1>2 DEF VisitsOnce
<1>. QED  BY <1>1, <1>5, <1>6, <1>7, <1>8

-----------------------------------------------------------------------------
(***************************************************************************)
(* What each step leaves of the types, and of VisitsOnce, whatever fails   *)
(***************************************************************************)
Shape == TypeOK /\ VisitsOnce

LEMMA SweepShape == Shape /\ SweepStep => Shape'
<1>. SUFFICES ASSUME Shape, SweepStep PROVE Shape'
  OBVIOUS
<1>0. TypeOK /\ VisitsOnce
  BY DEF Shape
<1>1. ASSUME ListEndpointsByState  PROVE Shape'
  <2>1. UNCHANGED <<rows, pods, wake>>
    BY <1>1 DEF ListEndpointsByState
  <2>2. CASE UNCHANGED sweep
    BY <1>0, <2>1, <2>2 DEF Shape, TypeOK, VisitsOnce
  <2>3. CASE ~UNCHANGED sweep
    <3>. DEFINE T == {[ep |-> e, addr |-> rows[e].addr, past |-> FALSE] :
                        e \in {f \in Endpoints : Row(f)!InState("running")}}
    <3>1. Onward(T)
      BY <1>1, <2>3 DEF ListEndpointsByState
    <3>2. ASSUME NEW c \in T
          PROVE  /\ c \in Copies
                 /\ c = [ep |-> c.ep, addr |-> rows[c.ep].addr, past |-> FALSE]
      <4>1. PICK e \in Endpoints : c = [ep |-> e, addr |-> rows[e].addr, past |-> FALSE]
        OBVIOUS
      <4>2. rows[e].addr \in MaybeIP
        BY <1>0 DEF TypeOK, FleetRows
      <4>. QED  BY <4>1, <4>2 DEF Copies
    <3>3. \A c, d \in T : c.ep = d.ep => c = d
      BY <3>2
    <3>. HIDE DEF T
    <3>4. T \in SUBSET Copies
      BY <3>2
    <3>5. /\ sweep' \in Passes
          /\ sweep'.todo = T /\ sweep'.cur = Nothing /\ sweep'.pc \in {"idle", "visit"}
      BY <3>1, <3>4, OnwardGoes
    <3>. QED  BY <1>0, <2>1, <3>3, <3>5, NothingAssumption DEF Shape, TypeOK, VisitsOnce, Working
  <2>. QED  BY <2>2, <2>3
<1>2. ASSUME NEW c \in sweep.todo, Status(c)  PROVE Shape'
  <2>1. UNCHANGED <<rows, pods, wake>> /\ c \in Copies
    BY <1>0, <1>2 DEF Status, TypeOK, Passes
  <2>2. sweep' \in Passes /\ VisitsOnce'
    <3>1. CASE Onward(sweep.todo \ {c})
      BY <1>0, <3>1, OnwardVisits
    <3>2. ASSUME NEW l \in {"reconcile", "fetch"},
                 sweep' = [pc |-> l, todo |-> sweep.todo \ {c}, cur |-> c]
          PROVE  sweep' \in Passes /\ VisitsOnce'
      BY <1>0, <2>1, <3>2 DEF TypeOK, Passes, VisitsOnce, Working
    <3>. QED  BY <1>2, <3>1, <3>2 DEF Status, Skip
  <2>. QED  BY <1>0, <2>1, <2>2 DEF Shape, TypeOK
<1>3. ASSUME NEW here \in {"reconcile", "release"}, SetSuspended(here)  PROVE Shape'
  <2>1. UNCHANGED <<pods, wake>> /\ sweep.pc \in Working
    BY <1>3 DEF SetSuspended, Working
  <2>2. PICK e \in Endpoints : e = sweep.cur.ep
    BY <1>0, <2>1, WorksAlone
  <2>3. PICK o \in Outcomes :
           SetRow(e, After(o, Row(e)!SetEndpointSuspended, rows[e])) /\ Onward(sweep.todo)
    BY <1>3, <2>2 DEF SetSuspended, Skip
  <2>4. PICK r \in FleetRows : SetRow(e, r)
    BY <1>0, <2>3, SetSuspendedDoes DEF After, TypeOK
  <2>5. rows' \in [Endpoints -> FleetRows]
    BY <1>0, <2>4, SetRowSets
  <2>6. sweep' \in Passes /\ VisitsOnce'
    BY <1>0, <2>3, OnwardVisits
  <2>. QED  BY <1>0, <2>1, <2>5, <2>6 DEF Shape, TypeOK
<1>4. ASSUME FetchLastActive  PROVE Shape'
  <2>1. UNCHANGED <<rows, pods, wake>> /\ sweep.pc \in Working
    BY <1>4 DEF FetchLastActive, Working
  <2>2. Onward(sweep.todo) \/ \E l \in {"cas", "hung"} : Goes(l)
    BY <1>4 DEF FetchLastActive, Skip
  <2>3. sweep' \in Passes /\ VisitsOnce'
    <3>1. \A l \in {"cas", "hung"} : l \in Working \cup {"hung"}
      BY DEF Working
    <3>. QED  BY <1>0, <2>1, <2>2, <3>1, OnwardVisits, GoesVisits
  <2>. QED  BY <1>0, <2>1, <2>3 DEF Shape, TypeOK
<1>5. ASSUME CasSuspending  PROVE Shape'
  <2>1. UNCHANGED <<pods, wake>> /\ sweep.pc \in Working
    BY <1>5 DEF CasSuspending, Working
  <2>2. PICK e \in Endpoints : e = sweep.cur.ep
    BY <1>0, <2>1, WorksAlone
  <2>3. PICK o \in Outcomes :
           /\ SetRow(e, After(o, Row(e)!TransitionEndpoint("running", "suspending"), rows[e]))
           /\ Goes("terminate") \/ Onward(sweep.todo)
    BY <1>5, <2>2 DEF CasSuspending, Skip
  <2>4. PICK r \in FleetRows : SetRow(e, r)
    <3>1. Row(e)!TransitionEndpoint("running", "suspending") \in FleetRows
      BY <1>0, CasDoes DEF RowStates
    <3>. QED  BY <1>0, <2>3, <3>1 DEF After, TypeOK
  <2>5. rows' \in [Endpoints -> FleetRows]
    BY <1>0, <2>4, SetRowSets
  <2>6. sweep' \in Passes /\ VisitsOnce'
    <3>1. "terminate" \in Working \cup {"hung"}
      BY DEF Working
    <3>. QED  BY <1>0, <2>1, <2>3, <3>1, OnwardVisits, GoesVisits
  <2>. QED  BY <1>0, <2>1, <2>5, <2>6 DEF Shape, TypeOK
<1>6. ASSUME Terminate  PROVE Shape'
  <2>1. UNCHANGED <<rows, wake>> /\ sweep.pc \in Working
    BY <1>6 DEF Terminate, Working
  <2>2. PICK l \in {"stop", "hung"} : Goes(l)
    BY <1>6 DEF Terminate
  <2>3. sweep' \in Passes /\ VisitsOnce'
    <3>1. l \in Working \cup {"hung"}
      BY DEF Working
    <3>. QED  BY <1>0, <2>1, <2>2, <3>1, GoesVisits
  <2>4. pods' \in [Endpoints -> FleetPods]
    <3>1. CASE UNCHANGED pods
      BY <1>0, <3>1 DEF TypeOK
    <3>2. ASSUME NEW f \in Listening(sweep.cur.addr), SetPod(f, [pods[f] EXCEPT !.st = "dead"])
          PROVE  pods' \in [Endpoints -> FleetPods]
      <4>1. f \in Endpoints
        BY DEF Listening
      <4>2. [pods[f] EXCEPT !.st = "dead"] \in FleetPods
        BY <1>0, <4>1 DEF TypeOK, FleetPods
      <4>. QED  BY <1>0, <3>2, <4>1, <4>2, SetPodSets
    <3>. QED  BY <1>6, <3>1, <3>2 DEF Terminate
  <2>. QED  BY <1>0, <2>1, <2>3, <2>4 DEF Shape, TypeOK
<1>7. ASSUME Stop  PROVE Shape'
  <2>1. UNCHANGED <<rows, wake>> /\ sweep.pc \in Working
    BY <1>7 DEF Stop, Working
  <2>2. PICK e \in Endpoints : e = sweep.cur.ep
    BY <1>0, <2>1, WorksAlone
  <2>3. PICK o \in Outcomes :
           /\ SetPod(e, After(o, Pod(e)!DeletedPod, pods[e]))
           /\ Goes("release") \/ Onward(sweep.todo)
    BY <1>7, <2>2 DEF Stop, Skip
  <2>4. PICK p \in FleetPods : SetPod(e, p)
    BY <1>0, <2>3, PodCallsDo DEF After, TypeOK
  <2>5. pods' \in [Endpoints -> FleetPods]
    BY <1>0, <2>4, SetPodSets
  <2>6. sweep' \in Passes /\ VisitsOnce'
    <3>1. "release" \in Working \cup {"hung"}
      BY DEF Working
    <3>. QED  BY <1>0, <2>1, <2>3, <3>1, OnwardVisits, GoesVisits
  <2>. QED  BY <1>0, <2>1, <2>5, <2>6 DEF Shape, TypeOK
<1>8. CASE ReconcileGone \/ Release
  BY <1>3, <1>8 DEF ReconcileGone, Release
<1>. QED  BY <1>1, <1>2, <1>4, <1>5, <1>6, <1>7, <1>8 DEF SweepStep

\* The conditional updates of the wake path.
CasTargets == {"start", "claim_failed", "read", "clear", "take_suspending"}

LEMMA CasShape ==
  ASSUME Shape, NEW w \in Wakers, NEW here, here # "idle",
         NEW from \in RowStates, NEW to \in RowStates,
         NEW won \in CasTargets, NEW lost \in CasTargets, Cas(w, here, from, to, won, lost)
  PROVE  Shape'
<1>1. TypeOK /\ VisitsOnce /\ UNCHANGED <<pods, sweep>> /\ wake[w].pc # "idle"
  BY DEF Shape, Cas
<1>2. PICK e \in Endpoints : e = wake[w].ep
  BY <1>1, InCall
<1>3. PICK o \in Outcomes :
         /\ SetRow(e, After(o, Row(e)!TransitionEndpoint(from, to), rows[e]))
         /\ Quits(w) \/ To(w, won) \/ To(w, lost)
  BY <1>2 DEF Cas
<1>4. PICK r \in FleetRows : SetRow(e, r)
  <2>1. Row(e)!TransitionEndpoint(from, to) \in FleetRows
    BY <1>1, CasDoes
  <2>. QED  BY <1>1, <1>3, <2>1 DEF After, TypeOK
<1>5. rows' \in [Endpoints -> FleetRows]
  BY <1>1, <1>4, SetRowSets
<1>6. wake' \in [Wakers -> WakeCalls]
  <2>1. won \in Calling /\ lost \in Calling
    BY DEF CasTargets, Calling, Deciding, Starting
  <2>. QED  BY <1>1, <1>3, <2>1, ToGoes, QuitsQuits
<1>. QED  BY <1>1, <1>5, <1>6 DEF Shape, TypeOK, VisitsOnce

LEMMA WakeShape ==
  ASSUME Shape, NEW w \in Wakers, WakeStep(w) \/ Leave(w) \/ \E e \in Endpoints : Call(w, e)
  PROVE  Shape'
<1>0. TypeOK /\ VisitsOnce
  BY DEF Shape
<1>1. ASSUME wake' \in [Wakers -> WakeCalls], UNCHANGED <<rows, pods, sweep>>  PROVE Shape'
  BY <1>0, <1>1 DEF Shape, TypeOK, VisitsOnce
<1>2. ASSUME NEW e \in Endpoints, Call(w, e)  PROVE Shape'
  <2>1. [pc |-> "read", ep |-> e, addr |-> NULL] \in WakeCalls
    BY DEF WakeCalls, Calling, Deciding, MaybeIP
  <2>. QED  BY <1>0, <1>1, <1>2, <2>1 DEF Call, TypeOK
<1>3. ASSUME Read(w)  PROVE Shape'
  <2>1. wake[w].pc # "idle" /\ UNCHANGED <<rows, pods, sweep>>
    BY <1>3 DEF Read
  <2>2. wake[w].ep \in Endpoints
    BY <1>0, <2>1, InCall
  <2>. DEFINE r == rows[wake[w].ep]
  <2>3. r \in FleetRows
    BY <1>0, <2>2 DEF TypeOK
  <2>4. Decision(r) \in Calling
    BY <2>3 DEF Decision, FleetRows, Calling, Deciding
  <2>5. (IF r.state = "running" THEN r.addr ELSE NULL) \in MaybeIP
    BY <2>3 DEF FleetRows, MaybeIP
  <2>6. Quits(w) \/ Holds(w, Decision(r), IF r.state = "running" THEN r.addr ELSE NULL)
    BY <1>3 DEF Read
  <2>. QED  BY <1>0, <1>1, <2>1, <2>4, <2>5, <2>6, HoldsHolds, QuitsQuits
<1>4. ASSUME VerifyRunning(w) \/ Poll(w) \/ Probe(w) \/ ReadyTimeout(w) \/ Leave(w)
      PROVE  Shape'
  <2>1. wake[w].pc # "idle" /\ UNCHANGED <<rows, pods, sweep>>
    BY <1>4 DEF VerifyRunning, Poll, Probe, ReadyTimeout, Leave
  <2>2. pods[wake[w].ep].ip \in MaybeIP /\ NULL \in MaybeIP
    BY <1>0, <2>1, InCall DEF TypeOK, FleetPods, MaybeIP
  <2>3. \A l \in {"served", "reconcile", "probe", "set", "poll", "fail"} : l \in Calling
    BY DEF Calling, Deciding, Starting, Waiting
  <2>4. \/ Quits(w)
        \/ \E l \in {"served", "set", "fail"} : To(w, l)
        \/ \E l \in {"reconcile", "poll"} : Holds(w, l, NULL)
        \/ Holds(w, "probe", pods[wake[w].ep].ip)
    BY <1>4 DEF VerifyRunning, Poll, Probe, ReadyTimeout, Leave
  <2>. QED  BY <1>0, <1>1, <2>1, <2>2, <2>3, <2>4, ToGoes, HoldsHolds, QuitsQuits
<1>5. ASSUME Reconcile(w) \/ ClaimSuspended(w) \/ ClaimFailed(w) \/ TakeStarting(w) \/ TakeSuspending(w)
      PROVE  Shape'
  <2>1. \A s \in {"running", "suspended", "starting", "failed", "suspending"} : s \in RowStates
    BY DEF RowStates
  <2>2. \A l \in {"start", "claim_failed", "read", "clear", "take_suspending"} : l \in CasTargets
    BY DEF CasTargets
  <2>. QED  BY <1>5, <2>1, <2>2, CasShape
            DEF Reconcile, ClaimSuspended, ClaimFailed, TakeStarting, TakeSuspending
<1>6. ASSUME Clear(w) \/ Fail(w) \/ Start(w)  PROVE Shape'
  <2>1. wake[w].pc # "idle" /\ UNCHANGED <<rows, sweep>>
    BY <1>6 DEF Clear, Fail, Start, WakeStops
  <2>2. PICK e \in Endpoints : e = wake[w].ep
    BY <1>0, <2>1, InCall
  <2>3. pods' \in [Endpoints -> FleetPods]
    <3>1. \/ UNCHANGED pods
          \/ \E o \in Outcomes : \/ SetPod(e, After(o, Pod(e)!DeletedPod, pods[e]))
                                 \/ SetPod(e, After(o, Pod(e)!CreatedPod, pods[e]))
      BY <1>6, <2>2 DEF Clear, Fail, Start, WakeStops, Outcomes
    <3>2. CASE UNCHANGED pods
      BY <1>0, <3>2 DEF TypeOK
    <3>3. CASE ~UNCHANGED pods
      <4>1. PICK p \in FleetPods : SetPod(e, p)
        BY <1>0, <3>1, <3>3, PodCallsDo DEF After, TypeOK
      <4>. QED  BY <1>0, <4>1, SetPodSets
    <3>. QED  BY <3>2, <3>3
  <2>4. wake' \in [Wakers -> WakeCalls]
    <3>1. \E l \in {"start", "mark", "poll", "fail"} : To(w, l)
      BY <1>6 DEF Clear, Fail, Start, WakeStops
    <3>2. \A l \in {"start", "mark", "poll", "fail"} : l \in Calling
      BY DEF Calling, Starting, Waiting
    <3>. QED  BY <1>0, <2>1, <3>1, <3>2, ToGoes
  <2>. QED  BY <1>0, <2>1, <2>3, <2>4 DEF Shape, TypeOK, VisitsOnce
<1>7. ASSUME SetRunning(w)  PROVE Shape'
  <2>1. wake[w].pc # "idle" /\ UNCHANGED pods
    BY <1>7 DEF SetRunning
  <2>2. PICK e \in Endpoints, a \in MaybeIP : e = wake[w].ep /\ a = wake[w].addr
    BY <1>0, <2>1, InCall
  <2>3. PICK o \in Outcomes :
           /\ SetRow(e, After(o, Row(e)!SetEndpointRunning(a), rows[e]))
           /\ To(w, "served") \/ Holds(w, "fail", NULL)
           /\ UNCHANGED sweep \/ Outdated(e)
    BY <1>7, <2>2 DEF SetRunning
  <2>4. PICK r \in FleetRows : SetRow(e, r)
    BY <1>0, <2>3, SetRunningDoes DEF After, TypeOK
  <2>5. rows' \in [Endpoints -> FleetRows]
    BY <1>0, <2>4, SetRowSets
  <2>6. wake' \in [Wakers -> WakeCalls]
    <3>1. "served" \in Calling /\ "fail" \in Calling /\ NULL \in MaybeIP
      BY DEF Calling, Starting, MaybeIP
    <3>. QED  BY <1>0, <2>1, <2>3, <3>1, ToGoes, HoldsHolds
  <2>7. sweep' \in Passes /\ VisitsOnce'
    <3>1. CASE UNCHANGED sweep
      BY <1>0, <3>1 DEF TypeOK, VisitsOnce
    <3>. QED  BY <1>0, <2>3, <3>1, OutdatedMarks
  <2>. QED  BY <1>0, <2>1, <2>5, <2>6, <2>7 DEF Shape, TypeOK
<1>8. ASSUME MarkFailed(w)  PROVE Shape'
  <2>1. wake[w].pc # "idle" /\ UNCHANGED <<pods, sweep>> /\ Quits(w)
    BY <1>8 DEF MarkFailed
  <2>2. PICK e \in Endpoints : e = wake[w].ep
    BY <1>0, <2>1, InCall
  <2>3. PICK o \in Outcomes :
           SetRow(e, After(o, Row(e)!TransitionEndpoint("starting", "failed"), rows[e]))
    BY <1>8, <2>2 DEF MarkFailed
  <2>4. PICK r \in FleetRows : SetRow(e, r)
    <3>1. Row(e)!TransitionEndpoint("starting", "failed") \in FleetRows
      BY <1>0, CasDoes DEF RowStates
    <3>. QED  BY <1>0, <2>3, <3>1 DEF After, TypeOK
  <2>5. rows' \in [Endpoints -> FleetRows]
    BY <1>0, <2>4, SetRowSets
  <2>6. wake' \in [Wakers -> WakeCalls]
    BY <1>0, <2>1, QuitsQuits
  <2>. QED  BY <1>0, <2>1, <2>5, <2>6 DEF Shape, TypeOK, VisitsOnce
<1>. QED  BY <1>2, <1>3, <1>4, <1>5, <1>6, <1>7, <1>8 DEF WakeStep

LEMMA ClusterShape ==
  ASSUME Shape, NEW e \in Endpoints,
         \/ \E ip \in IPs : Boots(e, ip)
         \/ Removed(e) \/ ContainerExits(e) \/ NodeLost(e) \/ Ages(e) \/ GraceEnds(e)
  PROVE  Shape'
<1>0. TypeOK /\ VisitsOnce /\ UNCHANGED <<wake, sweep>>
  BY DEF Shape, Boots, Removed, ContainerExits, NodeLost, Ages, GraceEnds
<1>1. pods[e] \in FleetPods /\ rows[e] \in FleetRows
  BY <1>0 DEF TypeOK
<1>2. pods' \in [Endpoints -> FleetPods]
  <2>1. CASE UNCHANGED pods
    BY <1>0, <2>1 DEF TypeOK
  <2>2. CASE ~UNCHANGED pods
    <3>1. \/ \E ip \in IPs : SetPod(e, [pods[e] EXCEPT !.st = "ready", !.ip = ip])
          \/ SetPod(e, [pods[e] EXCEPT !.st = "dead"])
          \/ SetPod(e, NoPod) \/ SetPod(e, pods[e])
          \/ SetPod(e, [pods[e] EXCEPT !.act = "old"])
      BY <2>2 DEF Boots, Removed, ContainerExits, NodeLost, Ages, GraceEnds
    <3>2. /\ \A ip \in IPs : [pods[e] EXCEPT !.st = "ready", !.ip = ip] \in FleetPods
          /\ [pods[e] EXCEPT !.st = "dead"] \in FleetPods
          /\ [pods[e] EXCEPT !.act = "old"] \in FleetPods
      BY <1>1 DEF FleetPods, MaybeIP
    <3>3. PICK p \in FleetPods : SetPod(e, p)
      BY <1>1, <3>1, <3>2, NoPodTyped
    <3>. QED  BY <1>0, <3>3, SetPodSets
  <2>. QED  BY <2>1, <2>2
<1>3. rows' \in [Endpoints -> FleetRows]
  <2>1. CASE UNCHANGED rows
    BY <1>0, <2>1 DEF TypeOK
  <2>2. CASE ~UNCHANGED rows
    <3>1. \/ SetRow(e, [rows[e] EXCEPT !.stale = TRUE])
          \/ SetRow(e, [rows[e] EXCEPT !.grace = FALSE])
      BY <2>2 DEF Boots, Removed, ContainerExits, NodeLost, Ages, GraceEnds
    <3>2. /\ [rows[e] EXCEPT !.stale = TRUE] \in FleetRows
          /\ [rows[e] EXCEPT !.grace = FALSE] \in FleetRows
      BY <1>1 DEF FleetRows
    <3>. QED  BY <1>0, <3>1, <3>2, SetRowSets
  <2>. QED  BY <2>1, <2>2
<1>. QED  BY <1>0, <1>2, <1>3 DEF Shape, TypeOK, VisitsOnce

LEMMA ShapeNext == Shape /\ [Next]_vars => Shape'
<1>. SUFFICES ASSUME Shape, [Next]_vars PROVE Shape'
  OBVIOUS
<1>1. CASE Boot \/ Outage \/ Recovery \/ UNCHANGED vars
  BY <1>1 DEF Boot, Outage, Recovery, vars, Shape, TypeOK, VisitsOnce
<1>2. CASE Crash
  <2>1. UNCHANGED <<rows, pods>> /\ sweep' = Resting /\ wake' = [w \in Wakers |-> NoCall]
    BY <1>2 DEF Crash
  <2>2. wake' \in [Wakers -> WakeCalls] /\ Resting \in Passes
    BY <2>1, NoCallTyped DEF Resting, Passes
  <2>. QED  BY <2>1, <2>2, NothingAssumption DEF Shape, TypeOK, VisitsOnce, Resting, Working
<1>. QED  BY <1>1, <1>2, SweepShape, WakeShape, ClusterShape DEF Next

-----------------------------------------------------------------------------
(***************************************************************************)
(* The steady world.  Without faults the database is there for whoever is  *)
(* at work, and every call succeeds.                                       *)
(***************************************************************************)
LEMMA NoFaults ==
  ASSUME SteadyWorld
  PROVE  /\ \A k \in {"call", "lost", "pod", "crash", "db", "ready", "reuse", "slow"} : ~Charge(k)
         /\ \A o \in Outcomes : Cost(o) => o = "ok"
BY DEF SteadyWorld, Charge, Cost, Outcomes

LEMMA CallsSucceed ==
  ASSUME SteadyWorld, db, NEW o \in Outcomes, Statement(o)
  PROVE  o = "ok"
BY NoFaults DEF Statement

LEMMA DbIsUp ==
  ASSUME ServingHolds, phase = "serving" \/ sweep.pc # "idle" \/ \E w \in Wakers : wake[w].pc # "idle"
  PROVE  db
BY NoCallTyped DEF ServingHolds, Resting

\* An endpoint has one owner at most.
LEMMA OneOwner ==
  ASSUME NEW e \in Endpoints, RowHolds(e), NEW w \in Wakers, Starts(w, e)
  PROVE  /\ rows[e].state = "starting" /\ ~SweepOwns(e)
         /\ \A v \in Wakers : Starts(v, e) => v = w
BY DEF RowHolds

\* What a row says about an endpoint that a step does not concern.
LEMMA RowKept ==
  ASSUME NEW e \in Endpoints, RowHolds(e),
         rows'[e].state = rows[e].state, rows'[e].stale = rows[e].stale,
         \A v \in Wakers : Starts(v, e)' <=> Starts(v, e),
         SweepOwns(e)' <=> SweepOwns(e)
  PROVE  RowHolds(e)'
BY DEF RowHolds

LEMMA StartKept ==
  ASSUME NEW w \in Wakers, StartHolds(w), wake'[w] = wake[w], UNCHANGED pods
  PROVE  StartHolds(w)'
BY DEF StartHolds, ReadyAt

\* A step of one caller that touches neither rows nor pods, and does not make
\* it an owner or end its ownership.
LEMMA CallerAgrees ==
  ASSUME Agree, NEW w \in Wakers, db, UNCHANGED <<rows, pods, sweep, db>>,
         \A v \in Wakers : v # w => wake'[v] = wake[v],
         wake'[w].pc \in Starting <=> wake[w].pc \in Starting,
         wake[w].pc \in Starting => wake'[w].ep = wake[w].ep,
         StartHolds(w)'
  PROVE  Agree'
<1>1. ServingHolds' /\ OwnIP' /\ CopiesHold'
  BY DEF Agree, ServingHolds, OwnIP, CopiesHold, ReadyAt
<1>2. ASSUME NEW e \in Endpoints  PROVE RowHolds(e)' /\ PodHolds(e)'
  <2>1. \A v \in Wakers : Starts(v, e)' <=> Starts(v, e)
    BY DEF Starts
  <2>2. SweepOwns(e)' <=> SweepOwns(e)
    BY DEF SweepOwns, WorksOn
  <2>3. RowHolds(e)'
    BY <2>1, <2>2, RowKept DEF Agree
  <2>. QED  BY <2>3 DEF Agree, PodHolds, ReadyAt
<1>3. ASSUME NEW v \in Wakers  PROVE StartHolds(v)'
  BY StartKept DEF Agree
<1>. QED  BY <1>1, <1>2, <1>3 DEF Agree

\* A step of a caller that changes the row of its endpoint.
LEMMA RowStepAgrees ==
  ASSUME Agree, NEW w \in Wakers, NEW e \in Endpoints, wake[w].ep = e, db, UNCHANGED <<pods, db>>,
         \A f \in Endpoints : f # e => rows'[f] = rows[f],
         \A v \in Wakers : v # w => wake'[v] = wake[v],
         wake'[w].pc \in Starting => wake'[w].ep = e,
         CopiesHold', \A f \in Endpoints : SweepOwns(f)' <=> SweepOwns(f),
         RowHolds(e)', PodHolds(e)', StartHolds(w)'
  PROVE  Agree'
<1>1. ServingHolds' /\ OwnIP'
  BY DEF Agree, ServingHolds, OwnIP
<1>2. ASSUME NEW f \in Endpoints, f # e  PROVE RowHolds(f)' /\ PodHolds(f)'
  <2>1. \A v \in Wakers : Starts(v, f)' <=> Starts(v, f)
    BY <1>2 DEF Starts
  <2>2. RowHolds(f)'
    BY <1>2, <2>1, RowKept DEF Agree
  <2>. QED  BY <1>2, <2>2 DEF Agree, PodHolds, ReadyAt
<1>3. ASSUME NEW v \in Wakers  PROVE StartHolds(v)'
  BY StartKept DEF Agree
<1>. QED  BY <1>1, <1>2, <1>3 DEF Agree

\* The owner of a row creates or deletes its pod: what is ready stays.
LEMMA PodStepAgrees ==
  ASSUME Shape, Agree, NEW w \in Wakers, NEW e \in Endpoints, Starts(w, e), db,
         UNCHANGED <<rows, sweep, db>>,
         \A f \in Endpoints : f # e => pods'[f] = pods[f],
         \A v \in Wakers : v # w => wake'[v] = wake[v],
         Starts(w, e)', StartHolds(w)',
         pods'[e].ip = pods[e].ip,
         pods[e].st = "ready" => pods'[e] = pods[e],
         pods'[e].st = "ready" => pods[e].st = "ready",
         pods[e].st \in {"none", "pending"} <=> pods'[e].st \in {"none", "pending"},
         pods'[e].term => pods'[e].st = "dead"
  PROVE  Agree'
<1>1. ServingHolds' /\ OwnIP'
  BY DEF Agree, ServingHolds, OwnIP
<1>2. /\ rows[e].state = "starting" /\ ~SweepOwns(e)
      /\ \A v \in Wakers : Starts(v, e) => v = w
  BY OneOwner DEF Agree
<1>3. CopiesHold'
  <2>1. \A f \in Endpoints : \A a : ReadyAt(f, a) => ReadyAt(f, a)'
    BY DEF ReadyAt
  <2>2. sweep.pc \in {"stop", "release"} => sweep.cur.ep # e
    BY <1>2 DEF SweepOwns, WorksOn
  <2>3. CopiesHold
    BY DEF Agree
  <2>4. /\ \A c \in sweep.todo : c.ep \in Endpoints
        /\ sweep.pc \in {"fetch", "cas", "terminate", "stop", "release"} => sweep.cur.ep \in Endpoints
    BY WorksAlone DEF Shape, TypeOK, Passes, Copies, Working
  <2>. QED  BY <2>1, <2>2, <2>3, <2>4 DEF CopiesHold
<1>4. ASSUME NEW f \in Endpoints  PROVE RowHolds(f)' /\ PodHolds(f)'
  <2>1. \A v \in Wakers : Starts(v, f)' <=> Starts(v, f)
    BY DEF Starts
  <2>2. SweepOwns(f)' <=> SweepOwns(f)
    BY DEF SweepOwns, WorksOn
  <2>3. RowHolds(f)'
    BY <2>1, <2>2, RowKept DEF Agree
  <2>. QED  BY <1>2, <2>3 DEF Agree, PodHolds, ReadyAt
<1>5. ASSUME NEW v \in Wakers, v # w  PROVE StartHolds(v)'
  <2>1. StartHolds(v) /\ wake'[v] = wake[v]
    BY <1>5 DEF Agree
  <2>2. wake[v].pc \in Starting => wake[v].ep # e
    BY <1>2, <1>5 DEF Starts
  <2>3. wake[v].pc # "idle" => wake[v].ep \in Endpoints
    BY InCall DEF Shape
  <2>. QED  BY <2>1, <2>2, <2>3 DEF StartHolds, ReadyAt, Starting, Waiting
<1>. QED  BY <1>1, <1>3, <1>4, <1>5 DEF Agree

-----------------------------------------------------------------------------
(***************************************************************************)
(* The sweep in the steady world                                           *)
(***************************************************************************)
\* A step of the sweep that concerns the row of one endpoint at most.
LEMMA SweepRowAgrees ==
  ASSUME Agree, NEW e \in Endpoints, db, UNCHANGED <<pods, wake, db>>,
         \A f \in Endpoints : f # e => rows'[f] = rows[f],
         \A f \in Endpoints : f # e => (SweepOwns(f)' <=> SweepOwns(f)),
         RowHolds(e)', PodHolds(e)', CopiesHold'
  PROVE  Agree'
<1>1. ServingHolds' /\ OwnIP'
  BY DEF Agree, ServingHolds, OwnIP
<1>2. ASSUME NEW f \in Endpoints, f # e  PROVE RowHolds(f)' /\ PodHolds(f)'
  <2>1. \A v \in Wakers : Starts(v, f)' <=> Starts(v, f)
    BY DEF Starts
  <2>2. RowHolds(f)'
    BY <1>2, <2>1, RowKept DEF Agree
  <2>. QED  BY <1>2, <2>2 DEF Agree, PodHolds, ReadyAt
<1>3. ASSUME NEW v \in Wakers  PROVE StartHolds(v)'
  BY StartKept DEF Agree
<1>. QED  BY <1>1, <1>2, <1>3 DEF Agree

\* A step that only looks, and owns the same endpoint before and after.
LEMMA LookAgrees ==
  ASSUME Agree, db, UNCHANGED <<rows, pods, wake, db>>, CopiesHold',
         \A f \in Endpoints : SweepOwns(f)' <=> SweepOwns(f)
  PROVE  Agree'
<1>1. ServingHolds' /\ OwnIP'
  BY DEF Agree, ServingHolds, OwnIP
<1>2. ASSUME NEW f \in Endpoints  PROVE RowHolds(f)' /\ PodHolds(f)'
  <2>1. \A v \in Wakers : Starts(v, f)' <=> Starts(v, f)
    BY DEF Starts
  <2>2. RowHolds(f)'
    BY <2>1, RowKept DEF Agree
  <2>. QED  BY <2>2 DEF Agree, PodHolds, ReadyAt
<1>3. ASSUME NEW v \in Wakers  PROVE StartHolds(v)'
  BY StartKept DEF Agree
<1>. QED  BY <1>1, <1>2, <1>3 DEF Agree

\* The sweep terminates or deletes the pod of the endpoint it owns.
LEMMA SweepPodAgrees ==
  ASSUME Shape, Agree, NEW e \in Endpoints, SweepOwns(e), db, UNCHANGED <<rows, wake, db>>,
         \A f \in Endpoints : f # e => pods'[f] = pods[f],
         \A f \in Endpoints : SweepOwns(f)' <=> SweepOwns(f),
         pods'[e].ip = pods[e].ip,
         pods[e].st \in {"none", "pending"} <=> pods'[e].st \in {"none", "pending"},
         pods'[e].term => pods'[e].st = "dead", CopiesHold'
  PROVE  Agree'
<1>1. ServingHolds' /\ OwnIP'
  BY DEF Agree, ServingHolds, OwnIP
<1>2. rows[e].state = "suspending" /\ \A v \in Wakers : ~Starts(v, e)
  BY DEF Agree, RowHolds
<1>3. ASSUME NEW f \in Endpoints  PROVE RowHolds(f)' /\ PodHolds(f)'
  <2>1. \A v \in Wakers : Starts(v, f)' <=> Starts(v, f)
    BY DEF Starts
  <2>2. RowHolds(f)'
    BY <2>1, RowKept DEF Agree
  <2>. QED  BY <1>2, <2>2 DEF Agree, PodHolds, ReadyAt
<1>4. ASSUME NEW v \in Wakers  PROVE StartHolds(v)'
  <2>1. StartHolds(v) /\ wake'[v] = wake[v]
    BY DEF Agree
  <2>2. wake[v].pc \in Starting => wake[v].ep # e
    BY <1>2 DEF Starts
  <2>3. wake[v].pc # "idle" => wake[v].ep \in Endpoints
    BY InCall DEF Shape
  <2>. QED  BY <2>1, <2>2, <2>3 DEF StartHolds, ReadyAt, Starting, Waiting
<1>. QED  BY <1>1, <1>3, <1>4 DEF Agree

LEMMA ListAgrees ==
  ASSUME SteadyWorld, Shape, Agree, ListEndpointsByState
  PROVE  Agree'
<1>1. UNCHANGED <<rows, pods, wake, db>> /\ sweep.pc = "idle" /\ phase = "serving"
  BY DEF ListEndpointsByState, startup, Serving
<1>2. db
  BY <1>1, DbIsUp DEF Agree
<1>. DEFINE T == {[ep |-> e, addr |-> rows[e].addr, past |-> FALSE] :
                    e \in {f \in Endpoints : Row(f)!InState("running")}}
<1>3. Onward(T)
  <2>1. PICK o \in {"ok", "call"} : /\ Statement(o)
                                    /\ IF o = "ok" THEN Onward(T) ELSE UNCHANGED sweep
    BY DEF ListEndpointsByState
  <2>2. o = "ok"
    BY <1>2, <2>1, CallsSucceed DEF Outcomes
  <2>. QED  BY <2>1, <2>2
<1>4. ASSUME NEW c \in T
      PROVE  c \in Copies /\ ReadyAt(c.ep, c.addr)
  <2>1. PICK e \in Endpoints : /\ Row(e)!InState("running")
                              /\ c = [ep |-> e, addr |-> rows[e].addr, past |-> FALSE]
    OBVIOUS
  <2>2. rows[e].state = "running" /\ rows[e].addr \in MaybeIP
    BY <2>1 DEF Row!InState, Shape, TypeOK, FleetRows
  <2>3. ReadyAt(e, rows[e].addr)
    BY <2>2 DEF Agree, PodHolds
  <2>. QED  BY <2>1, <2>2, <2>3 DEF Copies
<1>. HIDE DEF T
<1>5. T \in SUBSET Copies
  BY <1>4
<1>6. sweep'.todo = T /\ sweep'.pc \in {"idle", "visit"}
  BY <1>3, <1>5, OnwardGoes
<1>7. CopiesHold'
  BY <1>1, <1>4, <1>6 DEF CopiesHold, ReadyAt
<1>8. \A f \in Endpoints : SweepOwns(f)' <=> SweepOwns(f)
  BY <1>1, <1>6 DEF SweepOwns, WorksOn
<1>. QED  BY <1>1, <1>2, <1>7, <1>8, LookAgrees

LEMMA StatusAgrees ==
  ASSUME SteadyWorld, Shape, Agree, NEW c \in sweep.todo, Status(c)
  PROVE  Agree'
<1>1. UNCHANGED <<rows, pods, wake, db>> /\ sweep.pc = "visit"
  BY DEF Status, startup
<1>2. db
  BY <1>1, DbIsUp DEF Agree
<1>3. c \in Copies /\ c.ep \in Endpoints /\ ReadyAt(c.ep, c.addr)
  BY DEF Shape, TypeOK, Passes, Copies, Agree, CopiesHold
<1>4. Pod(c.ep)!PodExists /\ c.addr # NULL
  BY <1>3 DEF Pod!PodExists, ReadyAt, Agree, OwnIP
<1>5. sweep' = [pc |-> "fetch", todo |-> sweep.todo \ {c}, cur |-> c]
  BY <1>4, NoFaults DEF Status
<1>6. CopiesHold'
  BY <1>1, <1>3, <1>5 DEF CopiesHold, ReadyAt, Agree
<1>7. \A f \in Endpoints : SweepOwns(f)' <=> SweepOwns(f)
  BY <1>1, <1>5 DEF SweepOwns, WorksOn
<1>. QED  BY <1>1, <1>2, <1>6, <1>7, LookAgrees

LEMMA FetchAgrees ==
  ASSUME SteadyWorld, Shape, Agree, FetchLastActive
  PROVE  sweep'.pc = "hung" \/ Agree'
<1>1. UNCHANGED <<rows, pods, wake, db>> /\ sweep.pc = "fetch" /\ sweep.pc \in Working
  BY DEF FetchLastActive, startup, Working
<1>2. db
  BY <1>1, DbIsUp DEF Agree
<1>3. TypeOK /\ VisitsOnce
  BY DEF Shape
<1>4. CASE Onward(sweep.todo)
  <2>1. sweep'.todo = sweep.todo /\ sweep'.pc \in {"idle", "visit"}
    BY <1>3, <1>4, OnwardVisits
  <2>2. CopiesHold'
    BY <1>1, <2>1 DEF CopiesHold, ReadyAt, Agree
  <2>3. \A f \in Endpoints : SweepOwns(f)' <=> SweepOwns(f)
    BY <1>1, <2>1 DEF SweepOwns, WorksOn
  <2>. QED  BY <1>1, <1>2, <2>2, <2>3, LookAgrees
<1>5. CASE Goes("cas")
  <2>1. sweep'.todo = sweep.todo /\ sweep'.cur = sweep.cur /\ sweep'.pc = "cas"
    BY <1>1, <1>3, <1>5, GoesVisits DEF Working
  <2>2. CopiesHold'
    BY <1>1, <2>1 DEF CopiesHold, ReadyAt, Agree
  <2>3. \A f \in Endpoints : SweepOwns(f)' <=> SweepOwns(f)
    BY <1>1, <2>1 DEF SweepOwns, WorksOn
  <2>. QED  BY <1>1, <1>2, <2>2, <2>3, LookAgrees
<1>6. CASE Goes("hung")
  BY <1>1, <1>3, <1>6, GoesVisits
<1>. QED  BY <1>4, <1>5, <1>6 DEF FetchLastActive, Skip

LEMMA CasSuspendingAgrees ==
  ASSUME SteadyWorld, Shape, Agree, CasSuspending
  PROVE  Agree'
<1>1. UNCHANGED <<pods, wake, db>> /\ sweep.pc = "cas" /\ sweep.pc \in Working
  BY DEF CasSuspending, startup, Working
<1>2. TypeOK /\ VisitsOnce /\ db /\ CopiesHold
  BY <1>1, DbIsUp DEF Shape, Agree
<1>3. PICK e \in Endpoints : e = sweep.cur.ep /\ \A c \in sweep.todo : c.ep # e
  BY <1>1, <1>2, WorksAlone
<1>. DEFINE r == Row(e)!TransitionEndpoint("running", "suspending")
<1>4. /\ SetRow(e, r)
      /\ IF Row(e)!InState("running") THEN Goes("terminate") ELSE Onward(sweep.todo)
  <2>1. PICK o \in Outcomes :
           /\ Statement(o)
           /\ SetRow(e, After(o, r, rows[e]))
           /\ IF o = "ok" /\ Row(e)!InState("running") THEN Goes("terminate")
              ELSE IF o = "ok" THEN Onward(sweep.todo) ELSE Skip(sweep.todo)
    BY <1>3 DEF CasSuspending
  <2>2. o = "ok"
    BY <1>2, <2>1, CallsSucceed
  <2>. QED  BY <2>1, <2>2 DEF After
<1>5. /\ Row(e)!InState("running") <=> rows[e].state = "running"
      /\ r \in FleetRows
      /\ rows[e].state = "running" => r.state = "suspending" /\ r.stale = FALSE
      /\ rows[e].state # "running" => r = rows[e]
  BY <1>2, CasDoes DEF RowStates
<1>. HIDE DEF r
<1>6. /\ rows'[e].state = r.state /\ rows'[e].stale = r.stale
      /\ \A f \in Endpoints : f # e => rows'[f] = rows[f]
  BY <1>2, <1>4, <1>5, SetRowSets
<1>7. RowHolds(e) /\ ~SweepOwns(e) /\ ReadyAt(e, sweep.cur.addr)
  BY <1>1, <1>2, <1>3 DEF Agree, SweepOwns, WorksOn, CopiesHold
<1>8. \A v \in Wakers : Starts(v, e)' <=> Starts(v, e)
  BY <1>1 DEF Starts
<1>9. CASE rows[e].state = "running"
  <2>1. sweep'.todo = sweep.todo /\ sweep'.cur = sweep.cur /\ sweep'.pc = "terminate"
    BY <1>1, <1>2, <1>4, <1>5, <1>9, GoesVisits DEF Working
  <2>2. rows'[e].state = "suspending" /\ rows'[e].stale = FALSE
    BY <1>5, <1>6, <1>9
  <2>3. SweepOwns(e)' /\ \A f \in Endpoints : f # e => (SweepOwns(f)' <=> SweepOwns(f))
    BY <1>1, <1>3, <2>1 DEF SweepOwns, WorksOn
  <2>4. RowHolds(e)'
    BY <1>7, <1>8, <1>9, <2>2, <2>3 DEF RowHolds
  <2>5. PodHolds(e)'
    BY <1>1, <2>2 DEF Agree, PodHolds
  <2>6. CopiesHold'
    BY <1>1, <1>2, <2>1 DEF CopiesHold, ReadyAt
  <2>. QED  BY <1>1, <1>2, <1>6, <2>3, <2>4, <2>5, <2>6, SweepRowAgrees
<1>10. CASE rows[e].state # "running"
  <2>1. sweep'.todo = sweep.todo /\ sweep'.pc \in {"idle", "visit"}
    BY <1>2, <1>4, <1>5, <1>10, OnwardVisits
  <2>2. rows'[e].state = rows[e].state /\ rows'[e].stale = rows[e].stale
    BY <1>5, <1>6, <1>10
  <2>3. \A f \in Endpoints : SweepOwns(f)' <=> SweepOwns(f)
    BY <1>1, <2>1 DEF SweepOwns, WorksOn
  <2>4. RowHolds(e)'
    BY <1>7, <1>8, <2>2, <2>3, RowKept
  <2>5. PodHolds(e)'
    BY <1>1, <1>10, <2>2 DEF Agree, PodHolds
  <2>6. CopiesHold'
    BY <1>1, <1>2, <2>1 DEF CopiesHold, ReadyAt
  <2>. QED  BY <1>1, <1>2, <1>6, <2>3, <2>4, <2>5, <2>6, SweepRowAgrees
<1>. QED  BY <1>9, <1>10

\* Nobody else answers at the address in the copy.
LEMMA ListensItself ==
  ASSUME TypeOK, VisitsOnce, Agree, sweep.pc = "terminate"
  PROVE  /\ sweep.cur.ep \in Endpoints
         /\ Listening(sweep.cur.addr) = {sweep.cur.ep}
<1>1. PICK e \in Endpoints : e = sweep.cur.ep
  BY WorksAlone DEF Working
<1>2. ReadyAt(e, sweep.cur.addr) /\ OwnIP
  BY <1>1 DEF Agree, CopiesHold
<1>3. sweep.cur.addr # NULL /\ pods[e].ip = sweep.cur.addr /\ pods[e].st = "ready"
  BY <1>2 DEF ReadyAt, OwnIP
<1>4. \A f \in Endpoints : pods[f].ip = sweep.cur.addr => f = e
  BY <1>2, <1>3 DEF OwnIP
<1>. QED  BY <1>1, <1>3, <1>4, WhoListens

LEMMA TerminateAgrees ==
  ASSUME SteadyWorld, Shape, Agree, Terminate
  PROVE  sweep'.pc = "hung" \/ Agree'
<1>1. UNCHANGED <<rows, wake, db>> /\ sweep.pc = "terminate" /\ sweep.pc \in Working
  BY DEF Terminate, startup, Working
<1>2. TypeOK /\ VisitsOnce /\ db /\ CopiesHold
  BY <1>1, DbIsUp DEF Shape, Agree
<1>3. PICK e \in Endpoints : e = sweep.cur.ep /\ \A c \in sweep.todo : c.ep # e
  BY <1>1, <1>2, WorksAlone
<1>4. Listening(sweep.cur.addr) = {e}
  BY <1>1, <1>2, <1>3, ListensItself
<1>5. CASE Goes("hung")
  BY <1>1, <1>2, <1>5, GoesVisits
<1>6. CASE SetPod(e, [pods[e] EXCEPT !.st = "dead"]) /\ Goes("stop")
  <2>. DEFINE p == [pods[e] EXCEPT !.st = "dead"]
  <2>1. p \in FleetPods /\ p.st = "dead" /\ p.ip = pods[e].ip
    BY <1>2 DEF TypeOK, FleetPods
  <2>. HIDE DEF p
  <2>2. pods'[e] = p /\ \A f \in Endpoints : f # e => pods'[f] = pods[f]
    BY <1>2, <1>6, <2>1, SetPodSets DEF p
  <2>3. sweep'.todo = sweep.todo /\ sweep'.cur = sweep.cur /\ sweep'.pc = "stop"
    BY <1>1, <1>2, <1>6, GoesVisits DEF Working
  <2>4. SweepOwns(e) /\ \A f \in Endpoints : SweepOwns(f)' <=> SweepOwns(f)
    BY <1>1, <1>3, <2>3 DEF SweepOwns, WorksOn
  <2>5. \A c \in sweep.todo : c.ep \in Endpoints
    BY <1>2 DEF TypeOK, Passes, Copies
  <2>6. CopiesHold'
    BY <1>2, <1>3, <2>1, <2>2, <2>3, <2>5 DEF CopiesHold, ReadyAt
  <2>7. ReadyAt(e, sweep.cur.addr)
    BY <1>1, <1>2, <1>3 DEF CopiesHold
  <2>. QED  BY <1>1, <1>2, <2>1, <2>2, <2>4, <2>6, <2>7, SweepPodAgrees DEF ReadyAt
<1>. QED  BY <1>4, <1>5, <1>6, NoFaults DEF Terminate

LEMMA StopAgrees ==
  ASSUME SteadyWorld, Shape, Agree, Stop
  PROVE  Agree'
<1>1. UNCHANGED <<rows, wake, db>> /\ sweep.pc = "stop" /\ sweep.pc \in Working
  BY DEF Stop, startup, Working
<1>2. TypeOK /\ VisitsOnce /\ db /\ CopiesHold
  BY <1>1, DbIsUp DEF Shape, Agree
<1>3. PICK e \in Endpoints : e = sweep.cur.ep /\ \A c \in sweep.todo : c.ep # e
  BY <1>1, <1>2, WorksAlone
<1>4. SetPod(e, Pod(e)!DeletedPod) /\ Goes("release")
  BY <1>3, NoFaults DEF Stop, After
<1>5. PICK p \in FleetPods :
         /\ SetPod(e, p) /\ p.st = pods[e].st /\ p.ip = pods[e].ip
         /\ pods[e].st # "none" => p.term = TRUE
         /\ pods[e].st = "none" => p = pods[e]
  BY <1>2, <1>4, PodCallsDo
<1>6. pods'[e] = p /\ \A f \in Endpoints : f # e => pods'[f] = pods[f]
  BY <1>2, <1>5, SetPodSets
<1>7. sweep'.todo = sweep.todo /\ sweep'.cur = sweep.cur /\ sweep'.pc = "release"
  BY <1>1, <1>2, <1>4, GoesVisits DEF Working
<1>8. SweepOwns(e) /\ \A f \in Endpoints : SweepOwns(f)' <=> SweepOwns(f)
  BY <1>1, <1>3, <1>7 DEF SweepOwns, WorksOn
<1>9. pods[e].st \in {"none", "dead"}
  BY <1>1, <1>2, <1>3 DEF CopiesHold
<1>10. p.term => p.st = "dead"
  BY <1>5, <1>9 DEF Agree, PodHolds
<1>11. \A c \in sweep.todo : c.ep \in Endpoints
  BY <1>2 DEF TypeOK, Passes, Copies
<1>12. CopiesHold'
  BY <1>2, <1>3, <1>5, <1>6, <1>7, <1>9, <1>11 DEF CopiesHold, ReadyAt
<1>. QED  BY <1>1, <1>2, <1>5, <1>6, <1>8, <1>10, <1>12, SweepPodAgrees

LEMMA ReleaseAgrees ==
  ASSUME SteadyWorld, Shape, Agree, Release
  PROVE  Agree'
<1>1. UNCHANGED <<pods, wake, db>> /\ sweep.pc = "release" /\ sweep.pc \in Working
  BY DEF Release, SetSuspended, startup, Working
<1>2. TypeOK /\ VisitsOnce /\ db /\ CopiesHold
  BY <1>1, DbIsUp DEF Shape, Agree
<1>3. PICK e \in Endpoints : e = sweep.cur.ep /\ \A c \in sweep.todo : c.ep # e
  BY <1>1, <1>2, WorksAlone
<1>. DEFINE r == Row(e)!SetEndpointSuspended
<1>4. SetRow(e, r) /\ Onward(sweep.todo)
  <2>1. PICK o \in Outcomes :
           /\ Statement(o)
           /\ SetRow(e, After(o, r, rows[e]))
           /\ IF o = "ok" THEN Onward(sweep.todo) ELSE Skip(sweep.todo)
    BY <1>3 DEF Release, SetSuspended
  <2>2. o = "ok"
    BY <1>2, <2>1, CallsSucceed
  <2>. QED  BY <2>1, <2>2 DEF After
<1>5. r \in FleetRows /\ r.state = "suspended" /\ r.stale = FALSE
  BY <1>2, SetSuspendedDoes
<1>. HIDE DEF r
<1>6. /\ rows'[e].state = "suspended" /\ rows'[e].stale = FALSE
      /\ \A f \in Endpoints : f # e => rows'[f] = rows[f]
  BY <1>2, <1>4, <1>5, SetRowSets
<1>7. sweep'.todo = sweep.todo /\ sweep'.pc \in {"idle", "visit"}
  BY <1>2, <1>4, OnwardVisits
<1>8. SweepOwns(e) /\ RowHolds(e)
  BY <1>1, <1>3 DEF SweepOwns, WorksOn, Agree
<1>9. ~SweepOwns(e)' /\ \A f \in Endpoints : f # e => (SweepOwns(f)' <=> SweepOwns(f))
  BY <1>1, <1>3, <1>7 DEF SweepOwns, WorksOn
<1>10. \A v \in Wakers : Starts(v, e)' <=> Starts(v, e)
  BY <1>1 DEF Starts
<1>11. RowHolds(e)'
  BY <1>6, <1>8, <1>9, <1>10 DEF RowHolds
<1>12. PodHolds(e)'
  BY <1>1, <1>6 DEF Agree, PodHolds
<1>13. CopiesHold'
  BY <1>1, <1>2, <1>7 DEF CopiesHold, ReadyAt
<1>. QED  BY <1>1, <1>2, <1>6, <1>9, <1>11, <1>12, <1>13, SweepRowAgrees

LEMMA SweepAgrees ==
  ASSUME SteadyWorld, Shape, Agree, SweepStep
  PROVE  sweep'.pc = "hung" \/ Agree'
<1>1. ~ReconcileGone
  BY DEF ReconcileGone, SetSuspended, Agree, CopiesHold
<1>. QED  BY <1>1, ListAgrees, StatusAgrees, FetchAgrees, CasSuspendingAgrees, TerminateAgrees,
             StopAgrees, ReleaseAgrees DEF SweepStep

-----------------------------------------------------------------------------
(***************************************************************************)
(* Wake in the steady world                                                *)
(***************************************************************************)
\* A call that relies on nothing and owns nothing, before and after.
LEMMA AskAgrees ==
  ASSUME Agree, NEW w \in Wakers, db, UNCHANGED <<rows, pods, sweep, db>>,
         \A v \in Wakers : v # w => wake'[v] = wake[v],
         wake[w].pc \in {"idle", "read", "verify", "served"},
         wake'[w].pc \in {"idle", "read", "verify", "reconcile", "claim_suspended", "served"}
  PROVE  Agree'
<1>1. wake[w].pc \notin Starting /\ wake'[w].pc \notin Starting
  BY DEF Starting, Waiting
<1>2. StartHolds(w)'
  BY DEF StartHolds
<1>. QED  BY <1>1, <1>2, CallerAgrees

LEMMA AsksAgree ==
  ASSUME SteadyWorld, Shape, Agree, NEW w \in Wakers,
         Read(w) \/ VerifyRunning(w) \/ Leave(w) \/ \E e \in Endpoints : Call(w, e)
  PROVE  Agree'
<1>1. TypeOK /\ UNCHANGED <<rows, pods, sweep, db>>
  BY DEF Shape, Read, VerifyRunning, Leave, Call, startup
<1>2. CASE \E e \in Endpoints : Call(w, e)
  <2>1. PICK e \in Endpoints : Call(w, e)
    BY <1>2
  <2>2. db
    BY <2>1, DbIsUp DEF Call, Serving, Agree
  <2>3. wake'[w].pc = "read" /\ \A v \in Wakers : v # w => wake'[v] = wake[v]
    BY <1>1, <2>1 DEF Call, TypeOK
  <2>. QED  BY <1>1, <2>1, <2>2, <2>3, AskAgrees DEF Call
<1>3. CASE Leave(w)
  <2>1. wake[w].pc = "served" /\ Quits(w)
    BY <1>3 DEF Leave
  <2>2. db
    BY <2>1, DbIsUp DEF Agree
  <2>3. wake'[w].pc = "idle" /\ \A v \in Wakers : v # w => wake'[v] = wake[v]
    BY <1>1, <2>1, QuitsQuits, NoCallTyped
  <2>. QED  BY <1>1, <2>1, <2>2, <2>3, AskAgrees
<1>4. CASE Read(w)
  <2>1. wake[w].pc = "read"
    BY <1>4 DEF Read
  <2>2. db
    BY <2>1, DbIsUp DEF Agree
  <2>3. PICK e \in Endpoints : e = wake[w].ep
    BY <1>1, <2>1, InCall
  <2>4. rows[e] \in FleetRows /\ ~rows[e].stale
    BY <1>1 DEF TypeOK, Agree, RowHolds
  <2>5. CASE Holds(w, Decision(rows[e]), IF rows[e].state = "running" THEN rows[e].addr ELSE NULL)
    <3>1. Decision(rows[e]) \in {"verify", "read", "claim_suspended"}
      BY <2>4 DEF Decision, FleetRows
    <3>2. (IF rows[e].state = "running" THEN rows[e].addr ELSE NULL) \in MaybeIP
      BY <2>4 DEF FleetRows, MaybeIP
    <3>3. /\ wake'[w].pc \in {"verify", "read", "claim_suspended"}
          /\ \A v \in Wakers : v # w => wake'[v] = wake[v]
      BY <1>1, <2>1, <2>5, <3>1, <3>2, HoldsHolds DEF Calling, Deciding
    <3>. QED  BY <1>1, <2>1, <2>2, <3>3, AskAgrees
  <2>6. CASE Quits(w)
    <3>1. wake'[w].pc = "idle" /\ \A v \in Wakers : v # w => wake'[v] = wake[v]
      BY <1>1, <2>6, QuitsQuits, NoCallTyped
    <3>. QED  BY <1>1, <2>1, <2>2, <3>1, AskAgrees
  <2>. QED  BY <1>4, <2>3, <2>5, <2>6 DEF Read
<1>5. CASE VerifyRunning(w)
  <2>1. wake[w].pc = "verify"
    BY <1>5 DEF VerifyRunning
  <2>2. db
    BY <2>1, DbIsUp DEF Agree
  <2>3. /\ wake'[w].pc \in {"served", "reconcile", "idle"}
        /\ \A v \in Wakers : v # w => wake'[v] = wake[v]
    <3>1. CASE To(w, "served")
      BY <1>1, <2>1, <3>1, ToGoes DEF Calling
    <3>2. CASE Holds(w, "reconcile", NULL)
      BY <1>1, <2>1, <3>2, HoldsHolds DEF Calling, Deciding, MaybeIP
    <3>3. CASE Quits(w)
      BY <1>1, <3>3, QuitsQuits, NoCallTyped
    <3>. QED  BY <1>5, <3>1, <3>2, <3>3 DEF VerifyRunning
  <2>. QED  BY <1>1, <2>1, <2>2, <2>3, AskAgrees
<1>. QED  BY <1>2, <1>3, <1>4, <1>5

\* A CAS that wins or loses: only the winner changes the row.
CasResult(w, e, here, from, to, won, lost) ==
  /\ db /\ UNCHANGED <<pods, sweep, db>>
  /\ wake[w].pc = here /\ wake[w].ep = e /\ wake'[w].ep = e
  /\ \A v \in Wakers : v # w => wake'[v] = wake[v]
  /\ \A f \in Endpoints : f # e => rows'[f] = rows[f]
  /\ rows[e].state = from =>
       rows'[e].state = to /\ rows'[e].stale = FALSE /\ wake'[w].pc = won
  /\ rows[e].state # from =>
       /\ rows'[e].state = rows[e].state /\ rows'[e].stale = rows[e].stale
       /\ rows[e].state = "running" => rows'[e].addr = rows[e].addr
       /\ wake'[w].pc = lost

LEMMA CasSteps ==
  ASSUME SteadyWorld, Shape, Agree, NEW w \in Wakers, NEW here \in Deciding,
         NEW from \in RowStates, NEW to \in RowStates,
         NEW won \in CasTargets, NEW lost \in CasTargets, Cas(w, here, from, to, won, lost)
  PROVE  \E e \in Endpoints : CasResult(w, e, here, from, to, won, lost)
<1>1. /\ TypeOK /\ VisitsOnce /\ UNCHANGED <<pods, sweep, db>>
      /\ wake[w].pc = here /\ wake[w].pc # "idle"
  BY DEF Shape, Cas, startup, Deciding
<1>2. db
  BY <1>1, DbIsUp DEF Agree
<1>3. PICK e \in Endpoints : e = wake[w].ep
  BY <1>1, InCall
<1>. DEFINE r == Row(e)!TransitionEndpoint(from, to)
<1>4. SetRow(e, r) /\ To(w, IF Row(e)!InState(from) THEN won ELSE lost)
  <2>1. PICK o \in Outcomes :
           /\ Statement(o)
           /\ SetRow(e, After(o, r, rows[e]))
           /\ IF o = "ok" THEN To(w, IF Row(e)!InState(from) THEN won ELSE lost) ELSE Quits(w)
    BY <1>3 DEF Cas
  <2>2. o = "ok"
    BY <1>2, <2>1, CallsSucceed
  <2>. QED  BY <2>1, <2>2 DEF After
<1>5. /\ Row(e)!InState(from) <=> rows[e].state = from
      /\ r \in FleetRows
      /\ rows[e].state = from => r.state = to /\ r.stale = FALSE
      /\ rows[e].state # from => r = rows[e]
  BY <1>1, CasDoes
<1>. HIDE DEF r
<1>6. /\ rows'[e].state = r.state /\ rows'[e].stale = r.stale
      /\ r.state = "running" => rows'[e].addr = r.addr
      /\ \A f \in Endpoints : f # e => rows'[f] = rows[f]
  BY <1>1, <1>4, <1>5, SetRowSets
<1>7. won \in Calling /\ lost \in Calling
  BY DEF CasTargets, Calling, Deciding, Starting, Waiting
<1>8. To(w, IF rows[e].state = from THEN won ELSE lost)
  BY <1>4, <1>5
<1>9. /\ wake'[w].ep = wake[w].ep /\ \A v \in Wakers : v # w => wake'[v] = wake[v]
      /\ rows[e].state = from => wake'[w].pc = won
      /\ rows[e].state # from => wake'[w].pc = lost
  <2>1. CASE rows[e].state = from
    BY <1>1, <1>7, <1>8, <2>1, ToGoes
  <2>2. CASE rows[e].state # from
    BY <1>1, <1>7, <1>8, <2>2, ToGoes
  <2>. QED  BY <2>1, <2>2
<1>. QED  BY <1>1, <1>2, <1>3, <1>5, <1>6, <1>9 DEF CasResult

\* A lost CAS changes nothing but the caller's next call.
LEMMA LostAgrees ==
  ASSUME Shape, Agree, NEW w \in Wakers, NEW e \in Endpoints, wake[w].ep = e, db,
         UNCHANGED <<pods, sweep, db>>,
         \A f \in Endpoints : f # e => rows'[f] = rows[f],
         rows'[e].state = rows[e].state, rows'[e].stale = rows[e].stale,
         rows[e].state = "running" => rows'[e].addr = rows[e].addr,
         \A v \in Wakers : v # w => wake'[v] = wake[v],
         wake[w].pc \notin Starting, wake'[w].pc \in {"read", "claim_failed"}
  PROVE  Agree'
<1>1. wake'[w].pc \notin Starting
  BY DEF Starting, Waiting
<1>2. StartHolds(w)' /\ CopiesHold'
  BY DEF StartHolds, Agree, CopiesHold, ReadyAt
<1>3. \A f \in Endpoints : SweepOwns(f)' <=> SweepOwns(f)
  BY DEF SweepOwns, WorksOn
<1>4. \A v \in Wakers : Starts(v, e)' <=> Starts(v, e)
  BY <1>1 DEF Starts
<1>5. RowHolds(e)'
  BY <1>3, <1>4, RowKept DEF Agree
<1>6. PodHolds(e)'
  BY DEF Agree, PodHolds, ReadyAt
<1>. QED  BY <1>1, <1>2, <1>3, <1>5, <1>6, RowStepAgrees

\* The reconciling CAS, on whatever pod the row has by now.
LEMMA ReconcileAgrees ==
  ASSUME SteadyWorld, Shape, Agree, NEW w \in Wakers, Reconcile(w)
  PROVE  Agree'
<1>1. PICK e \in Endpoints :
         CasResult(w, e, "reconcile", "running", "suspended", "read", "read")
  <2>1. /\ "running" \in RowStates /\ "suspended" \in RowStates
        /\ "read" \in CasTargets /\ "reconcile" \in Deciding
    BY DEF RowStates, CasTargets, Deciding
  <2>2. Cas(w, "reconcile", "running", "suspended", "read", "read")
    BY DEF Reconcile
  <2>. QED  BY <2>1, <2>2, CasSteps
<1>2. /\ db /\ UNCHANGED <<pods, sweep, db>> /\ wake[w].pc = "reconcile"
      /\ wake[w].ep = e /\ wake'[w].pc = "read"
      /\ \A v \in Wakers : v # w => wake'[v] = wake[v]
      /\ \A f \in Endpoints : f # e => rows'[f] = rows[f]
  BY <1>1 DEF CasResult
<1>3. /\ rows[e].state = "running" => rows'[e].state = "suspended" /\ rows'[e].stale = FALSE
      /\ rows[e].state # "running" => /\ rows'[e].state = rows[e].state
                                      /\ rows'[e].stale = rows[e].stale
  BY <1>1 DEF CasResult
<1>4. wake[w].pc \notin Starting /\ wake'[w].pc \notin Starting
  BY <1>2 DEF Starting, Waiting
<1>5. CASE rows[e].state # "running"
  BY <1>2, <1>3, <1>4, <1>5, LostAgrees
<1>6. CASE rows[e].state = "running"
  <2>1. StartHolds(w)' /\ CopiesHold'
    BY <1>2 DEF StartHolds, Agree, CopiesHold, ReadyAt
  <2>2. \A f \in Endpoints : SweepOwns(f)' <=> SweepOwns(f)
    BY <1>2 DEF SweepOwns, WorksOn
  <2>3. \A v \in Wakers : Starts(v, e)' <=> Starts(v, e)
    BY <1>2, <1>4 DEF Starts
  <2>4. RowHolds(e)'
    BY <1>3, <1>6, <2>2, <2>3 DEF Agree, RowHolds
  <2>5. PodHolds(e)'
    BY <1>2, <1>3, <1>6 DEF Agree, PodHolds
  <2>. QED  BY <1>2, <1>4, <2>1, <2>2, <2>4, <2>5, RowStepAgrees
<1>. QED  BY <1>5, <1>6

\* The CAS that makes a waker the owner of a resting row.
LEMMA ClaimAgrees ==
  ASSUME SteadyWorld, Shape, Agree, NEW w \in Wakers, NEW here \in Deciding,
         NEW from \in {"suspended", "failed"}, NEW lost \in {"read", "claim_failed"},
         Cas(w, here, from, "starting", "start", lost)
  PROVE  Agree'
<1>1. PICK e \in Endpoints : CasResult(w, e, here, from, "starting", "start", lost)
  <2>1. /\ from \in RowStates /\ "starting" \in RowStates
        /\ "start" \in CasTargets /\ lost \in CasTargets
    BY DEF RowStates, CasTargets
  <2>. QED  BY <2>1, CasSteps
<1>2. /\ db /\ UNCHANGED <<pods, sweep, db>> /\ wake[w].pc = here
      /\ wake[w].ep = e /\ wake'[w].ep = e
      /\ \A v \in Wakers : v # w => wake'[v] = wake[v]
      /\ \A f \in Endpoints : f # e => rows'[f] = rows[f]
  BY <1>1 DEF CasResult
<1>3. /\ rows[e].state = from => /\ rows'[e].state = "starting" /\ rows'[e].stale = FALSE
                                 /\ wake'[w].pc = "start"
      /\ rows[e].state # from => /\ rows'[e].state = rows[e].state
                                 /\ rows'[e].stale = rows[e].stale
                                 /\ rows[e].state = "running" => rows'[e].addr = rows[e].addr
                                 /\ wake'[w].pc = lost
  BY <1>1 DEF CasResult
<1>4. wake[w].pc \notin Starting
  BY <1>2 DEF Deciding, Starting, Waiting
<1>5. CASE rows[e].state # from
  BY <1>2, <1>3, <1>4, <1>5, LostAgrees
<1>6. CASE rows[e].state = from
  <2>1. StartHolds(w)' /\ CopiesHold'
    BY <1>2, <1>3, <1>6 DEF StartHolds, Agree, CopiesHold, ReadyAt
  <2>2. \A f \in Endpoints : SweepOwns(f)' <=> SweepOwns(f)
    BY <1>2 DEF SweepOwns, WorksOn
  <2>3. Starts(w, e)'
    BY <1>2, <1>3, <1>6 DEF Starts, Starting
  <2>4. \A v \in Wakers : v # w => ~Starts(v, e)'
    <3>1. \A v \in Wakers : ~Starts(v, e)
      BY <1>6 DEF Agree, RowHolds
    <3>. QED  BY <1>2, <3>1 DEF Starts
  <2>5. ~SweepOwns(e)
    BY <1>6 DEF Agree, RowHolds
  <2>6. RowHolds(e)'
    BY <1>3, <1>6, <2>2, <2>3, <2>4, <2>5 DEF RowHolds
  <2>7. PodHolds(e)'
    BY <1>2, <1>3, <1>6 DEF Agree, PodHolds
  <2>. QED  BY <1>2, <2>1, <2>2, <2>6, <2>7, RowStepAgrees
<1>. QED  BY <1>5, <1>6

\* The steps of an owner begin from this.
LEMMA Owner ==
  ASSUME Shape, Agree, NEW w \in Wakers, wake[w].pc \in Starting
  PROVE  /\ TypeOK /\ VisitsOnce /\ db /\ CopiesHold /\ OwnIP /\ StartHolds(w)
         /\ wake[w].pc # "idle"
         /\ wake[w].ep \in Endpoints /\ wake[w].addr \in MaybeIP /\ Starts(w, wake[w].ep)
         /\ RowHolds(wake[w].ep) /\ PodHolds(wake[w].ep) /\ rows[wake[w].ep].state = "starting"
         /\ ~SweepOwns(wake[w].ep)
         /\ \A v \in Wakers : Starts(v, wake[w].ep) => v = w
<1>1. wake[w].pc # "idle" /\ TypeOK /\ VisitsOnce
  BY DEF Starting, Waiting, Shape
<1>2. db
  BY <1>1, DbIsUp DEF Agree
<1>3. wake[w].ep \in Endpoints /\ wake[w].addr \in MaybeIP /\ Starts(w, wake[w].ep)
  BY <1>1, InCall DEF Starts
<1>4. RowHolds(wake[w].ep) /\ PodHolds(wake[w].ep)
  BY <1>3 DEF Agree
<1>. QED  BY <1>1, <1>2, <1>3, <1>4, OneOwner DEF Agree

\* waitReady: what it sees is the pod of its own endpoint.
LEMMA WaitAgrees ==
  ASSUME SteadyWorld, Shape, Agree, NEW w \in Wakers, Poll(w) \/ Probe(w) \/ ReadyTimeout(w)
  PROVE  Agree'
<1>1. wake[w].pc \in Waiting /\ wake[w].pc \in Starting /\ UNCHANGED <<rows, pods, sweep, db>>
  BY DEF Poll, Probe, ReadyTimeout, startup, Waiting, Starting
<1>2. /\ TypeOK /\ db /\ OwnIP /\ StartHolds(w) /\ wake[w].pc # "idle"
      /\ wake[w].ep \in Endpoints /\ PodHolds(wake[w].ep)
  BY <1>1, Owner
<1>3. PICK e \in Endpoints : e = wake[w].ep
  BY <1>2
<1>4. /\ wake'[w].ep = wake[w].ep /\ wake'[w].pc \in Starting
      /\ \A v \in Wakers : v # w => wake'[v] = wake[v]
      /\ StartHolds(w)'
  <2>1. CASE Poll(w)
    <3>1. wake[w].pc = "poll" /\ pods[e].ip # NULL /\ Holds(w, "probe", pods[e].ip)
      BY <1>3, <2>1 DEF Poll
    <3>2. pods[e].ip \in MaybeIP
      BY <1>2 DEF TypeOK, FleetPods
    <3>3. /\ wake'[w].pc = "probe" /\ wake'[w].ep = wake[w].ep /\ wake'[w].addr = pods[e].ip
          /\ \A v \in Wakers : v # w => wake'[v] = wake[v]
      BY <1>2, <3>1, <3>2, HoldsHolds DEF Calling, Starting, Waiting
    <3>4. \A f \in Endpoints : pods[f].ip = pods[e].ip => f = e
      BY <1>2, <3>1 DEF OwnIP
    <3>. QED  BY <1>1, <1>3, <3>1, <3>3, <3>4 DEF StartHolds, Starting, Waiting
  <2>2. CASE Probe(w)
    <3>1. wake[w].pc = "probe"
      BY <2>2 DEF Probe
    <3>2. CASE Listening(wake[w].addr) # {} /\ To(w, "set")
      <4>1. PICK f \in Endpoints : pods[f].ip = wake[w].addr /\ pods[f].st = "ready"
        BY <1>2, <3>2, WhoListens
      <4>2. f = e
        BY <1>2, <1>3, <3>1, <4>1 DEF StartHolds
      <4>3. ReadyAt(e, wake[w].addr)
        BY <1>2, <1>3, <4>1, <4>2 DEF PodHolds, ReadyAt
      <4>4. /\ wake'[w].pc = "set" /\ wake'[w].ep = wake[w].ep /\ wake'[w].addr = wake[w].addr
            /\ \A v \in Wakers : v # w => wake'[v] = wake[v]
        BY <1>2, <3>2, ToGoes DEF Calling, Starting
      <4>. QED  BY <1>1, <1>3, <4>3, <4>4 DEF StartHolds, ReadyAt, Starting
    <3>3. CASE Holds(w, "poll", NULL)
      <4>1. /\ wake'[w].pc = "poll" /\ wake'[w].ep = wake[w].ep
            /\ \A v \in Wakers : v # w => wake'[v] = wake[v]
        BY <1>2, <3>3, HoldsHolds DEF Calling, Starting, Waiting, MaybeIP
      <4>. QED  BY <4>1 DEF StartHolds, Starting, Waiting
    <3>. QED  BY <2>2, <3>2, <3>3 DEF Probe
  <2>3. CASE ReadyTimeout(w)
    <3>1. Pod(e)!Doomed /\ To(w, "fail")
      BY <1>3, <2>3, NoFaults DEF ReadyTimeout
    <3>2. pods[e].st \in {"none", "dead"}
      BY <1>2, <1>3, <3>1, WhoIsDoomed DEF PodHolds
    <3>3. /\ wake'[w].pc = "fail" /\ wake'[w].ep = wake[w].ep
          /\ \A v \in Wakers : v # w => wake'[v] = wake[v]
      BY <1>2, <3>1, ToGoes DEF Calling, Starting
    <3>. QED  BY <1>1, <1>3, <3>2, <3>3 DEF StartHolds, Starting
  <2>. QED  BY <2>1, <2>2, <2>3
<1>. QED  BY <1>1, <1>2, <1>4, CallerAgrees

LEMMA StartAgrees ==
  ASSUME SteadyWorld, Shape, Agree, NEW w \in Wakers, Start(w)
  PROVE  Agree'
<1>1. wake[w].pc = "start" /\ wake[w].pc \in Starting /\ UNCHANGED <<rows, sweep, db>>
  BY DEF Start, startup, Starting
<1>2. PICK e \in Endpoints : e = wake[w].ep
  BY <1>1, Owner
<1>3. /\ TypeOK /\ db /\ OwnIP /\ wake[w].pc # "idle" /\ Starts(w, e) /\ PodHolds(e)
  BY <1>1, <1>2, Owner
<1>4. SetPod(e, Pod(e)!CreatedPod) /\ To(w, "poll")
  BY <1>2, <1>3, NoFaults DEF Start, After
<1>5. PICK p \in FleetPods :
         /\ SetPod(e, p)
         /\ pods[e].st # "none" => p = pods[e]
         /\ pods[e].st = "none" => p.st = "pending" /\ p.ip = NULL /\ p.term = FALSE
  BY <1>3, <1>4, PodCallsDo
<1>6. pods'[e] = p /\ \A f \in Endpoints : f # e => pods'[f] = pods[f]
  BY <1>3, <1>5, SetPodSets
<1>7. /\ wake'[w].pc = "poll" /\ wake'[w].ep = wake[w].ep
      /\ \A v \in Wakers : v # w => wake'[v] = wake[v]
  BY <1>3, <1>4, ToGoes DEF Calling, Starting, Waiting
<1>8. Starts(w, e)' /\ StartHolds(w)'
  BY <1>2, <1>7 DEF Starts, StartHolds, Starting, Waiting
<1>9. CASE pods[e].st # "none"
  <2>1. pods'[e] = pods[e]
    BY <1>5, <1>6, <1>9
  <2>2. pods'[e].term => pods'[e].st = "dead"
    BY <1>3, <2>1 DEF PodHolds
  <2>. QED  BY <1>1, <1>3, <1>6, <1>7, <1>8, <2>1, <2>2, PodStepAgrees
<1>10. CASE pods[e].st = "none"
  <2>1. pods[e].ip = NULL /\ pods'[e].ip = NULL /\ pods'[e].st = "pending" /\ ~pods'[e].term
    BY <1>3, <1>5, <1>6, <1>10 DEF OwnIP
  <2>. QED  BY <1>1, <1>3, <1>6, <1>7, <1>8, <1>10, <2>1, PodStepAgrees
<1>. QED  BY <1>9, <1>10

LEMMA FailAgrees ==
  ASSUME SteadyWorld, Shape, Agree, NEW w \in Wakers, Fail(w)
  PROVE  Agree'
<1>1. wake[w].pc = "fail" /\ wake[w].pc \in Starting /\ UNCHANGED <<rows, sweep, db>>
  BY DEF Fail, WakeStops, startup, Starting
<1>2. PICK e \in Endpoints : e = wake[w].ep
  BY <1>1, Owner
<1>3. /\ TypeOK /\ db /\ StartHolds(w) /\ wake[w].pc # "idle" /\ Starts(w, e) /\ PodHolds(e)
  BY <1>1, <1>2, Owner
<1>4. SetPod(e, Pod(e)!DeletedPod) /\ To(w, "mark")
  BY <1>2, NoFaults DEF Fail, WakeStops, After, Cost, Outcomes
<1>5. PICK p \in FleetPods :
         /\ SetPod(e, p) /\ p.st = pods[e].st /\ p.ip = pods[e].ip
         /\ pods[e].st # "none" => p.term = TRUE
         /\ pods[e].st = "none" => p = pods[e]
  BY <1>3, <1>4, PodCallsDo
<1>6. pods'[e] = p /\ \A f \in Endpoints : f # e => pods'[f] = pods[f]
  BY <1>3, <1>5, SetPodSets
<1>7. pods[e].st \in {"none", "dead"}
  BY <1>1, <1>2, <1>3 DEF StartHolds
<1>8. p.term => p.st = "dead"
  BY <1>3, <1>5, <1>7 DEF PodHolds
<1>9. /\ wake'[w].pc = "mark" /\ wake'[w].ep = wake[w].ep
      /\ \A v \in Wakers : v # w => wake'[v] = wake[v]
  BY <1>3, <1>4, ToGoes DEF Calling, Starting
<1>10. Starts(w, e)' /\ StartHolds(w)'
  BY <1>2, <1>5, <1>6, <1>9 DEF Starts, StartHolds, Starting
<1>. QED  BY <1>1, <1>3, <1>5, <1>6, <1>7, <1>8, <1>9, <1>10, PodStepAgrees

\* The owner gives up the row, which now names the state it leaves.
LEMMA OwnerEnds ==
  ASSUME Shape, Agree, NEW w \in Wakers, wake[w].pc \in Starting,
         NEW e \in Endpoints, e = wake[w].ep, UNCHANGED <<pods, db>>,
         \A f \in Endpoints : f # e => rows'[f] = rows[f],
         \A v \in Wakers : v # w => wake'[v] = wake[v],
         wake'[w].pc \in {"served", "idle"},
         rows'[e].state \in {"running", "failed"}, rows'[e].stale = FALSE,
         CopiesHold', \A f \in Endpoints : SweepOwns(f)' <=> SweepOwns(f),
         PodHolds(e)'
  PROVE  Agree'
<1>1. db /\ ~SweepOwns(e) /\ \A v \in Wakers : Starts(v, e) => v = w
  BY Owner
<1>2. wake'[w].pc \notin Starting /\ StartHolds(w)'
  BY DEF Starting, Waiting, StartHolds
<1>3. \A v \in Wakers : ~Starts(v, e)'
  BY <1>1, <1>2 DEF Starts
<1>4. RowHolds(e)'
  BY <1>1, <1>3 DEF RowHolds
<1>. QED  BY <1>1, <1>2, <1>4, RowStepAgrees

\* Copies of the sweep may be marked; the compute is at the address it had.
LEMMA SetRunningAgrees ==
  ASSUME SteadyWorld, Shape, Agree, NEW w \in Wakers, SetRunning(w)
  PROVE  Agree'
<1>1. wake[w].pc = "set" /\ wake[w].pc \in Starting /\ UNCHANGED <<pods, db>>
  BY DEF SetRunning, startup, Starting
<1>2. PICK e \in Endpoints : e = wake[w].ep
  BY <1>1, Owner
<1>3. /\ TypeOK /\ VisitsOnce /\ db /\ CopiesHold /\ StartHolds(w) /\ wake[w].pc # "idle"
      /\ wake[w].addr \in MaybeIP /\ PodHolds(e)
  BY <1>1, <1>2, Owner
<1>. DEFINE r == Row(e)!SetEndpointRunning(wake[w].addr)
<1>4. SetRow(e, r) /\ To(w, "served") /\ Outdated(e)
  <2>1. PICK o \in Outcomes :
           /\ Statement(o)
           /\ SetRow(e, After(o, r, rows[e]))
           /\ IF o = "ok" THEN To(w, "served") ELSE Holds(w, "fail", NULL)
           /\ IF o = "call" THEN UNCHANGED sweep ELSE Outdated(e)
    BY <1>2 DEF SetRunning
  <2>2. o = "ok"
    BY <1>3, <2>1, CallsSucceed
  <2>. QED  BY <2>1, <2>2 DEF After
<1>5. r \in FleetRows /\ r.state = "running" /\ r.addr = wake[w].addr /\ r.stale = FALSE
  BY <1>3, SetRunningDoes
<1>. HIDE DEF r
<1>6. /\ rows'[e].state = "running" /\ rows'[e].addr = wake[w].addr /\ rows'[e].stale = FALSE
      /\ \A f \in Endpoints : f # e => rows'[f] = rows[f]
  BY <1>3, <1>4, <1>5, SetRowSets
<1>7. wake'[w].pc = "served" /\ \A v \in Wakers : v # w => wake'[v] = wake[v]
  BY <1>3, <1>4, ToGoes DEF Calling
<1>8. /\ sweep'.pc = sweep.pc
      /\ \A c \in sweep'.todo : \E d \in sweep.todo : c.ep = d.ep /\ c.addr = d.addr
      /\ sweep.pc \in Working => sweep'.cur.ep = sweep.cur.ep /\ sweep'.cur.addr = sweep.cur.addr
  BY <1>3, <1>4, OutdatedMarks
<1>9. CopiesHold'
  <2>1. \A c \in sweep'.todo : ReadyAt(c.ep, c.addr)'
    BY <1>1, <1>3, <1>8 DEF CopiesHold, ReadyAt
  <2>. QED  BY <1>1, <1>3, <1>8, <2>1 DEF CopiesHold, ReadyAt, Working
<1>10. \A f \in Endpoints : SweepOwns(f)' <=> SweepOwns(f)
  BY <1>8 DEF SweepOwns, WorksOn, Working
<1>11. PodHolds(e)'
  BY <1>1, <1>2, <1>3, <1>6 DEF PodHolds, StartHolds, ReadyAt
<1>. QED  BY <1>1, <1>2, <1>6, <1>7, <1>9, <1>10, <1>11, OwnerEnds

LEMMA MarkFailedAgrees ==
  ASSUME SteadyWorld, Shape, Agree, NEW w \in Wakers, MarkFailed(w)
  PROVE  Agree'
<1>1. wake[w].pc = "mark" /\ wake[w].pc \in Starting /\ UNCHANGED <<pods, sweep, db>> /\ Quits(w)
  BY DEF MarkFailed, startup, Starting
<1>2. PICK e \in Endpoints : e = wake[w].ep
  BY <1>1, Owner
<1>3. TypeOK /\ db /\ CopiesHold /\ rows[e].state = "starting" /\ PodHolds(e)
  BY <1>1, <1>2, Owner
<1>. DEFINE r == Row(e)!TransitionEndpoint("starting", "failed")
<1>4. SetRow(e, r)
  <2>1. PICK o \in Outcomes : Statement(o) /\ SetRow(e, After(o, r, rows[e]))
    BY <1>2 DEF MarkFailed
  <2>2. o = "ok"
    BY <1>3, <2>1, CallsSucceed
  <2>. QED  BY <2>1, <2>2 DEF After
<1>5. r \in FleetRows /\ r.state = "failed" /\ r.stale = FALSE
  BY <1>3, CasDoes DEF RowStates
<1>. HIDE DEF r
<1>6. /\ rows'[e].state = "failed" /\ rows'[e].stale = FALSE
      /\ \A f \in Endpoints : f # e => rows'[f] = rows[f]
  BY <1>3, <1>4, <1>5, SetRowSets
<1>7. wake'[w].pc = "idle" /\ \A v \in Wakers : v # w => wake'[v] = wake[v]
  BY <1>1, <1>3, QuitsQuits, NoCallTyped
<1>8. CopiesHold' /\ \A f \in Endpoints : SweepOwns(f)' <=> SweepOwns(f)
  BY <1>1, <1>3 DEF CopiesHold, ReadyAt, SweepOwns, WorksOn
<1>9. PodHolds(e)'
  BY <1>1, <1>3, <1>6 DEF PodHolds
<1>. QED  BY <1>1, <1>2, <1>6, <1>7, <1>8, <1>9, OwnerEnds

LEMMA WakeAgrees ==
  ASSUME SteadyWorld, Shape, Agree, NEW w \in Wakers,
         WakeStep(w) \/ Leave(w) \/ \E e \in Endpoints : Call(w, e)
  PROVE  Agree'
<1>1. ~TakeStarting(w) /\ ~TakeSuspending(w) /\ ~Clear(w)
  BY DEF TakeStarting, TakeSuspending, Clear, Cas, WakeStops, Agree, StartHolds
<1>2. ASSUME ClaimSuspended(w) \/ ClaimFailed(w)  PROVE Agree'
  <2>1. "claim_suspended" \in Deciding /\ "claim_failed" \in Deciding
    BY DEF Deciding
  <2>. QED  BY <1>2, <2>1, ClaimAgrees DEF ClaimSuspended, ClaimFailed
<1>. QED  BY <1>1, <1>2, AsksAgree, ReconcileAgrees, WaitAgrees, StartAgrees, FailAgrees,
             SetRunningAgrees, MarkFailedAgrees DEF WakeStep

-----------------------------------------------------------------------------
(***************************************************************************)
(* The cluster and the clock in the steady world                           *)
(***************************************************************************)
LEMMA WorldKept ==
  ASSUME Agree, UNCHANGED <<rows, wake, sweep, db, phase>>, OwnIP', CopiesHold',
         \A e \in Endpoints : PodHolds(e)', \A w \in Wakers : StartHolds(w)'
  PROVE  Agree'
<1>1. ServingHolds'
  BY DEF Agree, ServingHolds
<1>2. ASSUME NEW e \in Endpoints  PROVE RowHolds(e)'
  <2>1. \A v \in Wakers : Starts(v, e)' <=> Starts(v, e)
    BY DEF Starts
  <2>2. SweepOwns(e)' <=> SweepOwns(e)
    BY DEF SweepOwns, WorksOn
  <2>. QED  BY <2>1, <2>2, RowKept DEF Agree
<1>. QED  BY <1>1, <1>2 DEF Agree

\* The endpoints that calls and copies are about.
LEMMA EndpointsOf ==
  ASSUME Shape
  PROVE  /\ \A w \in Wakers : wake[w].pc # "idle" => wake[w].ep \in Endpoints
         /\ \A c \in sweep.todo : c.ep \in Endpoints
         /\ sweep.pc \in {"fetch", "cas", "terminate", "stop", "release"} =>
              sweep.cur.ep \in Endpoints
BY InCall, WorksAlone DEF Shape, TypeOK, Passes, Copies, Working

LEMMA BootsAgrees ==
  ASSUME SteadyWorld, Shape, Agree, NEW e \in Endpoints, NEW ip \in IPs, Boots(e, ip)
  PROVE  Agree'
<1>1. /\ UNCHANGED <<rows, wake, sweep, db, phase>>
      /\ pods[e].st = "pending" /\ ~pods[e].term
      /\ Holders(ip) = {} /\ ~Probed(ip)
  BY NoFaults DEF Boots, startup
<1>. DEFINE p == [pods[e] EXCEPT !.st = "ready", !.ip = ip]
<1>2. p \in FleetPods /\ p.st = "ready" /\ p.ip = ip /\ p.term = pods[e].term
  BY DEF Shape, TypeOK, FleetPods, MaybeIP
<1>. HIDE DEF p
<1>3. /\ pods'[e].st = "ready" /\ pods'[e].ip = ip /\ ~pods'[e].term
      /\ \A f \in Endpoints : f # e => pods'[f] = pods[f]
  <2>1. SetPod(e, p)
    BY DEF Boots, p
  <2>. QED  BY <1>1, <1>2, <2>1, SetPodSets DEF Shape
<1>4. ip # NULL /\ \A f \in Endpoints : pods[f].ip # ip
  BY <1>1, NullAssumption DEF Holders
<1>5. OwnIP'
  BY <1>3, <1>4 DEF Agree, OwnIP
<1>6. CopiesHold'
  BY <1>1, <1>3, EndpointsOf DEF Agree, CopiesHold, ReadyAt
<1>7. ASSUME NEW f \in Endpoints  PROVE PodHolds(f)'
  BY <1>1, <1>3 DEF Agree, PodHolds, ReadyAt
<1>8. ASSUME NEW w \in Wakers  PROVE StartHolds(w)'
  <2>1. StartHolds(w) /\ wake'[w] = wake[w]
    BY <1>1 DEF Agree
  <2>2. wake[w].pc = "probe" => wake[w].addr # ip
    BY <1>1 DEF Probed
  <2>. QED  BY <1>1, <1>3, <2>1, <2>2, EndpointsOf DEF StartHolds, ReadyAt
<1>. QED  BY <1>1, <1>5, <1>6, <1>7, <1>8, WorldKept

LEMMA RemovedAgrees ==
  ASSUME SteadyWorld, Shape, Agree, NEW e \in Endpoints, Removed(e)
  PROVE  Agree'
<1>1. UNCHANGED <<rows, wake, sweep, db, phase>> /\ pods[e].term
  BY DEF Removed, startup
<1>2. /\ pods'[e].st = "none" /\ pods'[e].ip = NULL /\ ~pods'[e].term
      /\ \A f \in Endpoints : f # e => pods'[f] = pods[f]
  BY SetPodSets, NoPodTyped DEF Removed, Shape
<1>3. OwnIP'
  BY <1>2 DEF Agree, OwnIP
<1>4. CopiesHold'
  BY <1>1, <1>2, EndpointsOf DEF Agree, CopiesHold, ReadyAt
<1>5. ASSUME NEW f \in Endpoints  PROVE PodHolds(f)'
  BY <1>1, <1>2 DEF Agree, PodHolds, ReadyAt
<1>6. ASSUME NEW w \in Wakers  PROVE StartHolds(w)'
  <2>1. StartHolds(w) /\ wake'[w] = wake[w]
    BY <1>1 DEF Agree
  <2>. QED  BY <1>1, <1>2, <2>1, EndpointsOf DEF StartHolds, ReadyAt
<1>. QED  BY <1>1, <1>3, <1>4, <1>5, <1>6, WorldKept

\* An owner that is at work keeps its row from ageing.
LEMMA NeverAges ==
  ASSUME SteadyWorld, Agree, NEW e \in Endpoints
  PROVE  ~Ages(e)
<1>1. rows[e].state \in {"starting", "suspending"} => Attended(e)
  BY DEF Agree, RowHolds, Starts, SweepOwns, Attended, SteadyWorld
<1>. QED  BY <1>1, NoFaults DEF Ages

LEMMA GraceEndsAgrees ==
  ASSUME SteadyWorld, Shape, Agree, NEW e \in Endpoints, GraceEnds(e)
  PROVE  Agree'
<1>1. UNCHANGED <<wake, sweep, db, phase>> /\ TypeOK
  BY DEF GraceEnds, startup, Shape
<1>2. /\ \A f \in Endpoints : rows'[f].state = rows[f].state /\ rows'[f].stale = rows[f].stale
      /\ \A f \in Endpoints : rows[f].state = "running" => rows'[f].addr = rows[f].addr
  <2>. DEFINE r == [rows[e] EXCEPT !.grace = FALSE]
  <2>1. /\ r \in FleetRows /\ r.state = rows[e].state
        /\ r.stale = rows[e].stale /\ r.addr = rows[e].addr
    BY <1>1 DEF TypeOK, FleetRows
  <2>2. SetRow(e, r)
    BY DEF GraceEnds
  <2>. HIDE DEF r
  <2>. QED  BY <1>1, <2>1, <2>2, SetRowSets
<1>3. \A f \in Endpoints :
         pods'[f].st = pods[f].st /\ pods'[f].ip = pods[f].ip /\ pods'[f].term = pods[f].term
  <2>. DEFINE p == IF pods[e].st = "ready" THEN [pods[e] EXCEPT !.act = "old"] ELSE pods[e]
  <2>1. p \in FleetPods /\ p.st = pods[e].st /\ p.ip = pods[e].ip /\ p.term = pods[e].term
    BY <1>1 DEF TypeOK, FleetPods
  <2>2. SetPod(e, p)
    BY DEF GraceEnds
  <2>. HIDE DEF p
  <2>. QED  BY <1>1, <2>1, <2>2, SetPodSets
<1>4. ServingHolds' /\ OwnIP' /\ CopiesHold'
  BY <1>1, <1>3, EndpointsOf DEF Agree, ServingHolds, OwnIP, CopiesHold, ReadyAt
<1>5. ASSUME NEW f \in Endpoints  PROVE RowHolds(f)' /\ PodHolds(f)'
  <2>1. \A v \in Wakers : Starts(v, f)' <=> Starts(v, f)
    BY <1>1 DEF Starts
  <2>2. SweepOwns(f)' <=> SweepOwns(f)
    BY <1>1 DEF SweepOwns, WorksOn
  <2>3. RowHolds(f)'
    BY <1>2, <2>1, <2>2, RowKept DEF Agree
  <2>. QED  BY <1>2, <1>3, <2>3 DEF Agree, PodHolds, ReadyAt
<1>6. ASSUME NEW w \in Wakers  PROVE StartHolds(w)'
  <2>1. StartHolds(w) /\ wake'[w] = wake[w]
    BY <1>1 DEF Agree
  <2>. QED  BY <1>3, <2>1, EndpointsOf DEF StartHolds, ReadyAt
<1>. QED  BY <1>4, <1>5, <1>6 DEF Agree

LEMMA ProcessAgrees ==
  ASSUME Agree, Boot \/ Recovery
  PROVE  Agree'
<1>1. UNCHANGED <<rows, pods, wake, sweep>>
  BY DEF Boot, Recovery
<1>2. ServingHolds'
  BY <1>1 DEF Agree, ServingHolds, Boot, Recovery, Migrate, Restart, DatabaseBack
<1>3. OwnIP' /\ CopiesHold'
  BY <1>1 DEF Agree, OwnIP, CopiesHold, ReadyAt
<1>4. ASSUME NEW f \in Endpoints  PROVE RowHolds(f)' /\ PodHolds(f)'
  <2>1. /\ \A v \in Wakers : Starts(v, f)' <=> Starts(v, f)
        /\ SweepOwns(f)' <=> SweepOwns(f)
    BY <1>1 DEF Starts, SweepOwns, WorksOn
  <2>. QED  BY <1>1, <2>1, RowKept DEF Agree, PodHolds, ReadyAt
<1>5. ASSUME NEW w \in Wakers  PROVE StartHolds(w)'
  BY <1>1, StartKept DEF Agree
<1>. QED  BY <1>2, <1>3, <1>4, <1>5 DEF Agree

-----------------------------------------------------------------------------
(***************************************************************************)
(* The invariant.  A sweep that hangs stays hung, since in this world only *)
(* the end of the process would end it; from then on the shape is enough.  *)
(***************************************************************************)
LEMMA FleetInvInit == Init => FleetInv
<1>. SUFFICES ASSUME Init PROVE FleetInv
  OBVIOUS
<1>1. /\ NewRow \in FleetRows /\ NewRow.state = "suspended" /\ NewRow.stale = FALSE
      /\ \A e \in Endpoints : rows[e] = NewRow
  BY DEF Init, NewRow, FleetRows, MaybeIP
<1>2. \A e \in Endpoints : pods[e].st = "none" /\ pods[e].ip = NULL /\ pods[e].term = FALSE
  BY NoPodTyped DEF Init
<1>3. \A w \in Wakers : wake[w].pc = "idle"
  BY NoCallTyped DEF Init
<1>4. /\ sweep = Resting /\ sweep \in Passes
      /\ sweep.pc = "idle" /\ sweep.todo = {} /\ sweep.cur = Nothing
  BY DEF Init, Resting, Passes
<1>5. TypeOK /\ VisitsOnce
  BY <1>1, <1>4, NoPodTyped, NoCallTyped, NothingAssumption
  DEF Init, TypeOK, VisitsOnce, Working
<1>6. ServingHolds /\ OwnIP /\ CopiesHold
  BY <1>2, <1>4 DEF ServingHolds, OwnIP, CopiesHold, Init, StartupInit
<1>7. ASSUME NEW e \in Endpoints  PROVE RowHolds(e) /\ PodHolds(e)
  <2>1. (\A w \in Wakers : ~Starts(w, e)) /\ ~SweepOwns(e)
    BY <1>3, <1>4 DEF Starts, Starting, Waiting, SweepOwns, WorksOn
  <2>. QED  BY <1>1, <1>2, <2>1 DEF RowHolds, PodHolds
<1>8. ASSUME NEW w \in Wakers  PROVE StartHolds(w)
  BY <1>3 DEF StartHolds
<1>. QED  BY <1>5, <1>6, <1>7, <1>8 DEF FleetInv, Agree

LEMMA AgreeNext ==
  ASSUME SteadyWorld, Shape, Agree, [Next]_vars
  PROVE  sweep'.pc = "hung" \/ Agree'
<1>1. CASE UNCHANGED vars
  <2>1. UNCHANGED <<rows, pods, wake, sweep, db, phase>>
    BY <1>1 DEF vars
  <2>2. OwnIP' /\ CopiesHold' /\ \A e \in Endpoints : PodHolds(e)'
    BY <2>1 DEF Agree, OwnIP, CopiesHold, PodHolds, ReadyAt
  <2>3. \A w \in Wakers : StartHolds(w)'
    BY <2>1, StartKept DEF Agree
  <2>. QED  BY <2>1, <2>2, <2>3, WorldKept
<1>2. ASSUME NEW e \in Endpoints  PROVE ~ContainerExits(e) /\ ~NodeLost(e)
  BY NoFaults DEF ContainerExits, NodeLost
<1>3. ~Outage /\ ~Crash
  BY NoFaults DEF Outage, DatabaseFails, Crash
<1>. QED  BY <1>1, <1>2, <1>3, SweepAgrees, WakeAgrees, BootsAgrees, RemovedAgrees, NeverAges,
             GraceEndsAgrees, ProcessAgrees DEF Next

\* Only the sweep itself, and the end of the process, make it go on.
LEMMA OnlySweepGoesOn ==
  ASSUME [Next]_vars, sweep'.pc # sweep.pc
  PROVE  SweepStep \/ Crash
<1>1. ASSUME NEW w \in Wakers, WakeStep(w)  PROVE sweep'.pc = sweep.pc
  BY <1>1 DEF WakeStep, Read, VerifyRunning, Reconcile, ClaimSuspended, ClaimFailed, TakeStarting,
     TakeSuspending, Cas, Clear, Fail, WakeStops, Start, Poll, Probe, ReadyTimeout, SetRunning,
     Outdated, MarkFailed
<1>2. ASSUME NEW w \in Wakers, Leave(w) \/ \E e \in Endpoints : Call(w, e)  PROVE UNCHANGED sweep
  BY <1>2 DEF Leave, Call
<1>3. ASSUME NEW e \in Endpoints,
             \/ \E ip \in IPs : Boots(e, ip)
             \/ Removed(e) \/ ContainerExits(e) \/ NodeLost(e) \/ Ages(e) \/ GraceEnds(e)
      PROVE  UNCHANGED sweep
  BY <1>3 DEF Boots, Removed, ContainerExits, NodeLost, Ages, GraceEnds
<1>4. CASE Boot \/ Outage \/ Recovery \/ UNCHANGED vars
  BY <1>4 DEF Boot, Outage, Recovery, vars
<1>. QED  BY <1>1, <1>2, <1>3, <1>4 DEF Next

LEMMA HungStays ==
  ASSUME SteadyWorld, sweep.pc = "hung", [Next]_vars
  PROVE  sweep'.pc = "hung"
<1>1. ~SweepStep /\ ~Crash
  BY NoFaults DEF SweepStep, ListEndpointsByState, Status, ReconcileGone, Release, SetSuspended,
     FetchLastActive, CasSuspending, Terminate, Stop, Crash
<1>. QED  BY <1>1, OnlySweepGoesOn

LEMMA FleetInvNext ==
  ASSUME SteadyWorld
  PROVE  FleetInv /\ [Next]_vars => FleetInv'
<1>. SUFFICES ASSUME FleetInv, [Next]_vars PROVE FleetInv'
  OBVIOUS
<1>1. Shape /\ Shape'
  BY ShapeNext DEF FleetInv, Shape
<1>2. sweep'.pc = "hung" \/ Agree'
  BY <1>1, AgreeNext, HungStays DEF FleetInv
<1>. QED  BY <1>1, <1>2 DEF FleetInv, Shape

\* In a steady world, rows, owners, pods and the sweep's copies agree for any
\* number of endpoints and of concurrent wakers, as long as the sweep does not
\* hang (wake.go and suspend.go: the row is changed before the pod is touched).
THEOREM FleetAgrees ==
  ASSUME SteadyWorld
  PROVE  Spec => []FleetInv
<1>1. Init => FleetInv
  BY FleetInvInit
<1>2. FleetInv /\ [Next]_vars => FleetInv'
  BY FleetInvNext
<1>. QED  BY <1>1, <1>2, PTL DEF Spec

\* In a steady world, the compute that the sweep terminates, at an address
\* from a copy that may be of an earlier start, is that of the endpoint it is
\* working on (suspend.go, sweepOne).
THEOREM SweepKillsItsOwn ==
  ASSUME SteadyWorld
  PROVE  Spec => RightCompute
<1>1. FleetInv /\ [Next]_vars => [KillsItsOwn]_vars
  <2>. SUFFICES ASSUME FleetInv, Next, NEW f \in Endpoints, Kills(f)
                PROVE  f = sweep.cur.ep
    BY DEF KillsItsOwn
  <2>1. /\ sweep.pc = "terminate" /\ sweep'.pc = "stop" /\ pods'[f] # pods[f]
        /\ TypeOK /\ VisitsOnce /\ Agree
    BY DEF Kills, FleetInv
  <2>2. Terminate
    <3>1. ~Crash
      BY <2>1 DEF Crash, Resting
    <3>. QED
      BY <2>1, <3>1, OnlySweepGoesOn DEF SweepStep, ListEndpointsByState, Status, ReconcileGone,
         Release, SetSuspended, FetchLastActive, CasSuspending, Stop
  <2>3. sweep.cur.ep \in Endpoints /\ Listening(sweep.cur.addr) = {sweep.cur.ep}
    BY <2>1, ListensItself
  <2>4. SetPod(sweep.cur.ep, [pods[sweep.cur.ep] EXCEPT !.st = "dead"])
    BY <2>1, <2>2, <2>3 DEF Terminate
  <2>. QED  BY <2>1, <2>3, <2>4 DEF SetPod, TypeOK
<1>2. Spec => []FleetInv
  BY FleetAgrees
<1>. QED  BY <1>1, <1>2, PTL DEF Spec, RightCompute
=============================================================================
