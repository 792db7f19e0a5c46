----------------------------- MODULE RacesProofs -----------------------------
(***************************************************************************)
(* Proof that races alone leave the state database and the pageserver in   *)
(* agreement (RacesAgree of Provisioning), for any number of requests,     *)
(* branches and names.  InStep is inductive as long as nothing fails: for  *)
(* each disagreement of the two stores it names the request that is about  *)
(* to repair it, so when no request is left there is no disagreement.      *)
(***************************************************************************)
EXTENDS ProvisioningProofs

\* A step that leaves faults at 0 is one in which every call succeeds.
LEMMA NothingFails ==
  ASSUME faults \in Nat, faults' = 0
  PROVE  /\ \A k : ~Charge(k)
         /\ \A o \in Outcomes : Cost(o) => o = "ok"
BY DEF Charge, Cost, Outcomes

\* Whoever else was at work on a branch still is.
LEMMA OthersAtWork ==
  ASSUME NEW r \in Reqs, NEW b \in Branches, NEW S, OnTarget(b, S),
         \A s \in Reqs : s # r => req'[s] = req[s],
         req[r].tgt # b \/ req[r].pc \notin S
  PROVE  OnTarget(b, S)'
BY DEF OnTarget, Doing

\* Where a request is that others count on.
Watched == {"insert_project", "insert_branch", "drop_timeline", "drop_poll", "del_poll", "del_row"}

LEMMA BranchesStay ==
  ASSUME InStep, NEW r \in Reqs,
         \A s \in Reqs : s # r => req'[s] = req[s],
         req[r].pc \notin Watched,
         rows' = rows, tl' = tl, tenant' = tenant, rows \subseteq Branches
  PROVE  StorageInStep' /\ RowsInStep'
<1>1. ASSUME NEW b \in Branches, NEW S \in SUBSET Watched, OnTarget(b, S)
      PROVE  OnTarget(b, S)'
  <2>1. req[r].pc \notin S
    OBVIOUS
  <2>. QED  BY <1>1, <2>1, OthersAtWork
<1>2. /\ {"insert_project", "insert_branch", "drop_timeline"} \in SUBSET Watched
      /\ {"drop_poll"} \in SUBSET Watched /\ {"del_poll"} \in SUBSET Watched
      /\ {"del_poll", "del_row"} \in SUBSET Watched
  BY DEF Watched
<1>3. StorageInStep'
  BY <1>1, <1>2 DEF InStep, StorageInStep
<1>4. RowsInStep'
  BY <1>1, <1>2 DEF InStep, RowsInStep
<1>. QED  BY <1>3, <1>4

\* Where a request is that accounts for a project without tenant, or for a
\* tenant without project.
Half == {"timeline", "insert_project", "del_project"}

LEMMA ProjectStays ==
  ASSUME InStep, NEW r \in Reqs,
         \A s \in Reqs : s # r => req'[s] = req[s],
         req[r].pc \notin Half, req'[r].pc \notin Half,
         rows' # {} => rows # {} \/ project,
         promised \subseteq promised',
         UNCHANGED <<project, tenant>>
  PROVE  ProjectInStep'
<1>1. (\E s \in Reqs : Doing(s, {"timeline", "insert_project"}))'
        <=> \E s \in Reqs : Doing(s, {"timeline", "insert_project"})
  BY DEF Doing, Half
<1>2. (\E s \in Reqs : At(s, "del_project")) => (\E s \in Reqs : At(s, "del_project"))'
  BY DEF At, Half
<1>3. Known => Known'
  BY DEF Known
<1>. QED  BY <1>1, <1>2, <1>3 DEF InStep, ProjectInStep

\* A creator that goes on, or ends.
LEMMA ChildlessOnward ==
  ASSUME ProvisioningInv, InStep, NEW r \in Reqs, NEW l \in Pcs, Moved(r, l),
         Follows(req[r].pc, l), l # "drop_tenant",
         \A b \in Branches : anc'[b] \in {anc[b], req[r].par},
         \/ rows' \subseteq rows
         \/ /\ Doing(r, CreatePc) /\ l = "idle"
            /\ rows' \subseteq rows \cup {req[r].tgt}
  PROVE  Childless'
<1>. USE DEF Doing, Moved
<1>1. ASSUME NEW s \in Reqs, Doing(s, CreatePc)'
      PROVE  /\ Doing(s, CreatePc) /\ req'[s].tgt = req[s].tgt /\ req'[s].pc # "drop_tenant"
             /\ req[s].tgt \in Branches /\ req[s].tgt \notin rows'
  <2>1. Doing(s, CreatePc) /\ req'[s].tgt = req[s].tgt
    BY <1>1 DEF Follows, CreatePc, MainPc, BranchPc
  <2>2. req'[s].pc # "drop_tenant"
    BY <2>1 DEF InStep, Childless, At
  <2>3. req[s].tgt \in Branches
    BY <2>1, MainAssumption DEF ProvisioningInv, Targets, CreatePc
  <2>4. req[s].tgt \notin rows'
    BY <1>1, <2>1 DEF InStep, Childless, ProvisioningInv, FreshIds, CreatePc, MainPc, BranchPc
  <2>. QED  BY <2>1, <2>2, <2>3, <2>4
<1>2. ASSUME NEW s \in Reqs, NEW t \in Reqs, Doing(t, CreatePc)
      PROVE  /\ req'[s].par # req[t].tgt
             /\ Doing(s, RemovePc)' => req'[s].tgt # req[t].tgt
  <2>1. req[t].tgt # NoBranch
    BY <1>2, MainAssumption, NoBranchAssumption DEF ProvisioningInv, Targets, CreatePc
  <2>2. req'[s].par # req[t].tgt
    BY <1>2, <2>1 DEF InStep, Childless
  <2>3. Doing(s, RemovePc)' => Doing(s, RemovePc) /\ req'[s].tgt = req[s].tgt
    BY DEF Follows, RemovePc
  <2>. QED  BY <1>2, <2>2, <2>3 DEF InStep, Childless
<1>3. ASSUME NEW b \in Branches, NEW t \in Reqs, Doing(t, CreatePc) PROVE anc'[b] # req[t].tgt
  BY <1>3 DEF InStep, Childless
<1>. QED  BY <1>1, <1>2, <1>3 DEF Childless, At

\* Requests that read, or that end where nobody counts on them.
LEMMA QuietInStep ==
  ASSUME ProvisioningInv, InStep, NEW r \in Reqs,
         req[r].pc \in ReadPc \cup {"idle"}, req'[r].pc \in ReadPc \cup {"idle"},
         req'[r].par \in {req[r].par, NoBranch},
         \A s \in Reqs : s # r => req'[s] = req[s],
         UNCHANGED <<db, storage, used, history>>
  PROVE  InStep'
<1>1. UNCHANGED <<project, rows, tenant, tl, anc, promised>>
  BY DEF db, storage, history
<1>2. /\ req[r].pc \notin Watched /\ req[r].pc \notin Half /\ req'[r].pc \notin Half
      /\ req'[r].pc \notin CreatePc /\ req'[r].pc \notin RemovePc
  BY DEF ReadPc, Watched, Half, CreatePc, MainPc, BranchPc, RemovePc
<1>3. StorageInStep' /\ RowsInStep'
  BY <1>1, <1>2, BranchesStay DEF ProvisioningInv, TypeOK
<1>4. ProjectInStep'
  BY <1>1, <1>2, ProjectStays
<1>5. Childless'
  <2>1. ASSUME NEW t \in Reqs, Doing(t, CreatePc) PROVE req[t].tgt # NoBranch
    BY <2>1, MainAssumption, NoBranchAssumption DEF ProvisioningInv, Targets, CreatePc, Doing
  <2>. QED  BY <1>1, <1>2, <2>1 DEF InStep, Childless, Doing, At
<1>. QED  BY <1>3, <1>4, <1>5 DEF InStep

-----------------------------------------------------------------------------
(***************************************************************************)
(* createProject                                                           *)
(***************************************************************************)
\* Before the project is promised there is no row.
LEMMA NothingYet ==
  ASSUME ProvisioningInv, InStep, NEW r \in Reqs, Doing(r, MainPc)
  PROVE  ~project /\ rows = {} /\ promised = {}
BY MainAlone DEF InStep, ProjectInStep, Known

LEMMA CreateProjectInStep ==
  ASSUME ProvisioningInv, InStep, NEW r \in Reqs, CreateProject(r)
  PROVE  InStep'
<1>1. /\ UNCHANGED <<project, rows, tenant, tl, anc, promised>> /\ Main \notin used
      /\ Enter(r, "attach", Main, NoBranch)
  BY DEF CreateProject, db, storage, history
<1>2. "attach" \in Pcs
  BY DEF Pcs, CreatePc, MainPc
<1>3. Entered(r, "attach", Main, NoBranch)
  BY <1>1, <1>2, Enters, MainAssumption DEF ProvisioningInv
<1>4. StorageInStep' /\ RowsInStep'
  BY <1>1, <1>3, BranchesStay DEF Entered, Watched, ProvisioningInv, TypeOK
<1>5. ProjectInStep'
  BY <1>1, <1>3, ProjectStays DEF Entered, Half
<1>6. /\ Main \notin rows /\ Main # NoBranch
      /\ \A s \in Reqs : req[s].par # Main /\ (Doing(s, RemovePc) => req[s].tgt # Main)
      /\ \A b \in Branches : anc[b] # Main
  BY <1>1, MainAssumption, NoBranchAssumption DEF ProvisioningInv, FreshIds
<1>7. ASSUME NEW t \in Reqs, Doing(t, CreatePc) PROVE req[t].tgt # NoBranch
  BY <1>7, MainAssumption, NoBranchAssumption DEF ProvisioningInv, Targets, CreatePc, Doing
<1>8. Childless'
  BY <1>1, <1>3, <1>6, <1>7 DEF InStep, Childless, Entered, Doing, At, RemovePc
<1>. QED  BY <1>4, <1>5, <1>8 DEF InStep

LEMMA AttachTenantInStep ==
  ASSUME ProvisioningInv, InStep, faults' = 0, NEW r \in Reqs, AttachTenant(r)
  PROVE  InStep'
<1>1. /\ tenant' = TRUE /\ Goto(r, "timeline") /\ req[r].pc = "attach"
      /\ UNCHANGED <<project, rows, tl, anc, promised>>
  BY NothingFails DEF AttachTenant, After, At, db, history, ProvisioningInv, TypeOK
<1>2. "timeline" \in Pcs /\ Follows(req[r].pc, "timeline") /\ Moved(r, "timeline")
  BY <1>1, Order, Moves DEF ProvisioningInv
<1>3. ~project /\ rows = {}
  BY <1>1, NothingYet DEF Doing, MainPc
<1>4. Childless'
  BY <1>1, <1>2, ChildlessOnward
<1>5. ProjectInStep'
  BY <1>1, <1>2, <1>3 DEF ProjectInStep, Moved, Doing
<1>6. RowsInStep'
  BY <1>1, <1>3 DEF RowsInStep
<1>7. StorageInStep'
  BY <1>1, <1>2, OthersAtWork DEF InStep, StorageInStep, Moved
<1>. QED  BY <1>4, <1>5, <1>6, <1>7 DEF InStep

LEMMA CreateTimelineInStep ==
  ASSUME ProvisioningInv, InStep, faults' = 0, NEW r \in Reqs, CreateTimeline(r)
  PROVE  InStep'
<1>1. /\ tl' = [tl EXCEPT ![Main] = "active"] /\ Goto(r, "insert_project")
      /\ req[r].pc = "timeline"
      /\ UNCHANGED <<project, rows, tenant, anc, promised>>
  BY NothingFails DEF CreateTimeline, After, At, db, history, ProvisioningInv, TypeOK
<1>2. "insert_project" \in Pcs /\ Follows(req[r].pc, "insert_project") /\ Moved(r, "insert_project")
  BY <1>1, Order, Moves DEF ProvisioningInv
<1>3. ~project /\ rows = {} /\ req[r].tgt = Main
  BY <1>1, NothingYet, MainAlone DEF Doing, MainPc
<1>4. Childless'
  BY <1>1, <1>2, ChildlessOnward
<1>5. ProjectInStep'
  BY <1>1, <1>2, <1>3 DEF InStep, ProjectInStep, Moved, Doing
<1>6. RowsInStep'
  BY <1>1, <1>3 DEF RowsInStep
<1>7. StorageInStep'
  <2>1. OnTarget(Main, {"insert_project", "insert_branch", "drop_timeline"})' /\ tl'[Main] = "active"
    BY <1>1, <1>2, <1>3, MainAssumption DEF OnTarget, Moved, Doing, ProvisioningInv, TypeOK
  <2>2. \A b \in Branches : b # Main => tl'[b] = tl[b]
    BY <1>1 DEF ProvisioningInv, TypeOK
  <2>. QED  BY <1>1, <1>2, <2>1, <2>2, OthersAtWork DEF InStep, StorageInStep, Moved
<1>. QED  BY <1>4, <1>5, <1>6, <1>7 DEF InStep

LEMMA InsertProjectInStep ==
  ASSUME ProvisioningInv, InStep, faults' = 0, NEW r \in Reqs, InsertProject(r)
  PROVE  InStep'
<1>1. /\ project' = TRUE /\ rows' = rows \cup {Main} /\ promised' = promised \cup {Main}
      /\ Goto(r, "idle") /\ req[r].pc = "insert_project"
      /\ UNCHANGED <<tenant, tl, anc>>
  BY NothingFails DEF InsertProject, After, At, storage, ProvisioningInv, TypeOK
<1>2. "idle" \in Pcs /\ Follows(req[r].pc, "idle") /\ Moved(r, "idle")
  BY <1>1, Order, Moves DEF ProvisioningInv
<1>3. /\ ~project /\ rows = {} /\ req[r].tgt = Main /\ tl[Main] = "active"
      /\ \A s \in Reqs : s # r => ~Doing(s, CreatePc)
  BY <1>1, NothingYet, MainAlone DEF Doing, MainPc, ProvisioningInv, Staged, At
<1>4. Doing(r, CreatePc)
  BY <1>1 DEF Doing, CreatePc, MainPc
<1>5. Childless'
  BY <1>1, <1>2, <1>3, <1>4, ChildlessOnward
<1>6. tenant
  BY <1>1, <1>3 DEF InStep, ProjectInStep, Doing
<1>7. ProjectInStep'
  <2>1. \A s \in Reqs : req'[s].pc \notin {"timeline", "insert_project"}
    BY <1>2, <1>3 DEF Moved, Doing, CreatePc, MainPc
  <2>. QED  BY <1>1, <1>6, <2>1 DEF ProjectInStep, Known, Doing
<1>8. RowsInStep'
  BY <1>1, <1>3 DEF RowsInStep
<1>9. StorageInStep'
  BY <1>1, <1>2, <1>3, OthersAtWork DEF InStep, StorageInStep, Moved
<1>. QED  BY <1>5, <1>7, <1>8, <1>9 DEF InStep

-----------------------------------------------------------------------------
(***************************************************************************)
(* createBranch                                                            *)
(***************************************************************************)
LEMMA CreateBranchInStep ==
  ASSUME ProvisioningInv, InStep, NEW r \in Reqs, CreateBranch(r)
  PROVE  InStep'
<1>1. PICK b \in Branches \ (used \cup {Main}), p \in rows : Enter(r, "ingest", b, p)
  BY DEF CreateBranch
<1>2. UNCHANGED <<project, rows, tenant, tl, anc, promised>>
  BY DEF CreateBranch, db, storage, history
<1>3. "ingest" \in Pcs /\ p \in Branches /\ p \in used
  BY DEF Pcs, CreatePc, BranchPc, ProvisioningInv, TypeOK, FreshIds
<1>4. Entered(r, "ingest", b, p)
  BY <1>1, <1>3, Enters DEF ProvisioningInv
<1>5. StorageInStep' /\ RowsInStep'
  BY <1>2, <1>4, BranchesStay DEF Entered, Watched, ProvisioningInv, TypeOK
<1>6. ProjectInStep'
  BY <1>2, <1>4, ProjectStays DEF Entered, Half
<1>7. /\ b \notin rows /\ b # NoBranch /\ b # p
      /\ \A s \in Reqs : req[s].par # b /\ (Doing(s, RemovePc) => req[s].tgt # b)
      /\ \A c \in Branches : anc[c] # b
  BY <1>3, NoBranchAssumption DEF ProvisioningInv, FreshIds
<1>8. \A t \in Reqs : Doing(t, CreatePc) => req[t].tgt # p
  BY DEF InStep, Childless
<1>9. Childless'
  BY <1>2, <1>4, <1>7, <1>8 DEF InStep, Childless, Entered, Doing, At, RemovePc
<1>. QED  BY <1>5, <1>6, <1>9 DEF InStep

LEMMA WaitIngestedInStep ==
  ASSUME ProvisioningInv, InStep, faults' = 0, NEW r \in Reqs, WaitIngested(r)
  PROVE  InStep'
<1>1. PICK l \in {"branch", "idle"} : Goto(r, l)
  BY DEF WaitIngested
<1>2. req[r].pc = "ingest" /\ UNCHANGED <<project, rows, tenant, tl, anc, promised>>
  BY DEF WaitIngested, At, db, storage, history
<1>3. l \in Pcs /\ Follows(req[r].pc, l) /\ Moved(r, l)
  BY <1>1, <1>2, Order, Moves DEF ProvisioningInv
<1>4. StorageInStep' /\ RowsInStep'
  BY <1>2, <1>3, BranchesStay DEF Moved, Watched, ProvisioningInv, TypeOK
<1>5. ProjectInStep'
  BY <1>1, <1>2, <1>3, ProjectStays DEF Moved, Half
<1>6. Childless'
  BY <1>1, <1>2, <1>3, ChildlessOnward
<1>. QED  BY <1>4, <1>5, <1>6 DEF InStep

LEMMA CreateBranchAtLSNInStep ==
  ASSUME ProvisioningInv, InStep, faults' = 0, NEW r \in Reqs, CreateBranchAtLSN(r)
  PROVE  InStep'
<1>1. /\ req[r].pc = "branch"
      /\ UNCHANGED <<project, rows, tenant, promised>>
      /\ IF CanBranch(r)
         THEN /\ tl' = [tl EXCEPT ![req[r].tgt] = "active"]
              /\ anc' = [anc EXCEPT ![req[r].tgt] = req[r].par]
              /\ Goto(r, "insert_branch")
         ELSE UNCHANGED <<tl, anc>> /\ Goto(r, "idle")
  BY NothingFails DEF CreateBranchAtLSN, After, At, db, history, ProvisioningInv, TypeOK
<1>2. CASE ~CanBranch(r)
  <2>1. "idle" \in Pcs /\ Follows(req[r].pc, "idle") /\ Moved(r, "idle")
    BY <1>1, <1>2, Order, Moves DEF ProvisioningInv
  <2>2. StorageInStep' /\ RowsInStep'
    BY <1>1, <1>2, <2>1, BranchesStay DEF Moved, Watched, ProvisioningInv, TypeOK
  <2>3. ProjectInStep'
    BY <1>1, <1>2, <2>1, ProjectStays DEF Moved, Half
  <2>4. Childless'
    BY <1>1, <1>2, <2>1, ChildlessOnward
  <2>. QED  BY <2>2, <2>3, <2>4 DEF InStep
<1>3. CASE CanBranch(r)
  <2>1. "insert_branch" \in Pcs /\ Follows(req[r].pc, "insert_branch") /\ Moved(r, "insert_branch")
    BY <1>1, <1>3, Order, Moves DEF ProvisioningInv
  <2>2. req[r].tgt \in Branches /\ req[r].tgt \notin rows
    BY <1>1 DEF ProvisioningInv, Targets, Unborn, Doing, BranchPc, StagingPc
  <2>3. \A b \in Branches : anc'[b] \in {anc[b], req[r].par}
    BY <1>1, <1>3, <2>2 DEF ProvisioningInv, TypeOK
  <2>4. ProjectInStep'
    BY <1>1, <2>1, ProjectStays DEF Moved, Half
  <2>5. Childless'
    BY <1>1, <2>1, <2>3, ChildlessOnward
  <2>6. /\ OnTarget(req[r].tgt, {"insert_project", "insert_branch", "drop_timeline"})'
        /\ tl'[req[r].tgt] = "active"
        /\ \A b \in Branches : b # req[r].tgt => tl'[b] = tl[b]
    BY <1>1, <1>3, <2>1, <2>2 DEF OnTarget, Moved, Doing, ProvisioningInv, TypeOK
  <2>7. StorageInStep'
    BY <1>1, <2>1, <2>6, OthersAtWork DEF InStep, StorageInStep, Moved
  <2>8. RowsInStep'
    BY <1>1, <2>1, <2>2, <2>6, OthersAtWork DEF InStep, RowsInStep, Moved, ProvisioningInv, TypeOK
  <2>. QED  BY <2>4, <2>5, <2>7, <2>8 DEF InStep
<1>. QED  BY <1>2, <1>3

LEMMA InsertBranchInStep ==
  ASSUME ProvisioningInv, InStep, faults' = 0, NEW r \in Reqs, InsertBranch(r)
  PROVE  InStep'
<1>1. /\ req[r].pc = "insert_branch"
      /\ UNCHANGED <<project, tenant, tl, anc>>
      /\ IF CanInsert(r)
         THEN /\ rows' = rows \cup {req[r].tgt} /\ promised' = promised \cup {req[r].tgt}
              /\ Goto(r, "idle")
         ELSE rows' = rows /\ promised' = promised /\ Goto(r, "drop_timeline")
  BY NothingFails DEF InsertBranch, After, At, storage, ProvisioningInv, TypeOK
<1>2. CASE ~CanInsert(r)
  <2>1. "drop_timeline" \in Pcs /\ Follows(req[r].pc, "drop_timeline") /\ Moved(r, "drop_timeline")
    BY <1>1, <1>2, Order, Moves DEF ProvisioningInv
  <2>2. ProjectInStep'
    BY <1>1, <1>2, <2>1, ProjectStays DEF Moved, Half
  <2>3. Childless'
    BY <1>1, <1>2, <2>1, ChildlessOnward
  <2>4. OnTarget(req[r].tgt, {"insert_project", "insert_branch", "drop_timeline"})'
    BY <2>1 DEF OnTarget, Moved, Doing
  <2>5. StorageInStep'
    BY <1>1, <1>2, <2>1, <2>4, OthersAtWork DEF InStep, StorageInStep, Moved
  <2>6. RowsInStep'
    BY <1>1, <1>2, <2>1, OthersAtWork DEF InStep, RowsInStep, Moved, ProvisioningInv, TypeOK
  <2>. QED  BY <2>2, <2>3, <2>5, <2>6 DEF InStep
<1>3. CASE CanInsert(r)
  <2>1. "idle" \in Pcs /\ Follows(req[r].pc, "idle") /\ Moved(r, "idle")
    BY <1>1, <1>3, Order, Moves DEF ProvisioningInv
  <2>2. project
    BY <1>3 DEF CanInsert
  <2>3. ProjectInStep'
    BY <1>1, <1>3, <2>1, <2>2, ProjectStays DEF Moved, Half
  <2>4. Doing(r, CreatePc)
    BY <1>1 DEF Doing, CreatePc, BranchPc
  <2>5. Childless'
    BY <1>1, <1>3, <2>1, <2>4, ChildlessOnward
  <2>6. StorageInStep'
    BY <1>1, <1>3, <2>1, OthersAtWork DEF InStep, StorageInStep, Moved
  <2>7. tenant => tl[req[r].tgt] = "active"
    BY <1>1 DEF ProvisioningInv, Staged, At
  <2>8. RowsInStep'
    BY <1>1, <1>3, <2>1, <2>7, OthersAtWork DEF InStep, RowsInStep, Moved, ProvisioningInv, TypeOK
  <2>. QED  BY <2>3, <2>5, <2>6, <2>8 DEF InStep
<1>. QED  BY <1>2, <1>3

-----------------------------------------------------------------------------
(***************************************************************************)
(* The compensation of createBranch                                        *)
(***************************************************************************)
LEMMA DropTimelineInStep ==
  ASSUME ProvisioningInv, InStep, faults' = 0, NEW r \in Reqs, DropTimeline(r)
  PROVE  InStep'
<1>. DEFINE b == req[r].tgt
<1>1. /\ req[r].pc = "drop_timeline"
      /\ UNCHANGED <<project, rows, tenant, anc, promised>>
      /\ tl' = IF DeleteAnswer(b) = "accepted" THEN [tl EXCEPT ![b] = "deleting"] ELSE tl
      /\ Goto(r, AfterAnswer(DeleteAnswer(b), "drop_poll", "idle"))
  BY NothingFails DEF DropTimeline, DeleteTimeline, After, At, db, history, ProvisioningInv, TypeOK
<1>2. b \in Branches /\ b \notin rows /\ ~HasChildren(b)
  BY <1>1 DEF ProvisioningInv, Targets, Doing, BranchPc, CreatePc, InStep, Childless, HasChildren
<1>3. PICK l \in {"drop_poll", "idle"} :
        /\ Goto(r, l)
        /\ \/ l = "idle" /\ tl[b] = "none" /\ tl' = tl
           \/ l = "drop_poll" /\ tl' = [tl EXCEPT ![b] = "deleting"]
  <2>1. CASE tl[b] = "none"
    <3>1. DeleteAnswer(b) = "missing" /\ AfterAnswer("missing", "drop_poll", "idle") = "idle"
      BY <2>1 DEF DeleteAnswer, AfterAnswer
    <3>. QED  BY <1>1, <2>1, <3>1
  <2>2. CASE tl[b] # "none"
    <3>1. DeleteAnswer(b) = "accepted"
      BY <1>2, <2>2 DEF DeleteAnswer
    <3>2. AfterAnswer("accepted", "drop_poll", "idle") = "drop_poll"
      BY DEF AfterAnswer
    <3>. QED  BY <1>1, <3>1, <3>2
  <2>. QED  BY <2>1, <2>2
<1>4. l \in Pcs /\ Follows(req[r].pc, l) /\ Moved(r, l)
  BY <1>1, <1>3, Order, Moves DEF ProvisioningInv
<1>5. ProjectInStep'
  BY <1>1, <1>3, <1>4, ProjectStays DEF Moved, Half
<1>6. Childless'
  BY <1>1, <1>3, <1>4, ChildlessOnward
<1>7. /\ \A c \in Branches : c # b => tl'[c] = tl[c]
      /\ l = "idle" => tl'[b] = "none"
      /\ l = "drop_poll" => tl'[b] = "deleting" /\ OnTarget(b, {"drop_poll"})'
  BY <1>2, <1>3, <1>4 DEF OnTarget, Moved, Doing, ProvisioningInv, TypeOK
<1>. HIDE DEF b
<1>8. StorageInStep'
  BY <1>1, <1>3, <1>4, <1>7, OthersAtWork DEF InStep, StorageInStep, Moved, b
<1>9. RowsInStep'
  BY <1>1, <1>2, <1>4, <1>7, OthersAtWork DEF InStep, RowsInStep, Moved, ProvisioningInv, TypeOK, b
<1>. QED  BY <1>5, <1>6, <1>8, <1>9 DEF InStep

\* The timeline of a poller that ends is gone.
LEMMA PollInStep ==
  ASSUME ProvisioningInv, InStep, faults' = 0, NEW r \in Reqs,
         DropTimelinePoll(r) \/ DeleteBranchPoll(r)
  PROVE  InStep'
<1>1. PICK k \in {"drop_poll", "del_poll"}, l \in {"idle", "del_row"} :
        /\ req[r].pc = k /\ Goto(r, l) /\ (k = "drop_poll" <=> l = "idle")
        /\ tl[req[r].tgt] = "none"
        /\ UNCHANGED <<project, rows, tenant, tl, anc, promised>>
  BY NothingFails DEF DropTimelinePoll, DeleteBranchPoll, PollTimeline, At, db, storage, history,
                      ProvisioningInv, TypeOK
<1>2. l \in Pcs /\ Follows(req[r].pc, l) /\ Moved(r, l)
  BY <1>1, Order, Moves DEF ProvisioningInv
<1>3. ProjectInStep'
  BY <1>1, <1>2, ProjectStays DEF Moved, Half
<1>4. Childless'
  BY <1>1, <1>2, ChildlessOnward
<1>5. StorageInStep'
  BY <1>1, <1>2, OthersAtWork DEF InStep, StorageInStep, Moved
<1>6. k = "del_poll" => OnTarget(req[r].tgt, {"del_poll", "del_row"})'
  BY <1>1, <1>2 DEF OnTarget, Moved, Doing
<1>7. RowsInStep'
  BY <1>1, <1>2, <1>6, OthersAtWork DEF InStep, RowsInStep, Moved, ProvisioningInv, TypeOK
<1>. QED  BY <1>3, <1>4, <1>5, <1>7 DEF InStep

LEMMA TimelineGoneInStep ==
  ASSUME ProvisioningInv, InStep, NEW b \in Branches, TimelineGone(b)
  PROVE  InStep'
<1>1. /\ UNCHANGED <<project, rows, tenant, anc, req, promised>>
      /\ tl[b] = "deleting" /\ tl' = [tl EXCEPT ![b] = "none"]
  BY DEF TimelineGone, db, history
<1>2. ProjectInStep' /\ Childless'
  BY <1>1 DEF InStep, ProjectInStep, Childless, Known, Doing, At
<1>3. tl'[b] = "none" /\ \A c \in Branches : c # b => tl'[c] = tl[c]
  BY <1>1 DEF ProvisioningInv, TypeOK
<1>4. \A c, S : OnTarget(c, S)' <=> OnTarget(c, S)
  BY <1>1 DEF OnTarget, Doing
<1>5. StorageInStep'
  BY <1>1, <1>3, <1>4 DEF InStep, StorageInStep
<1>6. OnTarget(b, {"del_poll"}) => OnTarget(b, {"del_poll", "del_row"})
  BY DEF OnTarget, Doing
<1>7. RowsInStep'
  BY <1>1, <1>3, <1>4, <1>6 DEF InStep, RowsInStep, ProvisioningInv, TypeOK
<1>. QED  BY <1>2, <1>5, <1>7 DEF InStep

-----------------------------------------------------------------------------
(***************************************************************************)
(* deleteBranch                                                            *)
(***************************************************************************)
LEMMA DeleteBranchInStep ==
  ASSUME ProvisioningInv, InStep, NEW r \in Reqs, DeleteBranch(r)
  PROVE  InStep'
<1>1. PICK b \in rows \ {Main} : Enter(r, "del_tl", b, NoBranch)
  BY DEF DeleteBranch
<1>2. UNCHANGED <<project, rows, tenant, tl, anc, promised>>
  BY DEF DeleteBranch, db, storage
<1>3. "del_tl" \in Pcs /\ b \in Branches
  BY DEF Pcs, DeletePc, ProvisioningInv, TypeOK
<1>4. Entered(r, "del_tl", b, NoBranch)
  BY <1>1, <1>3, Enters DEF ProvisioningInv
<1>5. StorageInStep' /\ RowsInStep'
  BY <1>2, <1>4, BranchesStay DEF Entered, Watched, ProvisioningInv, TypeOK
<1>6. ProjectInStep'
  BY <1>2, <1>4, ProjectStays DEF Entered, Half
<1>7. \A t \in Reqs : Doing(t, CreatePc) => req[t].tgt # b /\ req[t].tgt # NoBranch
  BY MainAssumption, NoBranchAssumption
     DEF InStep, Childless, ProvisioningInv, Targets, CreatePc, Doing
<1>8. Childless'
  BY <1>2, <1>4, <1>7 DEF InStep, Childless, Entered, Doing, At, CreatePc, MainPc, BranchPc
<1>. QED  BY <1>5, <1>6, <1>8 DEF InStep

\* A branch that is to be removed and has no row has no timeline either:
\* nobody is creating it.
LEMMA DeleteBranchTimelineInStep ==
  ASSUME ProvisioningInv, InStep, faults' = 0, NEW r \in Reqs, DeleteBranchTimeline(r)
  PROVE  InStep'
<1>. DEFINE b == req[r].tgt
<1>1. /\ req[r].pc = "del_tl"
      /\ UNCHANGED <<project, rows, tenant, anc, promised>>
      /\ tl' = IF DeleteAnswer(b) = "accepted" THEN [tl EXCEPT ![b] = "deleting"] ELSE tl
      /\ Goto(r, AfterAnswer(DeleteAnswer(b), "del_poll", "del_row"))
  BY NothingFails DEF DeleteBranchTimeline, DeleteTimeline, After, At, db, history,
                      ProvisioningInv, TypeOK
<1>2. b \in Branches
  BY <1>1 DEF ProvisioningInv, Targets, Doing, RemovePc
<1>3. b \notin rows => tl[b] = "none"
  <2>1. \A s \in Reqs : Doing(s, CreatePc) => req[s].tgt # b
    BY <1>1 DEF InStep, Childless, Doing, RemovePc
  <2>2. ~OnTarget(b, {"insert_project", "insert_branch", "drop_timeline"})
    BY <2>1 DEF OnTarget, Doing, CreatePc, MainPc, BranchPc
  <2>3. ~OnTarget(b, {"drop_poll"})
    BY <2>1 DEF OnTarget, Doing, CreatePc, BranchPc
  <2>4. tl[b] \in {"none", "active", "deleting"}
    BY <1>2 DEF ProvisioningInv, TypeOK
  <2>. QED  BY <1>2, <2>2, <2>3, <2>4 DEF InStep, StorageInStep
<1>4. PICK l \in {"del_poll", "del_row", "idle"} :
        /\ Goto(r, l)
        /\ \/ l \in {"del_row", "idle"} /\ tl' = tl /\ (tl[b] = "none" => l = "del_row")
           \/ l = "del_poll" /\ tl[b] # "none" /\ tl' = [tl EXCEPT ![b] = "deleting"]
  <2>1. CASE tl[b] = "none"
    <3>1. DeleteAnswer(b) = "missing" /\ AfterAnswer("missing", "del_poll", "del_row") = "del_row"
      BY <2>1 DEF DeleteAnswer, AfterAnswer
    <3>. QED  BY <1>1, <2>1, <3>1
  <2>2. CASE tl[b] # "none" /\ HasChildren(b)
    <3>1. DeleteAnswer(b) = "refused" /\ AfterAnswer("refused", "del_poll", "del_row") = "idle"
      BY <2>2 DEF DeleteAnswer, AfterAnswer
    <3>. QED  BY <1>1, <2>2, <3>1
  <2>3. CASE tl[b] # "none" /\ ~HasChildren(b)
    <3>1. DeleteAnswer(b) = "accepted"
      BY <2>3 DEF DeleteAnswer
    <3>2. AfterAnswer("accepted", "del_poll", "del_row") = "del_poll"
      BY DEF AfterAnswer
    <3>. QED  BY <1>1, <2>3, <3>1, <3>2
  <2>. QED  BY <2>1, <2>2, <2>3
<1>5. l \in Pcs /\ Follows(req[r].pc, l) /\ Moved(r, l)
  BY <1>1, <1>4, Order, Moves DEF ProvisioningInv
<1>6. ProjectInStep'
  BY <1>1, <1>4, <1>5, ProjectStays DEF Moved, Half
<1>7. Childless'
  BY <1>1, <1>4, <1>5, ChildlessOnward
<1>8. /\ \A c \in Branches : c # b => tl'[c] = tl[c]
      /\ l # "del_poll" => tl' = tl
      /\ l = "del_poll" => tl'[b] = "deleting" /\ OnTarget(b, {"del_poll"})' /\ b \in rows
      /\ l = "del_row" => OnTarget(b, {"del_poll", "del_row"})'
      /\ tl[b] = "none" => l = "del_row"
  BY <1>2, <1>3, <1>4, <1>5 DEF OnTarget, Moved, Doing, ProvisioningInv, TypeOK
<1>. HIDE DEF b
<1>9. StorageInStep'
  BY <1>1, <1>4, <1>5, <1>8, OthersAtWork DEF InStep, StorageInStep, Moved
<1>10. RowsInStep'
  <2>1. ASSUME NEW c \in Branches, OnTarget(c, {"del_poll"}) PROVE OnTarget(c, {"del_poll"})'
    BY <1>1, <1>5, <2>1, OthersAtWork DEF Moved
  <2>2. ASSUME NEW c \in Branches, OnTarget(c, {"del_poll", "del_row"})
        PROVE  OnTarget(c, {"del_poll", "del_row"})'
    BY <1>1, <1>5, <2>2, OthersAtWork DEF Moved
  <2>3. rows \subseteq Branches
    BY DEF ProvisioningInv, TypeOK
  <2>4. ASSUME NEW c \in rows, tenant
        PROVE  /\ tl[c] = "deleting" => OnTarget(c, {"del_poll"})'
               /\ tl[c] = "none" => OnTarget(c, {"del_poll", "del_row"})'
    BY <2>1, <2>2, <2>3, <2>4 DEF InStep, RowsInStep
  <2>5. ASSUME NEW c \in rows, tenant
        PROVE  /\ tl'[c] = "deleting" => OnTarget(c, {"del_poll"})'
               /\ tl'[c] = "none" => OnTarget(c, {"del_poll", "del_row"})'
    <3>1. CASE c = b /\ l = "del_poll"
      BY <1>5, <1>8, <3>1 DEF Moved, b
    <3>2. CASE c # b \/ l # "del_poll"
      <4>1. tl'[c] = tl[c]
        BY <1>8, <2>3, <3>2
      <4>. QED  BY <2>4, <2>5, <4>1
    <3>. QED  BY <3>1, <3>2
  <2>. QED  BY <1>1, <2>5 DEF RowsInStep
<1>. QED  BY <1>6, <1>7, <1>9, <1>10 DEF InStep

LEMMA DeleteBranchRowInStep ==
  ASSUME ProvisioningInv, InStep, faults' = 0, NEW r \in Reqs, DeleteBranchRow(r)
  PROVE  InStep'
<1>1. /\ req[r].pc = "del_row" /\ Goto(r, "idle") /\ rows' = rows \ {req[r].tgt}
      /\ UNCHANGED <<project, tenant, tl, anc, promised>>
  BY NothingFails DEF DeleteBranchRow, After, At, storage, history, ProvisioningInv, TypeOK
<1>2. "idle" \in Pcs /\ Follows(req[r].pc, "idle") /\ Moved(r, "idle")
  BY <1>1, Order, Moves DEF ProvisioningInv
<1>3. tl[req[r].tgt] = "none"
  BY <1>1 DEF ProvisioningInv, GoneFirst, At
<1>4. ProjectInStep'
  BY <1>1, <1>2, ProjectStays DEF Moved, Half
<1>5. Childless'
  BY <1>1, <1>2, ChildlessOnward
<1>6. StorageInStep'
  BY <1>1, <1>2, <1>3, OthersAtWork DEF InStep, StorageInStep, Moved
<1>7. RowsInStep'
  BY <1>1, <1>2, OthersAtWork DEF InStep, RowsInStep, Moved, ProvisioningInv, TypeOK
<1>. QED  BY <1>4, <1>5, <1>6, <1>7 DEF InStep

-----------------------------------------------------------------------------
(***************************************************************************)
(* deleteProject                                                           *)
(***************************************************************************)
LEMMA DeleteProjectInStep ==
  ASSUME ProvisioningInv, InStep, NEW r \in Reqs, DeleteProject(r)
  PROVE  InStep'
<1>1. UNCHANGED <<project, rows, tenant, tl, anc, promised>>
      /\ Enter(r, "del_tenant", NoBranch, NoBranch)
  BY DEF DeleteProject, db, storage
<1>2. "del_tenant" \in Pcs
  BY DEF Pcs, DeletePc
<1>3. Entered(r, "del_tenant", NoBranch, NoBranch)
  BY <1>1, <1>2, Enters DEF ProvisioningInv
<1>4. StorageInStep' /\ RowsInStep'
  BY <1>1, <1>3, BranchesStay DEF Entered, Watched, ProvisioningInv, TypeOK
<1>5. ProjectInStep'
  BY <1>1, <1>3, ProjectStays DEF Entered, Half
<1>6. ASSUME NEW t \in Reqs, Doing(t, CreatePc) PROVE req[t].tgt # NoBranch
  BY <1>6, MainAssumption, NoBranchAssumption DEF ProvisioningInv, Targets, CreatePc, Doing
<1>7. Childless'
  BY <1>1, <1>3, <1>6 DEF InStep, Childless, Entered, Doing, At, CreatePc, MainPc, BranchPc, RemovePc
<1>. QED  BY <1>4, <1>5, <1>7 DEF InStep

LEMMA DeleteTenantInStep ==
  ASSUME ProvisioningInv, InStep, faults' = 0, NEW r \in Reqs, DeleteTenant(r)
  PROVE  InStep'
<1>1. /\ req[r].pc = "del_tenant"
      /\ tenant' = FALSE /\ tl' = [b \in Branches |-> "none"]
      /\ UNCHANGED <<project, rows, anc, promised>>
      /\ Goto(r, IF tenant THEN "del_project" ELSE "idle")
  BY NothingFails DEF DeleteTenant, After, NoTimelines, At, db, history, ProvisioningInv, TypeOK
<1>2. PICK l \in {"del_project", "idle"} : Goto(r, l) /\ (tenant => l = "del_project")
  BY <1>1
<1>3. l \in Pcs /\ Follows(req[r].pc, l) /\ Moved(r, l)
  BY <1>1, <1>2, Order, Moves DEF ProvisioningInv
<1>4. Childless'
  BY <1>1, <1>2, <1>3, ChildlessOnward
<1>5. ProjectInStep'
  <2>1. \A s \in Reqs : req'[s].pc \notin {"timeline", "insert_project"}
    BY <1>1, <1>2, <1>3, MainAlone DEF Moved, Doing, DeletePc, MainPc
  <2>2. project => \E s \in Reqs : req'[s].pc = "del_project"
    BY <1>1, <1>2, <1>3 DEF InStep, ProjectInStep, Moved, At
  <2>. QED  BY <1>1, <2>1, <2>2 DEF InStep, ProjectInStep, Known, Doing, At
<1>6. StorageInStep' /\ RowsInStep'
  BY <1>1 DEF StorageInStep, RowsInStep
<1>. QED  BY <1>4, <1>5, <1>6 DEF InStep

LEMMA DeleteProjectRowInStep ==
  ASSUME ProvisioningInv, InStep, faults' = 0, NEW r \in Reqs, DeleteProjectRow(r)
  PROVE  InStep'
<1>1. /\ req[r].pc = "del_project" /\ Goto(r, "idle") /\ project' = FALSE /\ rows' = {}
      /\ UNCHANGED <<tenant, tl, anc, promised>>
  BY NothingFails DEF DeleteProjectRow, After, At, storage, history, ProvisioningInv, TypeOK
<1>2. "idle" \in Pcs /\ Follows(req[r].pc, "idle") /\ Moved(r, "idle")
  BY <1>1, Order, Moves DEF ProvisioningInv
<1>3. ~tenant /\ \A b \in Branches : tl[b] = "none"
  BY <1>1 DEF ProvisioningInv, GoneFirst, At
<1>4. Childless'
  BY <1>1, <1>2, ChildlessOnward
<1>5. ProjectInStep'
  <2>1. \A s \in Reqs : req'[s].pc \notin {"timeline", "insert_project"}
    BY <1>1, <1>2, MainAlone DEF Moved, Doing, DeletePc, MainPc
  <2>. QED  BY <1>1, <1>3, <2>1 DEF ProjectInStep, Doing
<1>6. StorageInStep' /\ RowsInStep'
  BY <1>1, <1>3 DEF StorageInStep, RowsInStep
<1>. QED  BY <1>4, <1>5, <1>6 DEF InStep

-----------------------------------------------------------------------------
(***************************************************************************)
(* The reads, and the theorem                                              *)
(***************************************************************************)
LEMMA ReadEntersInStep ==
  ASSUME ProvisioningInv, InStep, NEW r \in Reqs,
         GetProject(r) \/ Usage(r) \/ GetAccessControl(r)
  PROVE  InStep'
<1>1. PICK l \in {"list_project", "list_usage", "spec_project"}, b \in rows \cup {NoBranch} :
        Enter(r, l, b, NoBranch)
  BY DEF GetProject, Usage, GetAccessControl
<1>2. l \in ReadPc /\ l \in Pcs /\ b \in Branches \cup {NoBranch}
  BY DEF ReadPc, Pcs, ProvisioningInv, TypeOK
<1>3. Entered(r, l, b, NoBranch)
  BY <1>1, <1>2, Enters DEF ProvisioningInv
<1>4. UNCHANGED <<db, storage, used, history>>
  BY DEF GetProject, Usage, GetAccessControl
<1>. QED  BY <1>2, <1>3, <1>4, QuietInStep DEF Entered

LEMMA ReadInStep ==
  ASSUME ProvisioningInv, InStep, NEW r \in Reqs, Read(r)
  PROVE  InStep'
<1>1. req[r].pc \in ReadPc /\ UNCHANGED <<db, storage, used, history>>
  BY DEF Read, ListForProject, ListForUsage, GetEndpointByBranch, GetTimeline,
         ListBranchesByProject, LookUp, SpecProject, SpecBranch, Answer, At, ReadPc
<1>2. \/ \E l \in ReadPc \cup {"idle"} : Goto(r, l)
      \/ \E l \in ReadPc : \E S : Become(r, l, NoBranch, NoBranch, S)
  BY DEF Read, ListForProject, ListForUsage, GetEndpointByBranch, GetTimeline,
         ListBranchesByProject, LookUp, SpecProject, SpecBranch, Answer, ReadPc
<1>3. CASE \E l \in ReadPc \cup {"idle"} : Goto(r, l)
  <2>1. PICK l \in ReadPc \cup {"idle"} : Goto(r, l)
    BY <1>3
  <2>2. l \in Pcs
    BY DEF Pcs
  <2>3. Moved(r, l)
    BY <2>1, <2>2, Moves DEF ProvisioningInv
  <2>. QED  BY <1>1, <2>3, QuietInStep DEF Moved
<1>4. CASE \E l \in ReadPc : \E S : Become(r, l, NoBranch, NoBranch, S)
  <2>1. PICK l \in ReadPc : \E S : Become(r, l, NoBranch, NoBranch, S)
    BY <1>4
  <2>2. /\ req'[r].pc = l /\ req'[r].par = NoBranch
        /\ \A s \in Reqs : s # r => req'[s] = req[s]
    BY <2>1 DEF Become, ProvisioningInv, TypeOK
  <2>. QED  BY <1>1, <2>2, QuietInStep
<1>. QED  BY <1>2, <1>3, <1>4

LEMMA RacesInvInductive ==
  ASSUME ProvisioningInv, RacesInv, [Next]_vars
  PROVE  RacesInv'
<1>. SUFFICES ASSUME faults' = 0 PROVE InStep'
  BY DEF RacesInv
<1>1. faults = 0
  <2>1. faults \in Nat
    BY DEF ProvisioningInv, TypeOK
  <2>2. UNCHANGED faults
    <3>1. ASSUME NEW r \in Reqs, Handle(r) PROVE UNCHANGED faults
      BY <2>1, <3>1, NothingFails
         DEF Handle, AttachTenant, CreateTimeline, InsertProject, DropTenant, WaitIngested,
             CreateBranchAtLSN, InsertBranch, DropTimeline, DropTimelinePoll,
             DeleteBranchTimeline, DeleteBranchPoll, DeleteBranchRow, DeleteTimeline,
             PollTimeline, DeleteTenant, DeleteProjectRow, Cost
    <3>2. ASSUME NEW r \in Reqs, Read(r) \/ Cancelled(r) PROVE UNCHANGED faults
      BY <2>1, <3>2, NothingFails
         DEF Read, ListForProject, ListForUsage, GetEndpointByBranch, GetTimeline, Cancelled,
             ListBranchesByProject, LookUp, SpecProject, SpecBranch, Answer
    <3>3. CASE UNCHANGED vars
      BY <3>3 DEF vars
    <3>. QED  BY <3>1, <3>2, <3>3
              DEF Next, CreateProject, CreateBranch, DeleteBranch, DeleteProject, GetProject, Usage,
                  GetAccessControl, TimelineGone
  <2>. QED  BY <2>2
<1>2. InStep
  BY <1>1 DEF RacesInv
<1>3. ASSUME NEW r \in Reqs, Handle(r) PROVE InStep'
  <2>1. ~DropTenant(r)
    BY <1>2 DEF DropTenant, At, InStep, Childless, Doing, CreatePc, MainPc
  <2>. QED  BY <1>2, <1>3, <2>1, AttachTenantInStep, CreateTimelineInStep, InsertProjectInStep,
               WaitIngestedInStep, CreateBranchAtLSNInStep, InsertBranchInStep,
               DropTimelineInStep, PollInStep, DeleteBranchTimelineInStep,
               DeleteBranchRowInStep, DeleteTenantInStep, DeleteProjectRowInStep DEF Handle
<1>4. ASSUME NEW r \in Reqs, \/ CreateProject(r) \/ CreateBranch(r) \/ DeleteBranch(r)
                             \/ DeleteProject(r) \/ GetProject(r) \/ Usage(r)
                             \/ GetAccessControl(r) \/ Read(r)
      PROVE  InStep'
  BY <1>2, <1>4, CreateProjectInStep, CreateBranchInStep, DeleteBranchInStep,
     DeleteProjectInStep, ReadEntersInStep, ReadInStep
<1>5. ASSUME NEW r \in Reqs, Cancelled(r) PROVE FALSE
  BY <1>5, NothingFails DEF Cancelled, ProvisioningInv, TypeOK
<1>6. CASE UNCHANGED vars
  <2>1. UNCHANGED <<project, rows, tenant, tl, anc, req, promised>>
    BY <1>6 DEF vars, db, storage, history
  <2>. QED  BY <1>2, <2>1 DEF InStep, ProjectInStep, Childless, StorageInStep, RowsInStep,
                              OnTarget, Doing, At, Known
<1>. QED  BY <1>2, <1>3, <1>4, <1>5, <1>6, TimelineGoneInStep DEF Next

\* As long as no call fails, each disagreement of database and pageserver
\* belongs to a request that is about to repair it (api.go, the compensations
\* and the order of the deletes).
THEOREM RacesAreRepaired == Spec => []RacesInv
<1>1. Init => RacesInv
  <2>. SUFFICES ASSUME Init PROVE InStep
    BY DEF RacesInv
  <2>1. \A r \in Reqs : req[r].pc = "idle"
    BY DEF Init, Idle
  <2>2. ProjectInStep /\ Childless
    BY <2>1 DEF Init, ProjectInStep, Childless, Doing, At, CreatePc, MainPc, BranchPc
  <2>3. StorageInStep /\ RowsInStep
    BY DEF Init, StorageInStep, RowsInStep
  <2>. QED  BY <2>2, <2>3 DEF InStep
<1>. QED  BY <1>1, RacesInvInductive, HandlersRely, PTL DEF Spec

\* Races alone leave database and pageserver in agreement: two creates of one
\* name, a create whose parent or project is deleted under it, deletes of the
\* same thing (api.go).
THEOREM RacesLeaveAgreement == Spec => []RacesAgree
<1>1. ProvisioningInv /\ RacesInv => RacesAgree
  <2>. SUFFICES ASSUME ProvisioningInv, InStep, Quiet
                PROVE  (project <=> tenant) /\ rows = {b \in Branches : tl[b] # "none"}
    BY DEF RacesInv, RacesAgree
  <2>1. \A r \in Reqs : req[r].pc = "idle"
    BY DEF Quiet, At
  <2>2. \A b, S : "idle" \notin S => ~OnTarget(b, S)
    BY <2>1 DEF OnTarget, Doing
  <2>3. ~(tenant /\ ~project) /\ ~(project /\ ~tenant)
    BY <2>1 DEF InStep, ProjectInStep, Doing, At
  <2>4. project <=> tenant
    BY <2>3 DEF ProvisioningInv, TypeOK
  <2>5. ASSUME NEW b \in Branches, b \notin rows PROVE tl[b] = "none"
    BY <2>2, <2>5 DEF InStep, StorageInStep, ProvisioningInv, TypeOK
  <2>6. ASSUME NEW b \in Branches, b \in rows PROVE tl[b] # "none"
    <3>1. tenant
      BY <2>4, <2>6 DEF InStep, ProjectInStep
    <3>. QED  BY <2>2, <2>6, <3>1 DEF InStep, RowsInStep
  <2>. QED  BY <2>4, <2>5, <2>6 DEF ProvisioningInv, TypeOK
<1>. QED  BY <1>1, HandlersRely, RacesAreRepaired, PTL
=============================================================================
