-------------------------- MODULE ProvisioningProofs --------------------------
(***************************************************************************)
(* Proofs about creating and deleting projects and branches, for any       *)
(* number of requests, branches and names, and any faults.                 *)
(*                                                                         *)
(* ProvisioningInv is inductive.  It says what each handler can rely on at *)
(* its next call, although it looked things up earlier and others have     *)
(* been at work since: the branch it stages is not known to anybody else,  *)
(* what it goes on to remove has been given up, and a row it deletes has   *)
(* no timeline any more.                                                   *)
(***************************************************************************)
EXTENDS Provisioning, TLAPS

\* What moving a request on to l does to the requests.
Moved(r, l) ==
  /\ req' \in [Reqs -> Requests]
  /\ req'[r].pc = l
  /\ l # "idle" => req'[r].tgt = req[r].tgt /\ req'[r].par = req[r].par
  /\ l = "idle" => req'[r].tgt = NoBranch /\ req'[r].par = NoBranch
  /\ \A s \in Reqs : s # r => req'[s] = req[s]

LEMMA Moves ==
  ASSUME TypeOK, NEW r \in Reqs, NEW l \in Pcs, Goto(r, l)
  PROVE  Moved(r, l)
BY DEF TypeOK, Goto, Idle, Requests, Moved

\* While the project is being created nothing else goes on.
LEMMA MainAlone ==
  ASSUME ProvisioningInv, NEW r \in Reqs, Doing(r, MainPc)
  PROVE  /\ promised = {}
         /\ req[r].tgt = Main
         /\ \A s \in Reqs : s # r => ~Doing(s, CreatePc)
         /\ \A s \in Reqs : ~Doing(s, BranchPc) /\ ~Doing(s, DeletePc)
<1>1. req[r].tgt = Main /\ Main \notin promised
  BY DEF ProvisioningInv, Targets, FreshIds, CreatePc, Doing
<1>2. promised = {} /\ \A s \in Reqs : ~Doing(s, BranchPc) /\ ~Doing(s, DeletePc)
  BY <1>1 DEF ProvisioningInv, MainFirst, Known, Doing
<1>3. \A s \in Reqs : s # r => ~Doing(s, MainPc)
  BY <1>1 DEF ProvisioningInv, FreshIds, Targets, CreatePc, Doing
<1>. QED BY <1>1, <1>2, <1>3 DEF CreatePc, Doing

\* Each kind of request stays what it is, and does not go back to staging.
Follows(k, l) ==
  /\ l \in MainPc => k \in MainPc
  /\ l \in BranchPc => k \in BranchPc
  /\ l \in StagingPc => k \in StagingPc
  /\ l \in RemovePc => k \in RemovePc
  /\ l \in {"del_tenant", "del_project"} => k \in {"del_tenant", "del_project"}

LEMMA Order ==
  /\ "idle" \in Pcs /\ \A k : Follows(k, "idle")
  /\ \A p \in {<<"attach", "timeline">>, <<"timeline", "insert_project">>,
               <<"insert_project", "drop_tenant">>,
               <<"ingest", "branch">>, <<"branch", "insert_branch">>,
               <<"insert_branch", "drop_timeline">>, <<"drop_timeline", "drop_poll">>,
               <<"del_tl", "del_poll">>, <<"del_tl", "del_row">>, <<"del_poll", "del_row">>,
               <<"del_tenant", "del_project">>} : p[2] \in Pcs /\ Follows(p[1], p[2])
BY DEF Pcs, CreatePc, MainPc, BranchPc, StagingPc, RemovePc, DeletePc, Follows

\* A handler that goes on keeps what the invariant says of identifiers and of
\* who works on what, if the only row it inserts and the only branch it
\* promises is the one it creates.
LEMMA Onward ==
  ASSUME ProvisioningInv, NEW r \in Reqs, NEW l \in Pcs, Moved(r, l),
         Follows(req[r].pc, l), used' = used,
         \A b \in Branches : anc'[b] \in {anc[b], req[r].par},
         \/ rows' \subseteq rows
         \/ /\ Doing(r, StagingPc) /\ l \notin StagingPc
            /\ rows' \subseteq rows \cup {req[r].tgt},
         \/ promised' = promised
         \/ /\ Doing(r, StagingPc) /\ l = "idle"
            /\ promised' = promised \cup {req[r].tgt}
  PROVE  Targets' /\ MainFirst' /\ FreshIds' /\ Unborn'
<1>. USE DEF ProvisioningInv, Doing, Follows, Moved
<1>1. Targets'
  <2>1. ASSUME NEW s \in Reqs
        PROVE  /\ Doing(s, MainPc)' => req'[s].tgt = Main
               /\ Doing(s, BranchPc)' => req'[s].tgt \in Branches \ {Main} /\ req'[s].par \in Branches
               /\ Doing(s, RemovePc)' => req'[s].tgt \in Branches \ {Main}
    BY DEF Targets, MainPc, BranchPc, RemovePc
  <2>. QED  BY <2>1 DEF Targets
<1>2. Doing(r, StagingPc) => Doing(r, CreatePc)
  BY DEF StagingPc, CreatePc, MainPc, BranchPc
<1>3. MainFirst'
  <2>1. promised' # {} => Known'
    BY <1>2 DEF MainFirst, Known, CreatePc, Targets
  <2>2. promised \subseteq promised'
    OBVIOUS
  <2>. QED  BY <2>1, <2>2 DEF MainFirst, Known, DeletePc, RemovePc
<1>4. FreshIds'
  <2>1. rows' \subseteq used' /\ promised' \subseteq used'
    BY <1>2 DEF FreshIds
  <2>2. \A b \in Branches : anc'[b] \in used' \cup {NoBranch}
    BY DEF FreshIds
  <2>3. ASSUME NEW s \in Reqs
        PROVE  /\ req'[s].par \in used' \cup {NoBranch}
               /\ Doing(s, RemovePc)' => req'[s].tgt \in used'
               /\ Doing(s, CreatePc)' => req'[s].tgt \in used' \ promised'
    <3>1. CASE s = r
      BY <3>1 DEF FreshIds, RemovePc, CreatePc, StagingPc, MainPc, BranchPc
    <3>2. CASE s # r
      BY <3>2, <1>2 DEF FreshIds
    <3>. QED  BY <3>1, <3>2
  <2>4. \A s, t \in Reqs :
          s # t /\ Doing(s, CreatePc)' /\ Doing(t, CreatePc)' => req'[s].tgt # req'[t].tgt
    BY DEF FreshIds, CreatePc, MainPc, BranchPc
  <2>. QED  BY <2>1, <2>2, <2>3, <2>4 DEF FreshIds
<1>5. Unborn'
  <2>1. ASSUME NEW s \in Reqs, Doing(s, StagingPc)'
        PROVE  /\ req'[s].tgt \notin rows'
               /\ Doing(s, StagingPc) /\ req'[s].tgt = req[s].tgt
    BY <1>2, <2>1 DEF Unborn, FreshIds, StagingPc, CreatePc, MainPc, BranchPc
  <2>2. ASSUME NEW s \in Reqs, Doing(s, RemovePc)'
        PROVE  Doing(s, RemovePc) /\ req'[s].tgt = req[s].tgt
    BY <2>2 DEF RemovePc
  <2>. QED  BY <2>1, <2>2 DEF Unborn
<1>. QED  BY <1>1, <1>3, <1>4, <1>5

\* A request that only reads, or ends, changes nothing the others rely on.
LEMMA QuietStep ==
  ASSUME ProvisioningInv, NEW r \in Reqs,
         req' \in [Reqs -> Requests],
         req'[r].pc \in ReadPc \cup {"idle"},
         req'[r].par \in {req[r].par, NoBranch},
         \A s \in Reqs : s # r => req'[s] = req[s],
         faults' \in Nat,
         UNCHANGED <<db, storage, used, history>>
  PROVE  ProvisioningInv'
<1>. USE DEF ProvisioningInv, Doing
<1>1. req'[r].pc \notin CreatePc \cup DeletePc
  BY DEF ReadPc, CreatePc, MainPc, BranchPc, DeletePc
<1>2. UNCHANGED <<project, rows, name, tenant, tl, anc, used, promised, doomed>>
  BY DEF db, storage, history
<1>3. TypeOK'
  BY <1>2 DEF TypeOK
<1>4. Targets' /\ MainFirst'
  BY <1>1, <1>2 DEF Targets, MainFirst, Known, CreatePc, DeletePc, RemovePc
<1>5. FreshIds'
  BY <1>1, <1>2 DEF FreshIds, DeletePc, RemovePc
<1>6. Unborn' /\ Staged' /\ GoneFirst'
  BY <1>1, <1>2 DEF Unborn, Staged, GoneFirst, At, CreatePc, MainPc, BranchPc, StagingPc,
                    DeletePc, RemovePc
<1>7. CreatedIsKept'
  BY <1>2 DEF CreatedIsKept
<1>. QED  BY <1>3, <1>4, <1>5, <1>6, <1>7

-----------------------------------------------------------------------------
(***************************************************************************)
(* createProject                                                           *)
(***************************************************************************)
LEMMA AttachTenantKeeps ==
  ASSUME ProvisioningInv, NEW r \in Reqs, AttachTenant(r)
  PROVE  ProvisioningInv'
<1>. USE DEF ProvisioningInv
<1>1. PICK l \in {"timeline", "idle"} : Goto(r, l)
  BY DEF AttachTenant
<1>2. /\ UNCHANGED <<project, rows, name, tl, anc, used, promised, doomed>>
      /\ req[r].pc = "attach"
  BY DEF AttachTenant, At, db, history
<1>3. l \in Pcs /\ Follows(req[r].pc, l) /\ Moved(r, l)
  BY <1>1, <1>2, Order, Moves
<1>4. Targets' /\ MainFirst' /\ FreshIds' /\ Unborn'
  BY <1>2, <1>3, Onward
<1>5. faults' \in Nat
  BY DEF AttachTenant, Cost, Charge, TypeOK
<1>6. tenant' \in BOOLEAN
  BY DEF AttachTenant, TypeOK, After
<1>7. TypeOK'
  BY <1>2, <1>3, <1>5, <1>6 DEF Moved, TypeOK
<1>8. \A s \in Reqs : req[s].pc \notin BranchPc /\ req[s].pc \notin DeletePc
  BY <1>2, MainAlone DEF Doing, MainPc
<1>9. Staged' /\ GoneFirst' /\ CreatedIsKept'
  BY <1>1, <1>2, <1>3, <1>8
     DEF Moved, Staged, GoneFirst, CreatedIsKept, At, Doing, BranchPc, RemovePc, DeletePc
<1>. QED  BY <1>4, <1>7, <1>9

LEMMA CreateTimelineKeeps ==
  ASSUME ProvisioningInv, NEW r \in Reqs, CreateTimeline(r)
  PROVE  ProvisioningInv'
<1>. USE DEF ProvisioningInv
<1>1. PICK l \in {"insert_project", "idle"} :
        /\ Goto(r, l)
        /\ tl' = tl \/ tl' = [tl EXCEPT ![Main] = "active"]
        /\ l = "insert_project" => tl' = [tl EXCEPT ![Main] = "active"]
  BY DEF CreateTimeline, After
<1>2. /\ UNCHANGED <<project, rows, name, tenant, anc, used, promised, doomed>>
      /\ req[r].pc = "timeline"
  BY DEF CreateTimeline, At, db, history
<1>3. l \in Pcs /\ Follows(req[r].pc, l) /\ Moved(r, l)
  BY <1>1, <1>2, Order, Moves
<1>4. Targets' /\ MainFirst' /\ FreshIds' /\ Unborn'
  BY <1>2, <1>3, Onward
<1>5. faults' \in Nat
  BY DEF CreateTimeline, Cost, Charge, TypeOK
<1>6. TypeOK'
  BY <1>1, <1>2, <1>3, <1>5 DEF Moved, TypeOK
<1>7. promised = {} /\ \A s \in Reqs : req[s].pc \notin BranchPc /\ req[s].pc \notin DeletePc
  BY <1>2, MainAlone DEF Doing, MainPc
<1>8. tl'[Main] = tl[Main] \/ tl'[Main] = "active"
  BY <1>1, MainAssumption DEF TypeOK
<1>9. l = "insert_project" => tl'[Main] = "active"
  BY <1>1, MainAssumption DEF TypeOK
<1>10. Staged'
  BY <1>1, <1>2, <1>3, <1>7, <1>8, <1>9 DEF Moved, Staged, At, BranchPc
<1>11. GoneFirst' /\ CreatedIsKept'
  BY <1>1, <1>2, <1>3, <1>7
     DEF Moved, GoneFirst, CreatedIsKept, At, Doing, RemovePc, DeletePc
<1>. QED  BY <1>4, <1>6, <1>10, <1>11

LEMMA InsertProjectKeeps ==
  ASSUME ProvisioningInv, NEW r \in Reqs, InsertProject(r)
  PROVE  ProvisioningInv'
<1>. USE DEF ProvisioningInv
<1>1. PICK l \in {"drop_tenant", "idle"} :
        /\ Goto(r, l)
        /\ rows' = rows \/ rows' = rows \cup {Main}
        /\ \/ promised' = promised
           \/ l = "idle" /\ promised' = promised \cup {Main} /\ rows' = rows \cup {Main}
  BY DEF InsertProject, After
<1>2. /\ UNCHANGED <<name, tenant, tl, anc, used, doomed>>
      /\ req[r].pc = "insert_project"
  BY DEF InsertProject, At, storage
<1>3. l \in Pcs /\ Follows(req[r].pc, l) /\ Moved(r, l)
  BY <1>1, <1>2, Order, Moves
<1>4. promised = {} /\ req[r].tgt = Main
      /\ \A s \in Reqs : req[s].pc \notin BranchPc /\ req[s].pc \notin DeletePc
  BY <1>2, MainAlone DEF Doing, MainPc
<1>5. Doing(r, StagingPc) /\ l \notin StagingPc
  BY <1>1, <1>2 DEF Doing, StagingPc
<1>6. Targets' /\ MainFirst' /\ FreshIds' /\ Unborn'
  BY <1>1, <1>2, <1>3, <1>4, <1>5, Onward
<1>7. faults' \in Nat
  BY DEF InsertProject, Cost, Charge, TypeOK
<1>8. project' \in BOOLEAN
  BY DEF InsertProject, TypeOK, After
<1>9. TypeOK'
  BY <1>1, <1>2, <1>3, <1>7, <1>8, MainAssumption DEF Moved, TypeOK
<1>10. Staged' /\ GoneFirst'
  BY <1>1, <1>2, <1>3, <1>4
     DEF Moved, Staged, GoneFirst, At, Doing, BranchPc, RemovePc, DeletePc
<1>11. CreatedIsKept'
  BY <1>1, <1>2, <1>4 DEF CreatedIsKept, Staged, At
<1>. QED  BY <1>6, <1>9, <1>10, <1>11

LEMMA DropTenantKeeps ==
  ASSUME ProvisioningInv, NEW r \in Reqs, DropTenant(r)
  PROVE  ProvisioningInv'
<1>. USE DEF ProvisioningInv
<1>1. /\ UNCHANGED <<project, rows, name, anc, used, promised, doomed>>
      /\ req[r].pc = "drop_tenant" /\ Goto(r, "idle")
  BY DEF DropTenant, At, db, history
<1>2. "idle" \in Pcs /\ Follows(req[r].pc, "idle") /\ Moved(r, "idle")
  BY <1>1, Order, Moves
<1>3. Targets' /\ MainFirst' /\ FreshIds' /\ Unborn'
  BY <1>1, <1>2, Onward
<1>4. faults' \in Nat
  BY DEF DropTenant, Cost, Charge, TypeOK
<1>5. tenant' \in BOOLEAN
  BY DEF DropTenant, TypeOK, After
<1>6. tl' = tl \/ tl' = [b \in Branches |-> "none"]
  BY DEF DropTenant, After, NoTimelines
<1>7. TypeOK'
  BY <1>1, <1>2, <1>4, <1>5, <1>6 DEF Moved, TypeOK
<1>8. /\ promised = {}
      /\ \A s \in Reqs : s # r => req[s].pc \notin CreatePc
      /\ \A s \in Reqs : req[s].pc \notin DeletePc
  BY <1>1, MainAlone DEF Doing, MainPc
<1>9. Staged' /\ GoneFirst' /\ CreatedIsKept'
  BY <1>1, <1>2, <1>8
     DEF Moved, Staged, GoneFirst, CreatedIsKept, At, Doing, CreatePc, MainPc, BranchPc, RemovePc, DeletePc
<1>. QED  BY <1>3, <1>7, <1>9

-----------------------------------------------------------------------------
(***************************************************************************)
(* createBranch                                                            *)
(***************************************************************************)
\* A step that moves a request on and touches neither store.
LEMMA MoveKeeps ==
  ASSUME ProvisioningInv, NEW r \in Reqs, NEW l \in Pcs, Goto(r, l),
         Follows(req[r].pc, l), faults' \in Nat,
         UNCHANGED <<db, storage, used, history>>,
         l \notin {"insert_project", "insert_branch", "del_project"},
         l = "del_row" => tl[req[r].tgt] = "none"
  PROVE  ProvisioningInv'
<1>. USE DEF ProvisioningInv
<1>1. UNCHANGED <<project, rows, name, tenant, tl, anc, used, promised, doomed>>
  BY DEF db, storage, history
<1>2. Moved(r, l)
  BY Moves
<1>3. Targets' /\ MainFirst' /\ FreshIds' /\ Unborn'
  BY <1>1, <1>2, Onward
<1>4. TypeOK'
  BY <1>1, <1>2 DEF Moved, TypeOK
<1>5. Staged'
  BY <1>1, <1>2 DEF Moved, Staged, At
<1>6. GoneFirst'
  BY <1>1, <1>2 DEF Moved, GoneFirst, At, Doing, Follows, RemovePc
<1>7. CreatedIsKept'
  BY <1>1 DEF CreatedIsKept
<1>. QED  BY <1>3, <1>4, <1>5, <1>6, <1>7

LEMMA WaitIngestedKeeps ==
  ASSUME ProvisioningInv, NEW r \in Reqs, WaitIngested(r)
  PROVE  ProvisioningInv'
<1>1. PICK l \in {"branch", "idle"} : Goto(r, l)
  BY DEF WaitIngested
<1>2. l \in Pcs /\ Follows(req[r].pc, l)
  BY <1>1, Order DEF WaitIngested, At
<1>3. faults' \in Nat
  BY DEF WaitIngested, Charge, ProvisioningInv, TypeOK
<1>. QED  BY <1>1, <1>2, <1>3, MoveKeeps DEF WaitIngested

LEMMA CreateBranchAtLSNKeeps ==
  ASSUME ProvisioningInv, NEW r \in Reqs, CreateBranchAtLSN(r)
  PROVE  ProvisioningInv'
<1>. USE DEF ProvisioningInv
<1>1. PICK l \in {"insert_branch", "idle"} :
        /\ Goto(r, l)
        /\ \/ tl' = tl /\ anc' = anc /\ l = "idle"
           \/ /\ tl[req[r].par] = "active"
              /\ tl' = [tl EXCEPT ![req[r].tgt] = "active"]
              /\ anc' = [anc EXCEPT ![req[r].tgt] = req[r].par]
  BY DEF CreateBranchAtLSN, CanBranch, After
<1>2. /\ UNCHANGED <<project, rows, name, tenant, used, promised, doomed>>
      /\ req[r].pc = "branch"
  BY DEF CreateBranchAtLSN, At, db, history
<1>3. l \in Pcs /\ Follows(req[r].pc, l) /\ Moved(r, l)
  BY <1>1, <1>2, Order, Moves
<1>4. req[r].tgt \in Branches \ {Main} /\ req[r].par \in Branches
  BY <1>2 DEF Targets, Doing, BranchPc
<1>5. \A b \in Branches : anc'[b] \in {anc[b], req[r].par}
  BY <1>1, <1>4 DEF TypeOK
<1>6. Targets' /\ MainFirst' /\ FreshIds' /\ Unborn'
  BY <1>2, <1>3, <1>5, Onward
<1>7. faults' \in Nat
  BY DEF CreateBranchAtLSN, Cost, Charge, TypeOK
<1>8. TypeOK'
  BY <1>1, <1>2, <1>3, <1>4, <1>7 DEF Moved, TypeOK
<1>9. /\ l = "insert_branch" => tl'[req[r].tgt] = "active"
      /\ \A b \in Branches : b # req[r].tgt => tl'[b] = tl[b]
      /\ \A b \in Branches : tl[b] = "active" => tl'[b] = "active"
      /\ (\A b \in Branches : tl[b] = "none") => tl' = tl
  BY <1>1, <1>4 DEF TypeOK
<1>10. Staged'
  <2>1. ASSUME NEW s \in Reqs, req'[s].pc = "insert_project" PROVE tl'[Main] = "active"
    BY <1>1, <1>3, <1>9, <2>1, MainAssumption DEF Moved, Staged, At
  <2>2. ASSUME NEW s \in Reqs, s # r, req'[s].pc = "insert_branch"
        PROVE  /\ req'[s].tgt = req[s].tgt /\ tl'[req[s].tgt] = tl[req[s].tgt]
               /\ At(s, "insert_branch")
    BY <1>2, <1>3, <1>9, <2>2
       DEF Moved, Targets, FreshIds, CreatePc, BranchPc, Doing, At
  <2>. QED  BY <1>1, <1>2, <1>3, <1>9, <2>1, <2>2 DEF Moved, Staged, At
<1>11. GoneFirst'
  <2>1. ASSUME NEW s \in Reqs, req[s].pc = "del_row"
        PROVE  tl'[req[s].tgt] = tl[req[s].tgt]
    BY <1>2, <1>9, <2>1 DEF Unborn, Targets, Doing, StagingPc, RemovePc
  <2>. QED  BY <1>1, <1>2, <1>3, <1>9, <2>1 DEF Moved, GoneFirst, At, Doing, RemovePc
<1>12. CreatedIsKept'
  BY <1>2, <1>9 DEF CreatedIsKept, TypeOK
<1>. QED  BY <1>6, <1>8, <1>10, <1>11, <1>12

LEMMA InsertBranchKeeps ==
  ASSUME ProvisioningInv, NEW r \in Reqs, InsertBranch(r)
  PROVE  ProvisioningInv'
<1>. USE DEF ProvisioningInv
<1>1. PICK l \in {"drop_timeline", "idle"} :
        /\ Goto(r, l)
        /\ rows' = rows \/ rows' = rows \cup {req[r].tgt}
        /\ \/ promised' = promised
           \/ /\ l = "idle" /\ promised' = promised \cup {req[r].tgt}
              /\ rows' = rows \cup {req[r].tgt}
  BY DEF InsertBranch, After
<1>2. /\ UNCHANGED <<project, name, tenant, tl, anc, used, doomed>>
      /\ req[r].pc = "insert_branch"
  BY DEF InsertBranch, At, storage
<1>3. l \in Pcs /\ Follows(req[r].pc, l) /\ Moved(r, l)
  BY <1>1, <1>2, Order, Moves
<1>4. req[r].tgt \in Branches
  BY <1>2 DEF Targets, Doing, BranchPc
<1>5. Doing(r, StagingPc) /\ l \notin StagingPc
  BY <1>1, <1>2 DEF Doing, StagingPc
<1>6. Targets' /\ MainFirst' /\ FreshIds' /\ Unborn'
  BY <1>1, <1>2, <1>3, <1>5, Onward
<1>7. faults' \in Nat
  BY DEF InsertBranch, Cost, Charge, TypeOK
<1>8. TypeOK'
  BY <1>1, <1>2, <1>3, <1>4, <1>7 DEF Moved, TypeOK
<1>9. Staged' /\ GoneFirst'
  BY <1>1, <1>2, <1>3 DEF Moved, Staged, GoneFirst, At, Doing, RemovePc
<1>10. CreatedIsKept'
  BY <1>1, <1>2, <1>4 DEF CreatedIsKept, Staged, At
<1>. QED  BY <1>6, <1>8, <1>9, <1>10

-----------------------------------------------------------------------------
(***************************************************************************)
(* DeleteTimeline, in the compensation of createBranch and in deleteBranch *)
(***************************************************************************)
\* Nobody who relies on a timeline works on the one that is being deleted.
LEMMA DeleteTimelineKeeps ==
  ASSUME ProvisioningInv, NEW r \in Reqs,
         NEW here \in {"drop_timeline", "del_tl"}, NEW poll, NEW next,
         here = "drop_timeline" => poll = "drop_poll" /\ next = "idle",
         here = "del_tl" => poll = "del_poll" /\ next = "del_row",
         DeleteTimeline(r, here, poll, next)
  PROVE  ProvisioningInv'
<1>. USE DEF ProvisioningInv
<1>1. PICK l \in {poll, next, "idle"} :
        /\ Goto(r, l)
        /\ \/ tl' = tl
           \/ tl[req[r].tgt] # "none" /\ tl' = [tl EXCEPT ![req[r].tgt] = "deleting"]
        /\ l = "del_row" => tl[req[r].tgt] = "none" /\ tl' = tl
  <2>1. PICK o \in Outcomes :
          /\ tl' = IF DeleteAnswer(req[r].tgt) = "accepted"
                   THEN After(o, [tl EXCEPT ![req[r].tgt] = "deleting"], tl) ELSE tl
          /\ Goto(r, IF o = "ok" THEN AfterAnswer(DeleteAnswer(req[r].tgt), poll, next)
                     ELSE "idle")
    BY DEF DeleteTimeline
  <2>2. CASE tl[req[r].tgt] = "none"
    <3>1. DeleteAnswer(req[r].tgt) = "missing"
      BY <2>2 DEF DeleteAnswer
    <3>2. tl' = tl /\ AfterAnswer("missing", poll, next) = next
      BY <2>1, <3>1 DEF AfterAnswer
    <3>3. Goto(r, IF o = "ok" THEN next ELSE "idle")
      BY <2>1, <3>1, <3>2
    <3>. QED  BY <2>2, <3>2, <3>3
  <2>3. CASE tl[req[r].tgt] # "none"
    <3>1. CASE HasChildren(req[r].tgt)
      <4>1. DeleteAnswer(req[r].tgt) = "refused"
        BY <2>3, <3>1 DEF DeleteAnswer
      <4>2. tl' = tl /\ AfterAnswer("refused", poll, next) = "idle"
        BY <2>1, <4>1 DEF AfterAnswer
      <4>. QED  BY <2>1, <4>1, <4>2
    <3>2. CASE ~HasChildren(req[r].tgt)
      <4>1. DeleteAnswer(req[r].tgt) = "accepted"
        BY <2>3, <3>2 DEF DeleteAnswer
      <4>2. AfterAnswer("accepted", poll, next) = poll
        BY DEF AfterAnswer
      <4>3. tl' = tl \/ tl' = [tl EXCEPT ![req[r].tgt] = "deleting"]
        BY <2>1, <4>1 DEF After
      <4>4. Goto(r, IF o = "ok" THEN poll ELSE "idle")
        BY <2>1, <4>1, <4>2
      <4>. QED  BY <2>3, <4>3, <4>4
    <3>. QED  BY <3>1, <3>2
  <2>. QED  BY <2>2, <2>3
<1>2. /\ UNCHANGED <<project, rows, name, tenant, anc, used, promised, doomed>>
      /\ req[r].pc = here
  BY DEF DeleteTimeline, At, db, history
<1>3. l \in Pcs /\ Follows(req[r].pc, l) 
  BY <1>1, <1>2, Order
<1>4. Moved(r, l)
  BY <1>1, <1>3, Moves
<1>5. Targets' /\ MainFirst' /\ FreshIds' /\ Unborn'
  BY <1>2, <1>3, <1>4, Onward
<1>6. faults' \in Nat
  BY DEF DeleteTimeline, Cost, Charge, TypeOK
<1>7. req[r].tgt \in Branches \ {Main}
  BY <1>2 DEF Targets, Doing, BranchPc, RemovePc
<1>8. TypeOK'
  BY <1>1, <1>2, <1>4, <1>6, <1>7 DEF Moved, TypeOK
<1>9. /\ \A b \in Branches : b # req[r].tgt => tl'[b] = tl[b]
      /\ \A b \in Branches : tl[b] = "none" => tl'[b] = "none"
  BY <1>1, <1>7 DEF TypeOK
<1>10. Staged'
  <2>1. ASSUME NEW s \in Reqs, req'[s].pc = "insert_project" PROVE tl'[Main] = "active"
    BY <1>1, <1>4, <1>7, <1>9, <2>1, MainAssumption DEF Moved, Staged, At
  <2>2. ASSUME NEW s \in Reqs, req'[s].pc = "insert_branch"
        PROVE  /\ req'[s].tgt = req[s].tgt /\ tl'[req[s].tgt] = tl[req[s].tgt]
               /\ At(s, "insert_branch")
    BY <1>1, <1>2, <1>4, <1>9, <2>2
       DEF Moved, Targets, FreshIds, Unborn, CreatePc, BranchPc, RemovePc, StagingPc, Doing, At
  <2>. QED  BY <1>2, <2>1, <2>2 DEF Staged, At
<1>11. GoneFirst'
  <2>1. ASSUME NEW s \in Reqs, req'[s].pc = "del_row"
        PROVE  tl'[req'[s].tgt] = "none"
    BY <1>1, <1>4, <1>7, <1>9, <2>1 DEF Moved, GoneFirst, Targets, Doing, At, RemovePc
  <2>. QED  BY <1>1, <1>2, <1>4, <1>9, <2>1 DEF Moved, GoneFirst, At, Doing, RemovePc
<1>12. req[r].tgt \notin promised \ doomed
  BY <1>2 DEF FreshIds, GoneFirst, Doing, CreatePc, BranchPc, RemovePc
<1>13. CreatedIsKept'
  BY <1>2, <1>9, <1>12 DEF CreatedIsKept, TypeOK
<1>. QED  BY <1>5, <1>8, <1>10, <1>11, <1>13

LEMMA PollTimelineKeeps ==
  ASSUME ProvisioningInv, NEW r \in Reqs,
         NEW poll \in {"drop_poll", "del_poll"}, NEW next,
         poll = "drop_poll" => next = "idle",
         poll = "del_poll" => next = "del_row",
         PollTimeline(r, poll, next)
  PROVE  ProvisioningInv'
<1>1. PICK l \in {next, "idle"} : Goto(r, l) /\ (l # "idle" => tl[req[r].tgt] = "none")
  BY DEF PollTimeline
<1>2. l \in Pcs /\ Follows(req[r].pc, l) /\ l \in {"idle", "del_row"}
  BY <1>1, Order DEF PollTimeline, At
<1>3. faults' \in Nat
  BY DEF PollTimeline, Charge, ProvisioningInv, TypeOK
<1>. QED  BY <1>1, <1>2, <1>3, MoveKeeps DEF PollTimeline

\* An accepted delete finishes.
LEMMA TimelineGoneKeeps ==
  ASSUME ProvisioningInv, NEW b \in Branches, TimelineGone(b)
  PROVE  ProvisioningInv'
<1>. USE DEF ProvisioningInv
<1>1. /\ UNCHANGED <<project, rows, name, tenant, anc, used, req, promised, doomed, faults>>
      /\ tl[b] = "deleting" /\ tl' = [tl EXCEPT ![b] = "none"]
  BY DEF TimelineGone, db, history
<1>2. TypeOK'
  BY <1>1 DEF TypeOK
<1>3. Targets' /\ MainFirst' /\ FreshIds' /\ Unborn'
  BY <1>1 DEF Targets, MainFirst, FreshIds, Unborn, Doing, Known
<1>4. \A c \in Branches : tl'[c] = tl[c] \/ (c = b /\ tl'[c] = "none")
  BY <1>1 DEF TypeOK
<1>5. Staged'
  BY <1>1, <1>4, MainAssumption DEF Staged, Targets, Doing, At, BranchPc
<1>6. GoneFirst'
  BY <1>1, <1>4 DEF GoneFirst, Targets, Doing, At, RemovePc
<1>7. CreatedIsKept'
  BY <1>1, <1>4 DEF CreatedIsKept, TypeOK
<1>. QED  BY <1>2, <1>3, <1>5, <1>6, <1>7

-----------------------------------------------------------------------------
(***************************************************************************)
(* The rest of deleteBranch and deleteProject                              *)
(***************************************************************************)
LEMMA DeleteBranchRowKeeps ==
  ASSUME ProvisioningInv, NEW r \in Reqs, DeleteBranchRow(r)
  PROVE  ProvisioningInv'
<1>. USE DEF ProvisioningInv
<1>1. /\ UNCHANGED <<project, name, tenant, tl, anc, used, promised, doomed>>
      /\ req[r].pc = "del_row" /\ Goto(r, "idle")
      /\ rows' = rows \/ rows' = rows \ {req[r].tgt}
  BY DEF DeleteBranchRow, At, storage, history, After
<1>2. "idle" \in Pcs /\ Follows(req[r].pc, "idle") /\ Moved(r, "idle")
  BY <1>1, Order, Moves
<1>3. Targets' /\ MainFirst' /\ FreshIds' /\ Unborn'
  BY <1>1, <1>2, Onward
<1>4. faults' \in Nat
  BY DEF DeleteBranchRow, Cost, Charge, TypeOK
<1>5. TypeOK'
  BY <1>1, <1>2, <1>4 DEF Moved, TypeOK
<1>6. Staged' /\ GoneFirst'
  BY <1>1, <1>2 DEF Moved, Staged, GoneFirst, At, Doing, RemovePc
<1>7. CreatedIsKept'
  BY <1>1 DEF CreatedIsKept, GoneFirst, Doing, RemovePc
<1>. QED  BY <1>3, <1>5, <1>6, <1>7

\* The project has been promised, so nobody is creating it.
LEMMA DeleteTenantKeeps ==
  ASSUME ProvisioningInv, NEW r \in Reqs, DeleteTenant(r)
  PROVE  ProvisioningInv'
<1>. USE DEF ProvisioningInv
<1>1. PICK l \in {"del_project", "idle"} :
        /\ Goto(r, l)
        /\ \/ l = "idle" /\ UNCHANGED <<tenant, tl>>
           \/ tenant' = FALSE /\ tl' = [b \in Branches |-> "none"]
  BY DEF DeleteTenant, After, NoTimelines
<1>2. /\ UNCHANGED <<project, rows, name, anc, used, promised, doomed>>
      /\ req[r].pc = "del_tenant"
  BY DEF DeleteTenant, At, db, history
<1>3. l \in Pcs /\ Follows(req[r].pc, l) /\ Moved(r, l)
  BY <1>1, <1>2, Order, Moves
<1>4. Targets' /\ MainFirst' /\ FreshIds' /\ Unborn'
  BY <1>2, <1>3, Onward
<1>5. faults' \in Nat
  BY DEF DeleteTenant, Cost, Charge, TypeOK
<1>6. tenant' \in BOOLEAN
  BY <1>1 DEF TypeOK
<1>7. TypeOK'
  BY <1>1, <1>2, <1>3, <1>5, <1>6 DEF Moved, TypeOK
<1>8. doomed = Branches
  BY <1>2 DEF GoneFirst, Doing
<1>9. \A s \in Reqs : req[s].pc \notin MainPc
  BY <1>2, MainAlone DEF Doing, DeletePc
<1>10. \A s \in Reqs : req[s].pc \in BranchPc \cup RemovePc => req[s].tgt \in Branches
  BY DEF Targets, Doing
<1>11. Staged'
  BY <1>1, <1>2, <1>3, <1>8, <1>9, <1>10 DEF Moved, Staged, At, MainPc, BranchPc
<1>12. GoneFirst'
  BY <1>1, <1>2, <1>3, <1>8, <1>10 DEF Moved, GoneFirst, Doing, At, RemovePc
<1>13. CreatedIsKept'
  BY <1>2, <1>8 DEF CreatedIsKept, TypeOK
<1>. QED  BY <1>4, <1>7, <1>11, <1>12, <1>13

LEMMA DeleteProjectRowKeeps ==
  ASSUME ProvisioningInv, NEW r \in Reqs, DeleteProjectRow(r)
  PROVE  ProvisioningInv'
<1>. USE DEF ProvisioningInv
<1>1. /\ UNCHANGED <<name, tenant, tl, anc, used, promised, doomed>>
      /\ req[r].pc = "del_project" /\ Goto(r, "idle")
      /\ rows' \subseteq rows
  BY DEF DeleteProjectRow, At, storage, history, After
<1>2. "idle" \in Pcs /\ Follows(req[r].pc, "idle") /\ Moved(r, "idle")
  BY <1>1, Order, Moves
<1>3. Targets' /\ MainFirst' /\ FreshIds' /\ Unborn'
  BY <1>1, <1>2, Onward
<1>4. faults' \in Nat
  BY DEF DeleteProjectRow, Cost, Charge, TypeOK
<1>5. project' \in BOOLEAN
  BY DEF DeleteProjectRow, TypeOK, After
<1>6. TypeOK'
  BY <1>1, <1>2, <1>4, <1>5 DEF Moved, TypeOK
<1>7. Staged' /\ GoneFirst'
  BY <1>1, <1>2 DEF Moved, Staged, GoneFirst, At, Doing, RemovePc
<1>8. CreatedIsKept'
  BY <1>1 DEF CreatedIsKept, GoneFirst, Doing, TypeOK
<1>. QED  BY <1>3, <1>6, <1>7, <1>8

-----------------------------------------------------------------------------
(***************************************************************************)
(* The requests come in                                                    *)
(***************************************************************************)
\* What entering does to the requests.
Entered(r, l, b, p) ==
  /\ req' \in [Reqs -> Requests]
  /\ req[r].pc = "idle"
  /\ req'[r].pc = l /\ req'[r].tgt = b /\ req'[r].par = p
  /\ \A s \in Reqs : s # r => req'[s] = req[s]

LEMMA Enters ==
  ASSUME TypeOK, NEW r \in Reqs, NEW l \in Pcs,
         NEW b \in Branches \cup {NoBranch}, NEW p \in Branches \cup {NoBranch},
         Enter(r, l, b, p)
  PROVE  Entered(r, l, b, p)
BY DEF TypeOK, Enter, Become, At, Requests, Entered

LEMMA CreateProjectKeeps ==
  ASSUME ProvisioningInv, NEW r \in Reqs, CreateProject(r)
  PROVE  ProvisioningInv'
<1>. USE DEF ProvisioningInv
<1>1. "attach" \in Pcs
  BY DEF Pcs, CreatePc, MainPc
<1>2. Enter(r, "attach", Main, NoBranch)
  BY DEF CreateProject
<1>3. Entered(r, "attach", Main, NoBranch)
  BY <1>1, <1>2, Enters, MainAssumption
<1>4. /\ UNCHANGED <<project, rows, name, tenant, tl, anc, promised, doomed, faults>>
      /\ Main \notin used /\ used' = used \cup {Main}
  BY DEF CreateProject, db, storage, history
<1>5. TypeOK'
  BY <1>3, <1>4, MainAssumption DEF TypeOK, Entered
<1>6. Targets'
  BY <1>3, <1>4 DEF Targets, Entered, Doing, BranchPc, RemovePc
<1>7. MainFirst'
  BY <1>3, <1>4 DEF MainFirst, Entered, Doing, BranchPc, DeletePc, Known
<1>8. FreshIds'
  BY <1>3, <1>4, MainAssumption
     DEF FreshIds, Entered, Doing, CreatePc, MainPc, BranchPc, RemovePc
<1>9. Unborn'
  <2>1. Main \notin rows /\ \A s \in Reqs : Doing(s, RemovePc) => req[s].tgt # Main
    BY <1>4 DEF FreshIds
  <2>. QED  BY <1>3, <1>4, <2>1 DEF Unborn, Entered, Doing, StagingPc, RemovePc
<1>10. Staged' /\ GoneFirst' /\ CreatedIsKept'
  BY <1>3, <1>4 DEF Staged, GoneFirst, CreatedIsKept, Entered, Doing, At, RemovePc
<1>. QED  BY <1>5, <1>6, <1>7, <1>8, <1>9, <1>10

LEMMA CreateBranchKeeps ==
  ASSUME ProvisioningInv, NEW r \in Reqs, CreateBranch(r)
  PROVE  ProvisioningInv'
<1>. USE DEF ProvisioningInv
<1>1. PICK b \in Branches \ (used \cup {Main}), p \in rows :
        /\ used' = used \cup {b}
        /\ Enter(r, "ingest", b, p)
  BY DEF CreateBranch
<1>2. "ingest" \in Pcs
  BY DEF Pcs, CreatePc, BranchPc
<1>3. p \in Branches /\ p \in used
  BY DEF TypeOK, FreshIds
<1>4. Entered(r, "ingest", b, p)
  BY <1>1, <1>2, <1>3, Enters
<1>5. /\ UNCHANGED <<project, rows, name, tenant, tl, anc, promised, doomed, faults>>
      /\ Known
  BY DEF CreateBranch, db, storage, history
<1>6. TypeOK'
  BY <1>1, <1>4, <1>5 DEF TypeOK, Entered
<1>7. Targets'
  BY <1>3, <1>4, <1>5 DEF Targets, Entered, Doing, MainPc, RemovePc
<1>8. MainFirst'
  BY <1>4, <1>5 DEF MainFirst, Entered, Doing, Known
<1>9. FreshIds'
  BY <1>1, <1>3, <1>4, <1>5
     DEF FreshIds, Entered, Doing, CreatePc, MainPc, BranchPc, RemovePc
<1>10. Unborn'
  <2>1. b \notin rows /\ \A s \in Reqs : Doing(s, RemovePc) => req[s].tgt # b
    BY DEF FreshIds
  <2>. QED  BY <1>4, <1>5, <2>1 DEF Unborn, Entered, Doing, StagingPc, RemovePc
<1>11. Staged' /\ GoneFirst' /\ CreatedIsKept'
  BY <1>4, <1>5 DEF Staged, GoneFirst, CreatedIsKept, Entered, Doing, At, RemovePc
<1>. QED  BY <1>6, <1>7, <1>8, <1>9, <1>10, <1>11

LEMMA DeleteBranchKeeps ==
  ASSUME ProvisioningInv, NEW r \in Reqs, DeleteBranch(r)
  PROVE  ProvisioningInv'
<1>. USE DEF ProvisioningInv
<1>1. PICK b \in rows \ {Main} :
        /\ Enter(r, "del_tl", b, NoBranch)
        /\ doomed' = doomed \cup {b}
  BY DEF DeleteBranch
<1>2. "del_tl" \in Pcs
  BY DEF Pcs, DeletePc
<1>3. b \in Branches /\ b \in used
  BY DEF TypeOK, FreshIds
<1>4. Entered(r, "del_tl", b, NoBranch)
  BY <1>1, <1>2, <1>3, Enters
<1>5. /\ UNCHANGED <<project, rows, name, tenant, tl, anc, used, promised, faults>>
      /\ Known
  BY DEF DeleteBranch, db, storage
<1>6. TypeOK'
  BY <1>1, <1>3, <1>4, <1>5 DEF TypeOK, Entered
<1>7. Targets'
  BY <1>3, <1>4, <1>5 DEF Targets, Entered, Doing, MainPc, BranchPc
<1>8. MainFirst'
  BY <1>4, <1>5 DEF MainFirst, Entered, Doing, Known
<1>9. FreshIds'
  BY <1>3, <1>4, <1>5
     DEF FreshIds, Entered, Doing, CreatePc, MainPc, BranchPc, RemovePc
<1>10. Unborn'
  BY <1>4, <1>5 DEF Unborn, Entered, Doing, StagingPc, RemovePc
<1>11. Staged' /\ CreatedIsKept'
  BY <1>1, <1>4, <1>5 DEF Staged, CreatedIsKept, Entered, At
<1>12. GoneFirst'
  BY <1>1, <1>3, <1>4, <1>5 DEF GoneFirst, Entered, Doing, At, RemovePc
<1>. QED  BY <1>6, <1>7, <1>8, <1>9, <1>10, <1>11, <1>12

LEMMA DeleteProjectKeeps ==
  ASSUME ProvisioningInv, NEW r \in Reqs, DeleteProject(r)
  PROVE  ProvisioningInv'
<1>. USE DEF ProvisioningInv
<1>1. Enter(r, "del_tenant", NoBranch, NoBranch)
  BY DEF DeleteProject
<1>2. "del_tenant" \in Pcs
  BY DEF Pcs, DeletePc
<1>3. Entered(r, "del_tenant", NoBranch, NoBranch)
  BY <1>1, <1>2, Enters
<1>4. /\ UNCHANGED <<project, rows, name, tenant, tl, anc, used, promised, faults>>
      /\ Known /\ doomed' = Branches
  BY DEF DeleteProject, db, storage
<1>5. TypeOK'
  BY <1>3, <1>4 DEF TypeOK, Entered
<1>6. Targets' /\ MainFirst'
  BY <1>3, <1>4 DEF Targets, MainFirst, Entered, Doing, Known, MainPc, BranchPc, RemovePc
<1>7. FreshIds'
  BY <1>3, <1>4 DEF FreshIds, Entered, Doing, CreatePc, MainPc, BranchPc, RemovePc
<1>8. Unborn'
  BY <1>3, <1>4 DEF Unborn, Entered, Doing, StagingPc, RemovePc
<1>9. Staged' /\ CreatedIsKept'
  BY <1>3, <1>4 DEF Staged, CreatedIsKept, Entered, At, TypeOK, Targets, Doing, BranchPc
<1>10. GoneFirst'
  BY <1>3, <1>4 DEF GoneFirst, Entered, Doing, At, RemovePc, Targets
<1>. QED  BY <1>5, <1>6, <1>7, <1>8, <1>9, <1>10

\* The requests that read.
LEMMA ReadEntersKeep ==
  ASSUME ProvisioningInv, NEW r \in Reqs,
         GetProject(r) \/ Usage(r) \/ GetAccessControl(r)
  PROVE  ProvisioningInv'
<1>1. PICK l \in {"list_project", "list_usage", "spec_project"}, b \in rows \cup {NoBranch} :
        Enter(r, l, b, NoBranch)
  BY DEF GetProject, Usage, GetAccessControl
<1>2. l \in ReadPc /\ l \in Pcs /\ b \in Branches \cup {NoBranch}
  BY DEF ReadPc, Pcs, ProvisioningInv, TypeOK
<1>3. Entered(r, l, b, NoBranch)
  BY <1>1, <1>2, Enters DEF ProvisioningInv
<1>4. UNCHANGED <<db, storage, used, history>> /\ faults' \in Nat
  BY DEF GetProject, Usage, GetAccessControl, ProvisioningInv, TypeOK
<1>. QED  BY <1>2, <1>3, <1>4, QuietStep DEF Entered

LEMMA EndKeeps ==
  ASSUME ProvisioningInv, NEW r \in Reqs, NEW l \in ReadPc \cup {"idle"}, Goto(r, l),
         faults' \in Nat, UNCHANGED <<db, storage, used, history>>
  PROVE  ProvisioningInv'
<1>1. l \in Pcs
  BY DEF Pcs
<1>2. Moved(r, l)
  BY <1>1, Moves DEF ProvisioningInv
<1>. QED  BY <1>2, QuietStep DEF Moved

LEMMA ListingKeeps ==
  ASSUME ProvisioningInv, NEW r \in Reqs, NEW l \in ReadPc, NEW S \in SUBSET Branches,
         Become(r, l, NoBranch, NoBranch, S),
         faults' \in Nat, UNCHANGED <<db, storage, used, history>>
  PROVE  ProvisioningInv'
<1>1. l \in Pcs
  BY DEF Pcs
<1>2. /\ req' \in [Reqs -> Requests]
      /\ req'[r].pc = l /\ req'[r].par = NoBranch
      /\ \A s \in Reqs : s # r => req'[s] = req[s]
  BY <1>1 DEF Become, Requests, ProvisioningInv, TypeOK
<1>. QED  BY <1>2, QuietStep

LEMMA ListKeeps ==
  ASSUME ProvisioningInv, NEW r \in Reqs, NEW here, NEW next \in ReadPc,
         ListBranchesByProject(r, here, next)
  PROVE  ProvisioningInv'
<1>1. UNCHANGED <<db, storage, used, history>> /\ faults' \in Nat /\ rows \in SUBSET Branches
  BY DEF ListBranchesByProject, Charge, ProvisioningInv, TypeOK
<1>. QED  BY <1>1, EndKeeps, ListingKeeps DEF ListBranchesByProject

LEMMA LookUpKeeps ==
  ASSUME ProvisioningInv, NEW r \in Reqs, NEW here \in ReadPc, NEW found,
         NEW answer \in ReadPc, LookUp(r, here, found, answer)
  PROVE  ProvisioningInv'
<1>1. UNCHANGED <<db, storage, used, history>> /\ faults' \in Nat
  BY DEF LookUp, Charge, ProvisioningInv, TypeOK
<1>2. \A b : req[r].todo \ {b} \in SUBSET Branches
  BY DEF ProvisioningInv, TypeOK, Requests
<1>3. \/ Goto(r, "idle") \/ Goto(r, answer)
      \/ \E b : Become(r, here, NoBranch, NoBranch, req[r].todo \ {b})
  BY DEF LookUp
<1>4. ASSUME NEW b, Become(r, here, NoBranch, NoBranch, req[r].todo \ {b})
      PROVE  ProvisioningInv'
  <2>. DEFINE S == req[r].todo \ {b}
  <2>1. S \in SUBSET Branches /\ Become(r, here, NoBranch, NoBranch, S)
    BY <1>2, <1>4
  <2>. HIDE DEF S
  <2>. QED  BY <1>1, <2>1, ListingKeeps
<1>. QED  BY <1>1, <1>3, <1>4, EndKeeps

LEMMA ReadKeeps ==
  ASSUME ProvisioningInv, NEW r \in Reqs, Read(r)
  PROVE  ProvisioningInv'
<1>1. {"list_project", "endpoints", "got_project", "list_usage", "sizes", "got_usage",
       "spec_branch", "got_spec"} \subseteq ReadPc
  BY DEF ReadPc
<1>2. CASE ListForProject(r)
  BY <1>1, <1>2, ListKeeps DEF ListForProject
<1>3. CASE ListForUsage(r)
  BY <1>1, <1>3, ListKeeps DEF ListForUsage
<1>4. CASE GetEndpointByBranch(r)
  BY <1>1, <1>4, LookUpKeeps DEF GetEndpointByBranch
<1>5. CASE GetTimeline(r)
  BY <1>1, <1>5, LookUpKeeps DEF GetTimeline
<1>6. CASE SpecProject(r) \/ SpecBranch(r)
  <2>1. UNCHANGED <<db, storage, used, history>> /\ faults' \in Nat
    BY <1>6 DEF SpecProject, SpecBranch, Charge, ProvisioningInv, TypeOK
  <2>2. \E l \in {"spec_branch", "got_spec", "idle"} : Goto(r, l)
    BY <1>6 DEF SpecProject, SpecBranch
  <2>. QED  BY <1>1, <2>1, <2>2, EndKeeps
<1>7. CASE Answer(r)
  BY <1>7, EndKeeps DEF Answer, ProvisioningInv, TypeOK
<1>. QED  BY <1>2, <1>3, <1>4, <1>5, <1>6, <1>7 DEF Read

-----------------------------------------------------------------------------
LEMMA HandleKeeps ==
  ASSUME ProvisioningInv, NEW r \in Reqs, Handle(r)
  PROVE  ProvisioningInv'
<1>1. CASE AttachTenant(r) \/ CreateTimeline(r) \/ InsertProject(r) \/ DropTenant(r)
  BY <1>1, AttachTenantKeeps, CreateTimelineKeeps, InsertProjectKeeps, DropTenantKeeps
<1>2. CASE WaitIngested(r) \/ CreateBranchAtLSN(r) \/ InsertBranch(r)
  BY <1>2, WaitIngestedKeeps, CreateBranchAtLSNKeeps, InsertBranchKeeps
<1>3. CASE DropTimeline(r)
  BY <1>3, DeleteTimelineKeeps DEF DropTimeline
<1>4. CASE DeleteBranchTimeline(r)
  BY <1>4, DeleteTimelineKeeps DEF DeleteBranchTimeline
<1>5. CASE DropTimelinePoll(r)
  BY <1>5, PollTimelineKeeps DEF DropTimelinePoll
<1>6. CASE DeleteBranchPoll(r)
  BY <1>6, PollTimelineKeeps DEF DeleteBranchPoll
<1>7. CASE DeleteBranchRow(r) \/ DeleteTenant(r) \/ DeleteProjectRow(r)
  BY <1>7, DeleteBranchRowKeeps, DeleteTenantKeeps, DeleteProjectRowKeeps
<1>. QED  BY <1>1, <1>2, <1>3, <1>4, <1>5, <1>6, <1>7 DEF Handle

LEMMA ProvisioningInvInductive ==
  ASSUME ProvisioningInv, [Next]_vars
  PROVE  ProvisioningInv'
<1>1. ASSUME NEW r \in Reqs,
             \/ CreateProject(r) \/ CreateBranch(r) \/ DeleteBranch(r) \/ DeleteProject(r)
             \/ GetProject(r) \/ Usage(r) \/ GetAccessControl(r)
      PROVE  ProvisioningInv'
  BY <1>1, CreateProjectKeeps, CreateBranchKeeps, DeleteBranchKeeps, DeleteProjectKeeps,
     ReadEntersKeep
<1>2. ASSUME NEW r \in Reqs, Handle(r) \/ Read(r) PROVE ProvisioningInv'
  BY <1>2, HandleKeeps, ReadKeeps
<1>3. ASSUME NEW r \in Reqs, Cancelled(r) PROVE ProvisioningInv'
  <2>1. faults' \in Nat /\ UNCHANGED <<db, storage, used, history>> /\ Goto(r, "idle")
    BY <1>3 DEF Cancelled, Charge, ProvisioningInv, TypeOK
  <2>. QED  BY <2>1, EndKeeps
<1>4. CASE UNCHANGED vars
  <2>1. UNCHANGED <<project, rows, name, tenant, tl, anc, used, req, promised, doomed, faults>>
    BY <1>4 DEF vars, db, storage, history
  <2>. QED  BY <2>1 DEF ProvisioningInv, TypeOK, Targets, MainFirst, FreshIds, Unborn, Staged,
                        GoneFirst, CreatedIsKept, Doing, At, Known
<1>. QED  BY <1>1, <1>2, <1>3, <1>4, TimelineGoneKeeps DEF Next

LEMMA ProvisioningInvInit == Init => ProvisioningInv
<1>. SUFFICES ASSUME Init PROVE ProvisioningInv
  OBVIOUS
<1>1. /\ \A r \in Reqs : req[r] = Idle
      /\ Idle.pc = "idle" /\ Idle.par = NoBranch
  BY DEF Init, Idle
<1>2. TypeOK
  BY DEF Init, TypeOK, Idle, Requests, Pcs
<1>3. Targets /\ MainFirst /\ Unborn /\ Staged /\ GoneFirst /\ CreatedIsKept
  BY <1>1 DEF Init, Targets, MainFirst, Unborn, Staged, GoneFirst, CreatedIsKept, Doing, At,
              MainPc, BranchPc, RemovePc, DeletePc, StagingPc
<1>4. FreshIds
  BY <1>1 DEF Init, FreshIds, Doing, RemovePc, CreatePc, MainPc, BranchPc
<1>. QED  BY <1>2, <1>3, <1>4 DEF ProvisioningInv

\* Whatever fails and whoever interferes, what the handlers rely on at each of
\* their calls holds (api.go, createProject, createBranch, deleteBranch,
\* deleteProject).
THEOREM HandlersRely == Spec => []ProvisioningInv
BY ProvisioningInvInit, ProvisioningInvInductive, PTL DEF Spec

\* A branch whose create was answered with 201 keeps its row and its timeline
\* until somebody asks to delete it (api.go, createProject and createBranch).
THEOREM CreatedStaysCreated == Spec => []CreatedIsKept
<1>1. ProvisioningInv => CreatedIsKept
  BY DEF ProvisioningInv
<1>. QED  BY <1>1, HandlersRely, PTL

-----------------------------------------------------------------------------
(***************************************************************************)
(* What one step does to the row and the timeline of a branch              *)
(***************************************************************************)
RowStays(b) ==
  /\ b \in rows <=> b \in rows'
  /\ b \in rows => tl'[b] = tl[b] \/ tl'[b] # "active"

RowComes(b) ==
  /\ b \notin rows /\ b \in rows' /\ tl'[b] = tl[b]
  /\ tl[b] = "active" \/ (tl[b] = "none" /\ b \in doomed)

RowGoes(b) == b \in rows /\ b \notin rows' /\ tl'[b] = tl[b] /\ tl[b] = "none"

Effect(b) == RowStays(b) \/ RowComes(b) \/ RowGoes(b)

\* The calls that touch neither.
LEMMA Untouched ==
  ASSUME NEW r \in Reqs,
         \/ CreateProject(r) \/ CreateBranch(r) \/ DeleteBranch(r) \/ DeleteProject(r)
         \/ GetProject(r) \/ Usage(r) \/ GetAccessControl(r) \/ Read(r) \/ Cancelled(r)
         \/ AttachTenant(r) \/ WaitIngested(r) \/ DropTimelinePoll(r) \/ DeleteBranchPoll(r)
  PROVE  UNCHANGED <<rows, tl>>
<1>. USE DEF db, storage
<1>1. CASE CreateProject(r) \/ CreateBranch(r) \/ DeleteBranch(r) \/ DeleteProject(r)
  BY <1>1 DEF CreateProject, CreateBranch, DeleteBranch, DeleteProject
<1>2. CASE GetProject(r) \/ Usage(r) \/ GetAccessControl(r) \/ Cancelled(r)
  BY <1>2 DEF GetProject, Usage, GetAccessControl, Cancelled
<1>3. CASE Read(r)
  BY <1>3 DEF Read, ListForProject, ListForUsage, GetEndpointByBranch, GetTimeline,
              ListBranchesByProject, LookUp, SpecProject, SpecBranch, Answer
<1>4. CASE AttachTenant(r) \/ WaitIngested(r) \/ DropTimelinePoll(r) \/ DeleteBranchPoll(r)
  BY <1>4 DEF AttachTenant, WaitIngested, DropTimelinePoll, DeleteBranchPoll, PollTimeline
<1>. QED  BY <1>1, <1>2, <1>3, <1>4

LEMMA Effects ==
  ASSUME ProvisioningInv, [Next]_vars, NEW b \in Branches
  PROVE  Effect(b)
<1>. USE DEF ProvisioningInv, Effect
<1>1. CASE UNCHANGED <<rows, tl>>
  BY <1>1 DEF RowStays
<1>2. CASE \E c \in Branches : TimelineGone(c)
  <2>1. rows' = rows /\ (tl'[b] = tl[b] \/ tl'[b] = "none")
    BY <1>2 DEF TimelineGone, db, TypeOK
  <2>. QED  BY <2>1 DEF RowStays
<1>3. ASSUME NEW r \in Reqs, Handle(r), ~UNCHANGED <<rows, tl>> PROVE Effect(b)
  <2>1. CASE CreateTimeline(r)
    <3>1. rows' = rows /\ (tl' = tl \/ tl' = [tl EXCEPT ![Main] = "active"])
      BY <2>1 DEF CreateTimeline, db, After
    <3>2. Main \notin rows
      BY <2>1 DEF CreateTimeline, At, Unborn, Targets, Doing, StagingPc, MainPc
    <3>. QED  BY <3>1, <3>2 DEF RowStays, TypeOK
  <2>2. CASE InsertProject(r)
    <3>1. tl' = tl /\ (rows' = rows \/ rows' = rows \cup {Main})
      BY <2>2 DEF InsertProject, storage, After
    <3>2. Main \notin rows /\ tl[Main] = "active"
      BY <2>2 DEF InsertProject, At, Unborn, Staged, Targets, Doing, StagingPc, MainPc
    <3>. QED  BY <3>1, <3>2 DEF RowStays, RowComes
  <2>3. CASE DropTenant(r) \/ DeleteTenant(r)
    <3>1. rows' = rows /\ (tl' = tl \/ tl' = [c \in Branches |-> "none"])
      BY <2>3 DEF DropTenant, DeleteTenant, db, After, NoTimelines
    <3>. QED  BY <3>1 DEF RowStays
  <2>4. CASE CreateBranchAtLSN(r)
    <3>1. rows' = rows /\ (tl' = tl \/ tl' = [tl EXCEPT ![req[r].tgt] = "active"])
      BY <2>4 DEF CreateBranchAtLSN, db, After
    <3>2. req[r].tgt \notin rows
      BY <2>4 DEF CreateBranchAtLSN, At, Unborn, Doing, StagingPc
    <3>. QED  BY <3>1, <3>2 DEF RowStays, TypeOK
  <2>5. CASE InsertBranch(r)
    <3>1. tl' = tl /\ (rows' = rows \/ rows' = rows \cup {req[r].tgt})
      BY <2>5 DEF InsertBranch, storage, After
    <3>2. /\ req[r].tgt \notin rows
          /\ tl[req[r].tgt] = "active" \/ (tl[req[r].tgt] = "none" /\ req[r].tgt \in doomed)
      BY <2>5 DEF InsertBranch, At, Unborn, Staged, Doing, StagingPc
    <3>. QED  BY <3>1, <3>2 DEF RowStays, RowComes
  <2>6. CASE DropTimeline(r) \/ DeleteBranchTimeline(r)
    <3>1. rows' = rows /\ (tl' = tl \/ tl' = [tl EXCEPT ![req[r].tgt] = "deleting"])
      BY <2>6 DEF DropTimeline, DeleteBranchTimeline, DeleteTimeline, db, After
    <3>. QED  BY <3>1 DEF RowStays, TypeOK
  <2>7. CASE DeleteBranchRow(r)
    <3>1. tl' = tl /\ (rows' = rows \/ rows' = rows \ {req[r].tgt})
      BY <2>7 DEF DeleteBranchRow, storage, After
    <3>2. tl[req[r].tgt] = "none"
      BY <2>7 DEF DeleteBranchRow, At, GoneFirst
    <3>. QED  BY <3>1, <3>2 DEF RowStays, RowGoes
  <2>8. CASE DeleteProjectRow(r)
    <3>1. tl' = tl /\ (rows' = rows \/ rows' = {})
      BY <2>8 DEF DeleteProjectRow, storage, After
    <3>2. tl[b] = "none"
      BY <2>8 DEF DeleteProjectRow, At, GoneFirst
    <3>. QED  BY <3>1, <3>2 DEF RowStays, RowGoes
  <2>. QED  BY <1>3, <2>1, <2>2, <2>3, <2>4, <2>5, <2>6, <2>7, <2>8, Untouched DEF Handle
<1>. QED  BY <1>1, <1>2, <1>3, Untouched DEF Next, vars, db, storage

\* A row goes only when its timeline is gone (api.go, deleteBranch and
\* deleteProject).
THEOREM RowGoesLast == Spec => RowOutlivesStorage
<1>1. ProvisioningInv /\ [Next]_vars => [\A b \in rows \ rows' : tl[b] = "none"]_vars
  <2>. SUFFICES ASSUME ProvisioningInv, [Next]_vars, NEW b \in rows \ rows'
                PROVE  tl[b] = "none"
    OBVIOUS
  <2>. b \in Branches
    BY DEF ProvisioningInv, TypeOK
  <2>. QED  BY Effects DEF Effect, RowStays, RowComes, RowGoes
<1>. QED  BY <1>1, HandlersRely, PTL DEF Spec, RowOutlivesStorage

LEMMA HistoryGrows ==
  ASSUME ProvisioningInv, [Next]_vars
  PROVE  promised \subseteq promised' /\ doomed \subseteq doomed'
<1>. USE DEF db, storage, history
<1>1. ASSUME NEW r \in Reqs, Handle(r) PROVE promised \subseteq promised' /\ doomed \subseteq doomed'
  BY <1>1 DEF Handle, AttachTenant, CreateTimeline, InsertProject, DropTenant, WaitIngested,
              CreateBranchAtLSN, InsertBranch, DropTimeline, DropTimelinePoll,
              DeleteBranchTimeline, DeleteBranchPoll, DeleteBranchRow, DeleteTimeline,
              PollTimeline, DeleteTenant, DeleteProjectRow
<1>2. ASSUME NEW r \in Reqs, Read(r) PROVE promised \subseteq promised' /\ doomed \subseteq doomed'
  BY <1>2 DEF Read, ListForProject, ListForUsage, GetEndpointByBranch, GetTimeline,
              ListBranchesByProject, LookUp, SpecProject, SpecBranch, Answer
<1>3. ASSUME NEW r \in Reqs,
             \/ CreateProject(r) \/ CreateBranch(r) \/ DeleteBranch(r) \/ DeleteProject(r)
             \/ GetProject(r) \/ Usage(r) \/ GetAccessControl(r) \/ Cancelled(r)
      PROVE  promised \subseteq promised' /\ doomed \subseteq doomed'
  BY <1>3 DEF CreateProject, CreateBranch, DeleteBranch, DeleteProject, GetProject, Usage,
              GetAccessControl, Cancelled, ProvisioningInv, TypeOK
<1>4. CASE UNCHANGED vars
  BY <1>4 DEF vars
<1>. QED  BY <1>1, <1>2, <1>3, <1>4 DEF Next, TimelineGone

\* Every branch behaves like the one object of BranchMachine: its row and its
\* timeline come and go in the order of the edges, and what was promised is
\* live until it is doomed.
THEOREM BranchMachineRefined == Spec => ImplementsBranches
<1>1. Init => Machine!Init
  BY DEF Init, Machine!Init, Stages, Stage
<1>2. ProvisioningInv /\ ProvisioningInv' /\ [Next]_vars
        => [Machine!Next]_<<Stages, promised, doomed>>
  <2>. SUFFICES ASSUME ProvisioningInv, ProvisioningInv', [Next]_vars PROVE Machine!Next
    OBVIOUS
  <2>1. /\ \A b \in Branches : Stages[b] = Stage(b)
        /\ \A b \in Branches : Stages'[b] = Stage(b)'
    BY DEF Stages
  <2>2. Stages' \in [Branches -> {"absent", "staged", "live", "broken"}]
    BY DEF Stages, Stage
  <2>3. ASSUME NEW b \in Branches PROVE Machine!Step(b)
    <3>1. Effect(b)
      BY Effects
    <3>2. CASE RowStays(b)
      <4>1. \/ Stage(b)' = Stage(b)
            \/ <<Stage(b), Stage(b)'>> \in Machine!Edges
        BY <3>2 DEF RowStays, Stage, Machine!Edges
      <4>. QED  BY <2>1, <4>1 DEF Machine!Step
    <3>3. CASE RowComes(b)
      <4>1. \/ <<Stage(b), Stage(b)'>> \in Machine!Edges
            \/ Stage(b) = "absent" /\ Stage(b)' = "broken" /\ b \in doomed
        BY <3>3 DEF RowComes, Stage, Machine!Edges
      <4>. QED  BY <2>1, <4>1 DEF Machine!Step, Machine!LateRow
    <3>4. CASE RowGoes(b)
      <4>1. <<Stage(b), Stage(b)'>> \in Machine!Edges
        BY <3>4 DEF RowGoes, Stage, Machine!Edges
      <4>. QED  BY <2>1, <4>1 DEF Machine!Step
    <3>. QED  BY <3>1, <3>2, <3>3, <3>4 DEF Effect
  <2>4. \A b \in promised' \ doomed' : Stages'[b] = "live"
    BY <2>1 DEF ProvisioningInv, CreatedIsKept, TypeOK, Stage
  <2>. QED  BY <2>2, <2>3, <2>4, HistoryGrows DEF Machine!Next
<1>. QED  BY <1>1, <1>2, HandlersRely, PTL DEF Spec, ImplementsBranches, Machine!Spec
=============================================================================
