----------------------------- MODULE Provisioning -----------------------------
(***************************************************************************)
(* internal/api: createProject, createBranch, deleteBranch, deleteProject, *)
(* which keep the rows of one project in the state database and its tenant *)
(* and timelines on the pageserver in step, without a transaction over     *)
(* both; and getProject, usage and the specBuilder of main.go, which read  *)
(* them in several statements meanwhile.  Identifiers are random, so every *)
(* branch has a timeline of its own, named like the branch here, and other *)
(* projects never interfere.                                               *)
(*                                                                         *)
(* The computes that the deletes stop are in Requests; the LSN a branch    *)
(* starts at is in BranchPoint.                                            *)
(***************************************************************************)
EXTENDS Calls

CONSTANTS
  Reqs,       \* requests in flight, each run by its own goroutine
  Branches,   \* branch identifiers
  Main,       \* the default branch
  Names,      \* branch names
  MainName,   \* the name of the default branch
  NoBranch

ASSUME MainAssumption == Main \in Branches
ASSUME MainNameAssumption == MainName \in Names
ASSUME NoBranchAssumption == NoBranch \notin Branches

VARIABLES
  project,    \* the row of the project exists
  rows,       \* branches that have a row (and an endpoint)
  name,       \* name[b]: the name of branch b
  tenant,     \* the tenant is attached to the pageserver
  tl,         \* tl[b]: the timeline of b on the pageserver
  anc,        \* anc[b]: the branch whose timeline that of b depends on
  used,       \* identifiers handed out
  req,        \* req[r]: the next call of request r, and its local variables
  promised,   \* history: branches whose create was answered with 201
  doomed      \* history: branches somebody asked to delete

db == <<project, rows, name>>
storage == <<tenant, tl, anc>>
history == <<promised, doomed>>
vars == <<db, storage, used, req, history, faults>>

(***************************************************************************)
(* pc  : the next call.                                                    *)
(* tgt : the branch the request creates, deletes or reads.                 *)
(* par : the parent of the branch it creates.                              *)
(* todo: the branches of its list that it has still to look up.            *)
(***************************************************************************)
Idle == [pc |-> "idle", tgt |-> NoBranch, par |-> NoBranch, todo |-> {}]

At(r, l) == req[r].pc = l

Goto(r, l) ==
  req' = [req EXCEPT ![r] = IF l = "idle" THEN Idle ELSE [@ EXCEPT !.pc = l]]

Become(r, l, b, p, S) ==
  req' = [req EXCEPT ![r] = [pc |-> l, tgt |-> b, par |-> p, todo |-> S]]

Enter(r, l, b, p) == At(r, "idle") /\ Become(r, l, b, p, {})

Init ==
  /\ project = FALSE
  /\ rows = {}
  /\ name \in {n \in [Branches -> Names] : n[Main] = MainName}
  /\ tenant = FALSE
  /\ tl = [b \in Branches |-> "none"]
  /\ anc = [b \in Branches |-> NoBranch]
  /\ used = {}
  /\ req = [r \in Reqs |-> Idle]
  /\ promised = {}
  /\ doomed = {}
  /\ faults = 0

-----------------------------------------------------------------------------
(***************************************************************************)
(* The pageserver (external).                                              *)
(***************************************************************************)
HasChildren(b) == \E c \in Branches : anc[c] = b /\ tl[c] # "none"

NoTimelines == [b \in Branches |-> "none"]

\* An accepted delete finishes later.
TimelineGone(b) ==
  /\ tl[b] = "deleting"
  /\ tl' = [tl EXCEPT ![b] = "none"]
  /\ UNCHANGED <<db, tenant, anc, used, req, history, faults>>

-----------------------------------------------------------------------------
(***************************************************************************)
(* createProject                                                           *)
(***************************************************************************)
CreateProject(r) ==
  /\ Main \notin used
  /\ Enter(r, "attach", Main, NoBranch)
  /\ used' = used \cup {Main}
  /\ UNCHANGED <<db, storage, history, faults>>

AttachTenant(r) ==
  /\ At(r, "attach")
  /\ \E o \in Outcomes :
       /\ Cost(o)
       /\ tenant' = After(o, TRUE, tenant)
       /\ Goto(r, IF o = "ok" THEN "timeline" ELSE "idle")
  /\ UNCHANGED <<db, tl, anc, used, history>>

\* An error leaves the tenant attached.
CreateTimeline(r) ==
  /\ At(r, "timeline")
  /\ \E o \in Outcomes :
       /\ Cost(o)
       /\ tl' = After(o, [tl EXCEPT ![Main] = "active"], tl)
       /\ Goto(r, IF o = "ok" THEN "insert_project" ELSE "idle")
  /\ UNCHANGED <<db, tenant, anc, used, history>>

\* One transaction for the project, its default branch and the endpoint.
InsertProject(r) ==
  /\ At(r, "insert_project")
  /\ \E o \in Outcomes :
       /\ Cost(o)
       /\ project' = After(o, TRUE, project)
       /\ rows' = After(o, rows \cup {Main}, rows)
       /\ Goto(r, IF o = "ok" THEN "idle" ELSE "drop_tenant")
       /\ promised' = IF o = "ok" THEN promised \cup {Main} ELSE promised
  /\ UNCHANGED <<name, storage, used, doomed>>

\* The compensation of a failed insert; its own failure is only logged.
DropTenant(r) ==
  /\ At(r, "drop_tenant")
  /\ \E o \in Outcomes :
       /\ Cost(o)
       /\ tenant' = After(o, FALSE, tenant)
       /\ tl' = After(o, NoTimelines, tl)
  /\ Goto(r, "idle")
  /\ UNCHANGED <<db, anc, used, history>>

-----------------------------------------------------------------------------
(***************************************************************************)
(* createBranch.  A client learns the id of a project from the answer of   *)
(* its create only; the parent is a row found in the database.             *)
(***************************************************************************)
Known == Main \in promised

CreateBranch(r) ==
  /\ Known
  /\ \E b \in Branches \ (used \cup {Main}), p \in rows :
       /\ used' = used \cup {b}
       /\ Enter(r, "ingest", b, p)
  /\ UNCHANGED <<db, storage, history, faults>>

\* waitAncestorIngested: the parent's timeline has to be there.
WaitIngested(r) ==
  /\ At(r, "ingest")
  /\ \/ tl[req[r].par] # "none" /\ Goto(r, "branch") /\ UNCHANGED faults
     \/ tl[req[r].par] = "none" /\ Goto(r, "idle") /\ UNCHANGED faults
     \/ (Charge("call") \/ Charge("wait")) /\ Goto(r, "idle")
  /\ UNCHANGED <<db, storage, used, history>>

CanBranch(r) == tl[req[r].par] = "active"

\* Mutant: the answer of the pageserver is not looked at.
CreateBranchUnchecked(r) ==
  /\ At(r, "branch")
  /\ \E o \in Outcomes :
       /\ Cost(o)
       /\ IF CanBranch(r)
          THEN /\ tl' = After(o, [tl EXCEPT ![req[r].tgt] = "active"], tl)
               /\ anc' = After(o, [anc EXCEPT ![req[r].tgt] = req[r].par], anc)
          ELSE UNCHANGED <<tl, anc>>
  /\ Goto(r, "insert_branch")
  /\ UNCHANGED <<db, tenant, used, history>>

CreateBranchAtLSN(r) ==
  /\ At(r, "branch")
  /\ \E o \in Outcomes :
       /\ Cost(o)
       /\ IF CanBranch(r)
          THEN /\ tl' = After(o, [tl EXCEPT ![req[r].tgt] = "active"], tl)
               /\ anc' = After(o, [anc EXCEPT ![req[r].tgt] = req[r].par], anc)
          ELSE UNCHANGED <<tl, anc>>
       /\ Goto(r, IF o = "ok" /\ CanBranch(r) THEN "insert_branch" ELSE "idle")
  /\ UNCHANGED <<db, tenant, used, history>>

\* The foreign keys and UNIQUE (project_id, name) of schema.sql.
CanInsert(r) ==
  /\ project /\ req[r].par \in rows
  /\ \A b \in rows : name[b] # name[req[r].tgt]

\* Mutant: a failed insert is reported, but not compensated.
InsertBranchOnly(r) ==
  /\ At(r, "insert_branch")
  /\ \E o \in Outcomes :
       /\ Cost(o)
       /\ rows' = IF CanInsert(r) THEN After(o, rows \cup {req[r].tgt}, rows) ELSE rows
       /\ promised' = IF o = "ok" /\ CanInsert(r) THEN promised \cup {req[r].tgt} ELSE promised
  /\ Goto(r, "idle")
  /\ UNCHANGED <<project, name, storage, used, doomed>>

InsertBranch(r) ==
  /\ At(r, "insert_branch")
  /\ \E o \in Outcomes :
       /\ Cost(o)
       /\ rows' = IF CanInsert(r) THEN After(o, rows \cup {req[r].tgt}, rows) ELSE rows
       /\ Goto(r, IF o = "ok" /\ CanInsert(r) THEN "idle" ELSE "drop_timeline")
       /\ promised' = IF o = "ok" /\ CanInsert(r) THEN promised \cup {req[r].tgt} ELSE promised
  /\ UNCHANGED <<project, name, storage, used, doomed>>

-----------------------------------------------------------------------------
(***************************************************************************)
(* DeleteTimeline: an accepted DELETE is followed by polling until 404; a  *)
(* timeline that is gone already is no error, one with children is.        *)
(***************************************************************************)

\* What the pageserver answers to DELETE (external).
DeleteAnswer(b) ==
  IF tl[b] = "none" THEN "missing"
  ELSE IF HasChildren(b) THEN "refused" ELSE "accepted"

\* Mutant: 404 is an error like any other.
AfterAnswerStrict(answer, poll, next) ==
  IF answer = "accepted" THEN poll ELSE "idle"

AfterAnswer(answer, poll, next) ==
  CASE answer = "accepted" -> poll
    [] answer = "missing"  -> next
    [] answer = "refused"  -> "idle"

DeleteTimeline(r, here, poll, next) ==
  /\ At(r, here)
  /\ \E o \in Outcomes :
       /\ Cost(o)
       /\ tl' = IF DeleteAnswer(req[r].tgt) = "accepted"
                THEN After(o, [tl EXCEPT ![req[r].tgt] = "deleting"], tl) ELSE tl
       /\ Goto(r, IF o = "ok" THEN AfterAnswer(DeleteAnswer(req[r].tgt), poll, next)
                  ELSE "idle")
  /\ UNCHANGED <<db, tenant, anc, used, history>>

PollTimeline(r, poll, next) ==
  /\ At(r, poll)
  /\ \/ tl[req[r].tgt] = "none" /\ Goto(r, next) /\ UNCHANGED faults
     \/ (Charge("call") \/ Charge("wait")) /\ Goto(r, "idle")
  /\ UNCHANGED <<db, storage, used, history>>

\* The compensation of createBranch; its failure is only logged.
DropTimeline(r)     == DeleteTimeline(r, "drop_timeline", "drop_poll", "idle")
DropTimelinePoll(r) == PollTimeline(r, "drop_poll", "idle")

-----------------------------------------------------------------------------
(***************************************************************************)
(* deleteBranch: the timeline first, then the row.                         *)
(***************************************************************************)
DeleteBranch(r) ==
  /\ Known
  /\ \E b \in rows \ {Main} :
       /\ Enter(r, "del_tl", b, NoBranch)
       /\ doomed' = doomed \cup {b}
  /\ UNCHANGED <<db, storage, used, promised, faults>>

\* Mutant: the row goes as soon as the delete is accepted.
DeleteBranchEager(r) == DeleteTimeline(r, "del_tl", "del_row", "del_row")

\* Mutant: the request ends when the timeline is gone.
DeleteBranchForgetful(r) == PollTimeline(r, "del_poll", "idle")

DeleteBranchTimeline(r) == DeleteTimeline(r, "del_tl", "del_poll", "del_row")
DeleteBranchPoll(r)     == PollTimeline(r, "del_poll", "del_row")

DeleteBranchRow(r) ==
  /\ At(r, "del_row")
  /\ \E o \in Outcomes :
       /\ Cost(o)
       /\ rows' = After(o, rows \ {req[r].tgt}, rows)
  /\ Goto(r, "idle")
  /\ UNCHANGED <<project, name, storage, used, history>>

-----------------------------------------------------------------------------
(***************************************************************************)
(* deleteProject: the tenant first, then the rows, by cascade.  A tenant   *)
(* that is gone already is an error here.                                  *)
(***************************************************************************)
DeleteProject(r) ==
  /\ Known /\ project
  /\ Enter(r, "del_tenant", NoBranch, NoBranch)
  /\ doomed' = Branches
  /\ UNCHANGED <<db, storage, used, promised, faults>>

\* Mutant: the error of the pageserver is only logged.
DeleteTenantAnyhow(r) ==
  /\ At(r, "del_tenant")
  /\ \E o \in Outcomes :
       /\ Cost(o)
       /\ tenant' = After(o, FALSE, tenant)
       /\ tl' = After(o, NoTimelines, tl)
  /\ Goto(r, "del_project")
  /\ UNCHANGED <<db, anc, used, history>>

DeleteTenant(r) ==
  /\ At(r, "del_tenant")
  /\ \E o \in Outcomes :
       /\ Cost(o)
       /\ tenant' = After(o, FALSE, tenant)
       /\ tl' = After(o, NoTimelines, tl)
       /\ Goto(r, IF o = "ok" /\ tenant THEN "del_project" ELSE "idle")
  /\ UNCHANGED <<db, anc, used, history>>

DeleteProjectRow(r) ==
  /\ At(r, "del_project")
  /\ \E o \in Outcomes :
       /\ Cost(o)
       /\ project' = After(o, FALSE, project)
       /\ rows' = After(o, {}, rows)
  /\ Goto(r, "idle")
  /\ UNCHANGED <<name, storage, used, history>>

-----------------------------------------------------------------------------
(***************************************************************************)
(* The reads: getProject, usage, and the specBuilder that Wake calls for   *)
(* the endpoint of a branch.  Each statement and each call to the          *)
(* pageserver sees the state of its own moment.                            *)
(***************************************************************************)
GetProject(r) ==
  /\ Known /\ project
  /\ Enter(r, "list_project", NoBranch, NoBranch)
  /\ UNCHANGED <<db, storage, used, history, faults>>

Usage(r) ==
  /\ Known /\ project
  /\ Enter(r, "list_usage", NoBranch, NoBranch)
  /\ UNCHANGED <<db, storage, used, history, faults>>

ListBranchesByProject(r, here, next) ==
  /\ At(r, here)
  /\ \/ /\ Become(r, next, NoBranch, NoBranch, rows)
        /\ UNCHANGED faults
     \/ Charge("call") /\ Goto(r, "idle")
  /\ UNCHANGED <<db, storage, used, history>>

\* ORDER BY created_at: the default branch is the oldest.
Oldest(S) == IF Main \in S THEN {Main} ELSE S

\* The first branch that cannot be looked up ends the request with an error.
LookUp(r, here, found, answer) ==
  /\ At(r, here)
  /\ \/ /\ req[r].todo = {}
        /\ Goto(r, answer)
        /\ UNCHANGED faults
     \/ /\ \E b \in Oldest(req[r].todo) :
             IF b \in found
             THEN Become(r, here, NoBranch, NoBranch, req[r].todo \ {b})
             ELSE Goto(r, "idle")
        /\ UNCHANGED faults
     \/ Charge("call") /\ Goto(r, "idle")
  /\ UNCHANGED <<db, storage, used, history>>

ListForProject(r) == ListBranchesByProject(r, "list_project", "endpoints")
ListForUsage(r)   == ListBranchesByProject(r, "list_usage", "sizes")

GetEndpointByBranch(r) == LookUp(r, "endpoints", rows, "got_project")

GetTimeline(r) ==
  LookUp(r, "sizes", {b \in Branches : tl[b] # "none"}, "got_usage")

\* GetAccessControl joins endpoint, branch and project in one statement.
GetAccessControl(r) ==
  /\ Known
  /\ \E b \in rows : Enter(r, "spec_project", b, NoBranch)
  /\ UNCHANGED <<db, storage, used, history, faults>>

SpecProject(r) ==
  /\ At(r, "spec_project")
  /\ \/ Goto(r, IF project THEN "spec_branch" ELSE "idle") /\ UNCHANGED faults
     \/ Charge("call") /\ Goto(r, "idle")
  /\ UNCHANGED <<db, storage, used, history>>

SpecBranch(r) ==
  /\ At(r, "spec_branch")
  /\ \/ /\ Goto(r, IF req[r].tgt \in rows THEN "got_spec" ELSE "idle")
        /\ UNCHANGED faults
     \/ Charge("call") /\ Goto(r, "idle")
  /\ UNCHANGED <<db, storage, used, history>>

Answer(r) ==
  /\ req[r].pc \in {"got_project", "got_usage", "got_spec"}
  /\ Goto(r, "idle")
  /\ UNCHANGED <<db, storage, used, history, faults>>

Read(r) ==
  \/ ListForProject(r) \/ GetEndpointByBranch(r)
  \/ ListForUsage(r) \/ GetTimeline(r)
  \/ SpecProject(r) \/ SpecBranch(r)
  \/ Answer(r)

-----------------------------------------------------------------------------
\* The client goes away, or the process restarts: the request ends here, and
\* the compensations, which run under the same context, do not run.
Cancelled(r) ==
  /\ ~At(r, "idle")
  /\ Charge("cancel")
  /\ Goto(r, "idle")
  /\ UNCHANGED <<db, storage, used, history>>

Handle(r) ==
  \/ AttachTenant(r) \/ CreateTimeline(r) \/ InsertProject(r) \/ DropTenant(r)
  \/ WaitIngested(r) \/ CreateBranchAtLSN(r) \/ InsertBranch(r)
  \/ DropTimeline(r) \/ DropTimelinePoll(r)
  \/ DeleteBranchTimeline(r) \/ DeleteBranchPoll(r) \/ DeleteBranchRow(r)
  \/ DeleteTenant(r) \/ DeleteProjectRow(r)

Next ==
  \/ \E r \in Reqs : \/ CreateProject(r) \/ CreateBranch(r)
                     \/ DeleteBranch(r) \/ DeleteProject(r)
                     \/ GetProject(r) \/ Usage(r) \/ GetAccessControl(r)
                     \/ Handle(r) \/ Read(r) \/ Cancelled(r)
  \/ \E b \in Branches : TimelineGone(b)

Spec == Init /\ [][Next]_vars

\* Handlers run and accepted deletes finish; clients send what they like.
FairSpec ==
  /\ Spec
  /\ \A r \in Reqs : WF_vars((Handle(r) \/ Read(r)) /\ UNCHANGED faults)
  /\ \A b \in Branches : WF_vars(TimelineGone(b))

-----------------------------------------------------------------------------
Quiet == \A r \in Reqs : At(r, "idle")

\* A branch whose create was answered with 201 has its row and its timeline
\* until somebody asks to delete it or its project: no failure, conflict or
\* compensation of another request takes them away.
CreatedIsKept == \A b \in promised \ doomed : b \in rows /\ tl[b] = "active"

\* A row disappears only after its timeline: no delete, however it fails and
\* is repeated, forgets storage.
RowOutlivesStorage == [][\A b \in rows \ rows' : tl[b] = "none"]_vars

\* Races alone leave database and pageserver in agreement, in both directions:
\* two creates of one name, a create whose parent or project is deleted under
\* it, deletes of the same thing.  No storage is left without a row (the
\* compensation of createBranch) and no row without storage, which nothing
\* would serve and, for a project, nothing could delete any more
\* (deleteProject takes a missing tenant for an error).
RacesAgree ==
  faults = 0 /\ Quiet => /\ project <=> tenant
                         /\ rows = {b \in Branches : tl[b] # "none"}

\* A delete of a branch that is repeated forever is one that is refused again
\* and again because of children: after any fault, deleteBranch gets the row
\* away on a later attempt, however far the attempt before it came.
DeleteSucceeds ==
  \A b \in Branches :
    []<>(\E r \in Reqs : At(r, "del_tl") /\ req[r].tgt = b) => []<>HasChildren(b)

DeletePc == {"del_tl", "del_poll", "del_row", "del_tenant", "del_project"}

Somewhere(l) == \E r \in Reqs : At(r, l)

\* Reads fail only while something is being deleted: if no call fails and the
\* deletes come to an end, whoever keeps asking getProject, usage or the
\* specBuilder is answered.  One branch that was left half deleted or half
\* created would make every later read of its project fail.
ReadsAnswer ==
  [](faults = 0) /\ <>[](\A r \in Reqs : req[r].pc \notin DeletePc)
    => /\ []<>Somewhere("list_project") => []<>Somewhere("got_project")
       /\ []<>Somewhere("list_usage") => []<>Somewhere("got_usage")
       /\ []<>Somewhere("spec_project") => []<>Somewhere("got_spec")

-----------------------------------------------------------------------------
(***************************************************************************)
(* The inductive invariants.  What a request may rely on at its next call, *)
(* whatever fails ...                                                      *)
(***************************************************************************)
StagingPc == {"attach", "timeline", "insert_project", "ingest", "branch", "insert_branch"}
MainPc    == {"attach", "timeline", "insert_project", "drop_tenant"}
BranchPc  == {"ingest", "branch", "insert_branch", "drop_timeline", "drop_poll"}
CreatePc  == MainPc \cup BranchPc
RemovePc  == {"del_tl", "del_poll", "del_row"}
ReadPc    == {"list_project", "endpoints", "got_project", "list_usage", "sizes",
              "got_usage", "spec_project", "spec_branch", "got_spec"}
Pcs       == {"idle"} \cup CreatePc \cup DeletePc \cup ReadPc

Requests == [pc : Pcs, tgt : Branches \cup {NoBranch},
             par : Branches \cup {NoBranch}, todo : SUBSET Branches]

TypeOK ==
  /\ project \in BOOLEAN /\ tenant \in BOOLEAN
  /\ rows \subseteq Branches /\ used \subseteq Branches
  /\ name \in [Branches -> Names]
  /\ tl \in [Branches -> {"none", "active", "deleting"}]
  /\ anc \in [Branches -> Branches \cup {NoBranch}]
  /\ req \in [Reqs -> Requests]
  /\ promised \subseteq Branches /\ doomed \subseteq Branches
  /\ faults \in Nat

Doing(r, S) == req[r].pc \in S

\* Each kind of request has the locals it works with.
Targets ==
  \A r \in Reqs :
    /\ Doing(r, MainPc) => req[r].tgt = Main
    /\ Doing(r, BranchPc) => req[r].tgt \in Branches \ {Main} /\ req[r].par \in Branches
    /\ Doing(r, RemovePc) => req[r].tgt \in Branches \ {Main}

\* Nothing else goes on before the project has been promised.
MainFirst ==
  /\ promised # {} => Known
  /\ \A r \in Reqs : Doing(r, BranchPc \cup DeletePc) => Known

\* An identifier is handed out once, and to one request.
FreshIds ==
  /\ rows \subseteq used /\ promised \subseteq used
  /\ \A b \in Branches : anc[b] \in used \cup {NoBranch}
  /\ \A r \in Reqs :
       /\ req[r].par \in used \cup {NoBranch}
       /\ Doing(r, RemovePc) => req[r].tgt \in used
       /\ Doing(r, CreatePc) => req[r].tgt \in used \ promised
  /\ \A r, s \in Reqs :
       r # s /\ Doing(r, CreatePc) /\ Doing(s, CreatePc) => req[r].tgt # req[s].tgt

\* Before its insert, a branch has no row and nobody deletes it.
Unborn ==
  \A r \in Reqs : Doing(r, StagingPc) =>
    /\ req[r].tgt \notin rows
    /\ \A s \in Reqs : Doing(s, RemovePc) => req[s].tgt # req[r].tgt

\* A row is inserted for a timeline that is there, or whose tenant was deleted.
Staged ==
  \A r \in Reqs :
    /\ At(r, "insert_project") => tl[Main] = "active"
    /\ At(r, "insert_branch") =>
         \/ tl[req[r].tgt] = "active"
         \/ tl[req[r].tgt] = "none" /\ req[r].tgt \in doomed /\ ~tenant

\* Only what somebody asked to delete is deleted, and the row goes last.
GoneFirst ==
  \A r \in Reqs :
    /\ Doing(r, RemovePc) => req[r].tgt \in doomed
    /\ At(r, "del_row") => tl[req[r].tgt] = "none"
    /\ Doing(r, {"del_tenant", "del_project"}) => doomed = Branches
    /\ At(r, "del_project") => ~tenant /\ \A b \in Branches : tl[b] = "none"

\* What the handlers keep under every fault: types, identifiers that are used
\* once, storage before the row on the way in and on the way out (api.go,
\* createProject, createBranch, deleteBranch, deleteProject).
ProvisioningInv ==
  /\ TypeOK /\ Targets /\ MainFirst /\ FreshIds /\ Unborn /\ Staged /\ GoneFirst
  /\ CreatedIsKept

(***************************************************************************)
(* ... and, as long as nothing fails, who is about to repair each          *)
(* disagreement of the two stores.                                         *)
(***************************************************************************)
OnTarget(b, S) == \E r \in Reqs : req[r].tgt = b /\ Doing(r, S)

ProjectInStep ==
  /\ rows # {} => project
  /\ project => Known
  /\ tenant /\ ~project <=> \E r \in Reqs : Doing(r, {"timeline", "insert_project"})
  /\ project /\ ~tenant => \E r \in Reqs : At(r, "del_project")

\* A branch that is being created has no children, so its timeline can be
\* deleted, and nobody else does that.
Childless ==
  \A r \in Reqs : Doing(r, CreatePc) =>
    /\ ~At(r, "drop_tenant")
    /\ req[r].tgt \notin rows
    /\ \A s \in Reqs : req[s].par # req[r].tgt
    /\ \A s \in Reqs : Doing(s, RemovePc) => req[s].tgt # req[r].tgt
    /\ \A b \in Branches : anc[b] # req[r].tgt

StorageInStep ==
  \A b \in Branches \ rows :
    /\ tl[b] = "active" => OnTarget(b, {"insert_project", "insert_branch", "drop_timeline"})
    /\ tl[b] = "deleting" => OnTarget(b, {"drop_poll"})

RowsInStep ==
  tenant => \A b \in rows :
    /\ tl[b] = "deleting" => OnTarget(b, {"del_poll"})
    /\ tl[b] = "none" => OnTarget(b, {"del_poll", "del_row"})

InStep == ProjectInStep /\ Childless /\ StorageInStep /\ RowsInStep

\* Without faults, each piece of storage without a row and each row without
\* storage belongs to a request that is on its way to remove it or to complete
\* it (api.go, the compensations and the order of the deletes).
RacesInv == faults = 0 => InStep

-----------------------------------------------------------------------------
Stage(b) ==
  IF b \in rows THEN IF tl[b] = "active" THEN "live" ELSE "broken"
  ELSE IF tl[b] = "none" THEN "absent" ELSE "staged"

Stages == [b \in Branches |-> Stage(b)]

Machine == INSTANCE BranchMachine WITH stage <- Stages

\* Every branch, with its row and its timeline in two stores, behaves like the
\* one object that BranchMachine describes, whatever fails.
ImplementsBranches == Machine!Spec
=============================================================================
