----------------------------- MODULE BranchPoint -----------------------------
(***************************************************************************)
(* Where a branch starts: MaxCommitLSN (internal/neonclient) and           *)
(* waitAncestorIngested (internal/api), as createBranch runs them before   *)
(* it creates the branch at the LSN they return.                           *)
(*                                                                         *)
(* Safekeepers and pageserver are external.  The control plane relies on   *)
(* this: a commit LSN reaches the members one by one, the highest one any  *)
(* member reports covers all acknowledged commits, and the pageserver      *)
(* ingests committed WAL with a delay.                                     *)
(***************************************************************************)
EXTENDS Lsn, Calls

CONSTANT Members    \* the number of safekeepers, in the order they are asked

ASSUME MembersAssumption == Members \in Nat \ {0}

VARIABLES
  acked,      \* acknowledged commits of the parent timeline end here
  commit,     \* commit[m]: the commit_lsn that safekeeper m reports
  ingested,   \* last_record_lsn of the parent timeline on the pageserver
  pc,         \* the next call of the createBranch request
  next,       \* the safekeeper to ask next
  best,       \* the highest answer so far, NoLsn before the first one
  floor,      \* history: acked when the request came in
  skipped     \* history: some member did not answer this request

vars == <<acked, commit, ingested, pc, next, best, floor, skipped, faults>>
wal == <<acked, commit, ingested>>

Init ==
  /\ acked = Zero
  /\ commit = [m \in 1..Members |-> Zero]
  /\ ingested = Zero
  /\ pc = "idle"
  /\ next = 1
  /\ best = NoLsn
  /\ floor = Zero
  /\ skipped = FALSE
  /\ faults = 0

-----------------------------------------------------------------------------
(***************************************************************************)
(* The storage.                                                            *)
(***************************************************************************)

\* The parent's compute commits: some member knows the new commit LSN.
Commit ==
  /\ \E v \in Lsns, m \in 1..Members :
       /\ Precedes(acked, v)
       /\ acked' = v
       /\ commit' = [commit EXCEPT ![m] = v]
  /\ UNCHANGED <<ingested, pc, next, best, floor, skipped, faults>>

\* Another member learns of it.
Learn(m) ==
  /\ Precedes(commit[m], acked)
  /\ commit' = [commit EXCEPT ![m] = acked]
  /\ UNCHANGED <<acked, ingested, pc, next, best, floor, skipped, faults>>

Ingest ==
  /\ \E v \in Lsns :
       /\ Precedes(ingested, v) /\ ~Precedes(acked, v)
       /\ ingested' = v
  /\ UNCHANGED <<acked, commit, pc, next, best, floor, skipped, faults>>

-----------------------------------------------------------------------------
(***************************************************************************)
(* createBranch, from the point where the parent is known.                 *)
(***************************************************************************)
Request ==
  /\ pc = "idle"
  /\ pc' = "ask"
  /\ next' = 1
  /\ best' = NoLsn
  /\ floor' = acked
  /\ skipped' = FALSE
  /\ UNCHANGED <<wal, faults>>

\* Mutant: the first answer is only kept if there was one before.
HigherThanSome(cl) ==
  IF best # NoLsn /\ Parse(cl) > Parse(best) THEN cl ELSE best

\* Mutant: the first answer counts.
FirstAnswer(cl) == IF best = NoLsn THEN cl ELSE best

\* The loop body of MaxCommitLSN after a good answer.
Higher(cl) ==
  IF best = NoLsn THEN cl ELSE IF Parse(cl) > Parse(best) THEN cl ELSE best

\* MaxCommitLSN: a member that does not answer, or not with an LSN, is skipped.
AskMember ==
  /\ pc = "ask"
  /\ next <= Members
  /\ next' = next + 1
  /\ \/ best' = Higher(commit[next]) /\ UNCHANGED <<skipped, faults>>
     \/ /\ Charge("call") \/ Charge("bad")
        /\ skipped' = TRUE
        /\ UNCHANGED best
  /\ UNCHANGED <<wal, pc, floor>>

\* One answer is enough, none is an error.
AllAsked ==
  /\ pc = "ask"
  /\ next > Members
  /\ pc' = IF best = NoLsn THEN "idle" ELSE "wait"
  /\ UNCHANGED <<wal, next, best, floor, skipped, faults>>

\* waitAncestorIngested: GetTimeline until the pageserver has caught up; any
\* error ends the request, and so does the deadline.
PollTimeline ==
  /\ pc = "wait"
  /\ \/ AtLeast(ingested, best) /\ pc' = "create" /\ UNCHANGED faults
     \/ /\ Charge("call") \/ Charge("bad") \/ Charge("wait")
        /\ pc' = "idle"
  /\ UNCHANGED <<wal, next, best, floor, skipped>>

CreateBranchAtLSN ==
  /\ pc = "create"
  /\ \E o \in Outcomes :
       /\ Cost(o)
       /\ pc' = IF o = "ok" THEN "created" ELSE "idle"
  /\ UNCHANGED <<wal, next, best, floor, skipped>>

\* The rest of the handler is in Provisioning.
Answer ==
  /\ pc = "created"
  /\ pc' = "idle"
  /\ UNCHANGED <<wal, next, best, floor, skipped, faults>>

Cancelled ==
  /\ pc \in {"ask", "wait", "create"}
  /\ Charge("cancel")
  /\ pc' = "idle"
  /\ UNCHANGED <<wal, next, best, floor, skipped>>

Handler == AskMember \/ AllAsked \/ PollTimeline \/ CreateBranchAtLSN \/ Answer

Next ==
  \/ Commit \/ (\E m \in 1..Members : Learn(m)) \/ Ingest
  \/ Request \/ Handler \/ Cancelled

Spec == Init /\ [][Next]_vars

\* The handler runs, and the pageserver keeps ingesting; commits and requests
\* come as they like.
FairSpec == Spec /\ WF_vars(Handler /\ UNCHANGED faults) /\ WF_vars(Ingest)

-----------------------------------------------------------------------------
\* Every variable keeps its type.
TypeOK ==
  /\ acked \in Lsns
  /\ commit \in [1..Members -> Lsns]
  /\ ingested \in Lsns
  /\ pc \in {"idle", "ask", "wait", "create", "created"}
  /\ next \in 1..(Members + 1)
  /\ best \in Lsns \cup {NoLsn}
  /\ floor \in Lsns
  /\ skipped \in BOOLEAN
  /\ faults \in 0..MaxFaults

\* A branch contains every commit acknowledged before it was asked for, if
\* every member answered (createBranch: "Without this, a branch created right
\* after writes can miss recently-committed data").
BranchComplete ==
  pc = "created" /\ ~skipped => best # NoLsn /\ ~Precedes(best, floor)

\* A branch never starts beyond what the pageserver has ingested, although
\* the LSN was read from other servers and before the wait.
BranchIngested ==
  pc \in {"create", "created"} => best # NoLsn /\ ~Precedes(ingested, best)

\* The wait starts with an LSN, after the last member was asked.
WaitsForLsn ==
  pc \in {"wait", "create", "created"} => next > Members /\ best # NoLsn

\* No member is ahead of the acknowledged commits, and one is up to date.
CommitKnown ==
  /\ \A m \in 1..Members : ~Precedes(acked, commit[m])
  /\ \E m \in 1..Members : commit[m] = acked

\* Some member covered the commits before the request from the start; once it
\* was asked and answered, so does the best answer.
FloorCovered ==
  pc # "idle" =>
    \E m \in 1..Members :
      /\ ~Precedes(commit[m], floor)
      /\ next > m /\ ~skipped => best # NoLsn /\ ~Precedes(best, floor)

\* The inductive invariant behind BranchComplete.
BranchInv == WaitsForLsn /\ CommitKnown /\ FloorCovered

\* A client that keeps asking for branches keeps getting them, although
\* commits go on while a request waits for the pageserver.
BranchHappens == []<>(pc = "ask") => []<>(pc = "created")

\* MaxCommitLSN: "the commit LSN is a quorum-agreed value, so any healthy
\* member is authoritative" (safekeeper.go).  The code does not keep this.
AnyMemberIsAuthoritative ==
  pc = "created" => best # NoLsn /\ ~Precedes(best, floor)
=============================================================================
