----------------------------- MODULE BranchProofs -----------------------------
(***************************************************************************)
(* Proofs about the branch point: the comparison of internal/lsn is the    *)
(* order of log positions, a branch never starts beyond what the           *)
(* pageserver has ingested, and it contains every commit acknowledged      *)
(* before the request when the safekeepers answer.                         *)
(***************************************************************************)
EXTENDS BranchPoint, TLAPS

\* Multiplication by the width of a half is monotone.
LEMMA Scale ==
  ASSUME NEW x \in Nat, NEW y \in Nat, NEW h \in Nat, x + 1 <= y
  PROVE  x * h + h <= y * h
<1>1. PICK d \in Nat : y = (x + 1) + d
  <2>1. y - (x + 1) \in Nat /\ y = (x + 1) + (y - (x + 1))
    OBVIOUS
  <2>. QED  BY <2>1
<1>2. y * h = (x * h + h) + d * h
  BY <1>1
<1>3. d * h \in Nat /\ x * h \in Nat
  OBVIOUS
<1>. QED  BY <1>2, <1>3

\* Parse loses nothing: comparing the 64-bit numbers of two LSNs compares
\* their positions, also across the boundary of the halves.
THEOREM ParseOrder ==
  ASSUME NEW a \in Lsns, NEW b \in Lsns
  PROVE  Precedes(a, b) <=> Parse(a) < Parse(b)
<1>1. /\ Half \in Nat /\ a.hi \in Nat /\ b.hi \in Nat /\ a.lo \in Nat /\ b.lo \in Nat
      /\ a.lo < Half /\ b.lo < Half
  BY HalfAssumption DEF Lsns
<1>2. /\ a.hi * Half \in Nat /\ b.hi * Half \in Nat
  BY <1>1
<1>3. CASE a.hi < b.hi
  <2>1. a.hi * Half + Half <= b.hi * Half
    BY <1>1, <1>3, Scale
  <2>. QED  BY <1>1, <1>2, <1>3, <2>1 DEF Precedes, Parse
<1>4. CASE b.hi < a.hi
  <2>1. b.hi * Half + Half <= a.hi * Half
    BY <1>1, <1>4, Scale
  <2>. QED  BY <1>1, <1>2, <1>4, <2>1 DEF Precedes, Parse
<1>5. CASE a.hi = b.hi
  BY <1>1, <1>2, <1>5 DEF Precedes, Parse
<1>. QED  BY <1>1, <1>3, <1>4, <1>5

\* Positions are linearly ordered.
LEMMA Order ==
  /\ \A a \in Lsns : ~Precedes(a, a)
  /\ \A a, b, c \in Lsns : ~Precedes(b, a) /\ ~Precedes(c, b) => ~Precedes(c, a)
  /\ \A a, b \in Lsns : Precedes(a, b) => ~Precedes(b, a)
BY HalfAssumption DEF Lsns, Precedes

\* What MaxCommitLSN keeps is no lower than what it had and what it got.
LEMMA HigherIsHigher ==
  ASSUME NEW cl \in Lsns, best \in Lsns \cup {NoLsn}
  PROVE  /\ Higher(cl) \in Lsns
         /\ ~Precedes(Higher(cl), cl)
         /\ best # NoLsn => ~Precedes(Higher(cl), best)
<1>1. CASE best = NoLsn
  BY <1>1, Order DEF Higher
<1>2. CASE best \in Lsns /\ best # NoLsn
  <2>1. Precedes(best, cl) <=> Parse(best) < Parse(cl)
    BY <1>2, ParseOrder
  <2>2. Parse(best) \in Int /\ Parse(cl) \in Int
    BY <1>2, HalfAssumption DEF Parse, Lsns
  <2>3. CASE Parse(cl) > Parse(best)
    <3>1. Higher(cl) = cl
      BY <1>2, <2>3 DEF Higher
    <3>2. Precedes(best, cl)
      BY <2>1, <2>2, <2>3
    <3>. QED  BY <1>2, <3>1, <3>2, Order
  <2>4. CASE ~(Parse(cl) > Parse(best))
    <3>1. Higher(cl) = best
      BY <1>2, <2>4 DEF Higher
    <3>2. ~Precedes(best, cl)
      BY <2>1, <2>2, <2>4
    <3>. QED  BY <1>2, <3>1, <3>2, Order
  <2>. QED  BY <2>3, <2>4
<1>. QED  BY <1>1, <1>2

\* The LSN zero is an LSN.
LEMMA ZeroLsn == Zero \in Lsns
BY HalfAssumption DEF Zero, Lsns

\* The steps keep the types.
LEMMA BranchType == Spec => []TypeOK
<1>1. Init => TypeOK
  <2>1. Init => skipped \in BOOLEAN
    BY Zenon DEF Init
  <2>2. Init => faults \in 0..MaxFaults /\ next \in 1..(Members + 1)
    BY MembersAssumption, MaxFaultsAssumption DEF Init
  <2>. QED  BY <2>1, <2>2, ZeroLsn DEF Init, TypeOK
<1>2. TypeOK /\ [Next]_vars => TypeOK'
  <2>. SUFFICES ASSUME TypeOK, [Next]_vars PROVE TypeOK'
    OBVIOUS
  <2>. USE MembersAssumption, MaxFaultsAssumption
  <2>1. CASE Commit
    BY <2>1 DEF Commit, TypeOK
  <2>2. ASSUME NEW m \in 1..Members, Learn(m) PROVE TypeOK'
    BY <2>2 DEF Learn, TypeOK
  <2>3. CASE Ingest
    BY <2>3 DEF Ingest, TypeOK
  <2>4. CASE Request
    <3>1. skipped' \in BOOLEAN
      BY <2>4, Zenon DEF Request
    <3>. QED  BY <2>4, <3>1 DEF Request, TypeOK, wal
  <2>5. CASE AskMember
    <3>1. best' \in Lsns \cup {NoLsn}
      BY <2>5, HigherIsHigher DEF AskMember, TypeOK
    <3>2. skipped' \in BOOLEAN
      BY <2>5, Zenon DEF AskMember, TypeOK
    <3>. QED  BY <2>5, <3>1, <3>2 DEF AskMember, TypeOK, wal, Charge
  <2>6. CASE AllAsked
    BY <2>6 DEF AllAsked, TypeOK, wal
  <2>7. CASE PollTimeline
    BY <2>7 DEF PollTimeline, TypeOK, wal, Charge
  <2>8. CASE CreateBranchAtLSN
    BY <2>8 DEF CreateBranchAtLSN, TypeOK, wal, Cost, Charge, Outcomes
  <2>9. CASE Answer \/ Cancelled
    BY <2>9 DEF Answer, Cancelled, TypeOK, wal, Charge
  <2>10. CASE UNCHANGED vars
    BY <2>10 DEF vars, TypeOK
  <2>. QED
    BY <2>1, <2>2, <2>3, <2>4, <2>5, <2>6, <2>7, <2>8, <2>9, <2>10 DEF Next, Handler
<1>. QED  BY <1>1, <1>2, PTL DEF Spec

\* The wait starts with an LSN, whatever fails.
LEMMA WaitStep ==
  ASSUME TypeOK, WaitsForLsn, [Next]_vars
  PROVE  WaitsForLsn'
<1>. USE MembersAssumption DEF TypeOK
<1>1. CASE Commit \/ Ingest \/ \E m \in 1..Members : Learn(m)
  BY <1>1 DEF Commit, Ingest, Learn, WaitsForLsn
<1>2. CASE Request \/ Answer \/ Cancelled
  BY <1>2 DEF Request, Answer, Cancelled, WaitsForLsn
<1>3. CASE AskMember
  BY <1>3 DEF AskMember, WaitsForLsn
<1>4. CASE AllAsked
  BY <1>4 DEF AllAsked, WaitsForLsn
<1>5. CASE PollTimeline \/ CreateBranchAtLSN
  BY <1>5 DEF PollTimeline, CreateBranchAtLSN, WaitsForLsn
<1>6. CASE UNCHANGED vars
  BY <1>6 DEF vars, WaitsForLsn
<1>. QED  BY <1>1, <1>2, <1>3, <1>4, <1>5, <1>6 DEF Next, Handler

\* Once the pageserver has reached the branch point it stays there.
LEMMA IngestedStep ==
  ASSUME TypeOK, WaitsForLsn, BranchIngested, [Next]_vars
  PROVE  BranchIngested'
<1>1. CASE Commit \/ \E m \in 1..Members : Learn(m)
  BY <1>1 DEF Commit, Learn, BranchIngested
<1>2. CASE Ingest
  <2>1. UNCHANGED <<pc, best>> /\ ingested' \in Lsns /\ Precedes(ingested, ingested')
    BY <1>2 DEF Ingest
  <2>2. CASE pc \in {"create", "created"}
    <3>1. best \in Lsns /\ ~Precedes(ingested, best)
      BY <2>2 DEF TypeOK, BranchIngested
    <3>2. ~Precedes(ingested', ingested)
      BY <2>1, Order DEF TypeOK
    <3>3. ~Precedes(ingested', best)
      BY <2>1, <3>1, <3>2, Order DEF TypeOK
    <3>. QED  BY <2>1, <2>2, <3>3 DEF BranchIngested
  <2>. QED  BY <2>1, <2>2 DEF BranchIngested
<1>3. CASE Request \/ AskMember \/ AllAsked \/ Answer \/ Cancelled
  BY <1>3 DEF Request, AskMember, AllAsked, Answer, Cancelled, BranchIngested
<1>4. CASE PollTimeline
  <2>1. CASE pc' = "create"
    <3>1. best \in Lsns /\ best # NoLsn /\ Parse(ingested) >= Parse(best) /\ UNCHANGED <<best, ingested>>
      BY <1>4, <2>1 DEF PollTimeline, AtLeast, wal, WaitsForLsn, TypeOK
    <3>2. Parse(ingested) \in Int /\ Parse(best) \in Int
      BY <3>1, HalfAssumption DEF Parse, Lsns, TypeOK
    <3>3. ~Precedes(ingested, best)
      BY <3>1, <3>2, ParseOrder DEF TypeOK
    <3>. QED  BY <3>1, <3>3 DEF BranchIngested
  <2>2. CASE pc' = "idle"
    BY <2>2 DEF BranchIngested
  <2>. QED  BY <1>4, <2>1, <2>2 DEF PollTimeline
<1>5. CASE CreateBranchAtLSN
  BY <1>5 DEF CreateBranchAtLSN, wal, BranchIngested
<1>6. CASE UNCHANGED vars
  BY <1>6 DEF vars, BranchIngested
<1>. QED  BY <1>1, <1>2, <1>3, <1>4, <1>5, <1>6 DEF Next, Handler

\* Whatever fails, a branch is created at an LSN the pageserver has ingested
\* (BranchIngested), for any number of safekeepers and any width of an LSN.
THEOREM BranchPointIngested == Spec => []BranchIngested
<1>1. Init => WaitsForLsn /\ BranchIngested
  BY DEF Init, WaitsForLsn, BranchIngested
<1>2. TypeOK /\ WaitsForLsn /\ BranchIngested /\ [Next]_vars
        => WaitsForLsn' /\ BranchIngested'
  BY WaitStep, IngestedStep
<1>. QED  BY <1>1, <1>2, BranchType, PTL DEF Spec

-----------------------------------------------------------------------------
\* Commit LSNs only grow, and one member always has the latest.
LEMMA KnownStep ==
  ASSUME TypeOK, CommitKnown, [Next]_vars
  PROVE  /\ CommitKnown'
         /\ \A m \in 1..Members : ~Precedes(commit'[m], commit[m])
<1>1. CASE Commit
  <2>1. PICK v \in Lsns, k \in 1..Members : /\ Precedes(acked, v) /\ acked' = v
                                            /\ commit' = [commit EXCEPT ![k] = v]
    BY <1>1 DEF Commit
  <2>2. ~Precedes(v, acked) /\ ~Precedes(v, v)
    BY <2>1, Order DEF TypeOK
  <2>3. ASSUME NEW m \in 1..Members
        PROVE  /\ commit[m] \in Lsns /\ ~Precedes(v, commit[m])
               /\ commit'[m] = IF m = k THEN v ELSE commit[m]
    <3>1. commit[m] \in Lsns /\ ~Precedes(acked, commit[m]) /\ acked \in Lsns
      BY DEF TypeOK, CommitKnown
    <3>. QED  BY <2>1, <2>2, <3>1, Order DEF TypeOK
  <2>. QED  BY <2>1, <2>2, <2>3, Order DEF CommitKnown
<1>2. ASSUME NEW k \in 1..Members, Learn(k) PROVE /\ CommitKnown'
                 /\ \A m \in 1..Members : ~Precedes(commit'[m], commit[m])
  <2>1. /\ acked \in Lsns /\ UNCHANGED acked /\ ~Precedes(acked, acked)
        /\ ~Precedes(acked, commit[k])
        /\ \A m \in 1..Members : /\ commit[m] \in Lsns
                                 /\ commit'[m] = IF m = k THEN acked ELSE commit[m]
    BY <1>2, Order DEF Learn, TypeOK, CommitKnown
  <2>. QED  BY <2>1, Order DEF CommitKnown
<1>3. CASE UNCHANGED <<acked, commit>>
  <2>1. \A m \in 1..Members : commit[m] \in Lsns
    BY DEF TypeOK
  <2>. QED  BY <1>3, <2>1, Order DEF CommitKnown
<1>. QED
  BY <1>1, <1>2, <1>3 DEF Next, Handler, Ingest, Request, AskMember, AllAsked, PollTimeline,
                          CreateBranchAtLSN, Answer, Cancelled, wal, vars

\* The member that covered the floor goes on covering it, and its answer is
\* never given up.
LEMMA FloorStep ==
  ASSUME TypeOK, BranchInv, [Next]_vars
  PROVE  FloorCovered'
<1>1. \A m \in 1..Members : /\ commit[m] \in Lsns
                            /\ commit'[m] \in Lsns => ~Precedes(commit'[m], commit[m])
  BY KnownStep DEF TypeOK, BranchInv
<1>2. CASE Commit \/ Ingest \/ \E m \in 1..Members : Learn(m)
  <2>1. UNCHANGED <<pc, next, best, floor, skipped>> /\ \A m \in 1..Members : commit'[m] \in Lsns
    BY <1>2 DEF Commit, Ingest, Learn, TypeOK
  <2>2. CASE pc = "idle"
    BY <2>1, <2>2 DEF FloorCovered
  <2>3. CASE pc # "idle"
    <3>1. PICK m \in 1..Members : /\ ~Precedes(commit[m], floor)
                                  /\ next > m /\ ~skipped => best # NoLsn /\ ~Precedes(best, floor)
      BY <2>3 DEF BranchInv, FloorCovered
    <3>2. ~Precedes(commit'[m], floor)
      BY <1>1, <2>1, <3>1, Order DEF TypeOK
    <3>. QED  BY <2>1, <3>1, <3>2 DEF FloorCovered
  <2>. QED  BY <2>2, <2>3
<1>3. CASE Request
  <2>1. PICK m \in 1..Members : commit[m] = acked
    BY DEF BranchInv, CommitKnown
  <2>2. floor' = acked /\ next' = 1 /\ UNCHANGED commit
    BY <1>3 DEF Request, wal
  <2>3. ~Precedes(commit'[m], floor') /\ ~(next' > m)
    BY <2>1, <2>2, <1>1, Order DEF TypeOK
  <2>. QED  BY <2>3 DEF FloorCovered
<1>4. CASE AskMember
  <2>1. /\ UNCHANGED <<pc, floor, commit>> /\ pc = "ask" /\ next' = next + 1
        /\ next \in 1..Members
        /\ skipped' \/ (best' = Higher(commit[next]) /\ UNCHANGED skipped)
    BY <1>4, MembersAssumption DEF AskMember, wal, TypeOK
  <2>2. PICK m \in 1..Members : /\ ~Precedes(commit[m], floor)
                                /\ next > m /\ ~skipped => best # NoLsn /\ ~Precedes(best, floor)
    BY <2>1 DEF BranchInv, FloorCovered
  <2>3. ASSUME next' > m, ~skipped' PROVE best' # NoLsn /\ ~Precedes(best', floor)
    <3>1. /\ best' \in Lsns /\ ~Precedes(best', commit[next])
          /\ best # NoLsn => ~Precedes(best', best)
      BY <2>1, <2>3, <1>1, HigherIsHigher DEF TypeOK
    <3>2. best' # NoLsn
      BY <3>1, NoLsnAssumption DEF Lsns
    <3>3. CASE next > m
      <4>1. best \in Lsns /\ ~Precedes(best', best) /\ ~Precedes(best, floor)
        BY <2>1, <2>2, <2>3, <3>1, <3>3 DEF TypeOK
      <4>. QED  BY <3>1, <3>2, <4>1, Order DEF TypeOK
    <3>4. CASE next = m
      BY <2>2, <3>1, <3>2, <3>4, <1>1, Order DEF TypeOK
    <3>. QED  BY <2>1, <2>3, <3>3, <3>4
  <2>. QED  BY <2>1, <2>2, <2>3 DEF FloorCovered
<1>5. CASE AllAsked \/ PollTimeline \/ CreateBranchAtLSN \/ Answer \/ Cancelled
  BY <1>5 DEF AllAsked, PollTimeline, CreateBranchAtLSN, Answer, Cancelled, wal, BranchInv,
              FloorCovered
<1>6. CASE UNCHANGED vars
  BY <1>6 DEF vars, BranchInv, FloorCovered
<1>. QED  BY <1>2, <1>3, <1>4, <1>5, <1>6 DEF Next, Handler

\* What carries the proof (BranchInv): the newest commit is known to a member,
\* one member has covered the floor since the request came in and its answer is
\* never given up, and the request waits for the pageserver only after all
\* members were asked, whatever calls fail.
THEOREM BranchAlways == Spec => []BranchInv
<1>1. Init => BranchInv
  BY ZeroLsn, Order, MembersAssumption DEF Init, BranchInv, WaitsForLsn, CommitKnown, FloorCovered
<1>2. TypeOK /\ BranchInv /\ [Next]_vars => BranchInv'
  BY WaitStep, KnownStep, FloorStep DEF BranchInv
<1>. QED  BY <1>1, <1>2, BranchType, PTL DEF Spec

\* A branch for which every safekeeper answered contains every commit that
\* was acknowledged before it was requested (BranchComplete), for any number
\* of safekeepers, however the answers and the commits interleave.
THEOREM BranchHasCommits == Spec => []BranchComplete
<1>1. TypeOK /\ BranchInv => BranchComplete
  BY MembersAssumption DEF BranchInv, WaitsForLsn, FloorCovered, BranchComplete, TypeOK
<1>. QED  BY <1>1, BranchType, BranchAlways, PTL
=============================================================================
