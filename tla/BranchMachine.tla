---------------------------- MODULE BranchMachine ----------------------------
(***************************************************************************)
(* What provisioning promises of a branch, as if it were one object:       *)
(*   absent : neither row nor timeline                                     *)
(*   staged : a timeline without a row                                     *)
(*   live   : a row and an active timeline                                 *)
(*   broken : a row without an active timeline                             *)
(* Storage comes before the row and goes before it; a branch that has been *)
(* promised to a client is live until somebody asks to delete it.          *)
(***************************************************************************)
CONSTANT Branches

VARIABLES
  stage,      \* stage[b]
  promised,   \* branches whose creation was confirmed
  doomed      \* branches whose deletion was asked for

Edges == {<<"absent", "staged">>, <<"staged", "live">>, <<"staged", "absent">>,
          <<"live", "broken">>, <<"broken", "absent">>}

Init ==
  /\ stage = [b \in Branches |-> "absent"]
  /\ promised = {}
  /\ doomed = {}

\* A row whose storage has just been deleted with the project may still come.
LateRow(b) == stage[b] = "absent" /\ stage'[b] = "broken" /\ b \in doomed

Step(b) ==
  \/ stage'[b] = stage[b]
  \/ <<stage[b], stage'[b]>> \in Edges
  \/ LateRow(b)

Next ==
  /\ stage' \in [Branches -> {"absent", "staged", "live", "broken"}]
  /\ \A b \in Branches : Step(b)
  /\ promised \subseteq promised' /\ doomed \subseteq doomed'
  /\ \A b \in promised' \ doomed' : stage'[b] = "live"

Spec == Init /\ [][Next]_<<stage, promised, doomed>>
=============================================================================
