--------------------------- MODULE EndpointMachine ---------------------------
(***************************************************************************)
(* The endpoint lifecycle as package state documents it: suspended ->      *)
(* starting -> running -> suspending -> suspended, plus failed; and the    *)
(* reconciliation of a running endpoint whose compute is gone.             *)
(***************************************************************************)

VARIABLE state

Edges == {<<"suspended", "starting">>, <<"starting", "running">>,
          <<"running", "suspending">>, <<"suspending", "suspended">>,
          <<"starting", "failed">>, <<"failed", "starting">>,
          <<"running", "suspended">>}

Init == state = "suspended"

Move(from, to) == state = from /\ state' = to

Next == \E e \in Edges : Move(e[1], e[2])

Spec == Init /\ [][Next]_state
=============================================================================
