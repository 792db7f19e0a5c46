---------------------------- MODULE EndpointStore ----------------------------
(***************************************************************************)
(* The endpoint row of the state database (internal/state).  One endpoint  *)
(* is modelled: every statement the wake and suspend paths run is keyed by *)
(* the endpoint id, so rows of different endpoints never interact here.    *)
(*                                                                         *)
(* A statement is one atomic UPDATE.  Each operator below gives the row    *)
(* after the statement; the callers decide whether the statement ran and   *)
(* whether its answer arrived (see Processes).                             *)
(***************************************************************************)

EXTENDS Addresses

VARIABLE
  row     \* the endpoints row; exists = FALSE once it is deleted

-----------------------------------------------------------------------------

EndpointStates == {"suspended", "starting", "running", "suspending", "failed"}

(***************************************************************************)
(* addr  : compute_addr.  The port is a constant, so an address is an IP.  *)
(* stale : more than staleAfter (2 minutes) since updated_at.              *)
(* grace : less than suspend_after_seconds since last_started_at.          *)
(***************************************************************************)
Rows == [exists : BOOLEAN, state : EndpointStates, addr : MaybeIP,
         stale : BOOLEAN, grace : BOOLEAN]

NoRow == [exists |-> FALSE, state |-> "suspended", addr |-> NULL,
          stale |-> FALSE, grace |-> FALSE]

\* CreateProject / CreateBranch insert the endpoint suspended, without address.
StoreInit == row = [NoRow EXCEPT !.exists = TRUE]

\* Mutant: the statement forgets to compare the state.
InStateAny(from) == row.exists

\* WHERE id=$1 AND state=$2: the statement affects exactly one row.
InState(from) == row.exists /\ row.state = from

\* Compare-and-swap on the state alone; every statement refreshes updated_at.
TransitionEndpoint(from, to) ==
  IF InState(from) THEN [row EXCEPT !.state = to, !.stale = FALSE] ELSE row

\* Unconditional: whatever the state was, and silently nothing without a row.
SetEndpointRunning(ip) ==
  IF row.exists
  THEN [row EXCEPT !.state = "running", !.addr = ip,
                   !.stale = FALSE, !.grace = TRUE]
  ELSE row

\* Mutant: a state outside the CHECK constraint of schema.sql.
SetEndpointStopped ==
  IF row.exists
  THEN [row EXCEPT !.state = "stopped", !.addr = NULL, !.stale = FALSE]
  ELSE row

\* Unconditional as well, and it clears the address.
SetEndpointSuspended ==
  IF row.exists
  THEN [row EXCEPT !.state = "suspended", !.addr = NULL, !.stale = FALSE]
  ELSE row

\* ON DELETE CASCADE from the branch (or its project) removes the endpoint.
DeletedRow == NoRow

-----------------------------------------------------------------------------
(***************************************************************************)
(* Time, as far as the row can tell.                                       *)
(***************************************************************************)

\* staleAfter passes without an update of a transitional row.
RowAges ==
  /\ row.exists /\ row.state \in {"starting", "suspending"} /\ ~row.stale
  /\ row' = [row EXCEPT !.stale = TRUE]

\* suspend_after_seconds pass since last_started_at.
GraceEnds ==
  /\ row.exists /\ row.state = "running" /\ row.grace
  /\ row' = [row EXCEPT !.grace = FALSE]
=============================================================================
