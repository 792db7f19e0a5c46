------------------------------- MODULE Startup -------------------------------
(***************************************************************************)
(* cmd/controlplane: the process starts, applies the schema, retrying      *)
(* while the state database is not there yet, and serves.  Kubernetes      *)
(* (external) starts it again when it exits.                               *)
(***************************************************************************)
EXTENDS Calls

CONSTANT MaxRetries     \* 30 in main.go

ASSUME MaxRetriesAssumption == MaxRetries \in Nat

VARIABLES
  phase,    \* "migrating", "serving", or "down"
  tries,    \* i of the retry loop
  db        \* the state database answers

process == <<phase, tries>>

\* The database may still be booting.
StartupInit ==
  /\ phase = "migrating"
  /\ tries = 0
  /\ db \in BOOLEAN

Serving == phase = "serving"

Migrate ==
  /\ phase = "migrating"
  /\ \/ db /\ phase' = "serving" /\ tries' = 0
     \/ ~db /\ tries >= MaxRetries /\ phase' = "down" /\ UNCHANGED tries
     \/ ~db /\ tries < MaxRetries /\ tries' = tries + 1 /\ UNCHANGED phase

Restart ==
  /\ phase = "down"
  /\ phase' = "migrating"
  /\ tries' = 0

\* An outage of the database, and its end.
DatabaseFails == db /\ Charge("db") /\ db' = FALSE
DatabaseBack  == ~db /\ db' = TRUE

\* A statement: without the database it fails, and costs nothing more.
Statement(o) == IF db THEN Cost(o) ELSE o = "call" /\ UNCHANGED faults
=============================================================================
