------------------------------ MODULE AppState ------------------------------
(***************************************************************************)
(* The life of the application process around the job table (app_state.rs) *)
(* A start sweeps the transport jobs that an earlier process left running, *)
(* one row after the other, and takes commands only when that is done.     *)
(* The death of the process frees the operation lock and leaves the table  *)
(* as the last write left it.                                              *)
(***************************************************************************)
EXTENDS Jobs

VARIABLE process   \* "up", "down", or "starting" (the sweep)

appVars == <<jobVars, process>>

AppInit == JobsInit /\ process = "up"

IsUp == process = "up"

Die ==
  /\ process # "down"
  /\ process' = "down"
  /\ LoseLock

\* Mutant: commands are taken while the sweep has not run.
Boot_WithoutSweep ==
  /\ process = "down"
  /\ process' = "up"
  /\ UNCHANGED jobVars

\* AppState::from_paths, up to its call of fail_running_by_kind_prefix.
Boot ==
  /\ process = "down"
  /\ IF RunningTransport = {}
       THEN process' = "up" /\ UNCHANGED jobVars
       ELSE process' = "starting" /\ FailRunningList

Sweep(id) ==
  /\ process = "starting"
  /\ FailRunningRow(id)
  /\ process' = IF writing'.ids = {} THEN "up" ELSE "starting"

AppTypeOK == JobsTypeOK /\ process \in {"up", "down", "starting"}

\* After a start no transport job is still shown as running.
SweepIsComplete ==
  [][process # "up" /\ process' = "up" => RunningTransport' = {}]_appVars
=============================================================================
