------------------------------- MODULE RunStatus -------------------------------
(* The canonical statuses of a test run and the predicates over them that the  *)
(* routes, the engine and the cable handler branch on.  "Live" statuses are    *)
(* the ones that promise an engine is working on the run.                      *)

Statuses ==
  {"pending", "selecting_interface", "syncing", "running", "paused_manual",
   "paused_cable", "awaiting_manual", "awaiting_review", "completed", "failed",
   "cancelled"}

Startable == {"pending", "failed", "cancelled"}

Cancellable ==
  {"running", "selecting_interface", "syncing", "paused_manual", "paused_cable"}

Pausable == {"running"}

Flaggable == {"running", "awaiting_manual"}

Paused == {"paused_manual", "paused_cable"}

\* What pause_for_disconnect and the interface poll treat as over.
Over == {"completed", "cancelled", "failed"}

\* What recover_orphaned_runs resets to failed at startup.
Orphanable ==
  {"selecting_interface", "syncing", "running", "paused_cable", "paused_manual"}

\* Statuses in which _refresh_parent_run leaves the status alone.
Unsettled ==
  {"pending", "selecting_interface", "syncing", "running", "paused_manual",
   "paused_cable", "cancelled", "failed"}
================================================================================
