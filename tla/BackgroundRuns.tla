----------------------------- MODULE BackgroundRuns -----------------------------
(* Test runs as batch scans and the scheduler see them: rows that are created,  *)
(* launched in the background, executed and brought to an end.  TestRun models  *)
(* what happens inside; here a run is its coarse status and whether a task of   *)
(* the launcher works on it.                                                   *)
EXTENDS Naturals, FiniteSets

CONSTANTS
  Runs,       \* bound: the runs that are ever created
  MaxCrashes  \* bound: crashes of the backend

ASSUME RunsAssumption == IsFiniteSet(Runs) /\ MaxCrashes \in Nat

VARIABLES
  run,         \* the status of each run
  task,        \* the runs with a task in _running_tasks
  cancelling,  \* runs whose task is cancelled but whose row is not written yet
  crashes

runVars == <<run, task, cancelling, crashes>>

\* "running" stands for syncing, running and selecting_interface; "paused" for the
\* two pauses; "ended" for every final or waiting status except "completed".
RunStates == {"none", "pending", "running", "paused", "completed", "ended"}

\* _SETTLED_BATCH_RUN_STATUSES.
SettledStates == {"paused", "completed", "ended"}

RunsTypeOK ==
  /\ run \in [Runs -> RunStates]
  /\ task \subseteq Runs /\ cancelling \subseteq Runs
  /\ crashes \in 0..MaxCrashes

RunsInit ==
  /\ run = [r \in Runs |-> "none"]
  /\ task = {} /\ cancelling = {}
  /\ crashes = 0

Unused == {r \in Runs : run[r] = "none"}

\* The runs rs are provisioned, one for each device.
Provisioned(rs) == run' = [r \in Runs |-> IF r \in rs THEN "pending" ELSE run[r]]

\* start_test_run on a pending run: a user may be faster than the launch loop.
UserStarts(r) ==
  /\ run[r] = "pending" /\ r \notin task
  /\ task' = task \cup {r}
  /\ UNCHANGED <<run, cancelling, crashes>>

\* The engine begins, pauses or resumes; it begins whatever status the run has.
EngineMoves(r, st) ==
  /\ r \in task /\ st # run[r]
  /\ st = "running" \/ (st = "paused" /\ run[r] = "running")
  /\ run' = [run EXCEPT ![r] = st]
  /\ UNCHANGED <<task, cancelling, crashes>>

\* The engine ends, and the launcher's callback follows.
EngineEnds(r, st) ==
  /\ r \in task /\ run[r] = "running"
  /\ st \in {"completed", "ended"}
  /\ run' = [run EXCEPT ![r] = st]
  /\ task' = task \ {r}
  /\ UNCHANGED <<cancelling, crashes>>

\* cancel_test_run ends the task; the handler then awaits the sidecar ...
CancelTask(r) ==
  /\ r \in task /\ run[r] \in {"running", "paused"}
  /\ task' = task \ {r}
  /\ cancelling' = cancelling \cup {r}
  /\ UNCHANGED <<run, crashes>>

\* ... and writes the status afterwards.
CancelCommit(r) ==
  /\ r \in cancelling
  /\ run' = [run EXCEPT ![r] = "ended"]
  /\ cancelling' = cancelling \ {r}
  /\ UNCHANGED <<task, crashes>>

\* The backend dies and comes back: tasks are gone, recover_orphaned_runs fails
\* the runs that were under way, pending ones stay.
RunsCrash ==
  /\ crashes < MaxCrashes
  /\ crashes' = crashes + 1
  /\ task' = {} /\ cancelling' = {}
  /\ run' = [r \in Runs |-> IF run[r] \in {"running", "paused"} THEN "ended" ELSE run[r]]

RunsNext ==
  \E r \in Runs :
    \/ UserStarts(r) \/ CancelTask(r) \/ CancelCommit(r)
    \/ \E st \in RunStates : EngineMoves(r, st) \/ EngineEnds(r, st)
================================================================================
