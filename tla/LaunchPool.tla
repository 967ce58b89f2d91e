------------------------------- MODULE LaunchPool -------------------------------
(* services/test_run_launcher.py: the registry of engine tasks, the semaphore  *)
(* that bounds how many execute, and the done callback that empties the        *)
(* registry.  What a task does while it holds the semaphore is TestRun's       *)
(* subject; here it runs, polls while its run is paused, and ends.             *)
(*                                                                             *)
(* asyncio calls a done callback through call_soon, after the handles that     *)
(* were already ready when the task ended: a launch may be one of those, and   *)
(* the callback then takes the new task out of the registry.  The auxiliary    *)
(* variable "late" remembers the tasks launched so.                            *)
(*                                                                             *)
(* Its names are its own: Pools_proofs extends it together with ToolSidecar.   *)
EXTENDS Naturals, FiniteSets

CONSTANTS
  Runs,           \* the test runs
  Tasks,          \* bound: tasks alive at a time; a task is reused once cleaned up
  MaxConcurrent,  \* MAX_CONCURRENT_RUNS
  Nobody          \* no task, no run

ASSUME PoolAssumption ==
  /\ IsFiniteSet(Tasks)
  /\ MaxConcurrent \in Nat \ {0}
  /\ Nobody \notin Tasks /\ Nobody \notin Runs

VARIABLES
  registry,   \* _running_tasks
  owner,      \* the run a task was created for
  state,      \* where a task is in _guarded_run
  permits,    \* the value of _run_semaphore
  late        \* auxiliary: tasks launched before the callback of an earlier one

poolVars == <<registry, owner, state, permits, late>>

TaskStates == {"free", "waiting", "cancelling", "running", "paused", "done"}

PoolTypeOK ==
  /\ registry \in [Runs -> Tasks \cup {Nobody}]
  /\ owner \in [Tasks -> Runs \cup {Nobody}]
  /\ state \in [Tasks -> TaskStates]
  /\ permits \in 0..MaxConcurrent
  /\ late \subseteq Tasks

PoolInit ==
  /\ registry = [r \in Runs |-> Nobody]
  /\ owner = [t \in Tasks |-> Nobody]
  /\ state = [t \in Tasks |-> "free"]
  /\ permits = MaxConcurrent
  /\ late = {}

\* Mutant: a task queued at the semaphore does not count as executing.
ExecutingOnlyRunning(r) == registry[r] # Nobody /\ state[registry[r]] = "running"

\* is_run_executing: the registered task exists and is not done.
Executing(r) == registry[r] # Nobody /\ state[registry[r]] # "done"

\* A task of the run is not cleaned up: it is at work, or its callback has not run.
Outstanding(r) == \E t \in Tasks : owner[t] = r /\ state[t] # "free"

\* Mutant: launch_test_run does not ask is_run_executing.
LaunchUnchecked(r, t) ==
  /\ state[t] = "free"
  /\ state' = [state EXCEPT ![t] = "waiting"]
  /\ owner' = [owner EXCEPT ![t] = r]
  /\ registry' = [registry EXCEPT ![r] = t]
  /\ late' = IF Outstanding(r) THEN late \cup {t} ELSE late
  /\ UNCHANGED permits

\* launch_test_run; the task enters _guarded_run and asks for the semaphore.
Launch(r, t) ==
  /\ ~Executing(r)
  /\ state[t] = "free"
  /\ state' = [state EXCEPT ![t] = "waiting"]
  /\ owner' = [owner EXCEPT ![t] = r]
  /\ registry' = [registry EXCEPT ![r] = t]
  /\ late' = IF Outstanding(r) THEN late \cup {t} ELSE late
  /\ UNCHANGED permits

\* Mutant: one task too many gets through the semaphore.
AcquireOneMore(t) ==
  /\ state[t] = "waiting" /\ permits >= 0
  /\ state' = [state EXCEPT ![t] = "running"]
  /\ permits' = permits - 1
  /\ UNCHANGED <<registry, owner, late>>

\* The semaphore lets a waiting task through, and the engine starts.
Acquire(t) ==
  /\ state[t] = "waiting" /\ permits > 0
  /\ state' = [state EXCEPT ![t] = "running"]
  /\ permits' = permits - 1
  /\ UNCHANGED <<registry, owner, late>>

\* Mutant: a paused engine gives its slot back, as if it would ask again.
PauseReleasing(t) ==
  /\ state[t] = "running"
  /\ state' = [state EXCEPT ![t] = "paused"]
  /\ permits' = permits + 1
  /\ UNCHANGED <<registry, owner, late>>

\* The run is paused: the engine polls its row, inside the semaphore ...
Pause(t) ==
  /\ state[t] = "running"
  /\ state' = [state EXCEPT ![t] = "paused"]
  /\ UNCHANGED <<registry, owner, permits, late>>

\* ... until somebody resumes the run.
Resume(t) ==
  /\ state[t] = "paused"
  /\ state' = [state EXCEPT ![t] = "running"]
  /\ UNCHANGED <<registry, owner, permits, late>>

\* Mutant: an engine that ends keeps its slot.
FinishLeaking(t) ==
  /\ state[t] \in {"running", "paused"}
  /\ state' = [state EXCEPT ![t] = "done"]
  /\ UNCHANGED <<registry, owner, permits, late>>

\* The engine has returned, or its cancellation got through, which it may do in
\* the middle of a pause.
Finish(t) ==
  /\ state[t] \in {"running", "paused"}
  /\ state' = [state EXCEPT ![t] = "done"]
  /\ permits' = permits + 1
  /\ UNCHANGED <<registry, owner, late>>

\* cancel_test_run, for a task still waiting; a running one may swallow it.
Cancel(r) ==
  /\ registry[r] # Nobody /\ state[registry[r]] = "waiting"
  /\ state' = [state EXCEPT ![registry[r]] = "cancelling"]
  /\ UNCHANGED <<registry, owner, permits, late>>

\* Mutant: a cancelled waiter releases a slot it never held.
CancelReleasing(t) ==
  /\ state[t] = "cancelling"
  /\ state' = [state EXCEPT ![t] = "done"]
  /\ permits' = permits + 1
  /\ UNCHANGED <<registry, owner, late>>

\* CancelledError at the semaphore: the task ends without having held a slot.
CancelDelivered(t) ==
  /\ state[t] = "cancelling"
  /\ state' = [state EXCEPT ![t] = "done"]
  /\ UNCHANGED <<registry, owner, permits, late>>

\* The done callback pops the run's entry, whichever task it holds by now.
Cleanup(t) ==
  /\ state[t] = "done"
  /\ registry' = [registry EXCEPT ![owner[t]] = Nobody]
  /\ state' = [state EXCEPT ![t] = "free"]
  /\ owner' = [owner EXCEPT ![t] = Nobody]
  /\ late' = late \ {t}
  /\ UNCHANGED permits

PoolNext ==
  \/ \E r \in Runs, t \in Tasks : Launch(r, t)
  \/ \E r \in Runs : Cancel(r)
  \/ \E t \in Tasks :
       \/ Acquire(t) \/ Pause(t) \/ Resume(t) \/ Finish(t)
       \/ CancelDelivered(t) \/ Cleanup(t)

PoolSpec == PoolInit /\ [][PoolNext]_poolVars

\* An engine whose run is not paused ends (TestRun's EngineEnds); nobody must resume
\* one that is.  Callbacks and cancellations are delivered, and asyncio wakes the
\* semaphore's waiters in order, so that none is passed over for ever.
PoolFairness ==
  \A t \in Tasks :
    /\ SF_poolVars(Acquire(t))
    /\ WF_poolVars(state[t] = "running" /\ Finish(t))
    /\ WF_poolVars(CancelDelivered(t)) /\ WF_poolVars(Cleanup(t))

FairPoolSpec == PoolSpec /\ PoolFairness

--------------------------------------------------------------------------------
(* Properties.                                                                 *)

\* The tasks inside "async with _run_semaphore".
Working == {t \in Tasks : state[t] \in {"running", "paused"}}

Alive(t) == state[t] \in {"waiting", "cancelling", "running", "paused"}

\* Never more engines run than _run_semaphore admits, whatever is launched,
\* cancelled at the semaphore, paused or relaunched: no path out of _guarded_run
\* releases a slot it does not hold.
ConcurrencyBound == Cardinality(Working) <= MaxConcurrent

\* Every task that has not ended is the one registered for its run, so that
\* cancel_test_run and is_run_executing speak of the engine that is at work.
\* Excepted are tasks launched before the callback of an earlier task of the run,
\* which pops the run's entry whichever task it holds.
RegistryTracksLive ==
  \A t \in Tasks :
    Alive(t) => t \in late \/ (owner[t] \in Runs /\ registry[owner[t]] = t)

\* "Returns None if already running": two live tasks execute one run only if both
\* were launched before a callback that was due.  A launch in time, and every first
\* launch, therefore has its run to itself until it has ended.
OneTaskPerRun ==
  \A t, u \in Tasks :
    Alive(t) /\ Alive(u) /\ owner[t] = owner[u] => t = u \/ {t, u} \subseteq late

\* From some time on all slots are held, by engines that are paused again and
\* again or for good.
HeldByPaused ==
  /\ <>[](Cardinality(Working) = MaxConcurrent)
  /\ \A t \in Tasks : []<>(state[t] # "running")

\* A launched task does not wait for the semaphore for ever: it runs or is
\* cancelled, however many other runs are launched, cancelled and relaunched,
\* unless paused runs keep all the slots.
NoStarvation ==
  HeldByPaused \/ \A t \in Tasks : state[t] = "waiting" ~> state[t] # "waiting"

Abstract ==
  INSTANCE ExclusivePool WITH Holders <- Tasks, busy <- Working, free <- permits

\* The launcher hands out its slots as an exclusive pool does: a task begins only
\* with a slot, keeps that one while it is paused, and gives it back once.
SlotsAreExclusive == Abstract!Spec
================================================================================
