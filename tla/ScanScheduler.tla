------------------------------ MODULE ScanScheduler ------------------------------
(* services/scan_scheduler.py and routes/scan_schedules.py: the loop that        *)
(* provisions and launches a run for each schedule that is due, the count that   *)
(* ends a schedule, the cached diff, and the requests that change a schedule     *)
(* meanwhile.  Time is abstracted: a schedule becomes due again at any moment.   *)
EXTENDS BackgroundRuns

CONSTANTS
  Schedules,
  Limits,      \* the values max_runs takes; 0 is None, no limit
  NoSchedule

ASSUME ScheduleAssumption ==
  /\ Limits \subseteq Nat /\ 0 \in Limits
  /\ NoSchedule \notin Schedules

VARIABLES
  sched,     \* the rows
  of,        \* the schedule a run was provisioned for
  due,       \* the list _check_due_schedules has read and not finished
  exec,      \* where _execute_scheduled_scan is
  launched,  \* how many runs were launched for each schedule
  edited     \* schedules whose limit or activity a user has changed

ownVars == <<sched, of, due, exec, launched, edited>>
vars == <<runVars, ownVars>>

Diffs == {"none", "pending", "skipped", "cached"}

NoExec == [pc |-> "idle", sched |-> NoSchedule, runs |-> {}, limit |-> 0]

TypeOK ==
  /\ RunsTypeOK
  /\ sched \in [Schedules -> [there : BOOLEAN, active : BOOLEAN, due : BOOLEAN,
                              ready : BOOLEAN, count : 0..Cardinality(Runs),
                              limit : Limits, diff : Diffs]]
  /\ of \in [Runs -> Schedules \cup {NoSchedule}]
  /\ due \subseteq Schedules
  /\ exec \in [pc : {"idle", "launching", "counting"},
               sched : Schedules \cup {NoSchedule}, runs : SUBSET Runs, limit : Limits]
  /\ launched \in [Schedules -> 0..Cardinality(Runs)]
  /\ edited \subseteq Schedules

Init ==
  /\ RunsInit
  /\ sched \in [Schedules -> [there : {TRUE}, active : {TRUE}, due : {FALSE},
                              ready : {TRUE}, count : {0}, limit : Limits, diff : {"none"}]]
  /\ of = [r \in Runs |-> NoSchedule]
  /\ due = {}
  /\ exec = NoExec
  /\ launched = [s \in Schedules |-> 0]
  /\ edited = {}

Completed(s) == {r \in Runs : of[r] = s /\ run[r] = "completed"}

--------------------------------------------------------------------------------
(* The loop.                                                                     *)

\* next_run_at has passed.
BecomesDue(s) ==
  /\ sched[s].active /\ ~sched[s].due
  /\ sched' = [sched EXCEPT ![s].due = TRUE]
  /\ UNCHANGED <<of, due, exec, launched, edited, runVars>>

\* The schedule's template or device is deleted, or restored from a backup.
ResourceChanges(s) ==
  /\ sched' = [sched EXCEPT ![s].ready = ~@]
  /\ UNCHANGED <<of, due, exec, launched, edited, runVars>>

\* _check_due_schedules reads the list once ...
CheckDue ==
  /\ exec.pc = "idle" /\ due = {}
  /\ due' = {s \in Schedules : sched[s].there /\ sched[s].active /\ sched[s].due}
  /\ due' # {}
  /\ UNCHANGED <<sched, of, exec, launched, edited, runVars>>

\* ... and executes one after the other, each read again: a schedule that is gone
\* or no longer active is passed over, and one whose template or device is
\* missing too, without a new next_run_at.
PassOver(s) ==
  /\ exec.pc = "idle" /\ s \in due
  /\ ~(sched[s].there /\ sched[s].active /\ sched[s].ready)
  /\ due' = due \ {s}
  /\ UNCHANGED <<sched, of, exec, launched, edited, runVars>>

\* Mutant: a skipped execution leaves next_run_at alone.
SkipStillDue(s) ==
  /\ exec.pc = "idle" /\ s \in due
  /\ sched[s].there /\ sched[s].active /\ sched[s].ready
  /\ due' = due \ {s}
  /\ sched' = [sched EXCEPT ![s].diff = "skipped"]
  /\ UNCHANGED <<of, exec, launched, edited, runVars>>

\* A template with no active test: the next run is scheduled, nothing launched.
Skip(s) ==
  /\ exec.pc = "idle" /\ s \in due
  /\ sched[s].there /\ sched[s].active /\ sched[s].ready
  /\ due' = due \ {s}
  /\ sched' = [sched EXCEPT ![s].due = FALSE, ![s].diff = "skipped"]
  /\ UNCHANGED <<of, exec, launched, edited, runVars>>

\* The run is provisioned and next_run_at advanced by one commit.
Provision(s, r) ==
  /\ exec.pc = "idle" /\ s \in due
  /\ sched[s].there /\ sched[s].active /\ sched[s].ready
  /\ due' = due \ {s}
  /\ r \in Unused /\ Provisioned({r})
  /\ of' = [of EXCEPT ![r] = s]
  /\ sched' = [sched EXCEPT ![s].due = FALSE,
       ![s].diff = IF Completed(s) = {} THEN @ ELSE "pending"]
  /\ exec' = [pc |-> "launching", sched |-> s, runs |-> {r}, limit |-> sched[s].limit]
  /\ UNCHANGED <<launched, edited, task, cancelling, crashes>>

\* Mutant: a launch that was refused is counted, too.
LaunchCounting(r) ==
  /\ exec.pc = "launching" /\ r \in exec.runs
  /\ exec' = [exec EXCEPT !.pc = "counting"]
  /\ task' = task \cup {r}
  /\ launched' = [launched EXCEPT ![exec.sched] = IF r \in task THEN @ ELSE @ + 1]
  /\ UNCHANGED <<sched, of, due, edited, run, cancelling, crashes>>

\* After the commit the run is launched, unless a user was faster.
Launch(r) ==
  /\ exec.pc = "launching" /\ r \in exec.runs
  /\ IF r \in task
       THEN exec' = NoExec /\ UNCHANGED <<task, launched>>
       ELSE /\ exec' = [exec EXCEPT !.pc = "counting"]
            /\ task' = task \cup {r}
            /\ launched' = [launched EXCEPT ![exec.sched] = @ + 1]
  /\ UNCHANGED <<sched, of, due, edited, run, cancelling, crashes>>

\* Mutant: the count is taken again and again.
CountAgain(s) ==
  /\ exec.pc = "counting" /\ exec.sched = s
  /\ sched' = IF ~sched[s].there THEN sched ELSE [sched EXCEPT ![s].count = @ + 1]
  /\ UNCHANGED <<of, due, exec, launched, edited, runVars>>

\* Mutant: reaching the limit does not end the schedule.
CountForever(s) ==
  /\ exec.pc = "counting" /\ exec.sched = s
  /\ sched' = IF ~sched[s].there THEN sched ELSE [sched EXCEPT ![s].count = @ + 1]
  /\ exec' = NoExec
  /\ UNCHANGED <<of, due, launched, edited, runVars>>

\* The count, in a session of its own; the limit is the one read before.
Count(s) ==
  /\ exec.pc = "counting" /\ exec.sched = s
  /\ sched' = IF ~sched[s].there THEN sched
              ELSE [sched EXCEPT ![s].count = @ + 1,
                     ![s].active = @ /\ ~(exec.limit # 0 /\ sched[s].count + 1 >= exec.limit)]
  /\ exec' = NoExec
  /\ UNCHANGED <<of, due, launched, edited, runVars>>

--------------------------------------------------------------------------------
(* Requests.                                                                     *)

\* update_schedule with a new frequency: next_run_at is computed again.
UpdateFrequency(s) ==
  /\ sched[s].there /\ sched[s].due
  /\ sched' = [sched EXCEPT ![s].due = FALSE]
  /\ UNCHANGED <<of, due, exec, launched, edited, runVars>>

\* update_schedule with is_active or max_runs; run_count is not looked at.
Update(s, active, limit) ==
  /\ sched[s].there
  /\ sched' = [sched EXCEPT ![s].active = active, ![s].limit = limit]
  /\ edited' = edited \cup {s}
  /\ UNCHANGED <<of, due, exec, launched, runVars>>

Delete(s) ==
  /\ sched[s].there
  /\ sched' = [sched EXCEPT ![s].there = FALSE, ![s].active = FALSE, ![s].due = FALSE]
  /\ UNCHANGED <<of, due, exec, launched, edited, runVars>>

\* get_schedule_diff: a diff of the two latest completed runs is cached, whatever
\* run is under way; with fewer than two nothing is.
GetDiff(s) ==
  /\ sched[s].there
  /\ sched[s].diff \in {"none", "pending"} /\ Cardinality(Completed(s)) >= 2
  /\ sched' = [sched EXCEPT ![s].diff = "cached"]
  /\ UNCHANGED <<of, due, exec, launched, edited, runVars>>

--------------------------------------------------------------------------------

\* What a crash takes: the loop's position.
Crash ==
  /\ RunsCrash
  /\ due' = {} /\ exec' = NoExec
  /\ UNCHANGED <<sched, of, launched, edited>>

Next ==
  \/ RunsNext /\ UNCHANGED ownVars
  \/ Crash \/ CheckDue
  \/ \E s \in Schedules :
       \/ BecomesDue(s) \/ ResourceChanges(s) \/ PassOver(s) \/ Skip(s) \/ Count(s)
       \/ UpdateFrequency(s) \/ Delete(s) \/ GetDiff(s)
       \/ \E r \in Runs : Provision(s, r)
       \/ \E active \in BOOLEAN, limit \in Limits : Update(s, active, limit)
  \/ \E r \in Runs : Launch(r)

Spec == Init /\ [][Next]_vars

\* The loop repeats every minute and survives exceptions; the order of the due
\* list is not known, but each of its schedules has its turn.
Fairness ==
  /\ WF_vars(CheckDue) /\ WF_vars(\E r \in Runs : Launch(r))
  /\ \A s \in Schedules :
       /\ WF_vars(PassOver(s) \/ Skip(s) \/ \E r \in Runs : Provision(s, r))
       /\ WF_vars(Count(s))

FairSpec == Spec /\ Fairness

--------------------------------------------------------------------------------
(* Properties.                                                                   *)

Budget(s) == sched[s].limit + crashes

\* max_runs bounds the launches of a schedule nobody edits; a crash between a
\* launch and its count costs at most one more each.
LaunchesBounded ==
  \A s \in Schedules :
    s \notin edited /\ sched[s].limit # 0 => launched[s] <= Budget(s)

\* Every due schedule is dealt with: executed, skipped, postponed, ended, or passed
\* over because its device or template is gone, through edits, deletions and a
\* crash.  (Or the bound on runs is reached.)
DueIsServed ==
  \A s \in Schedules :
    sched[s].due ~> ~sched[s].due \/ ~sched[s].active \/ ~sched[s].ready \/ Unused = {}

\* run_count neither invents a launch nor misses one, but for the one about to be
\* counted and one for each crash that came between a launch and its count.
CountsLaunches ==
  \A s \in Schedules :
    /\ sched[s].count <= launched[s]
    /\ launched[s] <= sched[s].count + crashes
         + (IF exec.pc = "counting" /\ exec.sched = s THEN 1 ELSE 0) \/ ~sched[s].there
==================================================================================
