-------------------------------- MODULE BatchScan --------------------------------
(* routes/network_scan.py: a network is discovered, a batch of runs is started   *)
(* for the devices found, and a monitor waits for the runs and closes the scan.  *)
(* The reservation of a scan's start and the monitor are in memory, the scan is  *)
(* a row.  What nmap, the TCP probes and the neighbour table find is one outcome *)
(* per host.                                                                     *)
EXTENDS BackgroundRuns

CONSTANTS
  Scans,     \* the network scans
  Starters,  \* requests that start a batch
  NoScan

ASSUME ScansAssumption == NoScan \notin Scans /\ IsFiniteSet(Starters)

VARIABLES
  scan,       \* the row: status and run_ids
  discovers,  \* scans whose discover handler is at work
  start,      \* each start request between its awaits
  monitor,    \* _monitor_tasks: the tasks a scan's monitor waits for
  dropped     \* scans whose attendant died in a crash

ownVars == <<scan, discovers, start, monitor, dropped>>
vars == <<runVars, ownVars>>

ScanStates == {"none", "discovering", "pending", "scanning", "complete", "error"}

NoStart == [pc |-> "idle", scan |-> NoScan, runs |-> {}]

NoMonitor == [on |-> FALSE, runs |-> {}, tasks |-> {}]

TypeOK ==
  /\ RunsTypeOK
  /\ scan \in [Scans -> [status : ScanStates, runs : SUBSET Runs]]
  /\ discovers \subseteq Scans
  /\ start \in [Starters -> [pc : {"idle", "probing", "launching"},
                             scan : Scans \cup {NoScan}, runs : SUBSET Runs]]
  /\ monitor \in [Scans -> [on : BOOLEAN, runs : SUBSET Runs, tasks : SUBSET Runs]]
  /\ dropped \subseteq Scans

Init ==
  /\ RunsInit
  /\ scan = [s \in Scans |-> [status |-> "none", runs |-> {}]]
  /\ discovers = {}
  /\ start = [c \in Starters |-> NoStart]
  /\ monitor = [s \in Scans |-> NoMonitor]
  /\ dropped = {}

--------------------------------------------------------------------------------

\* discover commits the row before its scans ...
Discover(s) ==
  /\ scan[s].status = "none"
  /\ scan' = [scan EXCEPT ![s].status = "discovering"]
  /\ discovers' = discovers \cup {s}
  /\ UNCHANGED <<start, monitor, dropped, runVars>>

\* ... and writes pending or error after them, whatever the row holds by then.
Discovered(s, found) ==
  /\ s \in discovers
  /\ scan' = [scan EXCEPT ![s].status = IF found THEN "pending" ELSE "error"]
  /\ discovers' = discovers \ {s}
  /\ UNCHANGED <<start, monitor, dropped, runVars>>

Starting(s) == {c \in Starters : start[c].scan = s}

\* Mutant: a start that is being prepared does not count.
ReservableUnlessMonitored(s) == ~monitor[s].on

\* _reserve_batch_scan_start: neither a monitor nor another start is at work.
Reservable(s) == ~monitor[s].on /\ Starting(s) = {}

\* start_batch_scan up to its probes: the row's status is checked and the scan
\* reserved without an await between.
StartBatch(c, s) ==
  /\ start[c].pc = "idle"
  /\ scan[s].status \notin {"none", "scanning"}
  /\ Reservable(s)
  /\ start' = [start EXCEPT ![c] = [NoStart EXCEPT !.pc = "probing", !.scan = s]]
  /\ UNCHANGED <<scan, discovers, monitor, dropped, runVars>>

\* Mutant: the scan is marked as scanning before the runs are provisioned.
StartFailsScanning(c) ==
  /\ start[c].pc = "probing"
  /\ scan' = [scan EXCEPT ![start[c].scan].status = "scanning"]
  /\ start' = [start EXCEPT ![c] = NoStart]
  /\ UNCHANGED <<discovers, monitor, dropped, runVars>>

\* No template, no active test, or a device whose run cannot be provisioned: the
\* transaction is rolled back and the reservation released.
StartFails(c) ==
  /\ start[c].pc = "probing"
  /\ start' = [start EXCEPT ![c] = NoStart]
  /\ UNCHANGED <<scan, discovers, monitor, dropped, runVars>>

\* No device answered: the scan ends in error.
StartUnreachable(c) ==
  /\ start[c].pc = "probing"
  /\ scan' = [scan EXCEPT ![start[c].scan] = [status |-> "error", runs |-> {}]]
  /\ start' = [start EXCEPT ![c] = NoStart]
  /\ UNCHANGED <<discovers, monitor, dropped, runVars>>

\* A run for each device that answered, committed with the scan before launching.
StartCommit(c, rs) ==
  /\ start[c].pc = "probing"
  /\ rs # {} /\ rs \subseteq Unused
  /\ Provisioned(rs)
  /\ scan' = [scan EXCEPT ![start[c].scan] = [status |-> "scanning", runs |-> rs]]
  /\ start' = [start EXCEPT ![c] = [pc |-> "launching", scan |-> @.scan, runs |-> rs]]
  /\ UNCHANGED <<discovers, monitor, dropped, task, cancelling, crashes>>

\* The launch loop, the monitor task and the end of the reservation.  A run that
\* is executing already is skipped: the monitor will not wait for its task.
StartLaunch(c) ==
  /\ start[c].pc = "launching"
  /\ task' = task \cup start[c].runs
  /\ monitor' = [monitor EXCEPT ![start[c].scan] =
       [on |-> TRUE, runs |-> start[c].runs, tasks |-> start[c].runs \ task]]
  /\ start' = [start EXCEPT ![c] = NoStart]
  /\ UNCHANGED <<scan, discovers, dropped, run, cancelling, crashes>>

\* Mutant: one settled run is enough.
AnySettled(rs) == \E r \in rs : run[r] \in SettledStates

\* _batch_runs_are_settled.
AllSettled(rs) == \A r \in rs : run[r] \in SettledStates

\* Mutant: the monitor waits until every run is settled, too.
MonitorEndsSettled(s) ==
  /\ monitor[s].on
  /\ monitor[s].tasks \cap task = {} /\ AllSettled(monitor[s].runs)
  /\ scan' = [scan EXCEPT ![s].status = IF @ # "scanning" THEN @ ELSE "complete"]
  /\ monitor' = [monitor EXCEPT ![s] = NoMonitor]
  /\ UNCHANGED <<discovers, start, dropped, runVars>>

\* Mutant: the scan gets the status of a run.
MonitorEndsNamed(s) ==
  /\ monitor[s].on
  /\ monitor[s].tasks \cap task = {}
  /\ scan' = [scan EXCEPT ![s].status =
       IF @ # "scanning" THEN @
       ELSE IF AllSettled(monitor[s].runs) THEN "completed" ELSE "pending"]
  /\ monitor' = [monitor EXCEPT ![s] = NoMonitor]
  /\ UNCHANGED <<discovers, start, dropped, runVars>>

\* _monitor_batch, once every task it waits for has ended.
MonitorEnds(s) ==
  /\ monitor[s].on
  /\ monitor[s].tasks \cap task = {}
  /\ scan' = [scan EXCEPT ![s].status =
       IF @ # "scanning" THEN @
       ELSE IF AllSettled(monitor[s].runs) THEN "complete" ELSE "pending"]
  /\ monitor' = [monitor EXCEPT ![s] = NoMonitor]
  /\ UNCHANGED <<discovers, start, dropped, runVars>>

\* What a crash takes: handlers, reservations and monitors.  Nothing at startup
\* looks at the rows of scans.
Crash ==
  /\ RunsCrash
  /\ discovers' = {}
  /\ start' = [c \in Starters |-> NoStart]
  /\ monitor' = [s \in Scans |-> NoMonitor]
  /\ dropped' = dropped \cup
       {s \in Scans : s \in discovers \/ monitor[s].on \/ Starting(s) # {}}
  /\ UNCHANGED scan

Next ==
  \/ RunsNext /\ UNCHANGED ownVars
  \/ Crash
  \/ \E s \in Scans :
       \/ Discover(s) \/ MonitorEnds(s)
       \/ \E found \in BOOLEAN : Discovered(s, found)
  \/ \E c \in Starters :
       \/ StartFails(c) \/ StartUnreachable(c) \/ StartLaunch(c)
       \/ \E s \in Scans : StartBatch(c, s)
       \/ \E rs \in SUBSET Unused : StartCommit(c, rs)

Spec == Init /\ [][Next]_vars

\* An engine begins (there are slots for all runs of the model), and ends while its
\* run is not paused (TestRun's EngineEnds); nobody must resume a paused run.  Handlers
\* and monitors go on after an await, since probes and scans have timeouts.
Fairness ==
  /\ \A r \in Runs :
       /\ WF_vars((\E st \in RunStates : EngineEnds(r, st)) /\ UNCHANGED ownVars)
       /\ WF_vars(run[r] # "paused" /\ EngineMoves(r, "running") /\ UNCHANGED ownVars)
  /\ \A s \in Scans : WF_vars(MonitorEnds(s))
  /\ \A c \in Starters : WF_vars(StartFails(c) \/ StartUnreachable(c) \/ StartLaunch(c))

FairSpec == Spec /\ Fairness

--------------------------------------------------------------------------------
(* Properties.                                                                   *)

\* A scan is attended to by at most one start request or monitor, so that no
\* second batch replaces its run_ids while the first is being launched or awaited.
OneAttendant ==
  \A s \in Scans :
    /\ Cardinality(Starting(s)) <= 1
    /\ monitor[s].on => Starting(s) = {} /\ monitor[s].runs = scan[s].runs

\* A scan that says it is scanning is being launched or monitored, unless a crash
\* took its attendant: a failed or repeated start or a discovery leaves none behind.
ScanningIsAttended ==
  \A s \in Scans :
    scan[s].status = "scanning" =>
      monitor[s].on \/ (\E c \in Starting(s) : start[c].pc = "launching") \/ s \in dropped

\* A scan becomes complete only while every run its row names is settled.
CompleteWhenSettled ==
  [][\A s \in Scans :
       scan'[s].status = "complete" /\ scan[s].status # "complete" =>
         scan[s].runs # {} /\ \A r \in scan[s].runs : run[r] \in SettledStates]_scan

\* A batch under way comes to an end, unless a crash took its monitor or one of its
\* runs is paused again and again or for good.
BatchEnds ==
  \A s \in Scans :
    \/ []<>(\E r \in scan[s].runs \cap task : run[r] = "paused")
    \/ scan[s].status = "scanning" ~> scan[s].status # "scanning" \/ s \in dropped
==================================================================================
