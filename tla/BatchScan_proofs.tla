---------------------------- MODULE BatchScan_proofs ----------------------------
(* Proofs about batch scans, for any scans, any finite sets of runs and of start *)
(* requests, and any number of crashes.                                          *)
EXTENDS BatchScan, FiniteSetTheorems, TLAPS

\* A start request is for a scan while it is at work, and one request is at work
\* for a scan at a time.
StartInv ==
  /\ \A c \in Starters : start[c].pc # "idle" => start[c].scan \in Scans
  /\ \A c, d \in Starters :
       start[c].scan = start[d].scan /\ start[c].scan \in Scans => c = d

\* A request that is launching, or a monitor, works for the runs the row names, of
\* which there are some; and a scan has not both.
AttendantInv ==
  /\ \A c \in Starters :
       start[c].pc = "launching" =>
         start[c].runs = scan[start[c].scan].runs /\ start[c].runs # {}
  /\ \A s \in Scans :
       monitor[s].on =>
         Starting(s) = {} /\ monitor[s].runs = scan[s].runs /\ monitor[s].runs # {}

BatchInv == TypeOK /\ StartInv /\ AttendantInv /\ ScanningIsAttended

--------------------------------------------------------------------------------

\* BatchInv holds before anything is discovered.
LEMMA BatchInvInit == Init => BatchInv
<1> SUFFICES ASSUME Init PROVE BatchInv
  OBVIOUS
<1>1. TypeOK
  BY RunsAssumption
  DEF Init, RunsInit, TypeOK, RunsTypeOK, RunStates, ScanStates, NoStart, NoMonitor
<1>2. StartInv /\ AttendantInv /\ ScanningIsAttended
  BY ScansAssumption
  DEF Init, StartInv, AttendantInv, ScanningIsAttended, NoStart, NoMonitor
<1> QED
  BY <1>1, <1>2 DEF BatchInv

\* Runs may do what they like: nothing of BatchInv but their types is about them.
LEMMA RunsNextKeeps ==
  ASSUME BatchInv, RunsNext, UNCHANGED ownVars PROVE BatchInv'
<1>1. RunsTypeOK'
  <2> USE DEF BatchInv, TypeOK, RunsTypeOK
  <2>1. ASSUME NEW r \in Runs, UserStarts(r) \/ CancelTask(r) \/ CancelCommit(r)
        PROVE  RunsTypeOK'
    BY <2>1 DEF UserStarts, CancelTask, CancelCommit, RunStates
  <2>2. ASSUME NEW r \in Runs, NEW st \in RunStates,
               EngineMoves(r, st) \/ EngineEnds(r, st)
        PROVE  RunsTypeOK'
    BY <2>2 DEF EngineMoves, EngineEnds
  <2> QED
    BY <2>1, <2>2 DEF RunsNext
<1> QED
  BY <1>1
  DEF BatchInv, TypeOK, StartInv, AttendantInv, ScanningIsAttended, Starting, ownVars

\* A crash takes every attendant, and the scans it attended to are dropped.
LEMMA CrashKeeps == ASSUME BatchInv, Crash PROVE BatchInv'
<1>1. TypeOK'
  BY RunsAssumption
  DEF BatchInv, Crash, RunsCrash, TypeOK, RunsTypeOK, RunStates, NoStart, NoMonitor
<1>2. StartInv' /\ AttendantInv'
  BY ScansAssumption DEF Crash, StartInv, AttendantInv, NoStart, NoMonitor
<1>3. ScanningIsAttended'
  BY DEF BatchInv, Crash, ScanningIsAttended
<1> QED
  BY <1>1, <1>2, <1>3 DEF BatchInv

\* Discovery writes no status that would have to be attended to.
LEMMA DiscoveryKeeps ==
  ASSUME BatchInv, NEW s \in Scans,
         Discover(s) \/ \E found \in BOOLEAN : Discovered(s, found)
  PROVE  BatchInv'
<1> USE DEF BatchInv
<1>1. PICK st \in ScanStates \ {"scanning"} : scan' = [scan EXCEPT ![s].status = st]
  BY DEF Discover, Discovered, ScanStates
<1>2. discovers' \subseteq Scans /\ UNCHANGED <<start, monitor, dropped, runVars>>
  BY DEF Discover, Discovered, TypeOK
<1>3. TypeOK'
  BY <1>1, <1>2 DEF TypeOK, RunsTypeOK, runVars
<1>4. StartInv'
  BY <1>2 DEF StartInv
<1>5. \A x \in Scans : scan'[x].runs = scan[x].runs
  BY <1>1 DEF TypeOK
<1>6. AttendantInv'
  BY <1>2, <1>5 DEF AttendantInv, StartInv, Starting
<1>7. \A x \in Scans : scan'[x].status = "scanning" => scan[x].status = "scanning"
  BY <1>1 DEF TypeOK
<1>8. ScanningIsAttended'
  BY <1>2, <1>7 DEF ScanningIsAttended, Starting
<1> QED
  BY <1>3, <1>4, <1>6, <1>8

\* A reservation needs a scan nobody attends to.
LEMMA StartBatchKeeps ==
  ASSUME BatchInv, NEW c \in Starters, NEW s \in Scans, StartBatch(c, s)
  PROVE  BatchInv'
<1> USE DEF BatchInv
<1>1. TypeOK'
  BY DEF StartBatch, NoStart, TypeOK, RunsTypeOK, runVars
<1>2. start' = [start EXCEPT ![c] = [NoStart EXCEPT !.pc = "probing", !.scan = s]]
  BY DEF StartBatch
<1>3. start'[c].pc = "probing" /\ start'[c].scan = s
  BY <1>2 DEF TypeOK, NoStart
<1>4. \A d \in Starters \ {c} : start'[d] = start[d] /\ start[d].scan # s
  BY <1>2 DEF TypeOK, StartBatch, Reservable, Starting
<1>5. StartInv'
  BY <1>3, <1>4 DEF StartInv
<1>6. UNCHANGED <<scan, monitor, dropped>> /\ ~monitor[s].on /\ scan[s].status # "scanning"
  BY DEF StartBatch, Reservable
<1>7. start[c].pc = "idle"
  BY DEF StartBatch
<1>8. \A x \in Scans : x # s => Starting(x)' \subseteq Starting(x)
  BY <1>3, <1>4 DEF Starting
<1>9. AttendantInv'
  BY <1>3, <1>4, <1>6, <1>8 DEF AttendantInv
<1>10. ScanningIsAttended'
  BY <1>4, <1>6, <1>7 DEF ScanningIsAttended, Starting
<1> QED
  BY <1>1, <1>5, <1>9, <1>10

\* A start that ends before its commit attends to nothing, and the scan it marks
\* with an error has neither a monitor nor another request.
LEMMA StartAbortKeeps ==
  ASSUME BatchInv, NEW c \in Starters, StartFails(c) \/ StartUnreachable(c)
  PROVE  BatchInv'
<1> USE DEF BatchInv
<1>0. PICK s \in Scans : s = start[c].scan
  BY DEF StartFails, StartUnreachable, StartInv
<1>1. s = start[c].scan /\ start[c].pc = "probing" /\ c \in Starting(s)
  BY <1>0 DEF StartFails, StartUnreachable, Starting
<1>2. start' = [start EXCEPT ![c] = NoStart]
  BY DEF StartFails, StartUnreachable
<1>3. /\ UNCHANGED <<discovers, monitor, dropped, runVars>>
      /\ scan' = scan \/ scan' = [scan EXCEPT ![s] = [status |-> "error", runs |-> {}]]
  BY <1>1 DEF StartFails, StartUnreachable
<1>4. TypeOK'
  <2>1. scan' \in [Scans -> [status : ScanStates, runs : SUBSET Runs]]
    <3>1. [status |-> "error", runs |-> {}] \in [status : ScanStates, runs : SUBSET Runs]
      BY DEF ScanStates
    <3> QED
      BY <1>3, <3>1 DEF TypeOK
  <2> QED
    BY <1>2, <1>3, <2>1 DEF TypeOK, RunsTypeOK, runVars, NoStart
<1>5. start'[c].pc = "idle" /\ start'[c].scan = NoScan
  BY <1>2 DEF TypeOK, NoStart
<1>6. \A d \in Starters \ {c} : start'[d] = start[d] /\ start[d].scan # s
  BY <1>1, <1>2 DEF TypeOK, StartInv
<1>7. \A x \in Scans \ {s} : scan'[x] = scan[x]
  BY <1>1, <1>3 DEF TypeOK
<1>8. ~monitor[s].on
  BY <1>1 DEF AttendantInv
<1>9. StartInv'
  BY <1>5, <1>6, ScansAssumption DEF StartInv
<1>10. AttendantInv'
  BY <1>3, <1>5, <1>6, <1>7, <1>8, ScansAssumption DEF AttendantInv, StartInv, Starting
<1>11. scan'[s].status = "scanning" => scan[s].status = "scanning"
  BY <1>1, <1>3 DEF TypeOK
<1>12. ScanningIsAttended'
  BY <1>1, <1>3, <1>6, <1>7, <1>11 DEF ScanningIsAttended, Starting
<1> QED
  BY <1>4, <1>9, <1>10, <1>12

\* The commit makes the scan the launching request's.
LEMMA StartCommitKeeps ==
  ASSUME BatchInv, NEW c \in Starters, NEW rs \in SUBSET Unused, StartCommit(c, rs)
  PROVE  BatchInv'
<1> USE DEF BatchInv
<1>0. PICK s \in Scans : s = start[c].scan
  BY DEF StartCommit, StartInv
<1>1. s = start[c].scan /\ c \in Starting(s)
  BY <1>0 DEF Starting
<1>2. start' = [start EXCEPT ![c] = [pc |-> "launching", scan |-> s, runs |-> rs]]
  BY <1>1 DEF StartCommit, TypeOK
<1>3. scan' = [scan EXCEPT ![s] = [status |-> "scanning", runs |-> rs]]
  BY <1>1 DEF StartCommit
<1>4. rs # {} /\ rs \subseteq Runs /\ UNCHANGED <<discovers, monitor, dropped>>
  BY DEF StartCommit, Unused
<1>5. RunsTypeOK'
  BY DEF StartCommit, Provisioned, TypeOK, RunsTypeOK, RunStates
<1>6. TypeOK'
  <2>1. [status |-> "scanning", runs |-> rs] \in [status : ScanStates, runs : SUBSET Runs]
    BY <1>4 DEF ScanStates
  <2>2. scan' \in [Scans -> [status : ScanStates, runs : SUBSET Runs]]
    BY <1>3, <2>1 DEF TypeOK
  <2>3. start' \in [Starters -> [pc : {"idle", "probing", "launching"},
                                scan : Scans \cup {NoScan}, runs : SUBSET Runs]]
    BY <1>2, <1>4 DEF TypeOK
  <2> QED
    BY <1>4, <1>5, <2>2, <2>3 DEF TypeOK
<1>7. start'[c].pc = "launching" /\ start'[c].scan = s /\ start'[c].runs = rs
  BY <1>2 DEF TypeOK
<1>8. \A d \in Starters \ {c} : start'[d] = start[d] /\ start[d].scan # s
  BY <1>1, <1>2 DEF TypeOK, StartInv
<1>9. scan'[s].runs = rs /\ \A x \in Scans \ {s} : scan'[x] = scan[x]
  BY <1>1, <1>3 DEF TypeOK
<1>10. ~monitor[s].on
  BY <1>1 DEF AttendantInv
<1>11. StartInv'
  BY <1>1, <1>7, <1>8 DEF StartInv
<1>12. \A x \in Scans : Starting(x)' = Starting(x)
  BY <1>1, <1>7, <1>8 DEF Starting
<1>13. AttendantInv'
  BY <1>4, <1>7, <1>8, <1>9, <1>10, <1>12 DEF AttendantInv, StartInv
<1>14. ScanningIsAttended'
  BY <1>1, <1>4, <1>7, <1>8, <1>9, <1>12 DEF ScanningIsAttended, Starting
<1> QED
  BY <1>6, <1>11, <1>13, <1>14

\* The request hands its scan to the monitor.
LEMMA StartLaunchKeeps ==
  ASSUME BatchInv, NEW c \in Starters, StartLaunch(c)
  PROVE  BatchInv'
<1> USE DEF BatchInv
<1>0. PICK s \in Scans : s = start[c].scan
  BY DEF StartLaunch, StartInv
<1>1. /\ s = start[c].scan /\ c \in Starting(s)
      /\ start[c].runs = scan[s].runs /\ start[c].runs # {}
  BY <1>0 DEF StartLaunch, AttendantInv, Starting
<1>2. start' = [start EXCEPT ![c] = NoStart]
  BY DEF StartLaunch
<1>3. monitor' = [monitor EXCEPT ![s] =
        [on |-> TRUE, runs |-> start[c].runs, tasks |-> start[c].runs \ task]]
  BY <1>1 DEF StartLaunch
<1>4. UNCHANGED <<scan, discovers, dropped>>
  BY DEF StartLaunch
<1>5. start[c].runs \subseteq Runs
  BY DEF TypeOK
<1>6. RunsTypeOK'
  BY <1>5 DEF StartLaunch, TypeOK, RunsTypeOK
<1>7. TypeOK'
  BY <1>1, <1>2, <1>3, <1>4, <1>5, <1>6 DEF TypeOK, NoStart
<1>8. start'[c].pc = "idle" /\ start'[c].scan = NoScan
  BY <1>2 DEF TypeOK, NoStart
<1>9. \A d \in Starters \ {c} : start'[d] = start[d] /\ start[d].scan # s
  BY <1>1, <1>2 DEF TypeOK, StartInv
<1>10. /\ monitor'[s].on /\ monitor'[s].runs = start[c].runs
       /\ \A x \in Scans \ {s} : monitor'[x] = monitor[x]
  BY <1>1, <1>3 DEF TypeOK
<1>11. StartInv'
  BY <1>8, <1>9, ScansAssumption DEF StartInv
<1>12. Starting(s)' = {} /\ \A x \in Scans \ {s} : Starting(x)' = Starting(x)
  BY <1>1, <1>8, <1>9, ScansAssumption DEF Starting
<1>13. AttendantInv'
  BY <1>1, <1>4, <1>8, <1>9, <1>10, <1>12 DEF AttendantInv
<1>14. ScanningIsAttended'
  BY <1>1, <1>4, <1>9, <1>10, <1>12 DEF ScanningIsAttended, Starting
<1> QED
  BY <1>7, <1>11, <1>13, <1>14

\* A monitor that ends leaves no scan scanning.
LEMMA MonitorEndsKeeps ==
  ASSUME BatchInv, NEW s \in Scans, MonitorEnds(s)
  PROVE  BatchInv'
<1> USE DEF BatchInv
<1>1. PICK st \in ScanStates \ {"scanning"} : scan' = [scan EXCEPT ![s].status = st]
  <2> DEFINE st == IF scan[s].status # "scanning" THEN scan[s].status
                   ELSE IF AllSettled(monitor[s].runs) THEN "complete" ELSE "pending"
  <2>1. scan' = [scan EXCEPT ![s].status = st]
    BY DEF MonitorEnds, TypeOK
  <2>2. st \in ScanStates \ {"scanning"}
    BY DEF TypeOK, ScanStates
  <2> QED
    BY <2>1, <2>2
<1>2. monitor' = [monitor EXCEPT ![s] = NoMonitor]
  BY DEF MonitorEnds
<1>3. UNCHANGED <<discovers, start, dropped, runVars>>
  BY DEF MonitorEnds
<1>4. TypeOK'
  BY <1>1, <1>2, <1>3 DEF TypeOK, RunsTypeOK, runVars, NoMonitor
<1>5. StartInv'
  BY <1>3 DEF StartInv
<1>6. \A x \in Scans : Starting(x)' = Starting(x) /\ scan'[x].runs = scan[x].runs
  BY <1>1, <1>3 DEF Starting, TypeOK
<1>7. ~monitor'[s].on /\ \A x \in Scans \ {s} : monitor'[x] = monitor[x]
  BY <1>2 DEF TypeOK, NoMonitor
<1>8. AttendantInv'
  BY <1>3, <1>6, <1>7 DEF AttendantInv, StartInv
<1>9. scan'[s].status # "scanning" /\ \A x \in Scans \ {s} : scan'[x] = scan[x]
  BY <1>1 DEF TypeOK
<1>10. ScanningIsAttended'
  BY <1>3, <1>6, <1>7, <1>9 DEF ScanningIsAttended
<1> QED
  BY <1>4, <1>5, <1>8, <1>10

\* BatchInv is inductive.
LEMMA BatchInvNext == BatchInv /\ [Next]_vars => BatchInv'
<1> SUFFICES ASSUME BatchInv, [Next]_vars PROVE BatchInv'
  OBVIOUS
<1>1. CASE RunsNext /\ UNCHANGED ownVars
  BY <1>1, RunsNextKeeps
<1>2. CASE Crash
  BY <1>2, CrashKeeps
<1>3. CASE \E s \in Scans : Discover(s) \/ \E found \in BOOLEAN : Discovered(s, found)
  BY <1>3, DiscoveryKeeps
<1>4. CASE \E s \in Scans : MonitorEnds(s)
  BY <1>4, MonitorEndsKeeps
<1>5. CASE \E c \in Starters : StartFails(c) \/ StartUnreachable(c)
  BY <1>5, StartAbortKeeps
<1>6. CASE \E c \in Starters : StartLaunch(c)
  BY <1>6, StartLaunchKeeps
<1>7. CASE \E c \in Starters, s \in Scans : StartBatch(c, s)
  BY <1>7, StartBatchKeeps
<1>8. CASE \E c \in Starters, rs \in SUBSET Unused : StartCommit(c, rs)
  BY <1>8, StartCommitKeeps
<1>9. CASE UNCHANGED vars
  BY <1>9
  DEF vars, ownVars, runVars, BatchInv, TypeOK, RunsTypeOK, StartInv, AttendantInv,
      ScanningIsAttended, Starting
<1> QED
  BY <1>1, <1>2, <1>3, <1>4, <1>5, <1>6, <1>7, <1>8, <1>9 DEF Next

\* BatchInv holds in every reachable state.
LEMMA BatchInvariant == Spec => []BatchInv
BY BatchInvInit, BatchInvNext, PTL DEF Spec

\* Rows, requests and monitors are always well-formed.
THEOREM BatchTypeCorrect == Spec => []TypeOK
<1>1. BatchInv => TypeOK
  BY DEF BatchInv
<1> QED
  BY <1>1, BatchInvariant, PTL

\* One request or monitor attends to a scan, for any number of requests: the
\* reservation and the check of the monitor leave no gap between them.
THEOREM BatchHasOneAttendant == Spec => []OneAttendant
<1>1. BatchInv => OneAttendant
  <2> SUFFICES ASSUME BatchInv, NEW s \in Scans
               PROVE  /\ Cardinality(Starting(s)) <= 1
                      /\ monitor[s].on =>
                           Starting(s) = {} /\ monitor[s].runs = scan[s].runs
    BY DEF OneAttendant
  <2>1. CASE Starting(s) = {}
    BY <2>1, FS_EmptySet DEF BatchInv, AttendantInv
  <2>2. CASE Starting(s) # {}
    <3>1. PICK c \in Starting(s) : TRUE
      BY <2>2
    <3>2. Starting(s) = {c}
      BY <3>1 DEF Starting, BatchInv, StartInv
    <3>3. Cardinality(Starting(s)) = 1
      BY <3>2, FS_Singleton
    <3> QED
      BY <2>2, <3>3 DEF BatchInv, AttendantInv
  <2> QED
    BY <2>1, <2>2
<1> QED
  BY <1>1, BatchInvariant, PTL

\* A scan that is scanning has somebody who will end it, or was dropped by a crash.
THEOREM ScanningScanIsAttended == Spec => []ScanningIsAttended
<1>1. BatchInv => ScanningIsAttended
  BY DEF BatchInv
<1> QED
  BY <1>1, BatchInvariant, PTL

\* A scan is completed only by its monitor, which has looked at the runs the row
\* names in the same step.
LEMMA CompletesSettled ==
  ASSUME BatchInv, [Next]_vars, NEW s \in Scans,
         scan'[s].status = "complete", scan[s].status # "complete"
  PROVE  scan[s].runs # {} /\ \A r \in scan[s].runs : run[r] \in SettledStates
<1> USE DEF BatchInv, TypeOK
<1>1. CASE RunsNext /\ UNCHANGED ownVars
  BY <1>1 DEF ownVars
<1>2. CASE Crash
  BY <1>2 DEF Crash
<1>3. ASSUME NEW x \in Scans, Discover(x) \/ \E found \in BOOLEAN : Discovered(x, found)
      PROVE  FALSE
  BY <1>3 DEF Discover, Discovered
<1>4. ASSUME NEW x \in Scans, MonitorEnds(x)
      PROVE  scan[s].runs # {} /\ \A r \in scan[s].runs : run[r] \in SettledStates
  <2>1. x = s
    BY <1>4 DEF MonitorEnds
  <2>2. AllSettled(monitor[s].runs)
    BY <1>4, <2>1 DEF MonitorEnds
  <2> QED
    BY <1>4, <2>1, <2>2 DEF MonitorEnds, AttendantInv, AllSettled
<1>5. ASSUME NEW c \in Starters,
             StartFails(c) \/ StartLaunch(c) \/ \E x \in Scans : StartBatch(c, x)
      PROVE  FALSE
  BY <1>5 DEF StartFails, StartLaunch, StartBatch
<1>6. ASSUME NEW c \in Starters,
             StartUnreachable(c) \/ \E rs \in SUBSET Unused : StartCommit(c, rs)
      PROVE  FALSE
  <2>1. PICK x \in Scans, ended \in [status : {"error", "scanning"}, runs : SUBSET Runs] :
          scan' = [scan EXCEPT ![x] = ended]
    <3>1. CASE StartUnreachable(c)
      BY <3>1 DEF StartUnreachable, StartInv
    <3>2. CASE \E rs \in SUBSET Unused : StartCommit(c, rs)
      BY <3>2 DEF StartCommit, StartInv, Unused
    <3> QED
      BY <1>6, <3>1, <3>2
  <2> QED
    BY <2>1
<1>7. CASE UNCHANGED vars
  BY <1>7 DEF vars, ownVars
<1> QED
  BY <1>1, <1>2, <1>3, <1>4, <1>5, <1>6, <1>7 DEF Next

\* A scan says it is complete only when all the runs its row names are settled.
THEOREM CompleteIsSettled == Spec => CompleteWhenSettled
<1>1. BatchInv /\ [Next]_vars =>
        [\A s \in Scans :
           scan'[s].status = "complete" /\ scan[s].status # "complete" =>
             scan[s].runs # {} /\ \A r \in scan[s].runs : run[r] \in SettledStates]_scan
  BY CompletesSettled
<1> QED
  BY <1>1, BatchInvariant, PTL DEF Spec, CompleteWhenSettled
================================================================================
