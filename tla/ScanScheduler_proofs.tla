-------------------------- MODULE ScanScheduler_proofs --------------------------
(* Proofs about the schedules, for any schedules and limits, any finite set of   *)
(* runs, any number of crashes and any edits by users.                           *)
EXTENDS ScanScheduler, FiniteSetTheorems, TLAPS

RunsOf(s) == {r \in Runs : of[r] = s}

\* The launch of a run provisioned for s is still to come ...
Launching(s) == IF exec.pc = "launching" /\ exec.sched = s THEN 1 ELSE 0

\* ... or has been made, and is not counted yet.
Uncounted(s) == IF exec.pc = "counting" /\ exec.sched = s THEN 1 ELSE 0

\* The loop works on a schedule with the limit its row has, until a user edits it.
ExecInv ==
  exec.pc # "idle" =>
    /\ exec.sched \in Schedules
    /\ exec.sched \notin edited => exec.limit = sched[exec.sched].limit

\* Only provisioned runs belong to a schedule, and no more are launched for it.
ProvisionedInv ==
  /\ \A r \in Runs : of[r] # NoSchedule => run[r] # "none"
  /\ \A s \in Schedules : launched[s] + Launching(s) <= Cardinality(RunsOf(s))

CountInv ==
  \A s \in Schedules :
    /\ sched[s].count + Uncounted(s) <= launched[s]
    /\ sched[s].there => launched[s] <= sched[s].count + crashes + Uncounted(s)

\* The run being launched fits in the budget as well, and a schedule that is still
\* active has not counted to its limit.
BudgetInv ==
  \A s \in Schedules :
    s \notin edited /\ sched[s].limit # 0 =>
      /\ launched[s] + Launching(s) <= Budget(s)
      /\ sched[s].active => sched[s].count < sched[s].limit

ScheduleInv == TypeOK /\ ExecInv /\ ProvisionedInv /\ CountInv /\ BudgetInv

Row == [there : BOOLEAN, active : BOOLEAN, due : BOOLEAN, ready : BOOLEAN,
        count : 0..Cardinality(Runs), limit : Limits, diff : Diffs]

--------------------------------------------------------------------------------

\* The counters are numbers, and no more runs are launched than there are.
LEMMA Numbers ==
  ASSUME TypeOK, NEW s \in Schedules
  PROVE  /\ Cardinality(Runs) \in Nat /\ crashes \in Nat
         /\ sched[s] \in Row /\ sched[s].count \in Nat /\ sched[s].limit \in Nat
         /\ launched[s] \in Nat
         /\ Cardinality(RunsOf(s)) \in Nat /\ Cardinality(RunsOf(s)) <= Cardinality(Runs)
<1>1. Cardinality(Runs) \in Nat
  BY RunsAssumption, FS_CardinalityType
<1>2. sched[s] \in Row
  BY DEF TypeOK, Row
<1>3. sched[s].count \in Nat /\ sched[s].limit \in Nat
  <2>1. sched[s].count \in 0..Cardinality(Runs) /\ sched[s].limit \in Limits
    BY <1>2 DEF Row
  <2>2. sched[s].count \in Nat
    BY <1>1, <2>1
  <2>3. \A n \in Limits : n \in Nat
    BY ScheduleAssumption
  <2> QED
    BY <2>1, <2>2, <2>3
<1>4. launched[s] \in Nat /\ crashes \in Nat
  BY <1>1 DEF TypeOK, RunsTypeOK
<1>5. Cardinality(RunsOf(s)) \in Nat /\ Cardinality(RunsOf(s)) <= Cardinality(Runs)
  BY RunsAssumption, FS_Subset, FS_CardinalityType DEF RunsOf
<1> QED
  BY <1>1, <1>2, <1>3, <1>4, <1>5

\* ScheduleInv holds before any schedule is due.
LEMMA ScheduleInvInit == Init => ScheduleInv
<1> SUFFICES ASSUME Init PROVE ScheduleInv
  OBVIOUS
<1>1. Cardinality(Runs) \in Nat
  BY RunsAssumption, FS_CardinalityType
<1>2. sched \in [Schedules -> Row]
  <2> DEFINE First == [there : {TRUE}, active : {TRUE}, due : {FALSE}, ready : {TRUE},
                       count : {0}, limit : Limits, diff : {"none"}]
  <2>1. First \subseteq Row
    <3>1. 0 \in 0..Cardinality(Runs)
      BY <1>1
    <3>2. ASSUME NEW x \in First PROVE x \in Row
      <4>1. x = [there |-> TRUE, active |-> TRUE, due |-> FALSE, ready |-> TRUE,
                 count |-> 0, limit |-> x.limit, diff |-> "none"] /\ x.limit \in Limits
        OBVIOUS
      <4> QED
        BY <3>1, <4>1 DEF Row, Diffs
    <3> QED
      BY <3>2
  <2>2. sched \in [Schedules -> First]
    BY DEF Init
  <2> HIDE DEF First
  <2> QED
    BY <2>1, <2>2
<1>3. \A s \in Schedules : sched[s].count = 0 /\ sched[s].limit \in Nat
  BY ScheduleAssumption DEF Init
<1>4. launched = [s \in Schedules |-> 0] /\ crashes = 0 /\ exec.pc = "idle"
  BY DEF Init, RunsInit, NoExec
<1>5. TypeOK
  BY <1>1, <1>2, RunsAssumption, ScheduleAssumption
  DEF Init, RunsInit, RunStates, TypeOK, RunsTypeOK, NoExec, Row
<1>6. ExecInv /\ CountInv /\ BudgetInv
  BY <1>3, <1>4 DEF ExecInv, CountInv, BudgetInv, Uncounted, Launching, Budget
<1>7. ProvisionedInv
  <2>1. \A s \in Schedules : Cardinality(RunsOf(s)) \in Nat
    BY RunsAssumption, FS_Subset, FS_CardinalityType DEF RunsOf
  <2> QED
    BY <1>4, <2>1 DEF Init, ProvisionedInv, Launching
<1> QED
  BY <1>5, <1>6, <1>7 DEF ScheduleInv

\* No step of a run takes it back to "none", and only crashes are counted.
LEMMA RunsStep ==
  ASSUME RunsTypeOK, RunsNext
  PROVE  RunsTypeOK' /\ (\A r \in Runs : run[r] # "none" => run'[r] # "none") /\ crashes' = crashes
<1>1. ASSUME NEW r \in Runs, UserStarts(r) \/ CancelTask(r) \/ CancelCommit(r)
      PROVE  RunsTypeOK' /\ (\A x \in Runs : run[x] # "none" => run'[x] # "none") /\ crashes' = crashes
  BY <1>1 DEF RunsTypeOK, UserStarts, CancelTask, CancelCommit, RunStates
<1>2. ASSUME NEW r \in Runs, NEW st \in RunStates, EngineMoves(r, st) \/ EngineEnds(r, st)
      PROVE  RunsTypeOK' /\ (\A x \in Runs : run[x] # "none" => run'[x] # "none") /\ crashes' = crashes
  BY <1>2 DEF RunsTypeOK, EngineMoves, EngineEnds
<1> QED
  BY <1>1, <1>2 DEF RunsNext

\* What the loop, the counts and the crashes are left with, nothing else disturbs:
\* the rows may change in all but the count and the limit, and become inactive.
LEMMA QuietKeeps ==
  ASSUME ScheduleInv, TypeOK', UNCHANGED <<of, exec, launched, crashes, edited>>,
         \A r \in Runs : run[r] # "none" => run'[r] # "none",
         \A s \in Schedules :
           /\ sched'[s].count = sched[s].count /\ sched'[s].limit = sched[s].limit
           /\ sched'[s].active => sched[s].active
           /\ sched'[s].there => sched[s].there
  PROVE  ScheduleInv'
<1> USE DEF ScheduleInv
<1>1. ExecInv' 
  BY DEF ExecInv
<1>2. ProvisionedInv'
  BY DEF ProvisionedInv, Launching, RunsOf
<1>3. CountInv'
  BY DEF CountInv, Uncounted
<1>4. BudgetInv'
  BY DEF BudgetInv, Budget, Launching
<1> QED
  BY <1>1, <1>2, <1>3, <1>4

\* The steps that write one row, or none, and leave its count and limit alone.
LEMMA RowStepKeeps ==
  ASSUME ScheduleInv, NEW s \in Schedules,
         \/ BecomesDue(s) \/ ResourceChanges(s) \/ PassOver(s) \/ Skip(s)
         \/ UpdateFrequency(s) \/ Delete(s) \/ GetDiff(s)
  PROVE  ScheduleInv'
<1>1. sched \in [Schedules -> Row] /\ due \subseteq Schedules
  BY DEF ScheduleInv, TypeOK, Row
<1>2. /\ UNCHANGED <<of, exec, launched, edited, runVars>>
      /\ due' \subseteq Schedules
  BY <1>1 DEF BecomesDue, ResourceChanges, PassOver, Skip, UpdateFrequency, Delete, GetDiff
<1>3. /\ sched' \in [Schedules -> Row]
      /\ \A x \in Schedules :
           /\ sched'[x].count = sched[x].count /\ sched'[x].limit = sched[x].limit
           /\ sched'[x].active => sched[x].active
           /\ sched'[x].there => sched[x].there
  <2>1. CASE BecomesDue(s)
    BY <1>1, <2>1 DEF BecomesDue, Row
  <2>2. CASE ResourceChanges(s)
    BY <1>1, <2>2 DEF ResourceChanges, Row
  <2>3. CASE PassOver(s)
    BY <1>1, <2>3 DEF PassOver
  <2>4. CASE Skip(s)
    BY <1>1, <2>4 DEF Skip, Row, Diffs
  <2>5. CASE UpdateFrequency(s)
    BY <1>1, <2>5 DEF UpdateFrequency, Row
  <2>6. CASE Delete(s)
    BY <1>1, <2>6 DEF Delete, Row
  <2>7. CASE GetDiff(s)
    BY <1>1, <2>7 DEF GetDiff, Row, Diffs
  <2> QED
    BY <2>1, <2>2, <2>3, <2>4, <2>5, <2>6, <2>7
<1>4. TypeOK'
  BY <1>2, <1>3 DEF ScheduleInv, TypeOK, RunsTypeOK, runVars, Row
<1> QED
  BY <1>2, <1>3, <1>4, QuietKeeps DEF runVars

\* The life of a run in between leaves the scheduler's own state alone.
LEMMA RunsNextKeeps ==
  ASSUME ScheduleInv, RunsNext, UNCHANGED ownVars PROVE ScheduleInv'
<1>1. RunsTypeOK' /\ (\A r \in Runs : run[r] # "none" => run'[r] # "none") /\ crashes' = crashes
  BY RunsStep DEF ScheduleInv, TypeOK
<1>2. TypeOK'
  BY <1>1 DEF ScheduleInv, TypeOK, ownVars
<1> QED
  BY <1>1, <1>2, QuietKeeps DEF ownVars

\* So does looking for schedules that are due, but for what was found.
LEMMA CheckDueKeeps == ASSUME ScheduleInv, CheckDue PROVE ScheduleInv'
<1>1. TypeOK'
  BY DEF ScheduleInv, TypeOK, CheckDue, RunsTypeOK, runVars
<1> QED
  BY <1>1, QuietKeeps DEF CheckDue, runVars

\* A run is provisioned for a schedule that has a launch left: of an active schedule
\* fewer than max_runs are counted, and none is waiting to be.
LEMMA ProvisionKeeps ==
  ASSUME ScheduleInv, NEW s \in Schedules, NEW r \in Runs, Provision(s, r)
  PROVE  ScheduleInv'
<1> USE DEF ScheduleInv
<1>1. /\ exec.pc = "idle" /\ run[r] = "none"
      /\ sched[s].there /\ sched[s].active
      /\ UNCHANGED <<launched, edited, task, cancelling, crashes>>
  BY DEF Provision, Unused
<1>2. sched \in [Schedules -> Row] /\ of \in [Runs -> Schedules \cup {NoSchedule}]
  BY DEF TypeOK, Row
<1>3. /\ sched' \in [Schedules -> Row]
      /\ \A x \in Schedules :
           /\ sched'[x].count = sched[x].count /\ sched'[x].limit = sched[x].limit
           /\ sched'[x].active = sched[x].active
           /\ sched'[x].there = sched[x].there
  <2>1. PICK d \in Diffs : sched' = [sched EXCEPT ![s].due = FALSE, ![s].diff = d]
    <3>1. sched[s].diff \in Diffs /\ "pending" \in Diffs
      BY <1>2 DEF Row, Diffs
    <3> QED
      BY <3>1 DEF Provision
  <2> QED
    BY <1>2, <2>1 DEF Row
<1>4. /\ exec' = [pc |-> "launching", sched |-> s, runs |-> {r}, limit |-> sched[s].limit]
      /\ of' = [of EXCEPT ![r] = s]
      /\ run' = [x \in Runs |-> IF x = r THEN "pending" ELSE run[x]]
      /\ due' = due \ {s}
  BY DEF Provision, Provisioned
<1>5. TypeOK'
  <2>1. RunsTypeOK'
    BY <1>1, <1>4 DEF TypeOK, RunsTypeOK, RunStates
  <2>2. exec' \in [pc : {"idle", "launching", "counting"},
                   sched : Schedules \cup {NoSchedule}, runs : SUBSET Runs, limit : Limits]
    BY <1>2, <1>4 DEF Row
  <2>3. of' \in [Runs -> Schedules \cup {NoSchedule}] /\ due' \subseteq Schedules
    BY <1>2, <1>4 DEF TypeOK
  <2> QED
    BY <1>1, <1>3, <2>1, <2>2, <2>3 DEF TypeOK, Row
<1>6. ExecInv'
  BY <1>3, <1>4 DEF ExecInv
<1>7. \A x \in Schedules :
        /\ Launching(x) = 0 /\ Uncounted(x) = 0 /\ Uncounted(x)' = 0
        /\ Launching(x)' = IF x = s THEN 1 ELSE 0
  BY <1>1, <1>4 DEF Launching, Uncounted
<1>8. ProvisionedInv'
  <2>1. of[r] = NoSchedule /\ r \notin RunsOf(s)
    BY <1>1, ScheduleAssumption DEF ProvisionedInv, RunsOf
  <2>2. RunsOf(s)' = RunsOf(s) \cup {r} /\ \A x \in Schedules \ {s} : RunsOf(x)' = RunsOf(x)
    BY <1>2, <1>4, <2>1, ScheduleAssumption DEF RunsOf
  <2>3. IsFiniteSet(RunsOf(s))
    BY RunsAssumption, FS_Subset DEF RunsOf
  <2>4. Cardinality(RunsOf(s)') = Cardinality(RunsOf(s)) + 1 /\ Cardinality(RunsOf(s)) \in Nat
    BY <2>1, <2>2, <2>3, FS_AddElement, FS_CardinalityType
  <2>5. \A x \in Runs : of'[x] # NoSchedule => run'[x] # "none"
    BY <1>2, <1>4 DEF ProvisionedInv, TypeOK, RunsTypeOK
  <2>6. \A x \in Schedules : launched[x] \in Nat
    BY Numbers
  <2>7. ASSUME NEW x \in Schedules
        PROVE  launched'[x] + Launching(x)' <= Cardinality(RunsOf(x)')
    <3>1. CASE x = s
      BY <1>1, <1>7, <2>4, <2>6, <3>1 DEF ProvisionedInv
    <3>2. CASE x # s
      BY <1>1, <1>7, <2>2, <2>6, <3>2 DEF ProvisionedInv
    <3> QED
      BY <3>1, <3>2
  <2> QED
    BY <2>5, <2>7 DEF ProvisionedInv
<1>9. CountInv'
  BY <1>1, <1>3, <1>7 DEF CountInv
<1>10. BudgetInv'
  <2>1. \A x \in Schedules : launched[x] \in Nat /\ sched[x].count \in Nat
                            /\ sched[x].limit \in Nat /\ crashes \in Nat
    BY Numbers
  <2>2. launched[s] <= sched[s].count + crashes
    BY <1>1, <1>7, <2>1 DEF CountInv
  <2> QED
    BY <1>1, <1>3, <1>7, <2>1, <2>2 DEF BudgetInv, Budget
<1> QED
  BY <1>5, <1>6, <1>8, <1>9, <1>10

\* The launch spends what was set aside for it, or nothing when a user was faster.
LEMMA LaunchKeeps ==
  ASSUME ScheduleInv, NEW r \in Runs, Launch(r) PROVE ScheduleInv'
<1> USE DEF ScheduleInv
<1>0. Cardinality(Runs) \in Nat
  BY RunsAssumption, FS_CardinalityType
<1>1. /\ exec.pc = "launching" /\ exec.sched \in Schedules
      /\ UNCHANGED <<sched, of, due, edited, run, cancelling, crashes>>
  BY DEF Launch, ExecInv
<1>2. PICK s \in Schedules : s = exec.sched
  BY <1>1
<1>3. \A x \in Schedules :
        /\ launched[x] \in Nat /\ sched[x].count \in Nat /\ sched[x].limit \in Nat
        /\ crashes \in Nat /\ Cardinality(RunsOf(x)) \in Nat
        /\ Cardinality(RunsOf(x)) <= Cardinality(Runs)
        /\ Uncounted(x) = 0 /\ Launching(x) = IF x = s THEN 1 ELSE 0
  <2>1. \A x \in Schedules : Uncounted(x) = 0 /\ Launching(x) = IF x = s THEN 1 ELSE 0
    BY <1>1, <1>2 DEF Uncounted, Launching
  <2> QED
    BY <2>1, Numbers
<1>4. CASE r \in task
  <2>1. exec' = NoExec /\ UNCHANGED <<task, launched>>
    BY <1>4 DEF Launch
  <2>2. TypeOK'
    BY <1>1, <2>1, ScheduleAssumption DEF TypeOK, RunsTypeOK, NoExec
  <2>3. \A x \in Schedules : Launching(x)' = 0 /\ Uncounted(x)' = 0
    BY <2>1 DEF Launching, Uncounted, NoExec
  <2>4. ExecInv'
    BY <2>1 DEF ExecInv, NoExec
  <2>5. ProvisionedInv'
    <3>1. \A x \in Schedules : RunsOf(x)' = RunsOf(x)
      BY <1>1 DEF RunsOf
    <3>2. \A x \in Schedules : launched'[x] + Launching(x)' <= Cardinality(RunsOf(x))
      BY <1>3, <2>1, <2>3 DEF ProvisionedInv
    <3> QED
      BY <1>1, <3>1, <3>2 DEF ProvisionedInv
  <2>6. CountInv' /\ BudgetInv'
    BY <1>1, <1>3, <2>1, <2>3 DEF CountInv, BudgetInv, Budget
  <2> QED
    BY <2>2, <2>4, <2>5, <2>6
<1>5. CASE r \notin task
  <2>1. /\ exec' = [exec EXCEPT !.pc = "counting"]
        /\ task' = task \cup {r}
        /\ launched' = [launched EXCEPT ![s] = @ + 1]
    BY <1>2, <1>5 DEF Launch
  <2>2. /\ exec'.pc = "counting" /\ exec'.sched = s /\ exec'.limit = exec.limit
        /\ exec' \in [pc : {"idle", "launching", "counting"},
                      sched : Schedules \cup {NoSchedule}, runs : SUBSET Runs, limit : Limits]
    BY <1>2, <2>1 DEF TypeOK
  <2>3. \A x \in Schedules :
          /\ Launching(x)' = 0 /\ Uncounted(x)' = IF x = s THEN 1 ELSE 0
          /\ launched'[x] = launched[x] + Launching(x)
    BY <1>3, <2>1, <2>2 DEF Launching, Uncounted, TypeOK
  <2>4. launched' \in [Schedules -> 0..Cardinality(Runs)]
    <3>1. \A x \in Schedules : launched'[x] \in 0..Cardinality(Runs)
      BY <1>0, <1>3, <2>3 DEF ProvisionedInv
    <3> QED
      BY <2>1, <3>1 DEF TypeOK
  <2>5. TypeOK'
    BY <1>1, <2>1, <2>2, <2>4 DEF TypeOK, RunsTypeOK
  <2>6. ExecInv'
    BY <1>1, <1>2, <2>2 DEF ExecInv
  <2>7. ProvisionedInv'
    <3>1. \A x \in Schedules : RunsOf(x)' = RunsOf(x)
      BY <1>1 DEF RunsOf
    <3>2. \A x \in Schedules : launched'[x] + Launching(x)' <= Cardinality(RunsOf(x))
      BY <1>3, <2>3 DEF ProvisionedInv
    <3> QED
      BY <1>1, <3>1, <3>2 DEF ProvisionedInv
  <2>8. CountInv'
    BY <1>1, <1>3, <2>3 DEF CountInv
  <2>9. BudgetInv'
    BY <1>1, <1>3, <2>3 DEF BudgetInv, Budget
  <2> QED
    BY <2>5, <2>6, <2>7, <2>8, <2>9
<1> QED
  BY <1>4, <1>5

\* The count catches up, and ends a schedule that has reached its limit: the limit the
\* loop has read is the row's as long as nobody edited it.
LEMMA CountKeeps ==
  ASSUME ScheduleInv, NEW s \in Schedules, Count(s) PROVE ScheduleInv'
<1> USE DEF ScheduleInv
<1>0. Cardinality(Runs) \in Nat
  BY RunsAssumption, FS_CardinalityType
<1>1. /\ exec.pc = "counting" /\ exec.sched = s /\ exec' = NoExec
      /\ UNCHANGED <<of, due, launched, edited, runVars>>
  BY DEF Count
<1>2. sched \in [Schedules -> Row]
  BY DEF TypeOK, Row
<1>3. \A x \in Schedules :
        /\ launched[x] \in Nat /\ sched[x].count \in Nat /\ sched[x].limit \in Nat
        /\ crashes \in Nat /\ Cardinality(RunsOf(x)) \in Nat
        /\ Cardinality(RunsOf(x)) <= Cardinality(Runs)
        /\ Launching(x) = 0 /\ Uncounted(x) = IF x = s THEN 1 ELSE 0
        /\ Launching(x)' = 0 /\ Uncounted(x)' = 0
  <2>1. \A x \in Schedules :
          /\ Launching(x) = 0 /\ Uncounted(x) = IF x = s THEN 1 ELSE 0
          /\ Launching(x)' = 0 /\ Uncounted(x)' = 0
    BY <1>1 DEF Uncounted, Launching, NoExec
  <2> QED
    BY <2>1, Numbers
<1>4. exec' \in [pc : {"idle", "launching", "counting"},
                sched : Schedules \cup {NoSchedule}, runs : SUBSET Runs, limit : Limits]
  BY <1>1, ScheduleAssumption DEF NoExec
<1>5. ExecInv'
  BY <1>1 DEF ExecInv, NoExec
<1>6. ProvisionedInv'
  BY <1>1, <1>3 DEF ProvisionedInv, RunsOf, runVars
<1>7. CASE ~sched[s].there
  <2>1. sched' = sched
    BY <1>7 DEF Count
  <2>2. TypeOK'
    BY <1>1, <1>4, <2>1 DEF TypeOK, RunsTypeOK, runVars
  <2>3. CountInv' /\ BudgetInv'
    BY <1>1, <1>3, <1>7, <2>1 DEF CountInv, BudgetInv, Budget, runVars
  <2> QED
    BY <1>5, <1>6, <2>2, <2>3
<1>8. CASE sched[s].there
  <2>1. sched' = [sched EXCEPT ![s].count = @ + 1,
                    ![s].active = @ /\ ~(exec.limit # 0 /\ sched[s].count + 1 >= exec.limit)]
    BY <1>8 DEF Count
  <2>2. /\ sched'[s].count = sched[s].count + 1 /\ sched'[s].limit = sched[s].limit
        /\ sched'[s].active => sched[s].active /\ ~(exec.limit # 0 /\ sched[s].count + 1 >= exec.limit)
        /\ sched'[s].there = sched[s].there
        /\ \A x \in Schedules \ {s} : sched'[x] = sched[x]
    BY <1>2, <2>1 DEF Row
  <2>3. sched[s].count + 1 \in 0..Cardinality(Runs)
    <3>1. sched[s].count + 1 <= launched[s] /\ launched[s] <= Cardinality(RunsOf(s))
      BY <1>3 DEF CountInv, ProvisionedInv
    <3> QED
      BY <1>0, <1>3, <3>1
  <2>4. sched' \in [Schedules -> Row]
    <3>1. PICK n \in 0..Cardinality(Runs), a \in BOOLEAN :
            sched' = [sched EXCEPT ![s].count = n, ![s].active = a]
      <4>1. sched[s].active \in BOOLEAN
        BY <1>2 DEF Row
      <4> QED
        BY <2>1, <2>3, <4>1
    <3> QED
      BY <1>2, <3>1 DEF Row
  <2>5. TypeOK'
    BY <1>1, <1>4, <2>4 DEF TypeOK, RunsTypeOK, runVars, Row
  <2>6. CountInv'
    BY <1>1, <1>3, <2>2 DEF CountInv, runVars
  <2>7. BudgetInv'
    <3>1. sched'[s].active /\ s \notin edited /\ sched[s].limit # 0
            => sched'[s].count < sched[s].limit
      BY <1>1, <1>3, <2>2 DEF ExecInv
    <3> QED
      BY <1>1, <1>3, <2>2, <3>1 DEF BudgetInv, Budget, runVars
  <2> QED
    BY <1>5, <1>6, <2>5, <2>6, <2>7
<1> QED
  BY <1>7, <1>8

\* A user's edit ends the claims about the limit of one schedule.
LEMMA UpdateKeeps ==
  ASSUME ScheduleInv, NEW s \in Schedules, NEW active \in BOOLEAN, NEW limit \in Limits,
         Update(s, active, limit)
  PROVE  ScheduleInv'
<1> USE DEF ScheduleInv
<1>1. /\ sched' = [sched EXCEPT ![s].active = active, ![s].limit = limit]
      /\ edited' = edited \cup {s}
      /\ UNCHANGED <<of, due, exec, launched, runVars>>
  BY DEF Update
<1>2. sched \in [Schedules -> Row]
  BY DEF TypeOK, Row
<1>3. /\ sched' \in [Schedules -> Row]
      /\ \A x \in Schedules : sched'[x].count = sched[x].count /\ sched'[x].there = sched[x].there
      /\ \A x \in Schedules \ {s} : sched'[x] = sched[x]
  BY <1>1, <1>2 DEF Row
<1>4. TypeOK'
  BY <1>1, <1>3 DEF TypeOK, RunsTypeOK, runVars, Row
<1>5. ExecInv'
  BY <1>1, <1>3 DEF ExecInv
<1>6. ProvisionedInv'
  BY <1>1 DEF ProvisionedInv, RunsOf, Launching, runVars
<1>7. CountInv'
  BY <1>1, <1>3 DEF CountInv, Uncounted, runVars
<1>8. BudgetInv'
  BY <1>1, <1>3 DEF BudgetInv, Budget, Launching, runVars
<1> QED
  BY <1>4, <1>5, <1>6, <1>7, <1>8

\* A crash loses the launch to come, or the count of one that was made.
LEMMA CrashKeeps == ASSUME ScheduleInv, Crash PROVE ScheduleInv'
<1> USE DEF ScheduleInv
<1>1. /\ crashes < MaxCrashes /\ crashes' = crashes + 1
      /\ exec' = NoExec /\ due' = {} /\ task' = {} /\ cancelling' = {}
      /\ run' = [r \in Runs |-> IF run[r] \in {"running", "paused"} THEN "ended" ELSE run[r]]
      /\ UNCHANGED <<sched, of, launched, edited>>
  BY DEF Crash, RunsCrash
<1>2. TypeOK'
  BY <1>1, RunsAssumption, ScheduleAssumption DEF TypeOK, RunsTypeOK, RunStates, NoExec
<1>3. \A x \in Schedules :
        /\ launched[x] \in Nat /\ sched[x].count \in Nat /\ sched[x].limit \in Nat
        /\ crashes \in Nat /\ Cardinality(RunsOf(x)) \in Nat
        /\ Launching(x) \in {0, 1} /\ Uncounted(x) \in {0, 1}
        /\ Launching(x)' = 0 /\ Uncounted(x)' = 0
  <2>1. \A x \in Schedules :
          /\ Launching(x) \in {0, 1} /\ Uncounted(x) \in {0, 1}
          /\ Launching(x)' = 0 /\ Uncounted(x)' = 0
    BY <1>1 DEF Uncounted, Launching, NoExec
  <2> QED
    BY <2>1, Numbers
<1>4. ExecInv'
  BY <1>1 DEF ExecInv, NoExec
<1>5. ProvisionedInv'
  <2>1. \A x \in Schedules : RunsOf(x)' = RunsOf(x)
    BY <1>1 DEF RunsOf
  <2>2. \A x \in Schedules : launched'[x] + Launching(x)' <= Cardinality(RunsOf(x))
    BY <1>1, <1>3 DEF ProvisionedInv
  <2>3. \A r \in Runs : of'[r] # NoSchedule => run'[r] # "none"
    BY <1>1 DEF ProvisionedInv
  <2> QED
    BY <2>1, <2>2, <2>3 DEF ProvisionedInv
<1>6. CountInv'
  BY <1>1, <1>3 DEF CountInv
<1>7. BudgetInv'
  BY <1>1, <1>3 DEF BudgetInv, Budget
<1> QED
  BY <1>2, <1>4, <1>5, <1>6, <1>7

--------------------------------------------------------------------------------

\* ScheduleInv is an invariant, one lemma for each kind of step.
LEMMA ScheduleInvariant == Spec => []ScheduleInv
<1>1. Init => ScheduleInv
  BY ScheduleInvInit
<1>2. ScheduleInv /\ [Next]_vars => ScheduleInv'
  <2> SUFFICES ASSUME ScheduleInv, [Next]_vars PROVE ScheduleInv'
    OBVIOUS
  <2>1. CASE RunsNext /\ UNCHANGED ownVars
    BY <2>1, RunsNextKeeps
  <2>2. CASE Crash
    BY <2>2, CrashKeeps
  <2>3. CASE CheckDue
    BY <2>3, CheckDueKeeps
  <2>4. CASE \E s \in Schedules :
               \/ BecomesDue(s) \/ ResourceChanges(s) \/ PassOver(s) \/ Skip(s)
               \/ UpdateFrequency(s) \/ Delete(s) \/ GetDiff(s)
    BY <2>4, RowStepKeeps
  <2>5. CASE \E s \in Schedules : Count(s)
    BY <2>5, CountKeeps
  <2>6. CASE \E s \in Schedules, r \in Runs : Provision(s, r)
    BY <2>6, ProvisionKeeps
  <2>7. CASE \E s \in Schedules, active \in BOOLEAN, limit \in Limits :
               Update(s, active, limit)
    BY <2>7, UpdateKeeps
  <2>8. CASE \E r \in Runs : Launch(r)
    BY <2>8, LaunchKeeps
  <2>9. CASE UNCHANGED vars
    BY <2>9 DEF vars, ownVars, runVars, ScheduleInv, TypeOK, RunsTypeOK, ExecInv,
                ProvisionedInv, RunsOf, CountInv, BudgetInv, Budget, Launching, Uncounted
  <2> QED
    BY <2>1, <2>2, <2>3, <2>4, <2>5, <2>6, <2>7, <2>8, <2>9 DEF Next
<1> QED
  BY <1>1, <1>2, PTL DEF Spec

\* The rows, the loop's position and the counters have their types; the counters are
\* bounded by the runs there are, since each launch takes a run of its own.
THEOREM SchedulesTypeCorrect == Spec => []TypeOK
<1>1. ScheduleInv => TypeOK
  BY DEF ScheduleInv
<1> QED
  BY <1>1, ScheduleInvariant, PTL

\* run_count neither invents nor loses a launch: it lags behind by the launch about to
\* be counted and by one for each crash that came in between, whatever users edit.
THEOREM CountIsOfLaunches == Spec => []CountsLaunches
<1>1. ScheduleInv => CountsLaunches
  <2> SUFFICES ASSUME ScheduleInv, NEW s \in Schedules
               PROVE  /\ sched[s].count <= launched[s]
                      /\ launched[s] <= sched[s].count + crashes + Uncounted(s)
                         \/ ~sched[s].there
    BY DEF CountsLaunches, Uncounted
  <2>1. Uncounted(s) \in {0, 1}
    BY DEF Uncounted
  <2>2. sched[s].count \in Nat /\ launched[s] \in Nat /\ crashes \in Nat
    BY Numbers DEF ScheduleInv
  <2> QED
    BY <2>1, <2>2 DEF ScheduleInv, CountInv
<1> QED
  BY <1>1, ScheduleInvariant, PTL

\* max_runs bounds the launches of a schedule nobody edits; each crash between a
\* launch and its count may cost one more.
THEOREM LaunchesAreBounded == Spec => []LaunchesBounded
<1>1. ScheduleInv => LaunchesBounded
  <2> SUFFICES ASSUME ScheduleInv, NEW s \in Schedules,
                      s \notin edited, sched[s].limit # 0
               PROVE  launched[s] <= Budget(s)
    BY DEF LaunchesBounded
  <2>1. Launching(s) \in {0, 1}
    BY DEF Launching
  <2>2. sched[s].limit \in Nat /\ launched[s] \in Nat /\ crashes \in Nat
    BY Numbers DEF ScheduleInv
  <2> QED
    BY <2>1, <2>2 DEF ScheduleInv, BudgetInv, Budget
<1> QED
  BY <1>1, ScheduleInvariant, PTL
================================================================================
