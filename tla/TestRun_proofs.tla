----------------------------- MODULE TestRun_proofs -----------------------------
(* Proofs about a test run, for any plan of tests, any clients and requests    *)
(* and any bounds.                                                             *)
EXTENDS TestRun, SequenceTheorems, TLAPS

\* A task works for a launch of its own, and has a test at hand wherever run()
\* is inside the body of its for loop.
EngineInv ==
  /\ Executing => eng.gen \in Handlers
  /\ eng.pc \in InTry \ {"next"} => TestLeft

\* The number of tests is a number.
LEMMA TestsCounted == Len(Tiers) \in Nat /\ Tests = 1..Len(Tiers)
BY TiersAssumption DEF Tests

--------------------------------------------------------------------------------
(* The monitors: what no step of a monitor or of the device does.              *)

\* The handlers stay running and their monitors stay.
Watched ==
  \A g \in Handlers :
    /\ h[g].running => h'[g].running
    /\ mon[g].pc # "off" => mon'[g].pc # "off"

\* A step that replaces the flags of one handler and the state of its monitor.
LEMMA MonitorStep ==
  ASSUME CableTypeOK, NEW g \in Handlers,
         NEW m \in MonitorType, m.pc # "off", mon' = [mon EXCEPT ![g] = m],
         NEW x \in HandlerType, h[g].running => x.running,
         h' = [h EXCEPT ![g] = x],
         status' \in Statuses, UNCHANGED <<link, flips, active>>
  PROVE  CableTypeOK' /\ active' = active /\ Watched
BY DEF CableTypeOK, Watched

\* A monitor's record and a handler's record, field by field.
LEMMA Records ==
  ASSUME CableTypeOK, NEW g \in Handlers
  PROVE  /\ mon[g] \in MonitorType /\ h[g] \in HandlerType
         /\ mon[g].pc \in {"off", "sleep", "probe", "decide", "stable",
                           "restable", "kill", "wait", "poll", "settle"}
         /\ mon[g].grace \in BOOLEAN /\ mon[g].ok \in BOOLEAN
         /\ mon[g].waits \in 0..(MaxWaits - 1)
         /\ h[g].running \in BOOLEAN /\ h[g].paused \in BOOLEAN
         /\ h[g].manual \in BOOLEAN /\ h[g].fails \in Nat
         /\ mon = [mon EXCEPT ![g] = mon[g]] /\ h = [h EXCEPT ![g] = h[g]]
         /\ status \in Statuses
BY DEF CableTypeOK, MonitorType, HandlerType

\* Each step of a monitor is such a step.
LEMMA MonitorSteps ==
  ASSUME CableTypeOK, NEW g \in Handlers, Monitor(g)
  PROVE  CableTypeOK' /\ active' = active /\ Watched
<1> DEFINE M == mon[g]
           H == h[g]
           Goal == CableTypeOK' /\ active' = active /\ Watched
<1> USE DEF At, Go, Decided
<1>0. M \in MonitorType /\ H \in HandlerType
  BY Records
<1>m. ASSUME NEW pc \in {"sleep", "probe", "decide", "stable", "restable",
                         "kill", "wait", "poll", "settle"}
      PROVE  /\ [M EXCEPT !.pc = pc] \in MonitorType
             /\ [M EXCEPT !.pc = pc].pc # "off"
             /\ [M EXCEPT !.pc = pc, !.waits = 0] \in MonitorType
             /\ [M EXCEPT !.pc = pc, !.waits = 0].pc # "off"
             /\ [MonitorOff EXCEPT !.pc = pc] \in MonitorType
             /\ [MonitorOff EXCEPT !.pc = pc].pc # "off"
  <2>1. 0 \in 0..(MaxWaits - 1)
    BY BoundsAssumption
  <2>2. MonitorOff \in MonitorType
    BY <2>1 DEF MonitorType, MonitorOff
  <2> QED
    BY <1>0, <2>1, <2>2 DEF MonitorType
<1>r. /\ Resumed(H) \in HandlerType
      /\ H.running => Resumed(H).running
      /\ \A n \in Nat : /\ [H EXCEPT !.fails = n] \in HandlerType
                        /\ [H EXCEPT !.fails = n].running = H.running
                        /\ CablePaused([H EXCEPT !.fails = n], "cable") \in HandlerType
                        /\ CablePaused([H EXCEPT !.fails = n], "cable").running = H.running
                        /\ [Resumed(H) EXCEPT !.fails = n] \in HandlerType
                        /\ H.running => [Resumed(H) EXCEPT !.fails = n].running
  BY <1>0 DEF HandlerType, Resumed, CablePaused
<1>s. /\ StatusAfterDisconnect \in Statuses
      /\ StatusAfterReconnect(g) \in Statuses
  BY DEF StatusAfterDisconnect, StatusAfterReconnect, Statuses, CableTypeOK
<1>1. CASE MonitorWake(g)
  <2> DEFINE m == [M EXCEPT !.pc = "probe", !.grace = H.grace]
  <2>1. m \in MonitorType /\ m.pc # "off"
    BY <1>0 DEF MonitorType, HandlerType
  <2>2. mon' = [mon EXCEPT ![g] = m]
    BY <1>1 DEF MonitorWake, CableTypeOK
  <2> QED
    BY <1>1, <2>1, <2>2, Records, MonitorStep DEF MonitorWake
<1>2. CASE MonitorProbe(g)
  <2> DEFINE m == [M EXCEPT !.pc = "decide", !.ok = Reachable]
  <2>1. m \in MonitorType /\ m.pc # "off"
    BY <1>0 DEF MonitorType, Reachable
  <2>2. mon' = [mon EXCEPT ![g] = m]
    BY <1>2 DEF MonitorProbe, CableTypeOK
  <2> QED
    BY <1>2, <2>1, <2>2, Records, MonitorStep DEF MonitorProbe
<1>3. CASE MonitorSeesLink(g)
  <2>1. CASE H.paused /\ ~H.manual
    <3> DEFINE m == [MonitorOff EXCEPT !.pc = "stable"]
    <3>1. mon' = [mon EXCEPT ![g] = m] /\ h' = [h EXCEPT ![g] = H]
      BY <1>3, <2>1, Records DEF MonitorSeesLink
    <3>2. m \in MonitorType /\ m.pc # "off"
      BY <1>m
    <3>3. status' \in Statuses /\ UNCHANGED <<link, flips, active>>
      BY <1>3, Records DEF MonitorSeesLink
    <3> HIDE DEF m
    <3> QED
      BY <1>0, <3>1, <3>2, <3>3, MonitorStep
  <2>2. CASE ~(H.paused /\ ~H.manual)
    <3>1. h' = [h EXCEPT ![g] = [H EXCEPT !.fails = 0]]
      BY <1>3, <2>2 DEF MonitorSeesLink, CableTypeOK
    <3>2. status' \in Statuses /\ UNCHANGED <<link, flips, active>>
      BY <1>3, Records DEF MonitorSeesLink
    <3> QED
      BY <1>3, <1>m, <1>r, <2>2, <3>1, <3>2, MonitorStep DEF MonitorSeesLink
  <2> QED
    BY <2>1, <2>2
<1>4. CASE MonitorMissesLink(g)
  <2> DEFINE fails == IF M.grace THEN H.fails ELSE H.fails + 1
             n == IF fails > FailThreshold THEN FailThreshold ELSE fails
             lost == ~M.grace /\ fails >= FailThreshold /\ ~H.paused
             x == [H EXCEPT !.fails = n]
             y == IF lost THEN CablePaused(x, "cable") ELSE x
             m == [MonitorOff EXCEPT !.pc = IF lost THEN "kill" ELSE "sleep"]
  <2>1. n \in Nat
    BY Records, BoundsAssumption
  <2>2. y \in HandlerType /\ (H.running => y.running)
    BY <1>r, <2>1
  <2>3. m \in MonitorType /\ m.pc # "off"
    BY <1>m
  <2>4. h' = [h EXCEPT ![g] = y] /\ mon' = [mon EXCEPT ![g] = m]
    BY <1>4 DEF MonitorMissesLink
  <2>5. status' \in Statuses /\ UNCHANGED <<link, flips, active>>
    BY <1>4, <1>s, Records DEF MonitorMissesLink
  <2> HIDE DEF y, m
  <2> QED
    BY <2>2, <2>3, <2>4, <2>5, MonitorStep
<1>5. CASE MonitorStable(g)
  <2> DEFINE m == [M EXCEPT !.pc = IF H.manual THEN "sleep" ELSE "restable"]
             x == IF H.manual THEN [H EXCEPT !.fails = 0] ELSE H
  <2>1. mon' = [mon EXCEPT ![g] = m] /\ h' = [h EXCEPT ![g] = x]
    BY <1>5, Records DEF MonitorStable, CableTypeOK
  <2>2. m \in MonitorType /\ m.pc # "off" /\ x \in HandlerType
        /\ (H.running => x.running)
    BY <1>0, <1>m, <1>r
  <2>9. status' \in Statuses /\ UNCHANGED <<link, flips, active>>
    BY <1>5, Records DEF MonitorStable
  <2> HIDE DEF m, x
  <2> QED
    BY <1>0, <2>1, <2>2, <2>9, MonitorStep
<1>6. CASE MonitorRestable(g)
  <2> DEFINE m == [M EXCEPT !.pc = "sleep"]
             x == [(IF Reachable THEN Resumed(H) ELSE H) EXCEPT !.fails = 0]
  <2>1. mon' = [mon EXCEPT ![g] = m] /\ h' = [h EXCEPT ![g] = x]
    BY <1>6 DEF MonitorRestable, CableTypeOK
  <2>2. m \in MonitorType /\ m.pc # "off" /\ x \in HandlerType
        /\ (H.running => x.running)
    BY <1>0, <1>m, <1>r
  <2>9. status' \in Statuses /\ UNCHANGED <<link, flips, active>>
    BY <1>6, <1>s, Records DEF MonitorRestable
  <2> HIDE DEF m, x
  <2> QED
    BY <1>0, <2>1, <2>2, <2>9, MonitorStep
<1>7. CASE MonitorKilled(g)
  <2> DEFINE m == [M EXCEPT !.pc = IF H.paused THEN "wait" ELSE "sleep", !.waits = 0]
  <2>1. mon' = [mon EXCEPT ![g] = m] /\ h' = [h EXCEPT ![g] = H]
    BY <1>7, Records DEF MonitorKilled, CableTypeOK
  <2>2. m \in MonitorType /\ m.pc # "off"
    BY <1>m
  <2>9. status' \in Statuses /\ UNCHANGED <<link, flips, active>>
    BY <1>7, Records DEF MonitorKilled
  <2> HIDE DEF m
  <2> QED
    BY <1>0, <2>1, <2>2, <2>9, MonitorStep
<1>8. CASE MonitorWaited(g)
  <2> DEFINE m == [M EXCEPT !.pc = IF H.paused THEN "poll" ELSE "sleep"]
  <2>1. mon' = [mon EXCEPT ![g] = m] /\ h' = [h EXCEPT ![g] = H]
    BY <1>8, Records DEF MonitorWaited, CableTypeOK
  <2>2. m \in MonitorType /\ m.pc # "off"
    BY <1>m
  <2>9. status' \in Statuses /\ UNCHANGED <<link, flips, active>>
    BY <1>8, Records DEF MonitorWaited
  <2> HIDE DEF m
  <2> QED
    BY <1>0, <2>1, <2>2, <2>9, MonitorStep
<1>9. ASSUME PollAgain(g), UNCHANGED <<link, flips, active>> PROVE Goal
  <2> DEFINE n == M.waits + 1
             over == n = MaxWaits \/ ~H.paused
             m == [M EXCEPT !.pc = IF over THEN "sleep" ELSE "wait",
                            !.waits = IF over THEN 0 ELSE n]
  <2>1. (IF over THEN 0 ELSE n) \in 0..(MaxWaits - 1)
    BY Records, BoundsAssumption
  <2>2. m \in MonitorType /\ m.pc # "off"
    BY <1>0, <2>1 DEF MonitorType
  <2>3. mon' = [mon EXCEPT ![g] = m]
    BY <1>9 DEF PollAgain, CableTypeOK
  <2>4. status' \in Statuses
    BY <1>9, Records DEF PollAgain, Statuses
  <2>5. h' = [h EXCEPT ![g] = H]
    BY <1>9, Records DEF PollAgain
  <2> HIDE DEF m
  <2> QED
    BY <1>0, <1>9, <2>2, <2>3, <2>4, <2>5, MonitorStep
<1>10. CASE MonitorPolled(g)
  <2>1. CASE Reachable
    <3>1. mon' = [mon EXCEPT ![g] = [M EXCEPT !.pc = "settle"]]
      BY <1>10, <2>1 DEF MonitorPolled, CableTypeOK
    <3> QED
      BY <1>10, <1>m, <2>1, <3>1, Records, MonitorStep DEF MonitorPolled
  <2>2. CASE ~Reachable
    BY <1>9, <1>10, <2>2 DEF MonitorPolled
  <2> QED
    BY <2>1, <2>2
<1>11. CASE MonitorSettled(g)
  <2>1. CASE Reachable
    <3> DEFINE x == Resumed(H)
               m == MonitorOn
    <3>1. mon' = [mon EXCEPT ![g] = m] /\ h' = [h EXCEPT ![g] = x]
      BY <1>11, <2>1 DEF MonitorSettled
    <3>2. m \in MonitorType /\ m.pc # "off"
      BY <1>m DEF MonitorOn
    <3>3. x \in HandlerType /\ (H.running => x.running)
      BY <1>r
    <3>4. status' \in Statuses /\ UNCHANGED <<link, flips, active>>
      BY <1>11, <1>s, <2>1 DEF MonitorSettled
    <3> HIDE DEF x, m
    <3> QED
      BY <3>1, <3>2, <3>3, <3>4, MonitorStep
  <2>2. CASE ~Reachable
    BY <1>9, <1>11, <2>2 DEF MonitorSettled
  <2> QED
    BY <2>1, <2>2
<1> QED
  BY <1>1, <1>2, <1>3, <1>4, <1>5, <1>6, <1>7, <1>8, <1>10, <1>11 DEF Monitor

\* A monitor step, a change of the link and the end of a grace period keep the
\* handlers well-formed, running and watched.
LEMMA CableSteps ==
  ASSUME CableTypeOK, CableNext
  PROVE  CableTypeOK' /\ active' = active /\ Watched
<1>1. CASE LinkDegrades
  BY <1>1, BoundsAssumption DEF LinkDegrades, CableTypeOK, Watched
<1>2. CASE LinkRecovers
  BY <1>2 DEF LinkRecovers, CableTypeOK, Watched
<1>3. ASSUME NEW g \in Handlers, GraceOver(g)
      PROVE  CableTypeOK' /\ active' = active /\ Watched
  <2>1. [h[g] EXCEPT !.grace = FALSE] \in HandlerType
        /\ [h[g] EXCEPT !.grace = FALSE].running = h[g].running
    BY Records DEF HandlerType
  <2>2. h' = [h EXCEPT ![g] = [h[g] EXCEPT !.grace = FALSE]]
    BY <1>3 DEF GraceOver
  <2> QED
    BY <1>3, <2>1, <2>2 DEF GraceOver, CableTypeOK, Watched
<1> QED
  BY <1>1, <1>2, <1>3, MonitorSteps DEF CableNext

--------------------------------------------------------------------------------
(* The run.                                                                    *)

RunIInv == RunTypeOK /\ EngineInv /\ HandlerReachable

\* A session that has selected the results sees its own edit in them, and to
\* complete the run or to ask for its review it found no pending manual test.
SessionRead ==
  \A c \in Clients :
    tx[c].pc = "read" =>
      /\ \A t \in Tests : t = tx[c].test => tx[c].seen[t] = tx[c].new
      /\ tx[c].kind # "update" => ~PendingIn(tx[c].seen)

SessionInv == SessionTypeOK /\ SessionRead

\* The inductive invariant holds before the first launch.
LEMMA RunInit == Init => RunIInv
<1> SUFFICES ASSUME Init PROVE RunIInv
  OBVIOUS
<1>1. Gone \in HandlerType /\ MonitorOff \in MonitorType
  <2>1. 0 \in 0..(MaxWaits - 1)
    BY BoundsAssumption
  <2> QED
    BY <2>1 DEF Gone, Fresh, HandlerType, MonitorOff, MonitorType
<1>2. CableTypeOK
  BY <1>1, BoundsAssumption DEF Init, CableInit, CableTypeOK, Statuses
<1>3. NoTask \in EngineType
  BY TestsCounted, BoundsAssumption DEF NoTask, EngineType, EnginePcs
<1>4. NoRequest \in RequestType
  BY BoundsAssumption DEF NoRequest, RequestType
<1>5. 0 \in 0..MaxLaunch /\ 0 \in 0..MaxCrashes
  BY BoundsAssumption, EnvironmentAssumption
<1>6. /\ verdict \in [Tests -> Verdicts]
      /\ req \in [Clients -> RequestType]
  BY <1>4 DEF Init, Verdicts
<1>7. RunTypeOK
  BY <1>2, <1>3, <1>5, <1>6 DEF Init, RunTypeOK
<1> QED
  BY <1>7 DEF RunIInv, Init, NoTask, EngineInv, Executing, HandlerReachable,
              Guarded, InTry

\* Steps of the engine that move it on and write nothing but the status, the
\* verdicts and the chosen interface.
LEMMA EngineMoves ==
  ASSUME RunIInv, NEW e \in EnginePcs,
         eng.pc # "none", eng' = [eng EXCEPT !.pc = e],
         e \in Guarded => eng.pc \in Guarded,
         e \in InTry \ {"next"} => TestLeft,
         status' \in Statuses, iface' \in BOOLEAN,
         verdict' \in [Tests -> Verdicts],
         UNCHANGED <<link, flips, active, h, mon, launches, req, up, crashes>>
  PROVE  RunIInv'
<1>0. /\ eng' \in EngineType /\ eng'.pc = e
      /\ eng'.gen = eng.gen /\ eng'.i = eng.i
  BY DEF RunIInv, RunTypeOK, EngineType
<1>1. RunTypeOK'
  BY <1>0 DEF RunIInv, RunTypeOK, CableTypeOK
<1>2. EngineInv'
  BY <1>0 DEF RunIInv, EngineInv, Executing, TestLeft
<1>3. HandlerReachable'
  BY <1>0 DEF RunIInv, HandlerReachable
<1> QED
  BY <1>1, <1>2, <1>3 DEF RunIInv

\* Steps in which the task ends.
LEMMA EngineStops ==
  ASSUME RunIInv, eng' = NoTask, status' \in Statuses,
         UNCHANGED <<link, flips, active, h, mon, launches, verdict, iface,
                     req, up, crashes>>
  PROVE  RunIInv'
<1>1. NoTask \in EngineType
  BY TestsCounted, BoundsAssumption DEF NoTask, EngineType, EnginePcs
<1>2. RunTypeOK'
  BY <1>1 DEF RunIInv, RunTypeOK, CableTypeOK
<1> QED
  BY <1>2 DEF RunIInv, NoTask, EngineInv, Executing, HandlerReachable, Guarded,
              InTry

\* Steps in which the task leaves run() for good and stops its handler.
LEMMA HandlerStops ==
  ASSUME RunIInv, NEW e \in {"stopping", "leaving"}, eng.pc # "none",
         StopHandler(eng.gen), eng' \in EngineType, eng'.pc = e,
         eng'.gen = eng.gen, status' \in Statuses,
         UNCHANGED <<link, flips, launches, verdict, iface, req, up, crashes>>
  PROVE  RunIInv'
<1>1. Gone \in HandlerType /\ MonitorOff \in MonitorType
  <2>1. 0 \in 0..(MaxWaits - 1)
    BY BoundsAssumption
  <2> QED
    BY <2>1 DEF Gone, Fresh, HandlerType, MonitorOff, MonitorType
<1>2. CableTypeOK'
  <2>1. active' \in 0..MaxLaunch
    BY BoundsAssumption DEF StopHandler
  <2>2. h' \in [Handlers -> HandlerType] /\ mon' \in [Handlers -> MonitorType]
    BY <1>1 DEF RunIInv, RunTypeOK, CableTypeOK, StopHandler
  <2> QED
    BY <2>1, <2>2 DEF RunIInv, RunTypeOK, CableTypeOK
<1>3. RunTypeOK'
  BY <1>2 DEF RunIInv, RunTypeOK
<1> QED
  BY <1>3 DEF RunIInv, EngineInv, Executing, HandlerReachable, Guarded, InTry

\* Every step of the engine.
LEMMA EngineSteps ==
  ASSUME RunIInv, Engine \/ EngineFails
  PROVE  RunIInv'
<1> USE DEF EngineAt, EngineGo, OnlyEngine, OnlyFinalize
<1>0. /\ RunTypeOK /\ eng \in EngineType /\ status \in Statuses /\ iface \in BOOLEAN
      /\ verdict \in [Tests -> Verdicts]
  BY DEF RunIInv, RunTypeOK, CableTypeOK
<1>e. eng.pc \in EnginePcs /\ eng.i \in 1..(Len(Tiers) + 1)
  BY <1>0 DEF EngineType
<1>1. CASE EngAcquire
  BY <1>0, <1>1, EngineMoves DEF EngAcquire, EnginePcs, InTry, Guarded
<1>2. CASE EngLoadFails
  BY <1>0, <1>2, EngineStops DEF EngLoadFails, Statuses
<1>3. CASE EngLoad
  <2> DEFINE x == IF CanExecute THEN Fresh ELSE CablePaused(Fresh, PauseReason)
  <2>1. eng.gen \in Handlers /\ eng.gen \in 0..MaxLaunch
    BY <1>0, <1>3 DEF EngLoad, RunIInv, EngineInv, Executing, EngineType
  <2>2. x \in HandlerType /\ x.running
    BY DEF Fresh, CablePaused, PauseReason, HandlerType
  <2>3. MonitorOn \in MonitorType /\ MonitorOn.pc # "off"
    <3>1. 0 \in 0..(MaxWaits - 1)
      BY BoundsAssumption
    <3> QED
      BY <3>1 DEF MonitorOn, MonitorOff, MonitorType
  <2>4. h' = [h EXCEPT ![eng.gen] = x] /\ mon' = [mon EXCEPT ![eng.gen] = MonitorOn]
    BY <1>3 DEF EngLoad
  <2>5. status' \in Statuses
    BY <1>0, <1>3 DEF EngLoad, StatusAfterDisconnect, Statuses
  <2>6. /\ eng' \in EngineType /\ eng'.pc = "enter"
        /\ eng'.gen = eng.gen /\ eng'.i = eng.i
    BY <1>0, <1>3 DEF EngLoad, EngineType, EnginePcs
  <2>7. active' = eng.gen
    BY <1>3 DEF EngLoad
  <2> HIDE DEF x
  <2>8. h' \in [Handlers -> HandlerType] /\ mon' \in [Handlers -> MonitorType]
    BY <1>0, <2>2, <2>3, <2>4 DEF RunTypeOK, CableTypeOK
  <2>9. CableTypeOK'
    BY <1>0, <1>3, <2>1, <2>5, <2>7, <2>8 DEF EngLoad, RunTypeOK, CableTypeOK
  <2>10. RunTypeOK'
    BY <1>0, <1>3, <2>6, <2>9 DEF EngLoad, RunTypeOK
  <2>11. HandlerReachable'
    BY <1>0, <2>1, <2>2, <2>3, <2>4, <2>6, <2>7
    DEF HandlerReachable, RunTypeOK, CableTypeOK
  <2>12. EngineInv'
    BY <2>1, <2>6 DEF EngineInv, InTry
  <2> QED
    BY <2>10, <2>11, <2>12 DEF RunIInv
<1>4. CASE EngEnter
  BY <1>0, <1>4, EngineMoves DEF EngEnter, EnginePcs, InTry, Guarded
<1>5. ASSUME eng.pc \in InTry, NextTest, TestLeft, status' \in Statuses,
             verdict' \in [Tests -> Verdicts], OnlyEngine,
             UNCHANGED <<active, h, mon, iface>>
      PROVE  RunIInv'
  <2>1. /\ eng' \in EngineType /\ eng'.pc = "next" /\ eng'.gen = eng.gen
    <3>1. eng.i + 1 \in 1..(Len(Tiers) + 1)
      BY <1>5, <1>e, TestsCounted DEF TestLeft
    <3> QED
      BY <1>0, <1>5, <3>1 DEF NextTest, EngineType, EnginePcs, InTry
  <2>2. RunTypeOK'
    BY <1>0, <1>5, <2>1 DEF RunTypeOK, CableTypeOK
  <2> QED
    BY <1>5, <2>1, <2>2
    DEF RunIInv, EngineInv, Executing, HandlerReachable, Guarded, InTry
<1>6. CASE EngSkip
  BY <1>0, <1>5, <1>6 DEF EngSkip, InTry, Verdicts
<1>7. CASE EngManual
  BY <1>0, <1>5, <1>7 DEF EngManual, InTry
<1>8. CASE EngGate
  BY <1>0, <1>8, EngineMoves
  DEF EngGate, EnginePcs, InTry, Guarded, RunIInv, EngineInv
<1>9. CASE EngProbe
  BY <1>0, <1>9, EngineMoves
  DEF EngProbe, BeginTest, EnginePcs, InTry, Guarded, Statuses, RunIInv, EngineInv
<1>10. CASE EngSettle
  BY <1>0, <1>10, EngineMoves
  DEF EngSettle, BeginTest, EnginePcs, InTry, Guarded, Statuses, RunIInv, EngineInv
<1>11. CASE EngAskInterface
  BY <1>0, <1>11, EngineMoves
  DEF EngAskInterface, EnginePcs, InTry, Guarded, Statuses, RunIInv, EngineInv
<1>12. CASE EngPollInterface
  <2>1. CASE iface \/ status \in Over
    BY <1>0, <1>12, <2>1, EngineMoves
    DEF EngPollInterface, EnginePcs, InTry, Guarded, Statuses, RunIInv, EngineInv
  <2>2. CASE ~(iface \/ status \in Over)
    BY <1>0, <1>12, <2>2
    DEF EngPollInterface, Statuses, RunIInv, EngineInv, Executing, TestLeft,
        HandlerReachable, RunTypeOK, CableTypeOK
  <2> QED
    BY <2>1, <2>2
<1>13. CASE EngTest
  BY <1>0, <1>13, EngineMoves
  DEF EngTest, EnginePcs, InTry, Guarded, RunIInv, EngineInv, Verdicts
<1>14. CASE EngAdvance
  BY <1>0, <1>5, <1>14 DEF EngAdvance, InTry, Statuses, RunIInv, EngineInv
<1>15. CASE EngLoopEnd
  <2>1. eng' \in EngineType /\ eng'.pc = "stopping" /\ eng'.gen = eng.gen
    BY <1>0, <1>15 DEF EngLoopEnd, EngineType, EnginePcs
  <2> QED
    BY <1>0, <1>15, <2>1, HandlerStops DEF EngLoopEnd
<1>16. CASE EngReadResults \/ EngFinalize
  BY <1>0, <1>16, EngineMoves
  DEF EngReadResults, EngFinalize, EnginePcs, InTry, Guarded, Statuses
<1>17. CASE EngDone
  BY <1>0, <1>17, EngineStops DEF EngDone
<1>18. CASE EngError
  BY <1>0, <1>18, EngineMoves DEF EngError, EnginePcs, InTry, Guarded, Statuses
<1>19. CASE EngUnwind
  <2>1. eng' \in EngineType /\ eng'.pc = "leaving" /\ eng'.gen = eng.gen
    BY <1>0, <1>19 DEF EngUnwind, EngineType, EnginePcs
  <2> QED
    BY <1>0, <1>19, <2>1, HandlerStops DEF EngUnwind
<1>20. CASE EngCancelledOutside \/ EngCancelledFinalizing
  BY <1>0, <1>20, EngineStops DEF EngCancelledOutside, EngCancelledFinalizing
<1>21. CASE EngCancelledInTry
  <2>1. eng' \in EngineType /\ eng'.pc = "leaving" /\ eng'.gen = eng.gen
    BY <1>0, <1>21 DEF EngCancelledInTry, EngineType, EnginePcs
  <2> QED
    BY <1>0, <1>21, <2>1, HandlerStops DEF EngCancelledInTry, InTry, Statuses
<1>22. CASE EngCancelledUnwinding
  <2>1. eng' \in EngineType /\ eng'.pc = "leaving" /\ eng'.gen = eng.gen
    BY <1>0, <1>22 DEF EngCancelledUnwinding, EngineType, EnginePcs
  <2> QED
    BY <1>0, <1>22, <2>1, HandlerStops DEF EngCancelledUnwinding
<1>23. CASE EngCancelSwallowed
  <2>1. eng' \in EngineType /\ eng'.pc = eng.pc /\ eng'.gen = eng.gen
    BY <1>0, <1>23 DEF EngCancelSwallowed, EngineType
  <2>2. RunTypeOK'
    BY <1>0, <1>23, <2>1 DEF EngCancelSwallowed, RunTypeOK, CableTypeOK
  <2> QED
    BY <1>23, <2>1, <2>2
    DEF EngCancelSwallowed, RunIInv, EngineInv, Executing, HandlerReachable,
        Guarded, InTry
<1> QED
  BY <1>1, <1>2, <1>3, <1>4, <1>6, <1>7, <1>8, <1>9, <1>10, <1>11, <1>12, <1>13,
     <1>14, <1>15, <1>16, <1>17, <1>18, <1>19, <1>20, <1>21, <1>22, <1>23
  DEF Engine, EngineFails

\* What launch_test_run does to the task.
LEMMA LaunchTypes ==
  ASSUME RunIInv, Launch
  PROVE  /\ eng' \in EngineType /\ launches' \in 0..MaxLaunch
         /\ \/ eng' = eng
            \/ eng'.pc = "queued" /\ eng'.gen \in Handlers
<1>0. eng \in EngineType /\ launches \in 0..MaxLaunch
  BY DEF RunIInv, RunTypeOK
<1>1. CASE Executing
  BY <1>0, <1>1 DEF Launch
<1>2. CASE ~Executing
  <2>1. launches + 1 \in Handlers /\ launches + 1 \in 0..MaxLaunch
    BY <1>0, <1>2, BoundsAssumption DEF Launch, Handlers
  <2>2. 1 \in 1..(Len(Tiers) + 1)
    BY TestsCounted
  <2>3. eng' = [NoTask EXCEPT !.pc = "queued", !.gen = launches + 1]
        /\ launches' = launches + 1
    BY <1>2 DEF Launch
  <2>4. eng' \in EngineType /\ eng'.pc = "queued" /\ eng'.gen = launches + 1
    BY <2>1, <2>2, <2>3 DEF NoTask, EngineType, EnginePcs
  <2> QED
    BY <2>1, <2>3, <2>4
<1> QED
  BY <1>1, <1>2

\* Steps of the REST handlers: they may flag handlers, launch a task or mark it
\* cancelled, but never move it, and they leave the registry alone.
LEMMA RequestMoves ==
  ASSUME RunIInv, status' \in Statuses, req' \in [Clients -> RequestType],
         h' \in [Handlers -> HandlerType],
         \A g \in Handlers : h[g].running => h'[g].running,
         verdict' \in [Tests -> Verdicts], iface' \in BOOLEAN,
         \/ UNCHANGED <<eng, launches>>
         \/ Launch
         \/ eng' = [eng EXCEPT !.cancel = Executing] /\ UNCHANGED launches,
         UNCHANGED <<link, flips, active, mon, up, crashes>>
  PROVE  RunIInv'
<1>0. eng \in EngineType /\ launches \in 0..MaxLaunch
  BY DEF RunIInv, RunTypeOK
<1>1. /\ eng' \in EngineType /\ launches' \in 0..MaxLaunch
      /\ \/ eng'.pc = eng.pc /\ eng'.gen = eng.gen /\ eng'.i = eng.i
         \/ eng'.pc = "queued" /\ eng'.gen \in Handlers
  <2>1. CASE UNCHANGED <<eng, launches>>
    BY <1>0, <2>1
  <2>2. CASE Launch
    BY <2>2, LaunchTypes
  <2>3. CASE eng' = [eng EXCEPT !.cancel = Executing] /\ UNCHANGED launches
    BY <1>0, <2>3 DEF EngineType, Executing
  <2> QED
    BY <2>1, <2>2, <2>3
<1>2. RunTypeOK'
  BY <1>1 DEF RunIInv, RunTypeOK, CableTypeOK
<1>3. EngineInv'
  BY <1>1 DEF RunIInv, EngineInv, Executing, InTry, TestLeft
<1>4. HandlerReachable'
  BY <1>1 DEF RunIInv, EngineInv, Executing, HandlerReachable, Guarded, InTry
<1> QED
  BY <1>2, <1>3, <1>4 DEF RunIInv

\* The steps of a session that decides the run's status from its results.
Settling(c) ==
  \/ Complete(c) \/ Review(c)
  \/ \E t \in Tests, v \in Verdicts : UpdateResult(c, t, v)
  \/ SelectResults(c) \/ CommitSession(c)

\* Such a session touches the run's status, its results and itself, and writes no
\* status of a run at work.
LEMMA SettlingSteps ==
  ASSUME NEW c \in Clients, Settling(c)
  PROVE  /\ RowKept
         /\ UNCHANGED <<link, flips, active, h, mon, eng, launches, iface, req, up, crashes>>
         /\ status' = status
            \/ status' \in {"completed", "awaiting_review", "awaiting_manual"}
<1>1. OnlySession
  BY DEF Settling, Complete, Review, UpdateResult, Begin, SelectResults, CommitSession
<1>2. status' = status \/ CommitSession(c)
  BY DEF Settling, Complete, Review, UpdateResult, Begin, SelectResults
<1>3. ASSUME CommitSession(c)
      PROVE  status' = status
             \/ status' \in {"completed", "awaiting_review", "awaiting_manual"}
  BY <1>3 DEF CommitSession, Outcome
<1> QED
  BY <1>1, <1>2, <1>3 DEF OnlySession

\* Every step of a REST handler.
LEMMA RequestSteps ==
  ASSUME RunIInv, SessionTypeOK, NEW c \in Clients, Request(c) \/ Answering(c)
  PROVE  RunIInv'
<1> USE DEF OnlyRequest
<1> DEFINE KeptH == \A g \in Handlers : h[g].running => h'[g].running
<1>0. /\ status \in Statuses /\ req \in [Clients -> RequestType]
      /\ h \in [Handlers -> HandlerType] /\ iface \in BOOLEAN
      /\ verdict \in [Tests -> Verdicts]
      /\ active \in 0..MaxLaunch
      /\ active # 0 => active \in Handlers
  BY BoundsAssumption DEF RunIInv, RunTypeOK, CableTypeOK, Handlers
<1>a. ASSUME NEW k \in RequestKinds, NEW g \in 0..MaxLaunch, Await(c, k, g)
      PROVE  req' \in [Clients -> RequestType]
  BY <1>0, <1>a DEF Await, RequestType
<1>b. ASSUME Answer(c) PROVE req' \in [Clients -> RequestType]
  <2>1. NoRequest \in RequestType
    BY BoundsAssumption DEF NoRequest, RequestType
  <2> QED
    BY <1>0, <1>b, <2>1 DEF Answer
<1>c. 0 \in 0..MaxLaunch
  BY BoundsAssumption
<1>p. ASSUME PauseHandler PROVE h' \in [Handlers -> HandlerType] /\ KeptH
  <2>1. CASE active = 0
    BY <1>0, <1>p, <2>1 DEF PauseHandler
  <2>2. CASE active # 0
    <3> DEFINE x == ManuallyPaused(h[active])
    <3>1. x \in HandlerType /\ x.running = h[active].running
      BY <1>0, <2>2 DEF ManuallyPaused, HandlerType
    <3>2. h' = [h EXCEPT ![active] = x]
      BY <1>p, <2>2 DEF PauseHandler
    <3> HIDE DEF x
    <3> QED
      BY <1>0, <2>2, <3>1, <3>2
  <2> QED
    BY <2>1, <2>2
<1>r. ASSUME NEW g \in 0..MaxLaunch, ResumeWith(g)
      PROVE  /\ h' \in [Handlers -> HandlerType] /\ KeptH
             /\ status' \in Statuses
             /\ Launch \/ UNCHANGED <<eng, launches>>
  <2>0. g # 0 => g \in Handlers
    BY BoundsAssumption DEF Handlers
  <2>1. CASE g # 0 /\ Executing
    <3> DEFINE x == Resumed(h[g])
    <3>1. x \in HandlerType
      BY <1>0, <2>0, <2>1 DEF Resumed, HandlerType
    <3>2. x.running = h[g].running
      BY <1>0, <2>0, <2>1 DEF Resumed, HandlerType
    <3>3. h' = [h EXCEPT ![g] = x]
      BY <1>r, <2>1 DEF ResumeWith
    <3> HIDE DEF x
    <3>4. h' \in [Handlers -> HandlerType] /\ KeptH
      BY <1>0, <2>0, <2>1, <3>1, <3>2, <3>3
    <3> QED
      BY <1>r, <2>1, <3>4 DEF ResumeWith, Statuses
  <2>2. CASE ~(g # 0 /\ Executing)
    BY <1>0, <1>r, <2>2 DEF ResumeWith, Statuses
  <2> QED
    BY <2>1, <2>2
<1>1. CASE Start(c)
  BY <1>0, <1>1, RequestMoves DEF Start, Statuses
<1>2. CASE StartDiscover(c)
  BY <1>0, <1>2, <1>a, <1>c, RequestMoves DEF StartDiscover, RequestKinds
<1>3. CASE StartDiscovered(c)
  BY <1>0, <1>3, <1>b, RequestMoves DEF StartDiscovered, Statuses
<1>4. CASE Refused(c)
  BY <1>0, <1>4, <1>b, RequestMoves DEF Refused
<1>5. CASE Cancel(c)
  BY <1>0, <1>5, <1>a, <1>c, RequestMoves DEF Cancel, RequestKinds
<1>6. CASE Cancelled(c)
  BY <1>0, <1>6, <1>b, RequestMoves DEF Cancelled, Statuses
<1>7. CASE Pause(c)
  BY <1>0, <1>7, <1>p, RequestMoves DEF Pause, Statuses
<1>8. CASE Flag(c)
  <2>1. req' \in [Clients -> RequestType] /\ status' \in Statuses
    BY <1>0, <1>8, <1>a, <1>c DEF Flag, RequestKinds, Statuses
  <2> QED
    BY <1>0, <1>8, <1>p, <2>1, RequestMoves DEF Flag
<1>9. CASE Flagged(c)
  BY <1>0, <1>9, <1>b, RequestMoves DEF Flagged, Statuses
<1>10. CASE Resume(c)
  BY <1>0, <1>10, <1>r, RequestMoves DEF Resume
<1>11. CASE ResumeProbe(c)
  BY <1>0, <1>11, <1>a, RequestMoves DEF ResumeProbe, RequestKinds
<1>12. CASE ResumeProbed(c)
  <2>1. req[c].gen \in 0..MaxLaunch
    BY <1>0 DEF RequestType
  <2> QED
    BY <1>0, <1>12, <1>b, <1>r, <2>1, RequestMoves DEF ResumeProbed
<1>13. CASE Settling(c)
  <2>1. verdict' \in [Tests -> Verdicts]
    <3>1. CASE CommitSession(c)
      <4>1. tx[c].new \in Verdicts
        BY DEF SessionTypeOK, SessionType
      <4> QED
        BY <1>0, <3>1, <4>1 DEF CommitSession
    <3> QED
      BY <1>0, <1>13, <3>1
      DEF Settling, Complete, Review, UpdateResult, Begin, SelectResults
  <2> QED
    BY <1>0, <1>13, <2>1, SettlingSteps, RequestMoves DEF Statuses
<1>14. CASE SelectInterface(c)
  BY <1>0, <1>14, RequestMoves DEF SelectInterface, Statuses
<1> QED
  BY <1>1, <1>2, <1>3, <1>4, <1>5, <1>6, <1>7, <1>8, <1>9, <1>10, <1>11, <1>12,
     <1>13, <1>14
  DEF Request, Answering, Settling

\* A crash loses the tasks and handlers; a restart only fails orphaned runs.
LEMMA CrashSteps ==
  ASSUME RunIInv, Crash \/ RecoverOrphanedRuns
  PROVE  RunIInv'
<1>1. CASE Crash
  <2>1. Gone \in HandlerType /\ MonitorOff \in MonitorType
    <3>1. 0 \in 0..(MaxWaits - 1)
      BY BoundsAssumption
    <3> QED
      BY <3>1 DEF Gone, Fresh, HandlerType, MonitorOff, MonitorType
  <2>2. NoTask \in EngineType /\ NoRequest \in RequestType
    BY TestsCounted, BoundsAssumption
    DEF NoTask, EngineType, EnginePcs, NoRequest, RequestType
  <2>3. active' \in 0..MaxLaunch /\ crashes' \in 0..MaxCrashes
    BY <1>1, BoundsAssumption, EnvironmentAssumption DEF Crash, RunIInv, RunTypeOK
  <2>4. /\ h' \in [Handlers -> HandlerType] /\ mon' \in [Handlers -> MonitorType]
        /\ req' \in [Clients -> RequestType]
    BY <1>1, <2>1, <2>2 DEF Crash
  <2>5. RunTypeOK'
    BY <1>1, <2>2, <2>3, <2>4 DEF Crash, RunIInv, RunTypeOK, CableTypeOK
  <2> QED
    BY <1>1, <2>5 DEF Crash, RunIInv, NoTask, EngineInv, Executing,
                      HandlerReachable, Guarded, InTry
<1>2. CASE RecoverOrphanedRuns
  <2>1. RunTypeOK'
    BY <1>2 DEF RecoverOrphanedRuns, engineVars, RunIInv, RunTypeOK, CableTypeOK, Statuses
  <2> QED
    BY <1>2, <2>1 DEF RecoverOrphanedRuns, engineVars, RunIInv, EngineInv, Executing,
                      TestLeft, HandlerReachable
<1> QED
  BY <1>1, <1>2

--------------------------------------------------------------------------------
(* The sessions.                                                               *)

\* No session is under way before the first request.
LEMMA SessionInit == Init => SessionInv
<1>1. NoSession \in SessionType
  BY TestsCounted DEF NoSession, SessionType, Selected, Verdicts, Statuses
<1> SUFFICES ASSUME Init PROVE SessionInv
  OBVIOUS
<1>2. \A c \in Clients : tx[c] = NoSession
  BY DEF Init
<1>3. tx \in [Clients -> SessionType] /\ <<>> \in Selected
  BY <1>1 DEF Init, Selected
<1>4. NoSession.pc # "read"
  BY DEF NoSession
<1>5. SessionTypeOK
  BY <1>3 DEF Init, SessionTypeOK
<1>6. SessionRead
  BY <1>2, <1>4 DEF SessionRead
<1> QED
  BY <1>5, <1>6 DEF SessionInv

\* A step that leaves every session as it is, or ends it.
LEMMA SessionKept ==
  ASSUME SessionInv, \A c \in Clients : tx'[c] \in {tx[c], NoSession},
         tx' \in [Clients -> SessionType], seen' \in Selected, raced' \in BOOLEAN
  PROVE  SessionInv'
<1>1. ASSUME NEW c \in Clients, tx'[c].pc = "read"
      PROVE  tx'[c] = tx[c]
  BY <1>1 DEF NoSession
<1>2. SessionRead'
  BY <1>1 DEF SessionInv, SessionRead, PendingIn, Tests
<1> QED
  BY <1>2 DEF SessionInv, SessionTypeOK

\* The engine leaves the sessions of the clients alone.
LEMMA EngineSessions ==
  ASSUME RunTypeOK, SessionTypeOK, Engine \/ EngineFails
  PROVE  tx' = tx /\ seen' \in Selected /\ raced' \in BOOLEAN
<1> USE DEF OnlyEngine, OnlyFinalize, sessionVars, SessionTypeOK
<1>1. CASE EngReadResults \/ EngFinalize \/ EngCancelledFinalizing
  BY <1>1 DEF EngReadResults, EngFinalize, EngCancelledFinalizing, RunTypeOK, Selected
<1>2. CASE EngAcquire \/ EngLoad \/ EngEnter \/ EngSkip \/ EngManual \/ EngGate \/ EngProbe
           \/ EngSettle \/ EngAskInterface \/ EngPollInterface \/ EngTest \/ EngAdvance
  BY <1>2 DEF EngAcquire, EngLoad, EngEnter, EngSkip, EngManual, EngGate, EngProbe, EngSettle,
              EngAskInterface, EngPollInterface, EngTest, EngAdvance
<1>3. CASE EngLoopEnd \/ EngDone \/ EngUnwind \/ EngCancelledOutside \/ EngCancelledInTry
           \/ EngCancelledUnwinding \/ EngCancelSwallowed \/ EngineFails
  BY <1>3 DEF EngLoopEnd, EngDone, EngUnwind, EngCancelledOutside, EngCancelledInTry,
              EngCancelledUnwinding, EngCancelSwallowed, EngineFails, EngLoadFails, EngError
<1> QED
  BY <1>1, <1>2, <1>3 DEF Engine

\* Every step keeps the sessions well-formed and their reading of the results.
LEMMA SessionNext ==
  ASSUME RunTypeOK, SessionInv, [Next]_vars
  PROVE  SessionInv'
<1>0. /\ tx \in [Clients -> SessionType] /\ seen \in Selected /\ raced \in BOOLEAN
      /\ status \in Statuses /\ verdict \in [Tests -> Verdicts]
  BY DEF SessionInv, SessionTypeOK, RunTypeOK, CableTypeOK
<1>n. NoSession \in SessionType
  BY TestsCounted DEF NoSession, SessionType, Selected, Verdicts, Statuses
<1>1. ASSUME UNCHANGED sessionVars PROVE SessionInv'
  BY <1>0, <1>1, SessionKept DEF sessionVars
<1>2. CASE Engine \/ EngineFails
  BY <1>0, <1>2, EngineSessions, SessionKept DEF SessionInv
<1>3. CASE Cable \/ RecoverOrphanedRuns \/ UNCHANGED vars
  BY <1>1, <1>3 DEF Cable, RecoverOrphanedRuns, vars
<1>4. CASE Crash
  BY <1>0, <1>4, <1>n, SessionKept DEF Crash, Selected
<1>5. ASSUME NEW c \in Clients, Request(c) \/ Answering(c) PROVE SessionInv'
  <2> DEFINE S == tx[c]
  <2>0. S \in SessionType
    BY <1>0
  <2>1. ASSUME NEW x \in SessionType, tx' = [tx EXCEPT ![c] = x],
               x.pc = "read" =>
                 /\ \A t \in Tests : t = x.test => x.seen[t] = x.new
                 /\ x.kind # "update" => ~PendingIn(x.seen),
               seen' = seen, raced' \in BOOLEAN
        PROVE  SessionInv'
    <3>1. \A d \in Clients : tx'[d] = IF d = c THEN x ELSE tx[d]
      BY <1>0, <2>1
    <3>2. SessionRead'
      BY <2>1, <3>1 DEF SessionInv, SessionRead, PendingIn, Tests
    <3>3. SessionTypeOK'
      BY <1>0, <2>1 DEF SessionTypeOK
    <3> QED
      BY <3>2, <3>3 DEF SessionInv
  <2>2. ASSUME NEW x \in SessionType, Begin(c, x) PROVE SessionInv'
    <3> DEFINE y == [x EXCEPT !.pc = "loaded", !.loaded = status]
    <3>1. y \in SessionType /\ y.pc # "read"
      BY <1>0, <2>2 DEF SessionType
    <3>2. tx' = [tx EXCEPT ![c] = y] /\ seen' = seen /\ raced' \in BOOLEAN
      BY <1>0, <2>2 DEF Begin, OnlySession
    <3> HIDE DEF y
    <3> QED
      BY <2>1, <3>1, <3>2
  <2>3. CASE Complete(c) \/ Review(c)
    <3>1. ASSUME NEW k \in {"complete", "review"}
          PROVE  [NoSession EXCEPT !.kind = k] \in SessionType
      BY <1>n DEF SessionType
    <3> QED
      BY <2>2, <2>3, <3>1 DEF Complete, Review
  <2>4. ASSUME NEW t \in Tests, NEW v \in Verdicts, UpdateResult(c, t, v)
        PROVE  SessionInv'
    <3>1. t \in 0..Len(Tiers) /\ verdict[t] \in Verdicts
      BY <1>0, TestsCounted
    <3>2. [NoSession EXCEPT !.test = t, !.old = verdict[t], !.new = v] \in SessionType
      BY <1>n, <3>1 DEF SessionType
    <3> QED
      BY <2>2, <2>4, <3>2 DEF UpdateResult
  <2>5. CASE SelectResults(c)
    <3>1. View(c) \in [Tests -> Verdicts]
      BY <1>0, <2>0 DEF View, SessionType
    <3>2. CASE S.kind # "update" /\ PendingIn(View(c))
      <4>1. tx' = [tx EXCEPT ![c] = NoSession]
        BY <2>5, <3>2 DEF SelectResults
      <4> QED
        BY <1>0, <1>n, <2>1, <2>5, <4>1 DEF SelectResults, OnlySession, NoSession
    <3>3. CASE ~(S.kind # "update" /\ PendingIn(View(c)))
      <4> DEFINE y == [S EXCEPT !.pc = "read", !.seen = View(c)]
      <4>1. y \in SessionType
        BY <2>0, <3>1 DEF SessionType, Selected
      <4>2. y.seen = View(c) /\ y.kind = S.kind /\ y.test = S.test /\ y.new = S.new
        BY <2>0 DEF SessionType
      <4>3. \A t \in Tests : t = S.test => View(c)[t] = S.new
        BY DEF View
      <4>4. tx' = [tx EXCEPT ![c] = y] /\ seen' = seen /\ raced' \in BOOLEAN
        BY <1>0, <2>5, <3>3 DEF SelectResults, OnlySession
      <4> HIDE DEF y
      <4> QED
        BY <2>1, <3>3, <4>1, <4>2, <4>3, <4>4
    <3> QED
      BY <3>2, <3>3
  <2>6. CASE CommitSession(c)
    <3>1. Overtaken(c) \in BOOLEAN
      BY DEF Overtaken
    <3> QED
      BY <1>n, <2>1, <2>6, <3>1 DEF CommitSession, OnlySession, NoSession
  <2>7. CASE ~Settling(c)
    BY <1>1, <1>5, <2>7
    DEF Request, Answering, Settling, Start, StartDiscover, StartDiscovered, Refused, Cancel,
        Cancelled, Pause, Flag, Flagged, Resume, ResumeProbe, ResumeProbed, SelectInterface,
        OnlyRequest
  <2> QED
    BY <2>3, <2>4, <2>5, <2>6, <2>7 DEF Settling
<1> QED
  BY <1>2, <1>3, <1>4, <1>5 DEF Next

\* Every step of the run keeps the inductive invariant.
LEMMA RunNext == RunIInv /\ SessionTypeOK /\ [Next]_vars => RunIInv'
<1> SUFFICES ASSUME RunIInv, SessionTypeOK, [Next]_vars PROVE RunIInv'
  OBVIOUS
<1>1. CASE Engine \/ EngineFails
  BY <1>1, EngineSteps
<1>2. CASE Cable
  <2>1. CableTypeOK' /\ active' = active /\ Watched
    BY <1>2, CableSteps DEF Cable, RunIInv, RunTypeOK
  <2>2. RunTypeOK'
    BY <1>2, <2>1 DEF Cable, engineVars, RunIInv, RunTypeOK
  <2>3. EngineInv'
    BY <1>2 DEF Cable, engineVars, RunIInv, EngineInv, Executing, TestLeft
  <2>4. HandlerReachable'
    BY <1>2, <2>1 DEF Cable, engineVars, RunIInv, EngineInv, Executing,
                      HandlerReachable, Guarded, InTry, Watched
  <2> QED
    BY <2>2, <2>3, <2>4 DEF RunIInv
<1>3. ASSUME NEW c \in Clients, Request(c) \/ Answering(c) PROVE RunIInv'
  BY <1>3, RequestSteps
<1>4. CASE Crash \/ RecoverOrphanedRuns
  BY <1>4, CrashSteps
<1>5. CASE UNCHANGED vars
  <2>1. RunTypeOK'
    BY <1>5 DEF vars, cableVars, engineVars, RunIInv, RunTypeOK, CableTypeOK
  <2> QED
    BY <1>5, <2>1 DEF vars, cableVars, engineVars, RunIInv, EngineInv, Executing,
                      TestLeft, HandlerReachable
<1> QED
  BY <1>1, <1>2, <1>3, <1>4, <1>5 DEF Next

\* The inductive invariant holds in every reachable state.
LEMMA RunInvariant == Spec => [](RunIInv /\ SessionInv)
<1>1. Init => RunIInv /\ SessionInv
  BY RunInit, SessionInit
<1>2. RunIInv /\ SessionInv /\ [Next]_vars => RunIInv' /\ SessionInv'
  BY RunNext, SessionNext DEF RunIInv, SessionInv
<1> QED
  BY <1>1, <1>2, PTL DEF Spec

\* The run's part of the type invariant holds in every reachable state.
LEMMA RunTyped == Spec => []RunTypeOK
<1>1. RunIInv => RunTypeOK
  BY DEF RunIInv
<1> QED
  BY <1>1, RunInvariant, PTL

\* The run, its engine, its handlers, the requests and the sessions under way are
\* always well-formed.
THEOREM RunTypeCorrect == Spec => []TypeOK
<1>1. RunIInv /\ SessionInv => TypeOK
  BY DEF RunIInv, SessionInv, TypeOK
<1> QED
  BY <1>1, RunInvariant, PTL

\* Between the construction of the cable handler and the finally block of run(),
\* get_cable_handler returns the handler that guards the engine at work, live
\* and with a running monitor, after any relaunches, cancellations and crashes.
THEOREM HandlerIsReachable == Spec => []HandlerReachable
<1>1. RunIInv => HandlerReachable
  BY DEF RunIInv
<1> QED
  BY <1>1, RunInvariant, PTL

--------------------------------------------------------------------------------
(* Settled runs and their manual tests.                                        *)

Settled == {"completed", "awaiting_review"}

\* A step that leaves the verdicts alone and does not settle the run.
LEMMA NotSettling ==
  ASSUME SettledUnlessRaced, UNCHANGED <<verdict, raced>>,
         status' = status \/ status' \notin Settled
  PROVE  SettledUnlessRaced'
BY DEF SettledUnlessRaced, PendingManual, PendingIn, Settled, Tests

\* A step that gives a test its verdict and does not settle the run.
LEMMA Recording ==
  ASSUME RunTypeOK, SettledUnlessRaced, UNCHANGED <<status, raced>>,
         verdict' = [verdict EXCEPT ![eng.i] = "done"]
  PROVE  SettledUnlessRaced'
<1>1. PendingManual' => PendingManual
  BY DEF PendingManual, PendingIn, RunTypeOK, Tests
<1> QED
  BY <1>1 DEF SettledUnlessRaced

\* A session that nobody has overtaken commits what the results say.
LEMMA Committing ==
  ASSUME RunTypeOK, SessionInv, NEW c \in Clients, CommitSession(c)
  PROVE  SettledUnlessRaced'
<1> DEFINE S == tx[c]
<1> SUFFICES ASSUME ~Overtaken(c), status' \in Settled
             PROVE  ~PendingManual'
  BY DEF CommitSession, SettledUnlessRaced, Settled
<1>1. S.pc = "read" /\ S.kind \in {"complete", "review", "update"}
  BY DEF CommitSession, SessionInv, SessionTypeOK, SessionType
<1>2. \A t \in Tests : verdict'[t] = S.seen[t]
  BY <1>1 DEF CommitSession, Overtaken, SessionInv, SessionRead
<1>3. PendingManual' <=> PendingIn(S.seen)
  BY <1>2 DEF PendingManual, PendingIn, Tests
<1>4. CASE S.kind # "update"
  BY <1>1, <1>3, <1>4 DEF SessionInv, SessionRead
<1>5. CASE S.kind = "update"
  <2>1. status = S.loaded
    BY DEF Overtaken
  <2>2. status' = Outcome(c)
    BY <2>1 DEF CommitSession
  <2>3. CASE S.loaded \in Unsettled
    BY <1>5, <2>2, <2>3 DEF Outcome, Unsettled, Settled
  <2>4. CASE S.loaded \notin Unsettled
    BY <1>3, <1>5, <2>2, <2>4 DEF Outcome, Settled
  <2> QED
    BY <2>3, <2>4
<1> QED
  BY <1>4, <1>5

\* A monitor writes paused_cable or running, or leaves the status alone.
LEMMA CableSettlesNothing ==
  ASSUME CableNext
  PROVE  status' = status \/ status' \in {"paused_cable", "running"}
BY DEF CableNext, LinkDegrades, LinkRecovers, Monitor, GraceOver, MonitorWake,
       MonitorProbe, MonitorSeesLink, MonitorMissesLink, MonitorStable,
       MonitorRestable, MonitorKilled, MonitorWaited, MonitorPolled,
       MonitorSettled, PollAgain, StatusAfterDisconnect, StatusAfterReconnect

\* No step but an overtaken commit settles the run, or reopens a manual test of a
\* settled run, wrongly.
LEMMA SettledNext ==
  ASSUME RunTypeOK, SessionInv, SettledUnlessRaced, [Next]_vars
  PROVE  SettledUnlessRaced'
<1> DEFINE Goal == SettledUnlessRaced'
<1> USE DEF Settled, OnlyEngine, OnlyFinalize, sessionVars
<1>1. CASE EngSkip \/ EngTest
  BY <1>1, Recording, NotSettling DEF EngSkip, EngTest
<1>2. CASE EngFinalize
  <2>1. verdict = seen => (PendingManual' <=> PendingIn(seen))
    BY <1>2 DEF EngFinalize, PendingManual, PendingIn, Tests
  <2> QED
    BY <1>2, <2>1 DEF EngFinalize, SettledUnlessRaced
<1>3. CASE EngAcquire \/ EngLoad \/ EngEnter \/ EngManual \/ EngGate
  BY <1>3, NotSettling
  DEF EngAcquire, EngLoad, EngEnter, EngManual, EngGate, StatusAfterDisconnect
<1>4. CASE EngProbe \/ EngSettle \/ EngAskInterface \/ EngPollInterface \/ EngAdvance
  BY <1>4, NotSettling
  DEF EngProbe, EngSettle, BeginTest, EngAskInterface, EngPollInterface, EngAdvance
<1>5. CASE EngLoopEnd \/ EngReadResults \/ EngDone \/ EngUnwind \/ EngineFails
  BY <1>5, NotSettling
  DEF EngLoopEnd, EngReadResults, EngDone, EngUnwind, EngineFails, EngLoadFails, EngError
<1>6. CASE EngCancelledOutside \/ EngCancelledFinalizing \/ EngCancelledInTry
           \/ EngCancelledUnwinding \/ EngCancelSwallowed
  BY <1>6, NotSettling
  DEF EngCancelledOutside, EngCancelledFinalizing, EngCancelledInTry,
      EngCancelledUnwinding, EngCancelSwallowed
<1>7. CASE Cable
  BY <1>7, CableSettlesNothing, NotSettling DEF Cable, engineVars
<1>8. ASSUME NEW c \in Clients, Request(c) \/ Answering(c) PROVE Goal
  <2> USE DEF OnlyRequest
  <2>1. CASE Start(c) \/ StartDiscover(c) \/ StartDiscovered(c) \/ Refused(c)
    BY <2>1, NotSettling DEF Start, StartDiscover, StartDiscovered, Refused
  <2>2. CASE Cancel(c) \/ Cancelled(c) \/ Pause(c) \/ Flag(c) \/ Flagged(c)
    BY <2>2, NotSettling DEF Cancel, Cancelled, Pause, Flag, Flagged
  <2>3. CASE Resume(c) \/ ResumeProbe(c) \/ ResumeProbed(c)
    BY <2>3, NotSettling DEF Resume, ResumeProbe, ResumeProbed, ResumeWith
  <2>4. CASE CommitSession(c)
    BY <2>4, Committing
  <2>5. CASE SelectInterface(c)
    BY <2>5, NotSettling DEF SelectInterface
  <2>6. CASE Settling(c) /\ ~CommitSession(c)
    BY <2>6, NotSettling
    DEF Settling, Complete, Review, UpdateResult, Begin, SelectResults, OnlySession
  <2> QED
    BY <1>8, <2>1, <2>2, <2>3, <2>4, <2>5, <2>6 DEF Request, Answering, Settling
<1>9. CASE Crash \/ RecoverOrphanedRuns
  BY <1>9, NotSettling DEF Crash, RecoverOrphanedRuns, engineVars
<1>10. CASE UNCHANGED vars
  BY <1>10, NotSettling DEF vars, cableVars, engineVars
<1> QED
  BY <1>1, <1>2, <1>3, <1>4, <1>5, <1>6, <1>7, <1>8, <1>9, <1>10 DEF Next, Engine

\* However the engine's finalisation, complete, request-review, edits of results,
\* restarts and relaunches follow each other, and whatever they do between each
\* other's database round trips, a run is completed or awaiting review with a
\* guided manual test pending only if the last of them to commit was overtaken:
\* each one that is not puts right what the races before it have left.
THEOREM SettledHasNoManualWork == Spec => []SettledUnlessRaced
<1>1. Init => SettledUnlessRaced
  BY DEF Init, SettledUnlessRaced
<1>2. RunIInv /\ SessionInv /\ SettledUnlessRaced /\ [Next]_vars
        => SettledUnlessRaced'
  BY SettledNext DEF RunIInv
<1> QED
  BY <1>1, <1>2, RunInvariant, PTL DEF Spec

--------------------------------------------------------------------------------
(* Requests that race each other.  A request that awaits something between its    *)
(* check and its commit may be overtaken.  The theorems below say which races     *)
(* break a property: BlockedOnlyByRaces and OrphanedOnlyByRaces exclude those in   *)
(* the states of a behaviour, BlockedIsWatched and NoStatusOrphaned the requests   *)
(* that make them possible.                                                      *)

\* No task is launched while a start awaits its discovery.
StartsInTime == \A c \in Clients : req[c].kind = "discover" => ~Executing

\* A start that awaits a discovery is the only request there can be.
StartsAlone == "discover" \in Requests => \A c, d \in Clients : c = d

\* Only the kinds of requests sent are in flight, and a start that awaits a
\* discovery finds no task when it has its answer.
InFlightInv ==
  \A c \in Clients :
    /\ req[c].kind \in Requests \cup {"none"}
    /\ req[c].kind = "discover" => ~Executing

\* The engine answers no request and creates no task.
LEMMA EngineLaunchesNothing ==
  ASSUME Engine \/ EngineFails
  PROVE  req' = req /\ Executing
<1>1. CASE EngineFails
  BY <1>1 DEF EngineFails, EngLoadFails, EngError, EngineAt, Executing, OnlyEngine, InTry
<1>2. CASE EngAcquire \/ EngLoad \/ EngEnter \/ EngSkip \/ EngManual \/ EngGate \/ EngProbe
  BY <1>2 DEF EngAcquire, EngLoad, EngEnter, EngSkip, EngManual, EngGate, EngProbe,
              EngineAt, Executing, OnlyEngine
<1>3. CASE EngSettle \/ EngAskInterface \/ EngPollInterface \/ EngTest \/ EngAdvance
  BY <1>3 DEF EngSettle, EngAskInterface, EngPollInterface, EngTest, EngAdvance, EngineAt,
              Executing, OnlyEngine
<1>4. CASE EngLoopEnd \/ EngReadResults \/ EngFinalize \/ EngDone \/ EngUnwind
  BY <1>4 DEF EngLoopEnd, EngReadResults, EngFinalize, EngDone, EngUnwind, EngineAt, Executing,
              OnlyEngine, OnlyFinalize
<1>6. CASE EngCancelledFinalizing
  BY <1>6 DEF EngCancelledFinalizing, Executing, OnlyFinalize
<1>5. CASE EngCancelledOutside \/ EngCancelledInTry \/ EngCancelledUnwinding
           \/ EngCancelSwallowed
  BY <1>5 DEF EngCancelledOutside, EngCancelledInTry, EngCancelledUnwinding,
              EngCancelSwallowed, Executing, OnlyEngine, InTry
<1> QED
  BY <1>1, <1>2, <1>3, <1>4, <1>5, <1>6 DEF Engine

\* A request under way is of a kind that was sent, and a start in two steps still
\* finds no task.
LEMMA InFlightNext ==
  ASSUME StartsAlone, RunTypeOK, InFlightInv, [Next]_vars
  PROVE  InFlightInv'
<1>0. req \in [Clients -> RequestType]
  BY DEF RunTypeOK
<1>1. CASE Engine \/ EngineFails
  BY <1>1, EngineLaunchesNothing DEF InFlightInv, Executing
<1>2. CASE Cable
  BY <1>2 DEF Cable, engineVars, InFlightInv, Executing
<1>3. ASSUME NEW c \in Clients, Request(c) \/ Answering(c)
      PROVE  InFlightInv'
  <2> USE DEF OnlyRequest, Idle, InFlight, Executing
  <2>1. ASSUME req' = req, Executing' => Executing
        PROVE  InFlightInv'
    BY <2>1 DEF InFlightInv
  <2>2. ASSUME Answer(c), "discover" \in Requests \/ (Executing' => Executing)
        PROVE  InFlightInv'
    <3>1. req'[c].kind = "none" /\ \A d \in Clients \ {c} : req'[d] = req[d]
      BY <1>0, <2>2 DEF Answer, NoRequest
    <3>2. \A d \in Clients \ {c} : req[d].kind = "discover" => (Executing' => Executing)
      BY <2>2 DEF StartsAlone
    <3> QED
      BY <3>1, <3>2 DEF InFlightInv
  <2>3. ASSUME NEW kind \in Requests, NEW g, Await(c, kind, g), Executing' => Executing,
               kind = "discover" => ~Executing
        PROVE  InFlightInv'
    <3>1. req'[c].kind = kind /\ \A d \in Clients \ {c} : req'[d] = req[d]
      BY <1>0, <2>3 DEF Await
    <3> QED
      BY <2>3, <3>1 DEF InFlightInv
  <2>4. CASE Start(c)
    <3>1. \A d \in Clients : req[d].kind # "discover"
      BY <2>4 DEF Start, StartsAlone, InFlightInv
    <3> QED
      BY <2>4, <3>1 DEF Start, InFlightInv
  <2>5. CASE StartDiscover(c)
    BY <2>3, <2>5 DEF StartDiscover
  <2>6. CASE StartDiscovered(c)
    <3>1. "discover" \in Requests
      BY <2>6 DEF StartDiscovered, InFlightInv
    <3> QED
      BY <2>2, <2>6, <3>1 DEF StartDiscovered
  <2>7. CASE Refused(c)
    BY <2>2, <2>7 DEF Refused
  <2>8. CASE Cancel(c)
    <3>1. Executing' = Executing
      BY <2>8 DEF Cancel, RunTypeOK, EngineType
    <3> QED
      BY <2>3, <2>8, <3>1 DEF Cancel
  <2>9. CASE Cancelled(c) \/ Flagged(c)
    BY <2>2, <2>9 DEF Cancelled, Flagged
  <2>10. CASE Pause(c) \/ SelectInterface(c)
    BY <2>1, <2>10 DEF Pause, SelectInterface
  <2>11. CASE Flag(c)
    BY <2>1, <2>3, <2>11 DEF Flag
  <2>12. ASSUME NEW g, ResumeWith(g), req' = req \/ Answer(c), req[c].kind # "discover"
         PROVE  InFlightInv'
    <3>1. \A d \in Clients : req'[d] = req[d] \/ req'[d].kind = "none"
      BY <1>0, <2>12 DEF Answer, NoRequest
    <3>2. ASSUME NEW d \in Clients, req[d].kind = "discover"
          PROVE  FALSE
      BY <2>12, <3>2 DEF StartsAlone, InFlightInv
    <3> QED
      BY <3>1, <3>2 DEF InFlightInv
  <2>13. CASE Resume(c)
    BY <2>12, <2>13 DEF Resume
  <2>14. CASE ResumeProbe(c)
    BY <2>3, <2>14 DEF ResumeProbe
  <2>15. CASE ResumeProbed(c)
    BY <2>12, <2>15 DEF ResumeProbed
  <2>16. CASE Settling(c)
    BY <2>1, <2>16, SettlingSteps
  <2> QED
    BY <1>3, <2>4, <2>5, <2>6, <2>7, <2>8, <2>9, <2>10, <2>11, <2>13, <2>14, <2>15, <2>16
    DEF Request, Answering, Settling
<1>4. CASE Crash
  BY <1>4 DEF Crash, InFlightInv, NoRequest
<1>5. CASE RecoverOrphanedRuns
  BY <1>5 DEF RecoverOrphanedRuns, engineVars, InFlightInv, Executing
<1>6. CASE UNCHANGED vars
  BY <1>6 DEF vars, engineVars, InFlightInv, Executing
<1> QED
  BY <1>1, <1>2, <1>3, <1>4, <1>5, <1>6 DEF Next

\* What requests in flight hold is so in every reachable state.
LEMMA InFlightInvariant == ASSUME StartsAlone PROVE Spec => []InFlightInv
<1>1. Init => InFlightInv
  BY DEF Init, InFlightInv, NoRequest
<1>2. RunTypeOK /\ InFlightInv /\ [Next]_vars => InFlightInv'
  BY InFlightNext
<1> QED
  BY <1>1, <1>2, RunTyped, PTL DEF Spec

--------------------------------------------------------------------------------
(* Cable pauses.                                                                 *)

\* A live handler is paused.
SomePaused == \E g \in Handlers : mon[g].pc # "off" /\ h[g].paused

PauseWatched == status = "paused_cable" => SomePaused

\* A step of one monitor that keeps its handler paused, or ends the cable pause,
\* and begins one only with its handler paused.
LEMMA PauseStep ==
  ASSUME CableTypeOK, PauseWatched, NEW g \in Handlers, mon[g].pc # "off", Watched,
         NEW x, h' = [h EXCEPT ![g] = x],
         h[g].paused => x.paused \/ status' # "paused_cable",
         status' = status \/ status' # "paused_cable" \/ x.paused
  PROVE  PauseWatched'
<1> SUFFICES ASSUME status' = "paused_cable" PROVE SomePaused'
  BY DEF PauseWatched
<1>1. mon'[g].pc # "off" /\ h'[g] = x
  BY DEF CableTypeOK, Watched
<1>2. CASE x.paused
  BY <1>1, <1>2 DEF SomePaused
<1>3. CASE ~x.paused
  <2>1. status = "paused_cable" /\ ~h[g].paused
    BY <1>3
  <2>2. PICK k \in Handlers : mon[k].pc # "off" /\ h[k].paused
    BY <2>1 DEF PauseWatched, SomePaused
  <2>3. k # g /\ h'[k] = h[k] /\ mon'[k].pc # "off"
    BY <2>1, <2>2 DEF CableTypeOK, Watched
  <2> QED
    BY <2>2, <2>3 DEF SomePaused
<1> QED
  BY <1>2, <1>3

\* Every step of the monitors and of the device.
LEMMA CableKeepsPauses ==
  ASSUME CableTypeOK, PauseWatched, CableNext
  PROVE  PauseWatched'
<1>0. Watched
  BY CableSteps
<1>1. CASE UNCHANGED <<status, h>>
  BY <1>0, <1>1 DEF PauseWatched, SomePaused, Watched
<1>2. ASSUME NEW g \in Handlers, GraceOver(g)
      PROVE  PauseWatched'
  <2>1. status' = status /\ \A k \in Handlers : h'[k].paused = h[k].paused
    BY <1>2, Records DEF GraceOver, CableTypeOK, HandlerType
  <2> QED
    BY <1>0, <2>1 DEF PauseWatched, SomePaused, Watched
<1>3. ASSUME NEW g \in Handlers, Monitor(g)
      PROVE  PauseWatched'
  <2> DEFINE H == h[g]
  <2> USE DEF At
  <2>0. H \in HandlerType /\ \A n \in Nat : [H EXCEPT !.fails = n].paused = H.paused
    BY Records DEF HandlerType
  <2>1. mon[g].pc # "off"
    BY <1>3 DEF Monitor, MonitorWake, MonitorProbe, MonitorSeesLink, MonitorMissesLink,
                MonitorStable, MonitorRestable, MonitorKilled, MonitorWaited, MonitorPolled,
                MonitorSettled
  <2>2. CASE MonitorWake(g) \/ MonitorProbe(g) \/ MonitorKilled(g) \/ MonitorWaited(g)
    BY <1>1, <2>2 DEF MonitorWake, MonitorProbe, MonitorKilled, MonitorWaited
  <2>3. CASE MonitorSeesLink(g) \/ MonitorStable(g)
    <3>1. status' = status
          /\ (h' = h \/ h' = [h EXCEPT ![g] = [H EXCEPT !.fails = 0]])
      BY <2>3 DEF MonitorSeesLink, MonitorStable, CableTypeOK
    <3>2. CASE h' = h
      BY <1>1, <3>1, <3>2
    <3>3. CASE h' = [h EXCEPT ![g] = [H EXCEPT !.fails = 0]]
      <4>1. [H EXCEPT !.fails = 0].paused = H.paused
        BY <2>0
      <4> QED
        BY <1>0, <2>1, <3>1, <3>3, <4>1, PauseStep
    <3> QED
      BY <3>1, <3>2, <3>3
  <2>4. CASE MonitorMissesLink(g)
    <3> DEFINE fails == IF mon[g].grace THEN H.fails ELSE H.fails + 1
               n == IF fails > FailThreshold THEN FailThreshold ELSE fails
               lost == ~mon[g].grace /\ fails >= FailThreshold /\ ~H.paused
               x == [H EXCEPT !.fails = n]
               y == IF lost THEN CablePaused(x, "cable") ELSE x
    <3>1. n \in Nat
      BY Records, BoundsAssumption
    <3>2. x.paused = H.paused /\ CablePaused(x, "cable").paused = TRUE
      BY <2>0, <3>1 DEF CablePaused, HandlerType
    <3>3. h' = [h EXCEPT ![g] = y]
          /\ status' = IF lost THEN StatusAfterDisconnect ELSE status
      BY <2>4 DEF MonitorMissesLink
    <3>4. H.paused => y.paused
      BY <3>2
    <3>5. status' = status \/ y.paused
      BY <3>2, <3>3
    <3> HIDE DEF y
    <3> QED
      BY <1>0, <2>1, <3>3, <3>4, <3>5, PauseStep
  <2>5. ASSUME h' = [h EXCEPT ![g] = Resumed(H)]
               \/ h' = [h EXCEPT ![g] = [Resumed(H) EXCEPT !.fails = 0]],
               status' = StatusAfterReconnect(g)
        PROVE  PauseWatched'
    <3>1. PICK x : h' = [h EXCEPT ![g] = x]
                   /\ (x = Resumed(H) \/ x = [Resumed(H) EXCEPT !.fails = 0])
      BY <2>5
    <3>2. ~H.paused => ~x.paused
      BY <2>0, <3>1 DEF Resumed, HandlerType
    <3>3. status' = status \/ status' # "paused_cable"
      BY <2>5 DEF StatusAfterReconnect
    <3>4. H.paused => status' # "paused_cable"
      BY <2>5 DEF StatusAfterReconnect
    <3> QED
      BY <1>0, <2>1, <3>1, <3>3, <3>4, PauseStep
  <2>6. CASE MonitorRestable(g)
    <3>1. CASE Reachable
      BY <2>5, <2>6, <3>1 DEF MonitorRestable
    <3>2. CASE ~Reachable
      <4>1. h' = [h EXCEPT ![g] = [H EXCEPT !.fails = 0]] /\ status' = status
        BY <2>6, <3>2 DEF MonitorRestable
      <4>2. [H EXCEPT !.fails = 0].paused = H.paused
        BY <2>0
      <4> QED
        BY <1>0, <2>1, <4>1, <4>2, PauseStep
    <3> QED
      BY <3>1, <3>2
  <2>7. ASSUME PollAgain(g) PROVE PauseWatched'
    <3>1. h' = [h EXCEPT ![g] = H] /\ (status' = status \/ H.paused)
      BY <2>7, Records DEF PollAgain
    <3> QED
      BY <1>0, <2>1, <3>1, PauseStep
  <2>8. CASE MonitorPolled(g)
    BY <1>1, <2>7, <2>8 DEF MonitorPolled
  <2>9. CASE MonitorSettled(g)
    BY <2>5, <2>7, <2>9 DEF MonitorSettled
  <2> QED
    BY <1>3, <2>2, <2>3, <2>4, <2>6, <2>8, <2>9 DEF Monitor
<1> QED
  BY <1>1, <1>2, <1>3 DEF CableNext, LinkDegrades, LinkRecovers

\* No monitor resumes the handler, and nobody replaces it, while the commit of a
\* pause-cable is outstanding.
FlagsHold == RowLocked /\ eng.pc \in InTry \cup {"enter"} => SomePaused

\* From the handler's construction to the end of its loop, the engine waits on a
\* cable pause only while some live handler is paused.
BlockedInv == eng.pc \in InTry \cup {"enter"} => PauseWatched

\* Every step keeps a waiting engine under the eye of a paused handler: a step that
\* ends the pause ends the wait.
LEMMA BlockedNext ==
  ASSUME RunIInv, StartsInTime, FlagsHold, BlockedInv, [Next]_vars
  PROVE  BlockedInv'
<1> DEFINE Loop == InTry \cup {"enter"}
<1>0. RunTypeOK /\ CableTypeOK /\ eng \in EngineType
  BY DEF RunIInv, RunTypeOK
<1>1. ASSUME eng'.pc \in Loop => eng.pc \in Loop, UNCHANGED <<h, mon>>,
             status' = status \/ status' # "paused_cable"
      PROVE  BlockedInv'
  BY <1>1 DEF BlockedInv, PauseWatched, SomePaused
<1>2. ASSUME eng'.pc \notin Loop PROVE BlockedInv'
  BY <1>2 DEF BlockedInv
<1>3. ASSUME NEW pc \in EnginePcs, EngineGo(pc) PROVE eng'.pc = pc
  BY <1>0, <1>3 DEF EngineGo, EngineType
<1>4. NextTest => eng'.pc = "next"
  BY <1>0 DEF NextTest, EngineType
<1> USE DEF OnlyEngine, EngineAt, InTry, EnginePcs
<1>5. CASE EngAcquire \/ EngReadResults \/ EngFinalize \/ EngError
  BY <1>2, <1>3, <1>5 DEF EngAcquire, EngReadResults, EngFinalize, EngError
<1>6. CASE EngLoopEnd \/ EngUnwind
  BY <1>2, <1>3, <1>6 DEF EngLoopEnd, EngUnwind
<1>7. CASE EngLoadFails \/ EngDone \/ EngCancelledOutside \/ EngCancelledFinalizing
  BY <1>2, <1>7
  DEF EngLoadFails, EngDone, EngCancelledOutside, EngCancelledFinalizing, NoTask
<1>8. CASE EngCancelledInTry \/ EngCancelledUnwinding \/ EngCancelSwallowed
  <2>1. eng'.pc \in {"leaving", "stopping"}
    BY <1>0, <1>8 DEF EngCancelledInTry, EngCancelledUnwinding, EngCancelSwallowed, EngineType
  <2> QED
    BY <1>2, <2>1
<1>9. CASE EngLoad
  <2>1. eng.gen \in Handlers
    BY <1>9 DEF EngLoad, RunIInv, EngineInv, Executing
  <2>2. mon'[eng.gen].pc # "off"
    BY <1>0, <1>9, <2>1 DEF EngLoad, CableTypeOK, MonitorOn, MonitorOff
  <2>3. ~CanExecute => h'[eng.gen].paused
    BY <1>0, <1>9, <2>1 DEF EngLoad, CableTypeOK, CablePaused, Fresh
  <2>4. CanExecute => status' = "running"
    BY <1>9 DEF EngLoad
  <2> QED
    BY <2>1, <2>2, <2>3, <2>4 DEF BlockedInv, PauseWatched, SomePaused
<1>10. CASE EngEnter \/ EngGate \/ EngProbe \/ EngSettle \/ EngTest
  BY <1>1, <1>3, <1>10 DEF EngEnter, EngGate, EngProbe, EngSettle, EngTest, BeginTest
<1>11. CASE EngSkip \/ EngManual \/ EngAdvance
  BY <1>1, <1>4, <1>11 DEF EngSkip, EngManual, EngAdvance
<1>12. CASE EngAskInterface \/ EngPollInterface
  BY <1>1, <1>3, <1>12 DEF EngAskInterface, EngPollInterface
<1>13. CASE Cable
  <2>1. eng' = eng
    BY <1>13 DEF Cable, engineVars
  <2> QED
    BY <1>0, <1>13, <2>1, CableKeepsPauses DEF Cable, BlockedInv
<1>14. ASSUME NEW c \in Clients, Request(c) \/ Answering(c)
       PROVE  BlockedInv'
  <2> USE DEF OnlyRequest, Idle, InFlight
  <2>1. ASSUME Launch, ~Executing PROVE eng'.pc \notin Loop
    BY <2>1 DEF Launch, NoTask
  <2>2. CASE Start(c)
    BY <1>2, <2>1, <2>2 DEF Start
  <2>3. CASE StartDiscovered(c)
    BY <1>2, <2>1, <2>3 DEF StartDiscovered, StartsInTime
  <2>4. CASE StartDiscover(c) \/ Refused(c) \/ ResumeProbe(c) \/ SelectInterface(c)
             \/ Cancelled(c)
    BY <1>1, <2>4 DEF StartDiscover, Refused, ResumeProbe, SelectInterface, Cancelled
  <2>5. CASE Cancel(c)
    <3>1. eng'.pc = eng.pc
      BY <1>0, <2>5 DEF Cancel, EngineType
    <3> QED
      BY <1>1, <2>5, <3>1 DEF Cancel
  <2>6. CASE Flag(c)
    <3>1. eng' = eng /\ (active # 0 => status' = status /\ status # "paused_cable")
      BY <2>6 DEF Flag, Flaggable
    <3>2. eng.pc \in Loop => active # 0
      BY DEF RunIInv, HandlerReachable, EngineInv, Guarded, Executing, Handlers
    <3> QED
      BY <3>1, <3>2 DEF BlockedInv, PauseWatched
  <2>11. CASE Flagged(c)
    <3>1. RowLocked /\ UNCHANGED <<eng, h, mon>>
      BY <2>11 DEF Flagged, RowLocked
    <3> QED
      BY <3>1 DEF FlagsHold, BlockedInv, PauseWatched, SomePaused
  <2>7. CASE Pause(c)
    BY <2>7 DEF Pause, BlockedInv, PauseWatched
  <2>8. ASSUME NEW g, ResumeWith(g) PROVE BlockedInv'
    BY <2>8 DEF ResumeWith, BlockedInv, PauseWatched
  <2>9. CASE Resume(c) \/ ResumeProbed(c)
    BY <2>8, <2>9 DEF Resume, ResumeProbed
  <2>10. CASE Settling(c)
    BY <1>1, <2>10, SettlingSteps
  <2> QED
    BY <1>14, <2>2, <2>3, <2>4, <2>5, <2>6, <2>7, <2>9, <2>10, <2>11
    DEF Request, Answering, Settling
<1>15. CASE Crash
  BY <1>2, <1>15 DEF Crash, NoTask
<1>16. CASE RecoverOrphanedRuns
  BY <1>1, <1>16 DEF RecoverOrphanedRuns, engineVars
<1>17. CASE UNCHANGED vars
  BY <1>1, <1>17 DEF vars, cableVars, engineVars
<1> QED
  BY <1>5, <1>6, <1>7, <1>8, <1>9, <1>10, <1>11, <1>12, <1>13, <1>14, <1>15, <1>16, <1>17
  DEF Next, Engine, EngineFails

\* The engine never waits on a cable pause that no handler will end, through any
\* relaunches, outages, pauses, resumes and crashes, but for two races: a start that
\* awaits its discovery while another one launches the run, and a monitor that resumes
\* the handler between the flush of a pause-cable and its commit.
THEOREM BlockedOnlyByRaces ==
  Spec /\ []StartsInTime /\ []FlagsHold => []BlockedMeansWatched
<1>1. Init => BlockedInv
  BY DEF Init, NoTask, BlockedInv, InTry
<1>2. RunIInv /\ StartsInTime /\ FlagsHold /\ BlockedInv /\ [Next]_vars => BlockedInv'
  BY BlockedNext
<1>3. BlockedInv => BlockedMeansWatched
  BY DEF BlockedInv, PauseWatched, SomePaused, BlockedMeansWatched
<1> QED
  BY <1>1, <1>2, <1>3, RunInvariant, PTL DEF Spec

\* Without pause-cable requests, and with no start in two steps beside another
\* client, neither race is possible.
THEOREM BlockedIsWatched ==
  ASSUME "flag" \notin Requests, StartsAlone
  PROVE  Spec => []BlockedMeansWatched
<1>1. InFlightInv => StartsInTime /\ FlagsHold
  BY DEF InFlightInv, StartsInTime, FlagsHold, RowLocked
<1> QED
  BY <1>1, InFlightInvariant, BlockedOnlyByRaces, PTL

--------------------------------------------------------------------------------
(* Statuses that promise a working engine.                                       *)

\* Somebody is still going to settle the status: a cancel request under way, or a
\* monitor left behind.
Unsettling ==
  \/ \E c \in Clients : req[c].kind = "cancel"
  \/ \E g \in Handlers : mon[g].pc # "off"

\* A task that will not write the status again.
Spent ==
  \/ eng.pc \in {"none", "closing", "leaving"}
  \/ eng.cancel /\ eng.pc \in {"queued", "load", "enter", "finalize"}

OrphanInv == up /\ Spent => status \notin Orphanable \/ Unsettling

\* No task comes to its end while a resume awaits its probe.
ResumesInTime ==
  \A c \in Clients : req[c].kind = "resume" /\ Executing /\ Spent => Unsettling

\* Nobody replaces the engine's "failed" between an exception and the finally block.
FailuresLast == eng.pc = "unwind" => status \notin Orphanable

\* pause-cable is not asked for once the engine is done with its part of the run.
FlagsRunning == \A c \in Clients : Flag(c) => status = "running"

\* The row of a run whose pause-cable is not yet committed keeps its status.
FlagInv ==
  \A c \in Clients :
    req[c].kind = "flag" =>
      up /\ status = "running" /\ \A d \in Clients : req[d].kind = "flag" => c = d

\* The row's lock keeps it so.
LEMMA FlagNext ==
  ASSUME RunTypeOK, FlagInv, FlagsRunning, [Next]_vars
  PROVE  FlagInv'
<1>0. req \in [Clients -> RequestType]
  BY DEF RunTypeOK
<1>1. ASSUME RowKept, UNCHANGED <<req, up>> PROVE FlagInv'
  BY <1>1 DEF FlagInv, RowKept, RowLocked
<1>2. CASE Engine \/ EngineFails
  <2>1. OnlyEngine \/ OnlyFinalize
    BY <1>2 DEF Engine, EngineFails, EngLoadFails, EngError, EngAcquire, EngLoad, EngEnter,
       EngSkip, EngManual, EngGate, EngProbe, EngSettle, EngAskInterface, EngPollInterface,
       EngTest, EngAdvance, EngLoopEnd, EngReadResults, EngFinalize, EngDone, EngUnwind,
       EngCancelledOutside, EngCancelledFinalizing, EngCancelledInTry, EngCancelledUnwinding,
       EngCancelSwallowed
  <2> QED
    BY <1>1, <2>1 DEF OnlyEngine, OnlyFinalize
<1>3. CASE Cable
  BY <1>1, <1>3 DEF Cable
<1>4. ASSUME NEW c \in Clients, Request(c) \/ Answering(c) PROVE FlagInv'
  <2> USE DEF OnlyRequest, Idle, InFlight
  <2>1. ASSUME RowKept, UNCHANGED up, \A d \in Clients : req'[d].kind = "flag" => req'[d] = req[d]
        PROVE  FlagInv'
    BY <2>1 DEF FlagInv, RowKept, RowLocked
  <2>2. ASSUME Answer(c)
        PROVE  req'[c].kind = "none" /\ \A d \in Clients \ {c} : req'[d] = req[d]
    BY <1>0, <2>2 DEF Answer, NoRequest
  <2>3. ASSUME NEW kind, NEW g, Await(c, kind, g)
        PROVE  req'[c].kind = kind /\ \A d \in Clients \ {c} : req'[d] = req[d]
    BY <1>0, <2>3 DEF Await
  <2>4. CASE Start(c) \/ Pause(c) \/ Resume(c) \/ SelectInterface(c)
    BY <1>1, <2>4 DEF Start, Pause, Resume, SelectInterface
  <2>5. CASE StartDiscovered(c) \/ Refused(c) \/ Cancelled(c) \/ ResumeProbed(c)
    BY <2>1, <2>2, <2>5 DEF StartDiscovered, Refused, Cancelled, ResumeProbed
  <2>6. CASE StartDiscover(c) \/ Cancel(c) \/ ResumeProbe(c)
    BY <2>1, <2>3, <2>6 DEF StartDiscover, Cancel, ResumeProbe
  <2>7. CASE Flag(c)
    <3>1. status = "running" /\ ~RowLocked /\ up
      BY <2>7 DEF Flag, FlagsRunning
    <3>2. CASE req' = req
      BY <2>7, <3>1, <3>2 DEF FlagInv, RowLocked
    <3>3. CASE Await(c, "flag", 0) /\ status' = status
      BY <2>3, <2>7, <3>1, <3>3 DEF Flag, FlagInv, RowLocked
    <3> QED
      BY <2>7, <3>2, <3>3 DEF Flag
  <2>8. CASE Flagged(c)
    BY <2>2, <2>8 DEF Flagged, FlagInv
  <2>9. CASE Settling(c)
    BY <1>1, <2>9, SettlingSteps
  <2> QED
    BY <1>4, <2>4, <2>5, <2>6, <2>7, <2>8, <2>9 DEF Request, Answering, Settling
<1>5. CASE Crash
  BY <1>5 DEF Crash, FlagInv, NoRequest
<1>6. CASE RecoverOrphanedRuns
  BY <1>6 DEF RecoverOrphanedRuns, FlagInv
<1>7. CASE UNCHANGED vars
  BY <1>1, <1>7 DEF vars, cableVars, RowKept
<1> QED
  BY <1>2, <1>3, <1>4, <1>5, <1>6, <1>7 DEF Next

\* Once the task has written its last status nobody promises an engine any more.
LEMMA OrphanNext ==
  ASSUME RunIInv, FlagInv, StartsInTime, ResumesInTime, FailuresLast, FlagsRunning,
         OrphanInv, [Next]_vars
  PROVE  OrphanInv'
<1>0. /\ RunTypeOK /\ CableTypeOK /\ eng \in EngineType /\ eng.pc \in EnginePcs
      /\ req \in [Clients -> RequestType]
  BY DEF RunIInv, RunTypeOK, EngineType
<1>1. ASSUME Spent' => Spent, up' => up, UNCHANGED <<mon, req>>,
             status' = status \/ status' \notin Orphanable
      PROVE  OrphanInv'
  BY <1>1 DEF OrphanInv, Unsettling
<1>2. ASSUME ~Spent' PROVE OrphanInv'
  BY <1>2 DEF OrphanInv
<1>3. ASSUME status' \notin Orphanable PROVE OrphanInv'
  BY <1>3 DEF OrphanInv
<1>4. ASSUME NEW pc \in EnginePcs, EngineGo(pc)
      PROVE  eng'.pc = pc /\ eng'.cancel = eng.cancel
  BY <1>0, <1>4 DEF EngineGo, EngineType
<1>5. NextTest => eng'.pc = "next"
  BY <1>0 DEF NextTest, EngineType
<1> USE DEF OnlyEngine, EngineAt, InTry, EnginePcs, Spent
<1>6. CASE EngAcquire
  BY <1>2, <1>4, <1>6 DEF EngAcquire
<1>7. CASE EngFinalize
  BY <1>3, <1>4, <1>7 DEF EngFinalize, Orphanable
<1>24. CASE EngReadResults
  BY <1>2, <1>4, <1>24 DEF EngReadResults
<1>8. CASE EngError \/ EngUnwind \/ EngCancelledUnwinding
  BY <1>3, <1>8 DEF EngError, EngUnwind, EngCancelledUnwinding, FailuresLast, Orphanable
<1>9. CASE EngLoopEnd
  BY <1>2, <1>4, <1>9 DEF EngLoopEnd
<1>10. CASE EngLoadFails
  BY <1>3, <1>10 DEF EngLoadFails, NoTask, Orphanable
<1>11. CASE EngDone \/ EngCancelledOutside \/ EngCancelledFinalizing
  BY <1>1, <1>11
  DEF EngDone, EngCancelledOutside, EngCancelledFinalizing, OnlyFinalize, NoTask
<1>12. CASE EngCancelledInTry
  <2>1. eng'.pc = "leaving"
    BY <1>0, <1>12 DEF EngCancelledInTry, EngineType
  <2> QED
    BY <1>3, <1>12, <2>1 DEF EngCancelledInTry, Orphanable
<1>13. CASE EngCancelSwallowed
  <2>1. eng'.pc = eng.pc /\ eng.pc \in {"stopping", "leaving"} /\ eng'.cancel = FALSE
    BY <1>0, <1>13 DEF EngCancelSwallowed, EngineType
  <2> QED
    BY <1>1, <1>13, <2>1 DEF EngCancelSwallowed
<1>14. CASE EngLoad \/ EngEnter
  BY <1>2, <1>4, <1>14 DEF EngLoad, EngEnter
<1>15. CASE EngGate \/ EngProbe \/ EngSettle \/ EngTest
  BY <1>2, <1>4, <1>15 DEF EngGate, EngProbe, EngSettle, EngTest, BeginTest
<1>16. CASE EngSkip \/ EngManual \/ EngAdvance
  BY <1>2, <1>5, <1>16 DEF EngSkip, EngManual, EngAdvance
<1>17. CASE EngAskInterface
  <2>1. eng'.pc \in {"iface", "hosttest"}
    BY <1>4, <1>17 DEF EngAskInterface
  <2> QED
    BY <1>2, <2>1
<1>18. CASE EngPollInterface
  <2>1. eng'.pc \in {"iface", "hosttest"}
    BY <1>4, <1>18 DEF EngPollInterface
  <2> QED
    BY <1>2, <2>1
<1>19. CASE Cable
  <2>1. eng' = eng /\ req' = req /\ up' = up
    BY <1>19 DEF Cable, engineVars
  <2>2. CASE \E g \in Handlers : mon[g].pc # "off"
    <3>1. \E g \in Handlers : mon'[g].pc # "off"
      BY <1>0, <1>19, <2>2, CableSteps DEF Cable, Watched
    <3> QED
      BY <2>1, <3>1 DEF OrphanInv, Unsettling
  <2>3. CASE \A g \in Handlers : mon[g].pc = "off"
    <3>1. ~\E g \in Handlers : Monitor(g)
      BY <2>3 DEF Monitor, At, MonitorWake, MonitorProbe, MonitorSeesLink, MonitorMissesLink,
                  MonitorStable, MonitorRestable, MonitorKilled, MonitorWaited, MonitorPolled,
                  MonitorSettled
    <3>2. status' = status /\ mon' = mon
      BY <1>19, <3>1 DEF Cable, CableNext, LinkDegrades, LinkRecovers, GraceOver
    <3> QED
      BY <1>1, <2>1, <3>2 DEF OrphanInv
  <2> QED
    BY <2>2, <2>3
<1>20. ASSUME NEW c \in Clients, Request(c) \/ Answering(c)
       PROVE  OrphanInv'
  <2> USE DEF OnlyRequest, Idle, InFlight
  <2>1. ASSUME Launch, CanLaunch, ~Executing PROVE ~Spent'
    BY <2>1 DEF Launch, NoTask
  <2>2. CASE Start(c)
    BY <1>2, <2>1, <2>2 DEF Start
  <2>3. CASE StartDiscovered(c)
    BY <1>2, <2>1, <2>3 DEF StartDiscovered, StartsInTime
  <2>4. ASSUME NEW kind, NEW g, req[c].kind # "cancel",
               Await(c, kind, g) \/ Answer(c) \/ req' = req
        PROVE  \A d \in Clients : req[d].kind = "cancel" => req'[d] = req[d]
    BY <1>0, <2>4 DEF Answer, Await
  <2>11. ASSUME \A d \in Clients : req[d].kind = "cancel" => req'[d] = req[d],
                UNCHANGED <<eng, up, mon>>,
                status' = status \/ status \in Orphanable \/ (Spent => Unsettling)
         PROVE  OrphanInv'
    BY <2>11 DEF OrphanInv, Unsettling
  <2>5. CASE StartDiscover(c) \/ Refused(c) \/ ResumeProbe(c)
    BY <2>4, <2>5, <2>11 DEF StartDiscover, Refused, ResumeProbe
  <2>6. CASE Cancel(c)
    <3>1. req'[c].kind = "cancel" /\ eng'.pc = eng.pc
      BY <1>0, <2>6 DEF Cancel, Await, EngineType
    <3> QED
      BY <3>1 DEF OrphanInv, Unsettling
  <2>7. CASE Cancelled(c)
    BY <1>3, <2>7 DEF Cancelled, Orphanable, OrphanInv
  <2>8. CASE Pause(c) \/ SelectInterface(c)
    <3>1. UNCHANGED <<eng, mon, req, up>> /\ status \in Orphanable
      BY <2>8 DEF Pause, Pausable, SelectInterface, Orphanable
    <3> QED
      BY <3>1 DEF OrphanInv, Unsettling
  <2>9. CASE Flag(c) \/ Flagged(c)
    <3>1. status \in Orphanable
      BY <2>9 DEF Flag, Flagged, FlagsRunning, FlagInv, Orphanable
    <3> QED
      BY <2>4, <2>9, <2>11, <3>1 DEF Flag, Flagged
  <2>12. CASE Resume(c) \/ ResumeProbed(c)
    <3>1. PICK g : ResumeWith(g)
      BY <2>12 DEF Resume, ResumeProbed
    <3>2. CASE ~Executing
      BY <1>2, <2>1, <3>1, <3>2 DEF ResumeWith
    <3>3. CASE Executing
      <4>1. UNCHANGED <<eng, up, mon>>
        BY <2>12, <3>1, <3>3 DEF ResumeWith, Launch, Resume, ResumeProbed
      <4>2. status \in Orphanable \/ (Spent => Unsettling)
        BY <2>12, <3>3 DEF Resume, ResumeProbed, ResumesInTime, Orphanable
      <4> QED
        BY <2>4, <2>11, <2>12, <4>1, <4>2 DEF Resume, ResumeProbed
    <3> QED
      BY <3>2, <3>3
  <2>10. CASE Settling(c)
    <3>1. /\ UNCHANGED <<eng, mon, req, up>>
          /\ status' = status
             \/ status' \in {"completed", "awaiting_review", "awaiting_manual"}
      BY <2>10, SettlingSteps
    <3> QED
      BY <1>1, <3>1 DEF OrphanInv, Orphanable
  <2> QED
    BY <1>20, <2>2, <2>3, <2>5, <2>6, <2>7, <2>8, <2>9, <2>10, <2>12
    DEF Request, Answering, Settling
<1>21. CASE Crash
  BY <1>21 DEF Crash, NoTask, OrphanInv
<1>22. CASE RecoverOrphanedRuns
  BY <1>3, <1>22 DEF RecoverOrphanedRuns, engineVars, OrphanInv, Orphanable
<1>23. CASE UNCHANGED vars
  BY <1>1, <1>23 DEF vars, cableVars, engineVars, OrphanInv
<1> QED
  BY <1>6, <1>7, <1>8, <1>9, <1>10, <1>11, <1>12, <1>13, <1>14, <1>15, <1>16, <1>17, <1>18,
     <1>19, <1>20, <1>21, <1>22, <1>23, <1>24
  DEF Next, Engine, EngineFails

\* A run whose task, requests and monitors are gone is never left in a status that
\* promises an engine, through any starts, cancellations, pauses, resumes, edits,
\* outages, exceptions and crashes, but for four races: a start overtaken by a launch
\* during its discovery, a resume overtaken by the engine's end during its probe, a
\* monitor or a review that replaces "failed" while the engine unwinds, and a
\* pause-cable for a run that awaits its manual tests.
THEOREM OrphanedOnlyByRaces ==
  Spec /\ []StartsInTime /\ []ResumesInTime /\ []FailuresLast /\ [][FlagsRunning]_vars
    => []NoOrphanedStatus
<1>1. Init => FlagInv /\ OrphanInv
  BY DEF Init, NoTask, NoRequest, FlagInv, OrphanInv, Orphanable
<1>2. RunIInv /\ FlagInv /\ [FlagsRunning]_vars /\ [Next]_vars => FlagInv'
  <2> SUFFICES ASSUME RunIInv, FlagInv, [FlagsRunning]_vars, [Next]_vars PROVE FlagInv'
    OBVIOUS
  <2>1. CASE FlagsRunning
    BY <2>1, FlagNext DEF RunIInv
  <2>2. CASE UNCHANGED vars
    BY <2>2 DEF vars, cableVars, FlagInv
  <2> QED
    BY <2>1, <2>2
<1>3. /\ RunIInv /\ FlagInv /\ StartsInTime /\ ResumesInTime /\ FailuresLast
      /\ OrphanInv /\ [FlagsRunning]_vars /\ [Next]_vars
      => OrphanInv'
  <2> SUFFICES ASSUME RunIInv, FlagInv, StartsInTime, ResumesInTime, FailuresLast,
                      OrphanInv, [FlagsRunning]_vars, [Next]_vars
               PROVE  OrphanInv'
    OBVIOUS
  <2>1. CASE FlagsRunning
    BY <2>1, OrphanNext
  <2>2. CASE UNCHANGED vars
    BY <2>2 DEF vars, cableVars, engineVars, OrphanInv, Spent, Unsettling
  <2> QED
    BY <2>1, <2>2
<1>4. OrphanInv => NoOrphanedStatus
  BY DEF OrphanInv, NoOrphanedStatus, Spent, Unsettling, Executing, NoRequest
<1> QED
  BY <1>1, <1>2, <1>3, <1>4, RunInvariant, PTL DEF Spec

\* The engine unwinds only from an exception.
LEMMA NothingUnwinds ==
  ASSUME ~Faults, RunTypeOK, eng.pc # "unwind", [Next]_vars
  PROVE  eng'.pc # "unwind"
<1>0. eng \in EngineType
  BY DEF RunTypeOK
<1>1. CASE EngAcquire \/ EngLoad \/ EngEnter \/ EngGate \/ EngProbe \/ EngSettle
           \/ EngAskInterface \/ EngPollInterface \/ EngTest \/ EngLoopEnd
           \/ EngReadResults \/ EngFinalize
  BY <1>0, <1>1 DEF EngAcquire, EngLoad, EngEnter, EngGate, EngProbe, EngSettle,
     EngAskInterface, EngPollInterface, EngTest, EngLoopEnd, EngReadResults, EngFinalize,
     BeginTest, EngineGo, EngineType
<1>2. CASE EngSkip \/ EngManual \/ EngAdvance
  BY <1>0, <1>2 DEF EngSkip, EngManual, EngAdvance, NextTest, EngineType
<1>3. CASE EngDone \/ EngLoadFails \/ EngCancelledOutside \/ EngCancelledFinalizing \/ Crash
  BY <1>3
  DEF EngDone, EngLoadFails, EngCancelledOutside, EngCancelledFinalizing, Crash, NoTask
<1>4. CASE EngCancelledInTry \/ EngCancelledUnwinding \/ EngCancelSwallowed
  BY <1>0, <1>4 DEF EngCancelledInTry, EngCancelledUnwinding, EngCancelSwallowed, EngineType
<1>5. CASE EngError \/ EngUnwind
  BY <1>5 DEF EngError, EngUnwind, EngineAt
<1>6. CASE Cable \/ RecoverOrphanedRuns \/ UNCHANGED vars
  BY <1>6 DEF Cable, RecoverOrphanedRuns, vars, engineVars
<1>7. ASSUME NEW c \in Clients, Request(c) \/ Answering(c) PROVE eng'.pc # "unwind"
  <2>1. eng' = eng \/ Launch \/ Cancel(c)
    BY <1>7, SettlingSteps DEF Request, Answering, Settling, Start, StartDiscover,
       StartDiscovered, Refused, Cancelled, Pause, Flag, Flagged, Resume, ResumeProbe,
       ResumeProbed, ResumeWith, SelectInterface
  <2>2. CASE Launch
    BY <2>2 DEF Launch, NoTask
  <2>3. CASE Cancel(c)
    BY <1>0, <2>3 DEF Cancel, EngineType
  <2> QED
    BY <2>1, <2>2, <2>3
<1> QED
  BY <1>1, <1>2, <1>3, <1>4, <1>5, <1>6, <1>7 DEF Next, Engine, EngineFails

\* When no test lets an exception escape, and without pause-cable and resume requests or
\* a start in two steps beside another client, none of the races is possible.
THEOREM NoStatusOrphaned ==
  ASSUME {"flag", "resume"} \cap Requests = {}, ~Faults, StartsAlone
  PROVE  Spec => []NoOrphanedStatus
<1>1. InFlightInv => StartsInTime /\ ResumesInTime
  BY DEF InFlightInv, StartsInTime, ResumesInTime
<1>2. [FlagsRunning]_vars
  BY DEF FlagsRunning, Flag, Idle
<1>3. Spec => []FailuresLast
  <2> DEFINE Straight == eng.pc # "unwind"
  <2>1. Init => Straight
    BY DEF Init, NoTask
  <2>2. RunTypeOK /\ Straight /\ [Next]_vars => Straight'
    BY NothingUnwinds
  <2>3. Straight => FailuresLast
    BY DEF FailuresLast
  <2> HIDE DEF Straight
  <2> QED
    BY <2>1, <2>2, <2>3, RunTyped, PTL DEF Spec
<1> QED
  BY <1>1, <1>2, <1>3, InFlightInvariant, OrphanedOnlyByRaces, PTL
================================================================================
