-------------------------------- MODULE TestRun --------------------------------
(* One test run of EDQ with everything that writes its row: the engine task    *)
(* (services/test_engine.py), the launcher's view of that task, the cable      *)
(* handlers and monitors of its launches (CableHandler), the REST handlers of  *)
(* routes/test_runs.py and routes/test_results.py, and a crash of the backend  *)
(* followed by recover_orphaned_runs.                                          *)
(*                                                                             *)
(* As in CableHandler a step ends at an await of anything but the database.    *)
(* A REST handler that awaits a probe, the sidecar or a WebSocket between      *)
(* reading the run and committing it is therefore two steps, and the second    *)
(* acts on what the first one read.  Where the run's status is decided from    *)
(* its results (complete, request-review, an edit of a result, the engine's    *)
(* finalisation) the database's own awaits are steps as well: the handler      *)
(* loads the run, selects the results, and commits, each in a step of its own. *)
EXTENDS CableHandler, Sequences

CONSTANTS
  Clients,      \* REST clients, each with at most one request in flight
  Requests,     \* the kinds of request they send
  Tiers,        \* the tests in test_id order: "auto", "manual" or "host"
  KnownPorts,   \* whether a scan has recorded open ports for the device
  Faults,       \* whether an exception may escape a test into run()
  MaxCrashes    \* bound: crashes of the backend

RequestKinds ==
  {"start", "discover", "cancel", "pause", "flag", "resume", "complete", "review",
   "update", "interface"}

ASSUME RequestsAssumption == Requests \subseteq RequestKinds

ASSUME TiersAssumption == Tiers \in Seq({"auto", "manual", "host"})

ASSUME EnvironmentAssumption ==
  KnownPorts \in BOOLEAN /\ Faults \in BOOLEAN /\ MaxCrashes \in Nat

VARIABLES
  eng,      \* the engine task of the latest launch
  launches, \* number of launches so far
  verdict,  \* per test: "pending" or "done"
  iface,    \* metadata.network_interface has been chosen
  req,      \* per client: the request between its two steps
  tx,       \* per client: the session that is settling the run from its results
  seen,     \* the results _finalize_run has selected, <<>> outside of it
  raced,    \* auxiliary: what the latest session to commit had read was stale
  up,       \* the backend process is serving
  crashes

engineVars == <<eng, launches, verdict, iface>>
sessionVars == <<tx, seen, raced>>
vars == <<cableVars, engineVars, req, sessionVars, up, crashes>>

Tests == 1..Len(Tiers)

NoTask == [pc |-> "none", gen |-> 0, i |-> 1, cancel |-> FALSE]

NoRequest == [kind |-> "none", gen |-> 0]

NoSession ==
  [pc |-> "idle", kind |-> "update", test |-> 0, old |-> "pending",
   new |-> "pending", loaded |-> "pending", seen |-> <<>>]

\* Where the engine is inside the try block of run(), and with it the handler.
InTry == {"next", "gate", "probe", "settle", "test", "iface", "hosttest", "record"}

EnginePcs ==
  InTry \cup {"none", "queued", "load", "enter", "unwind", "stopping", "leaving",
              "finalize", "closing"}

EngineType ==
  [pc : EnginePcs, gen : 0..MaxLaunch, i : 1..(Len(Tiers) + 1), cancel : BOOLEAN]

RequestType == [kind : RequestKinds \cup {"none"}, gen : 0..MaxLaunch]

Verdicts == {"pending", "done"}

\* What a select of the run's results returns, <<>> before there was one.
Selected == [Tests -> Verdicts] \cup {<<>>}

\* A session: the test it edits (0: none), the verdict it loaded and the one it
\* writes, the run's status as loaded, and the results as selected.
SessionType ==
  [pc : {"idle", "loaded", "read"}, kind : {"complete", "review", "update"},
   test : 0..Len(Tiers), old : Verdicts, new : Verdicts, loaded : Statuses,
   seen : Selected]

SessionTypeOK ==
  /\ tx \in [Clients -> SessionType]
  /\ seen \in Selected
  /\ raced \in BOOLEAN

RunTypeOK ==
  /\ CableTypeOK
  /\ eng \in EngineType
  /\ launches \in 0..MaxLaunch
  /\ verdict \in [Tests -> Verdicts]
  /\ iface \in BOOLEAN
  /\ req \in [Clients -> RequestType]
  /\ up \in BOOLEAN /\ crashes \in 0..MaxCrashes

TypeOK == RunTypeOK /\ SessionTypeOK

Init ==
  /\ CableInit
  /\ status = "pending"
  /\ eng = NoTask /\ launches = 0
  /\ verdict = [t \in Tests |-> "pending"]
  /\ iface = FALSE
  /\ req = [c \in Clients |-> NoRequest]
  /\ tx = [c \in Clients |-> NoSession] /\ seen = <<>> /\ raced = FALSE
  /\ up = TRUE /\ crashes = 0

--------------------------------------------------------------------------------
(* Helpers.                                                                    *)

\* is_run_executing: the registered task is not done.
Executing == eng.pc # "none"

\* pending_manual, counted over the given results.
PendingIn(results) ==
  \E t \in Tests : Tiers[t] = "manual" /\ results[t] = "pending"

PendingManual == PendingIn(verdict)

\* probe_device_execution_readiness: can_execute and, when not, the reason.
CanExecute == link = "tcp" \/ (link = "icmp" /\ ~KnownPorts)

PauseReason == IF Reachable THEN "service" ELSE "cable"

\* launch_test_run: create the task, or None while one is executing.
Launch ==
  IF Executing
  THEN UNCHANGED <<eng, launches>>
  ELSE /\ launches < MaxLaunch
       /\ launches' = launches + 1
       /\ eng' = [NoTask EXCEPT !.pc = "queued", !.gen = launches + 1]

CanLaunch == Executing \/ launches < MaxLaunch

EngineAt(pc) == up /\ eng.pc = pc /\ ~eng.cancel

EngineGo(pc) == eng' = [eng EXCEPT !.pc = pc]

\* The next entry of the for loop over the results.
NextTest == eng' = [eng EXCEPT !.pc = "next", !.i = eng.i + 1]

TestLeft == eng.i \in Tests

\* pause-cable has flushed its update and holds the row's lock until it commits.
RowLocked == \E c \in Clients : req[c].kind = "flag"

RowKept == RowLocked => UNCHANGED status

\* The session that edits the result has flushed it and holds the lock of its row.
ResultLocked(t) == \E c \in Clients : tx[c].pc = "read" /\ tx[c].test = t

OnlyEngine ==
  RowKept /\ UNCHANGED <<link, flips, launches, req, sessionVars, up, crashes>>

--------------------------------------------------------------------------------
(* The engine task.                                                            *)

\* _guarded_run: the semaphore is acquired, the engine loads run and device.
EngAcquire ==
  /\ EngineAt("queued") /\ EngineGo("load")
  /\ OnlyEngine /\ UNCHANGED <<status, active, h, mon, verdict, iface>>

\* A missing device, IP, authorisation or template: _set_run_error.
EngLoadFails ==
  /\ EngineAt("load")
  /\ status' = "failed"
  /\ eng' = NoTask
  /\ OnlyEngine /\ UNCHANGED <<active, h, mon, verdict, iface>>

\* The readiness probe has answered: create the handler and its monitor, then
\* set the run running whatever it has become, or pause it.
EngLoad ==
  /\ EngineAt("load")
  /\ LET g == eng.gen
     IN /\ active' = g
        /\ mon' = [mon EXCEPT ![g] = MonitorOn]
        /\ h' = [h EXCEPT ![g] = IF CanExecute THEN Fresh
                                 ELSE CablePaused(Fresh, PauseReason)]
  /\ status' = IF CanExecute THEN "running" ELSE StatusAfterDisconnect
  /\ EngineGo("enter")
  /\ OnlyEngine /\ UNCHANGED <<verdict, iface>>

\* The broadcast before the try block has been sent.
EngEnter ==
  /\ EngineAt("enter") /\ EngineGo("next")
  /\ OnlyEngine /\ UNCHANGED <<status, active, h, mon, verdict, iface>>

\* The fingerprint phase flagged the test: not applicable, without any gate.
EngSkip ==
  /\ EngineAt("next") /\ TestLeft /\ ~ResultLocked(eng.i)
  /\ verdict' = [verdict EXCEPT ![eng.i] = "done"]
  /\ NextTest
  /\ OnlyEngine /\ UNCHANGED <<status, active, h, mon, iface>>

\* _wait_while_paused lets the engine through only when the row is not paused.
EngManual ==
  /\ EngineAt("next") /\ TestLeft /\ Tiers[eng.i] = "manual"
  /\ status \notin Paused
  /\ NextTest
  /\ OnlyEngine /\ UNCHANGED <<status, active, h, mon, verdict, iface>>

EngGate ==
  /\ \/ EngineAt("next") /\ TestLeft /\ Tiers[eng.i] # "manual"
     \/ EngineAt("gate")
  /\ status \notin Paused
  /\ EngineGo("probe")
  /\ OnlyEngine /\ UNCHANGED <<status, active, h, mon, verdict, iface>>

\* _persist_run_progress(status=RUNNING), whatever the row holds by now.
BeginTest ==
  /\ status' = "running"
  /\ EngineGo("test")

EngProbe ==
  /\ EngineAt("probe")
  /\ IF Reachable THEN BeginTest ELSE EngineGo("settle") /\ UNCHANGED status
  /\ OnlyEngine /\ UNCHANGED <<active, h, mon, verdict, iface>>

EngSettle ==
  /\ EngineAt("settle")
  /\ IF status = "paused_cable" THEN EngineGo("gate") /\ UNCHANGED status
     ELSE BeginTest
  /\ OnlyEngine /\ UNCHANGED <<active, h, mon, verdict, iface>>

\* _await_required_network_interface, entered once per host test.
EngAskInterface ==
  /\ EngineAt("test") /\ Tiers[eng.i] = "host"
  /\ \/ iface /\ EngineGo("hosttest") /\ UNCHANGED <<status, iface>>
     \/ /\ ~iface /\ EngineGo("hosttest") /\ UNCHANGED status
        /\ iface' \in IF status \in Over THEN {FALSE} ELSE BOOLEAN
     \/ /\ ~iface /\ status \notin Over
        /\ status' = "selecting_interface"
        /\ EngineGo("iface") /\ UNCHANGED iface
  /\ OnlyEngine /\ UNCHANGED <<active, h, mon, verdict>>

EngPollInterface ==
  /\ EngineAt("iface")
  /\ IF iface \/ status \in Over
     THEN /\ EngineGo("hosttest")
          /\ status' = IF status = "selecting_interface" THEN "running" ELSE status
     ELSE status' = "selecting_interface" /\ UNCHANGED eng
  /\ OnlyEngine /\ UNCHANGED <<active, h, mon, verdict, iface>>

\* The tool has returned: retry if the run is cable-paused now, else record.
EngTest ==
  /\ \/ EngineAt("test") /\ Tiers[eng.i] = "auto"
     \/ EngineAt("hosttest")
  /\ IF status = "paused_cable"
     THEN EngineGo("gate") /\ UNCHANGED verdict
     ELSE /\ ~ResultLocked(eng.i)
          /\ verdict' = [verdict EXCEPT ![eng.i] = "done"]
          /\ EngineGo("record")
  /\ OnlyEngine /\ UNCHANGED <<status, active, h, mon, iface>>

\* After the test_complete broadcast: progress, and again status=RUNNING.
EngAdvance ==
  /\ EngineAt("record")
  /\ status' = "running"
  /\ NextTest
  /\ OnlyEngine /\ UNCHANGED <<active, h, mon, verdict, iface>>

\* All tests are through: the finally block, then await cable_task.
EngLoopEnd ==
  /\ EngineAt("next") /\ ~TestLeft
  /\ StopHandler(eng.gen) /\ EngineGo("stopping")
  /\ OnlyEngine /\ UNCHANGED <<status, verdict, iface>>

OnlyFinalize ==
  /\ RowKept
  /\ UNCHANGED <<link, flips, active, h, mon, launches, verdict, iface, req, tx,
                 up, crashes>>

\* _finalize_run opens its session and selects the results.
EngReadResults ==
  /\ EngineAt("stopping")
  /\ seen' = verdict
  /\ EngineGo("finalize")
  /\ OnlyFinalize /\ UNCHANGED <<status, raced>>

\* It overwrites whatever status the row has, by the results it selected.
EngFinalize ==
  /\ EngineAt("finalize")
  /\ status' = IF PendingIn(seen) THEN "awaiting_manual" ELSE "completed"
  /\ raced' = (verdict # seen)
  /\ seen' = <<>>
  /\ EngineGo("closing")
  /\ OnlyFinalize

\* The run_complete broadcast and profile learning are over; the task is done.
EngDone ==
  /\ EngineAt("closing") \/ EngineAt("leaving")
  /\ eng' = NoTask
  /\ OnlyEngine /\ UNCHANGED <<status, active, h, mon, verdict, iface>>

\* An exception inside the try block: _set_run_error, then the finally block.
EngError ==
  /\ Faults
  /\ up /\ eng.pc \in InTry /\ ~eng.cancel
  /\ status' = "failed"
  /\ EngineGo("unwind")
  /\ OnlyEngine /\ UNCHANGED <<active, h, mon, verdict, iface>>

EngUnwind ==
  /\ EngineAt("unwind")
  /\ StopHandler(eng.gen) /\ EngineGo("leaving")
  /\ OnlyEngine /\ UNCHANGED <<status, verdict, iface>>

\* CancelledError before the try block, or after _finalize_run, ends the task and
\* nothing else: past the handler's construction nobody stops the handler.
EngCancelledOutside ==
  /\ up /\ eng.cancel /\ eng.pc \in {"queued", "load", "enter", "closing"}
  /\ eng' = NoTask
  /\ OnlyEngine /\ UNCHANGED <<status, active, h, mon, verdict, iface>>

\* In _finalize_run it also rolls the session back.
EngCancelledFinalizing ==
  /\ up /\ eng.cancel /\ eng.pc = "finalize"
  /\ eng' = NoTask /\ seen' = <<>>
  /\ OnlyFinalize /\ UNCHANGED <<status, raced>>

EngCancelledInTry ==
  /\ up /\ eng.cancel /\ eng.pc \in InTry
  /\ status' = "cancelled"
  /\ StopHandler(eng.gen)
  /\ eng' = [eng EXCEPT !.pc = "leaving", !.cancel = FALSE]
  /\ OnlyEngine /\ UNCHANGED <<verdict, iface>>

EngCancelledUnwinding ==
  /\ up /\ eng.cancel /\ eng.pc = "unwind"
  /\ StopHandler(eng.gen)
  /\ eng' = [eng EXCEPT !.pc = "leaving", !.cancel = FALSE]
  /\ OnlyEngine /\ UNCHANGED <<status, verdict, iface>>

\* The except around await cable_task swallows the cancellation.
EngCancelSwallowed ==
  /\ up /\ eng.cancel /\ eng.pc \in {"stopping", "leaving"}
  /\ eng' = [eng EXCEPT !.cancel = FALSE]
  /\ OnlyEngine /\ UNCHANGED <<status, active, h, mon, verdict, iface>>

Engine ==
  \/ EngAcquire \/ EngLoad \/ EngEnter
  \/ EngSkip \/ EngManual \/ EngGate \/ EngProbe \/ EngSettle
  \/ EngAskInterface \/ EngPollInterface \/ EngTest \/ EngAdvance
  \/ EngLoopEnd \/ EngReadResults \/ EngFinalize \/ EngDone \/ EngUnwind
  \/ EngCancelledOutside \/ EngCancelledFinalizing \/ EngCancelledInTry
  \/ EngCancelledUnwinding \/ EngCancelSwallowed

EngineFails == EngLoadFails \/ EngError

--------------------------------------------------------------------------------
(* The REST handlers.                                                          *)

Idle(c, kind) ==
  up /\ kind \in Requests /\ req[c].kind = "none" /\ tx[c].pc = "idle"

InFlight(c, kind) == up /\ req[c].kind = kind

Await(c, kind, g) == req' = [req EXCEPT ![c] = [kind |-> kind, gen |-> g]]

Answer(c) == req' = [req EXCEPT ![c] = NoRequest]

OnlyRequest ==
  RowKept /\ UNCHANGED <<link, flips, verdict, iface, sessionVars, up, crashes>>

\* start, the device's IP address being known: nothing is awaited.
Start(c) ==
  /\ Idle(c, "start") /\ status \in Startable /\ ~Executing /\ CanLaunch
  /\ status' = "syncing" /\ Launch
  /\ OnlyRequest /\ UNCHANGED <<active, h, mon, req>>

\* start for a device without an IP address awaits its discovery first.
StartDiscover(c) ==
  /\ Idle(c, "discover") /\ status \in Startable /\ ~Executing
  /\ Await(c, "discover", 0)
  /\ OnlyRequest /\ UNCHANGED <<status, active, h, mon, eng, launches>>

StartDiscovered(c) ==
  /\ InFlight(c, "discover") /\ CanLaunch
  /\ status' = IF CanExecute THEN "syncing" ELSE "paused_cable"
  /\ Launch /\ Answer(c)
  /\ OnlyRequest /\ UNCHANGED <<active, h, mon>>

\* The discovery found no address, the address is not authorised, or the
\* readiness check refuses a resume: an error response, nothing committed.
Refused(c) ==
  /\ up /\ req[c].kind \in {"discover", "resume"}
  /\ Answer(c)
  /\ OnlyRequest /\ UNCHANGED <<status, active, h, mon, eng, launches>>

\* cancel requests the task's cancellation, then awaits the sidecar's kill.
Cancel(c) ==
  /\ Idle(c, "cancel") /\ status \in Cancellable
  /\ eng' = [eng EXCEPT !.cancel = Executing]
  /\ Await(c, "cancel", 0)
  /\ OnlyRequest /\ UNCHANGED <<status, active, h, mon, launches>>

Cancelled(c) ==
  /\ InFlight(c, "cancel")
  /\ status' = "cancelled"
  /\ Answer(c)
  /\ OnlyRequest /\ UNCHANGED <<active, h, mon, eng, launches>>

PauseHandler ==
  h' = IF active = 0 THEN h ELSE [h EXCEPT ![active] = ManuallyPaused(@)]

Pause(c) ==
  /\ Idle(c, "pause") /\ status \in Pausable
  /\ status' = "paused_manual"
  /\ PauseHandler
  /\ OnlyRequest /\ UNCHANGED <<active, mon, eng, launches, req>>

\* pause-cable marks the handler and awaits its broadcast before the commit;
\* without a handler there is nothing to await.
Flag(c) ==
  /\ Idle(c, "flag") /\ status \in Flaggable /\ ~RowLocked
  /\ PauseHandler
  /\ \/ active # 0 /\ Await(c, "flag", 0) /\ UNCHANGED status
     \/ active = 0 /\ status' = "paused_cable" /\ UNCHANGED req
  /\ OnlyRequest /\ UNCHANGED <<active, mon, eng, launches>>

Flagged(c) ==
  /\ InFlight(c, "flag")
  /\ status' = "paused_cable"
  /\ Answer(c)
  /\ UNCHANGED <<link, flips, verdict, iface, sessionVars, up, crashes>>
  /\ UNCHANGED <<active, h, mon, eng, launches>>

\* The two ways a resume ends: wake the handler of an executing engine, or
\* launch an engine (which an executing one refuses, after the commit).
ResumeWith(g) ==
  /\ CanLaunch
  /\ status' = "running"
  /\ IF g # 0 /\ Executing
     THEN h' = [h EXCEPT ![g] = Resumed(@)] /\ UNCHANGED <<eng, launches>>
     ELSE Launch /\ UNCHANGED h

Resume(c) ==
  /\ Idle(c, "resume") /\ status = "paused_manual"
  /\ ResumeWith(active)
  /\ OnlyRequest /\ UNCHANGED <<active, mon, req>>

\* A cable pause probes the device first, holding on to the handler it saw.
ResumeProbe(c) ==
  /\ Idle(c, "resume") /\ status = "paused_cable"
  /\ Await(c, "resume", active)
  /\ OnlyRequest /\ UNCHANGED <<status, active, h, mon, eng, launches>>

ResumeProbed(c) ==
  /\ InFlight(c, "resume")
  /\ req[c].gen # 0 /\ Executing => CanExecute
  /\ ResumeWith(req[c].gen)
  /\ Answer(c)
  /\ OnlyRequest /\ UNCHANGED <<active, mon>>

OnlySession ==
  /\ RowKept
  /\ UNCHANGED <<link, flips, active, h, mon, eng, launches, iface, req, seen, up,
                 crashes>>

\* The session of a request that settles the run has loaded its row.
Begin(c, session) ==
  /\ tx' = [tx EXCEPT ![c] = [session EXCEPT !.pc = "loaded", !.loaded = status]]
  /\ OnlySession /\ UNCHANGED <<status, verdict, raced>>

Complete(c) ==
  Idle(c, "complete") /\ Begin(c, [NoSession EXCEPT !.kind = "complete"])

Review(c) ==
  Idle(c, "review") /\ Begin(c, [NoSession EXCEPT !.kind = "review"])

\* update_result, bulk_update_manual_results and override_result with the
\* _refresh_parent_run they all end in.
UpdateResult(c, t, v) ==
  /\ Idle(c, "update")
  /\ Begin(c, [NoSession EXCEPT !.test = t, !.old = verdict[t], !.new = v])

\* The results as the session sees them: its own edit is flushed.
View(c) ==
  [t \in Tests |-> IF t = tx[c].test THEN tx[c].new ELSE verdict[t]]

\* Mutant: the edit is not flushed before the select.
SelectResultsStale(c) ==
  /\ up /\ tx[c].pc = "loaded" /\ ~ResultLocked(tx[c].test)
  /\ tx' = [tx EXCEPT ![c] = IF tx[c].kind # "update" /\ PendingManual
                              THEN NoSession
                              ELSE [@ EXCEPT !.pc = "read", !.seen = verdict]]
  /\ OnlySession /\ UNCHANGED <<status, verdict, raced>>

\* The select waits for another edit of the same result; complete and
\* request-review refuse while a manual test is pending in it.
SelectResults(c) ==
  /\ up /\ tx[c].pc = "loaded" /\ (tx[c].test # 0 => ~ResultLocked(tx[c].test))
  /\ tx' = [tx EXCEPT ![c] = IF tx[c].kind # "update" /\ PendingIn(View(c))
                              THEN NoSession
                              ELSE [@ EXCEPT !.pc = "read", !.seen = View(c)]]
  /\ OnlySession /\ UNCHANGED <<status, verdict, raced>>

\* The status the session has set on the run it loaded.
Outcome(c) ==
  CASE tx[c].kind = "complete" -> "completed"
    [] tx[c].kind = "review" -> "awaiting_review"
    [] OTHER -> IF tx[c].loaded \in Unsettled THEN tx[c].loaded
                ELSE IF PendingIn(tx[c].seen) THEN "awaiting_manual"
                ELSE IF tx[c].loaded = "awaiting_review" THEN "awaiting_review"
                ELSE "completed"

\* Another commit has changed the run's status or its results in the meantime.
Overtaken(c) ==
  \/ status # tx[c].loaded
  \/ \E t \in Tests :
       verdict[t] # IF t = tx[c].test THEN tx[c].old ELSE tx[c].seen[t]

\* The commit writes the columns that differ from what the session has loaded.
CommitSession(c) ==
  /\ up /\ tx[c].pc = "read"
  /\ status' = IF Outcome(c) = tx[c].loaded THEN status ELSE Outcome(c)
  /\ verdict' = [t \in Tests |-> IF t = tx[c].test /\ tx[c].new # tx[c].old
                                 THEN tx[c].new ELSE verdict[t]]
  /\ raced' = Overtaken(c)
  /\ tx' = [tx EXCEPT ![c] = NoSession]
  /\ OnlySession

SelectInterface(c) ==
  /\ Idle(c, "interface") /\ status = "selecting_interface"
  /\ iface' = TRUE
  /\ status' = "running"
  /\ RowKept
  /\ UNCHANGED <<link, flips, active, h, mon, eng, launches, verdict, req, sessionVars,
                 up, crashes>>

Answering(c) ==
  \/ StartDiscovered(c) \/ Cancelled(c) \/ Flagged(c) \/ ResumeProbed(c)
  \/ SelectResults(c) \/ CommitSession(c)

Request(c) ==
  \/ Start(c) \/ StartDiscover(c) \/ Refused(c) \/ Cancel(c)
  \/ Pause(c) \/ Flag(c) \/ Resume(c) \/ ResumeProbe(c)
  \/ Complete(c) \/ Review(c) \/ SelectInterface(c)
  \/ \E t \in Tests, v \in Verdicts : UpdateResult(c, t, v)

--------------------------------------------------------------------------------
(* A crash loses every task and handler; startup fails the orphaned runs.      *)

Crash ==
  /\ up /\ crashes < MaxCrashes
  /\ up' = FALSE /\ crashes' = crashes + 1
  /\ eng' = NoTask /\ active' = 0
  /\ h' = [g \in Handlers |-> Gone]
  /\ mon' = [g \in Handlers |-> MonitorOff]
  /\ req' = [c \in Clients |-> NoRequest]
  /\ tx' = [c \in Clients |-> NoSession] /\ seen' = <<>>
  /\ UNCHANGED <<status, link, flips, launches, verdict, iface, raced>>

\* Mutant: only runs left in "running" are recovered.
RecoverRunningRuns ==
  /\ ~up /\ up' = TRUE
  /\ status' = IF status = "running" THEN "failed" ELSE status
  /\ UNCHANGED <<link, flips, active, h, mon, engineVars, req, sessionVars, crashes>>

RecoverOrphanedRuns ==
  /\ ~up /\ up' = TRUE
  /\ status' = IF status \in Orphanable THEN "failed" ELSE status
  /\ UNCHANGED <<link, flips, active, h, mon, engineVars, req, sessionVars, crashes>>

--------------------------------------------------------------------------------
Cable == up /\ RowKept /\ CableNext /\ UNCHANGED <<engineVars, req, sessionVars, up, crashes>>

Next ==
  \/ Engine \/ EngineFails
  \/ Cable
  \/ \E c \in Clients : Request(c) \/ Answering(c)
  \/ Crash \/ RecoverOrphanedRuns

Spec == Init /\ [][Next]_vars

\* The event loop runs every ready task, a request under way is answered, the
\* backend is restarted, and a device that went away comes back.
Fairness ==
  /\ WF_vars(Engine)
  /\ \A g \in Handlers :
       WF_vars(up /\ Monitor(g) /\ UNCHANGED <<engineVars, req, sessionVars, up, crashes>>)
  /\ WF_vars(up /\ LinkRecovers /\ UNCHANGED <<engineVars, req, sessionVars, up, crashes>>)
  /\ \A c \in Clients : WF_vars(Answering(c))
  /\ WF_vars(RecoverOrphanedRuns)

FairSpec == Spec /\ Fairness

--------------------------------------------------------------------------------
(* Properties.                                                                 *)

\* The span from the handler's construction to the finally block of run().
Guarded == InTry \cup {"enter", "unwind"}

\* While the engine is between constructing its cable handler and stopping it,
\* the registry holds that very handler and its monitor runs: pause, pause-cable
\* and resume reach the handler that guards the run, never a stale one.
HandlerReachable ==
  eng.pc \in Guarded =>
    /\ active = eng.gen
    /\ h[active].running /\ mon[active].pc # "off"

\* A run is completed or awaiting review while a guided manual test is pending
\* only if the session that committed last had read a status or results that
\* another commit changed before it did.  complete and request-review commit what
\* an edit of a result has made untrue, and nothing locks the row against it; but
\* whatever follows that is not overtaken in its turn repairs the run.
SettledUnlessRaced ==
  status \in {"completed", "awaiting_review"} /\ PendingManual => raced

\* While the row says paused_cable and the engine waits on it inside its loop,
\* some live handler is paused: a monitor is going to resume the run when the
\* device is back, or a manual pause waits for its resume.
BlockedMeansWatched ==
  status = "paused_cable" /\ eng.pc \in InTry =>
    \E g \in Handlers : mon[g].pc # "off" /\ h[g].paused

\* With no request under way and no monitor left behind, a status that promises
\* a working engine has one: no outage, cancellation, finalisation or crash
\* leaves the run stuck in it.  (A resume or a second start that loses the race
\* against the engine's end does: see the README.)
NoOrphanedStatus ==
  /\ up /\ ~Executing
  /\ \A c \in Clients : req[c] = NoRequest
  /\ \A g \in Handlers : mon[g].pc = "off"
  => status \notin Orphanable

\* Every launched engine ends, through any outages of the device, provided the
\* device comes back: no pause of the cable handler blocks it for ever.  With
\* two start requests racing this is false: "Testing is paused until connectivity
\* is restored", which the second one commits, is then a pause nobody ends.
EngineEnds == Executing ~> ~Executing
================================================================================
