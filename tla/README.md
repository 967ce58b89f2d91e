# Formal model of EDQ

EDQ qualifies network devices. An engineer registers a *device*, creates a *test
run* for it, and a background engine executes some thirty tests against it through
a tools sidecar; the engineer adds the guided manual tests, reviews and reports.
Runs are also started by batch network scans and by schedules. This directory
holds TLA+ modules of the parts of that program in which several actors share
state or in which what one step learned decides what a later one does, the TLC
configurations that check them, and proofs that TLAPS checks. Paths below are
relative to `src/server/backend/app/` unless they start with `src/`.

## Inventory

| component | state it keeps | operations | how it interacts |
|---|---|---|---|
| run lifecycle: `models/test_run.py`, `services/test_run_lifecycle.py` | `TestRun.status` (a database column) | predicates for start, cancel, pause, resume, flag | every writer below branches on them |
| test engine, the loop: `services/test_engine.py` | one task per launch, loop position | `run`, pause gates, interface selection, `_finalize_run`, `_set_run_error`, `recover_orphaned_runs` | reads and writes the row; builds a cable handler; awaits probes, tools, broadcasts |
| test engine, the tests: same file, `services/parsers`, `services/evaluation.py`, `services/mac_vendor.py` | caches of port scans and TLS reports; the device's row | `_dispatch_test`, `_enrich_device_from_result`, fingerprint phase, skips | asks the sidecar; passes findings from test to test |
| fingerprinting: `services/device_fingerprinter.py` | profiles (a table) | match, port skips, update of the device | decides which tests a launch skips |
| host workflows: `_test_switch_negotiation`, `_test_network_disconnection`, `_test_dhcp_two_phase_workflow`, `services/protocol_observer.py` | link profile and link of the scanner host's adapter; one lock per observer | set a profile, cycle, restore, observe two DHCP windows | commands to the host scanner that outlive their caller |
| cable handler: `services/wobbly_cable.py` | flags of one handler, registry of handlers, a monitor task each | `monitor`, `pause_for_disconnect`, `_wait_for_reconnection`, `resume`, `manual_pause`, `stop` | writes the row; is called by engine and REST handlers |
| launcher: `services/test_run_launcher.py` | registry of tasks, semaphore of 10 | launch, cancel, done callback | called by REST handlers, batch scans, scheduler |
| run handlers: `routes/test_runs.py` | none of their own; a database session per request | start, cancel, pause, pause-cable, resume, complete, request-review, network-interface | read the row, await, write the row; call launcher and handler |
| result handlers: `routes/test_results.py` | verdicts of the results | update, bulk update, override | refresh the parent run's status, verdict and summary |
| readiness: `services/run_readiness.py`, three overall-verdict functions | the summary in a run's metadata | summarise, merge | decides which report is generated |
| devices: `routes/devices.py`, `routes/discovery.py`, `models/device.py` | the devices table | create, import, update, delete, discover-ip, sweeps, register | await probes between their checks and their inserts |
| execution readiness: `services/test_run_connectivity.py`, `connectivity_probe.py`, `device_ip_discovery.py` | a DHCP device's address | probe, discover | decide start, pause and resume |
| batch scans: `routes/network_scan.py` | scan status, set of starting scans, monitor tasks | discover, start, monitor | create devices, launch many runs, wait for them |
| scheduler: `services/scan_scheduler.py`, `routes/scan_schedules.py` | `next_run_at`, `run_count`, `is_active`, cached diff | due loop, update, delete, diff | provisions and launches runs |
| sidecar: `src/tools/server.py`, `services/tools_client.py` | tool processes by target, worker slots | scan, stream, kill | called by every test; killed on cancel, on outages, at startup |
| sessions, CRUD, reports, live view, desktop shell | | | pure I/O, data or single-session writes; see `PROJECT.json` |

**What is hard.** Up to six actors write one status column without a common
lock: the engine, the monitors of this and earlier launches, REST handlers that
await a probe or the sidecar between reading and committing, the result
handlers, and startup after a crash. Each reads the row, awaits, and writes what
it decided earlier. Requests on devices do the same with the uniqueness of an
address. The tests of a run hand on what they saw, so that a failed tool or an
outage in one decides the verdict of another. Commands and child processes go on
after the caller that asked for them is gone. `PROJECT.json` lists the hazards,
each at its line.

**What makes the components correct.**

- *Engine and cable handler:* an engine that waits for the cable is always
  watched by somebody who will resume it; every engine ends if the device comes
  back; no status promises an engine that does not exist.
- *Registry:* pause and resume reach the handler of the engine at work.
- *Run and result handlers:* a settled run has no pending manual test unless a commit
  overtook the one that settled it; a request that runs alone leaves verdict, status
  and summary that agree with the results.
- *Tests:* only a device with the weakness fails; a pass rests on evidence of this
  launch; a skip rests on a scan of this launch.
- *Host workflows:* the adapter is put back; a pass has seen what it claims.
- *Launcher:* one engine per run unless a launch overtakes a done callback, a bounded
  number of them, none starved but by paused ones.
- *Sidecar:* a kill reaches every process that is being read; slots are neither
  leaked nor released twice; every call ends.
- *Devices:* an address has one device, and a mode what it is found by.
- *Batch scans and scheduler:* a batch is attended and ends in a status that
  matches its runs; `max_runs` bounds launches and every due schedule is served.

## Modules

| module | models | variables |
|---|---|---|
| `RunStatus` | the canonical statuses and the sets the code branches on | none |
| `CableHandler` | handler objects and monitor tasks, one per launch; the device's link | `status`, `link`, `flips`, `active` (`_active_handlers[run]`), `h` (flags), `mon` (monitor positions) |
| `TestRun` (extends it) | engine task, launcher as the run sees it, REST handlers, crash and restart | `eng`, `launches`, `verdict`, `iface`, `req` (a request between its two steps), `tx` (sessions that may settle the run), `seen` (the results `_finalize_run` selected), `raced` (auxiliary), `up`, `crashes` |
| `RunReview` | results, edits and overrides, complete and request-review, finalisation, readiness summary | `result`, `run`, `eng`, `tx` (sessions), `requests` |
| `ToolOutput` | scanners, parsers and helpers: what a report says of a device | none |
| `WebLogin` (extends it) | default credentials and brute force (U16, U17) | none |
| `Evaluation` | the rule of each test | none |
| `Assessment` (extends all three) | the automatic tests, their caches, enrichment, fingerprint phase, skips, retries | `device`, `launch`, `todo`, `port`, `u08`, `tls` (caches), `skips`, `excluded`, `record` and `known` (the row, and as loaded), `last`, `outages`, `quiet` |
| `HostAdapter` | U03, U04 and U20 on one adapter, the host scanner | `adapter`, `work`, `cmds`, `scars`, `faults` |
| `DeviceRegistry` | every request that writes an address, a MAC or a mode | `devices`, `req` |
| `ExclusivePool` | what launcher and sidecar promise: a bounded set of busy holders | `busy`, `free` |
| `LaunchPool` | the launcher: registry, semaphore, cancellation, done callback, and the polling of a paused engine that holds a slot | `registry`, `owner`, `state`, `permits`, `late` (auxiliary) |
| `ToolSidecar` | the sidecar and the client's calls: retries, fallback, timeouts, kills | `call`, `req`, `slots`, `tracked`, `kill`, `strays` |
| `BackgroundRuns` | runs as batch and scheduler see them | `run`, `task`, `cancelling`, `crashes` |
| `BatchScan` (extends it) | discovery, start, monitor | `scan`, `discovers`, `start`, `monitor`, `dropped` |
| `ScanScheduler` (extends it) | due loop, requests, diff | `sched`, `of`, `due`, `exec`, `launched`, `edited` |
| `MC*` | small instances for TLC | |
| `*_proofs` | proofs, one module for each component, `Pools_proofs` for launcher and sidecar together | |

`TestRun` composes with `CableHandler` by extension: both act on `status`. `LaunchPool`
and `ToolSidecar` each implement `ExclusivePool`, under a refinement mapping given
where the property is stated. `BackgroundRuns` is the coarse view of `TestRun` and
`LaunchPool` that `BatchScan` and `ScanScheduler` build on: its statuses merge those
that batch and scheduler do not tell apart, and its tasks end as `EngineEnds` says.

### Where a step ends

The backend is one asyncio event loop, so code between two awaits is atomic. A
step of a model ends where the code awaits a probe, a sleep, a tool, the sidecar or
a WebSocket send. In `TestRun` most database round trips inside one short session are
part of the step; this is an abstraction, since another task could run between the
`SELECT` and the `UPDATE` of a session. It is dropped where a status is decided from
results: complete, request-review and the edits load the run (`Begin`), select the
results (`SelectResults`) and commit (`CommitSession`) in three steps, `_finalize_run`
selects (`EngReadResults`) and commits (`EngFinalize`) in two, and each commit acts on
what was selected, whatever has been committed since; `_finalize_run` loads the row
only to overwrite its status, so that this read is part of its commit. The select
flushes an edit, whose row lock holds off other edits of that result (`ResultLocked`). In
`RunReview` and `DeviceRegistry` too a session reads in one step and commits in a
later one. A REST handler that awaits a probe or the sidecar is two actions (`StartDiscover` and
`StartDiscovered`, `Cancel` and `Cancelled`, `Create` and `Insert`, ...), the second
acting on what the first one read. `get_db` commits when the handler returns.

`pause-cable` is special: it flushes its `UPDATE` and then awaits a broadcast, so
PostgreSQL holds the row's lock until it commits. `RowLocked` and `RowKept` say
that nobody changes the status meanwhile; `Locked` and `Free` in `DeviceRegistry` are
the same for devices, and for the unique index on MACs. SQLAlchemy sends no `UPDATE`
for a value that is unchanged: a step that writes the value the row already has is
allowed, and `Change` in `DeviceRegistry` leaves such a column out.

The sidecar is threaded. `Admit` and `Track` are two steps, because a kill request
may be served between a process's start and its registration; a kill pops the
processes under the lock and ends them after it (`KillTake`, `KillTaken`).

A test in `Assessment` is one step. The engine awaits many times inside it, but
nobody else writes this run's caches; what happens meanwhile is the outage (`out`)
that may touch the attempt, and the cancellation or crash that `End` stands for.

### Data that is abstracted

In `TestRun` a verdict is `pending` or `done`; a link is `tcp` (a service answers),
`icmp` (only ping) or `down`. Sleeps end whenever their step is taken and the 45 s
grace whenever `GraceOver` is. What a test does with the tools is one outcome.

In `Assessment` a device is a set of traits: the services it has, open or
open|filtered, where they are (`tls` is TLS that only a banner reveals, on 8443, 8080
or 4443 with `usual_tls`, which the TLS tests fall back on; `odd` is a port no default
list holds, 322 with `rtsps`, which U09 always allows), and how they behave. A report
is the set of facts its evaluator looks at. `ToolOutput` says which facts each tool reports of which traits:
JSON or text, complete or cut off by an outage, in error. A verdict keeps its
canonical name. A device is fixed during a launch and may be any other one in the
next, which is how a repaired or replaced device looks.

In `RunReview` `na` stands for `na`, `info` and `skipped_safe_mode`, which count alike.
In `DeviceRegistry` an address is a number, since sweeps sort them; devices have no
project, so that the constraint on (address, project) binds nobody. A MAC is an atom:
the import stores the notation it is given, so that one interface in two notations
is two MACs, to the unique index as to the model. Which evidence makes
`probe_device_connectivity` report a host as reachable is left open (`Reachable`): its
gates take a ping at LAN latency as proof, which a gateway, proxy ARP or Docker's NAT
may give for a device that is gone (`routes/discovery.py:341-342`), so that sweeps and
batches may register such an address, in the code as in the model.
Metadata, counters that are only shown, progress, wording and logging are left out.
`launch_test_run` is never called with a test plan, so the plan branches of `run()`
do not occur.

In `TestRun` the launcher's registry entry disappears with the task; what happens
when the done callback comes later is `LaunchPool`'s subject.

## Runs

| run | instance | checks |
|---|---|---|
| `run_pauses` | 2 clients: start, cancel, pause, resume, choose an interface; 1 launch, 2 losses of the link, the code's threshold of 2 failures, 2 polls per wait, exceptions in tests, one test that needs a host interface | `TypeOK`, `BlockedMeansWatched` |
| `run_settled` | 2 clients: start, flag, resume, complete, review, update; 2 launches; a manual test | `SettledUnlessRaced` |
| `run_outages` | 1 client: start, start with discovery, cancel; 2 launches, all three link qualities, 1 loss, 1 crash; fair | `HandlerReachable`, `NoOrphanedStatus`, `EngineEnds` |
| `launch_pool` | 3 runs, 3 tasks, 2 slots; fair | `PoolTypeOK`, `ConcurrencyBound`, `RegistryTracksLive`, `OneTaskPerRun`, `NoStarvation`, `SlotsAreExclusive` |
| `tool_sidecar` | 1 caller (its abandoned requests go on beside its new ones), 2 requests, 2 slots, 2 threads, 2 tries, a target with and one without a port; fair | `TypeOK`, `KillReaches`, `TrackedIsServed`, `ImplementsExclusivePool`, `CallsEnd` |
| `batch_scan` | 1 scan, 2 starters, 2 runs, 1 crash; fair | `TypeOK`, `OneAttendant`, `ScanningIsAttended`, `CompleteWhenSettled`, `BatchEnds` |
| `scan_scheduler` | 1 schedule without or with a limit of 1, 2 runs, 1 crash; fair | `TypeOK`, `CountsLaunches`, `LaunchesBounded`, `DueIsServed` |
| `run_review` | a release-blocking automatic and a manual test, 4 verdicts, 2 clients, 3 requests | `TypeOK`, `OperationalIsClean`, `AloneAgrees`, `AloneSummarizes` |
| `assessment` | 26 devices, 2 profiles, 2 launches, 2 outages | `TypeOK`, `NoFalseAlarm`, `PassIsEarned`, `SkipsAreGrounded` |
| `cipher_inventory` | the same | `WeakCiphersRejected` is violated |
| `device_registry` | 2 devices, 2 addresses, 1 MAC, 2 requests | `TypeOK`, `TwinsAreExcused`, `ModeIsAddressed` |
| `host_adapter` | 2 runs, 2 link profiles, 1 fault | `TypeOK`, `AdapterIsRestored`, `PassIsProven` |

**What `cipher_inventory` shows.** U10 asks testssl for protocols only (`-p`) and
stores the report in the run's cache as complete (`test_engine.py:2842`: completeness
is required of U11 alone). U11 finds it there, judges an empty list of ciphers, and
never runs `testssl -E`: a device that offers weak ciphers is not failed, although
`test_library.py:85` says of U11 "Evaluate cipher suite strength and reject weak
ciphers."

**Where a property has an excuse.** A property names what the code does not promise,
so that everything else is still found:

- `SettledUnlessRaced` excuses a commit whose session had read a status or results that
  another commit changed before it (`raced`). That is a weakness of the code: a
  complete that has counted the results while an edit takes one back to pending leaves
  a completed run with pending manual work, and two finalisers, an edit and a review
  overwrite one another likewise. Nothing else does, and the next commit that is not
  overtaken repairs the run.
- `RegistryTracksLive` and `OneTaskPerRun` excuse tasks launched before the done callback
  of the run's earlier task (`late`): asyncio calls it behind the handles that were
  ready, and it removes the run's entry whichever task it holds. A third launch may
  then execute the run twice, but only beside a task launched so.
- `NoStarvation` excuses `HeldByPaused`, and `BatchEnds` a batch with a run that stays
  paused: a paused engine polls the row inside the semaphore, and nobody has to resume
  a manual pause (`test_engine.py:4110-4117`).
- `NoFalseAlarm` excuses `Misread`: where testssl's JSON is missing its text is read,
  and a line "not offered" counts as offered (`testssl_parser.py:155`); likewise
  ssh-audit's text marks more than its JSON lists.
- `PassIsEarned` speaks of launches in which every tool answered in full (`quiet`): an
  outage or a failed tool may still let a device pass U09 or U35, which read missing
  evidence as good news.
- `TwinsAreExcused` names the doors through which two devices come to share an
  address: the refresh before a run, which asks nobody; a DHCP device created with an
  address, which is not looked at; and a request another one overtook. `ModeIsAddressed`
  excuses two updates at once.
- `AdapterIsRestored` excuses `scars`: a failed or lost restore, a failed "up", a
  profile set after the last restore, a crash. `PassIsProven` excuses U03 and U20 of
  runs whose adapter another command touched: nothing serialises the workflows.
- `CountsLaunches` and `LaunchesBounded` allow one launch per crash;
  `ScanningIsAttended` and `BatchEnds` excuse scans a crash dropped, because nothing at
  startup looks at them.
- `AloneAgrees` and `AloneSummarizes` speak of requests that overlap no other write;
  two editors at once may leave a verdict that no result supports
  (`test_results.py:164`).

Other limits of the code lie outside a run's instance and are listed under "hazards".
`NoOrphanedStatus` is false once resume requests are admitted (resume commits
`running` and may then be refused because the old task is still closing), with a
pause-cable on a run that awaits manual tests, with an exception out of a test while a
monitor waits, and with two racing starts; `BlockedMeansWatched` is false with
`pause-cable` (the monitor may resume the handler while the flag's commit is
outstanding) and with two racing starts. A pause by a user is overwritten by the
engine's next progress write and cleared by a monitor that leaves a wait. `EngineEnds` is
checked without pause requests: a manual pause may last for ever.

**Bounds.**

- *TestRun.* `MaxLaunch` 2 lets a handler of an earlier launch outlive its engine and
  meet the next one; more launches add only further such handlers. `MaxFlips` 1 or 2
  lets the device vanish at every point, and recover at any later one; recoveries
  are not bounded beyond that. `FailThreshold` 1 skips a harmless first failure, and
  `run_pauses` uses the code's 2. `MaxWaits` stands for the five minutes of polls: one
  poll already reaches the timeout, two reach a retry before it. One crash is enough
  for recovery, since a second one starts from a state the first one reaches. In
  `run_settled` one manual test has all the pending work there can be; an edit and a
  complete overlap with each other and with the engine of either launch.
- *LaunchPool.* A third task is what a run needs to be launched again while two of its
  tasks are outstanding, and a third run what finds both slots taken.
- *Assessment.* The 26 devices cross six sets of services with four ways to behave, and
  two of them offer nothing, so that each test meets its weakness, its absence and a
  missing service. A second
  launch is what stale caches need, and two outages let one disturb a scan and
  another a test that relies on it. Two profiles can compete for a device.
- *RunReview.* Three requests: one to race, one to repair, one in between.
- *HostAdapter.* Two profiles stand for the code's five, since every profile is set,
  probed and left in the same way; one fault, since each leaves its own scar.
- *DeviceRegistry.* Two requests race; an import file has one row, since its rows are
  checked and inserted one by one like separate requests would be; one MAC, which two
  rows can contend for.
- *ToolSidecar.* Two requests are enough for one to hold what another needs; the caller
  may leave a request and send another. `MaxStrays` only saturates a counter.
- *BatchScan, ScanScheduler.* Two runs are the fewest of which some settle and others do
  not; a limit of 1 is reached by the first launch and exceeded by a lost count.

`CHECK_DEADLOCK FALSE` where the system may rest: a run that is over and has used up
its launches (or requests, or outages), a scan whose runs are used up, a registry
whose two requests wait for each other's rows (PostgreSQL breaks that tie, and
`Abort` is then the loser's step).

**Fairness.** `TestRun!FairSpec` asks for weak fairness of the engine, of each monitor,
of the second step of a request and of restart: the event loop runs every ready task,
every await has a timeout, and the container restarts. `EngineFails` and the first
step of a request are not fair: nobody has to make a request. The link recovers
eventually; without that assumption an engine may wait for ever, as it should.
In `LaunchPool`, `Finish` is weakly fair while the engine is not paused, because of
`EngineEnds`; `Resume` is not fair at all; and `Acquire` is strongly fair because
asyncio's semaphore wakes waiters in order. In `ToolSidecar` an attempt
is sent and a request served in the end (strong fairness: threads take requests in
the order they came), and a process that is read has a deadline; no tool has to end by
itself and nobody has to leave or kill. In `BatchScan` an engine begins and ends under
weak fairness while its run is not paused (`EngineEnds` of `TestRun`), no pause has to be
resumed, and monitors and handlers go on. In `ScanScheduler` the loop repeats every
minute and survives exceptions, and each due schedule has its turn. `Assessment`,
`RunReview`, `DeviceRegistry` and `HostAdapter` have no liveness property and no fairness.

## Proofs

Assumed are the named assumptions on the constants: the bounds are natural numbers,
the tests a sequence, the sets of tasks, runs, start requests, tool requests and rows
finite, the names for "nothing" none of the things they stand beside. Nothing is
assumed about the number of clients, tests, runs, tasks, devices or schedules. Every
type invariant, safety invariant and action property of the runs above is proved; what
the code promises only in the absence of a race (two properties of `TestRun`) is proved
under hypotheses that say so; every other theorem is about all behaviours of its module,
the excuses named above being part of the property. TLC has
checked each inductive invariant on an instance like that of its component's run.

`TestRun_proofs`

- `RunTypeCorrect` and `HandlerIsReachable` come from the inductive invariant
  `RunIInv == TypeOK /\ EngineInv /\ HandlerReachable`. `EngineInv` says that a task
  works for one of the launches and that a test is at hand inside the loop's
  body; without the first the registry entry it stops could be nobody's, without
  the second the verdict it records is outside the function. Monitors of other
  launches cannot disturb the invariant, because they never touch the registry
  and never stop a handler (`CableSteps`, `Watched`).
- `SettledHasNoManualWork` (`SettledUnlessRaced`) needs `SessionInv`: a session that is
  about to commit, of a request or of the engine, has seen results in which its own
  edit is, and which allow the status it has chosen (`SessionRead`). If nobody committed in
  between, these are the results as they stand; otherwise the commit sets `raced`. Every
  other step of the engine leaves the run unsettled or makes no result pending.
- `BlockedOnlyByRaces`: `PauseWatched` (a `paused_cable` row has a paused live handler)
  holds from the handler's construction on (`BlockedInv`), in every behaviour in which
  no task is launched while a start awaits its discovery (`StartsInTime`) and no monitor
  resumes the handler between the flush of a pause-cable and its commit (`FlagsHold`). The
  engine stops its handler only when it has left the loop, and a monitor that resumes
  its handler ends the cable pause in the same step. `BlockedIsWatched` is the special case
  in which the kinds of requests rule both races out (`InFlightInv`).
- `OrphanedOnlyByRaces`: the status a spent task leaves is not one that promises an
  engine, unless somebody is still about who will write another one, a cancel
  request or a monitor (`OrphanInv`); a pause-cable under way holds the row's lock, so
  that the row keeps the status it was flagged in (`FlagInv`). Four races are excluded, each
  of which breaks the property: `StartsInTime`; a resume that awaits its probe while
  the engine comes to its end, and is refused after its commit (`ResumesInTime`); a
  pause-cable for a run that awaits manual tests, which has no engine (`FlagsRunning`);
  and somebody who replaces `failed` between an exception and the finally block
  (`FailuresLast`), for instance a monitor whose wait times out, since
  `_mark_paused_cable` does not look at the status. TLC finds each of them, and each of the
  two above, when it alone is admitted. `NoStatusOrphaned` is the special case
  in which requests and tests rule them out.

`Pools_proofs` extends launcher and sidecar, two exclusive pools of one shape.

- `PoolTypeCorrect` and `PoolIsBounded`: `PoolTypeOK` alone is not inductive, since
  nothing in it keeps `permits` from passing its bound; `LaunchSlots` counts the slots
  taken as the running tasks, `permits + Cardinality(Working) = MaxConcurrent`.
- `RegistryTracks` (`RegistryTracksLive`) and `OneEngineEach` (`OneTaskPerRun`), whenever
  callbacks run: a live task that is not `late` is registered for its run, and no other
  task of that run is outstanding (`LaunchedAlone`), since launches for the run are
  refused while it lives and no callback of the run was due when it was launched.
- `PoolImplements` (`SlotsAreExclusive`): the refinement maps `busy` to the tasks that run
  or are paused and `free` to `permits`; a pause is a stutter, since it keeps its slot.
- `SidecarInv` has independent parts: calls and requests under way are for a target
  (`CallInv`, `RequestInv`), `SlotsInv` counts the slots as in the launcher, and
  `RegistryType` adds that processes are in the hands of a kill only while it is at
  work. `TrackedAreServed` and `KillReachesTools` are inductive relative to them: that
  unregistering one process touches no other needs that each is under its own key
  alone. `SlotSteps`, every step takes one slot, returns one or moves none, gives both
  `SidecarTypeCorrect` and the refinement `SidecarImplementsPool`.

`BatchScan_proofs`

- `BatchInv` adds to the properties what ties a request to its scan: `StartInv` (a
  request at work is for a scan, and no two for the same one) and `AttendantInv` (a
  launching request, or a monitor, works for the runs the row names, of which there
  are some, and a scan has not both). Without the latter a monitor could look at the
  runs of one batch and complete the row of another. `BatchTypeCorrect`,
  `BatchHasOneAttendant`, `ScanningScanIsAttended` and `CompleteIsSettled` follow.

`ScanScheduler_proofs`

- `ScheduleInv == TypeOK /\ ExecInv /\ ProvisionedInv /\ CountInv /\ BudgetInv`. `TypeOK`
  bounds the counters by the number of runs, which is inductive only because each launch
  belongs to a run provisioned for that schedule and no other (`ProvisionedInv`);
  `BudgetInv` says that the run at hand still fits into `max_runs`, since the schedule was
  active with that limit when it was read. `SchedulesTypeCorrect`, `CountIsOfLaunches` and
  `LaunchesAreBounded` follow.

`HostAdapter_proofs`

- `AdapterInv` ties each workflow that waits to exactly one command of its own
  (`ServiceInv`), what it has learned to what the adapter did (`ProbedInv`, `SoundInv`),
  and says that an adapter that is not as it was has a restore ahead of it or bears the
  scar of a lost one (`MendingInv`). `AdapterTypeCorrect`, `AdapterRestored` and
  `PassProven` (an action property) follow.

`DeviceRegistry_proofs`

- `RegistryInv` speaks of the table as it will be when each request under way commits:
  a MAC is unique in it, what two requests write is compatible because one of them
  holds the lock, and what a request found when it looked is still so unless another one
  was faster. `RegistryTypeCorrect`, `TwinsExcused` and `ModesAddressed` follow.

`RunReview_proofs`

- `ReviewInv` says what a session under way has read and will write (`SessionSound`) and
  that finalisation leaves the row it should (`EngineSound`); `MergedTwice` shows
  that merging a summary into itself changes nothing. `ReviewTypeCorrect`,
  `OperationalRunsAreClean` and, for requests that no other overlapped,
  `AloneWritesAgree` and `AloneWritesSummarize`, which are action properties.

`Assessment_proofs`

- `AssessInv` adds to the properties `CachesSound` (a cache holds nothing the device does
  not show), `Fresh` (no cache outlives its launch and nothing is skipped before the
  fingerprint phase), `Whole` (while every tool has answered in full, U06 and U08 have
  recorded all there is, nothing has filled the TLS cache before U10, and U10 or U11
  has left the weak suites in it) and `TextKept` (a text report U10
  cached stays until U11 is through; without it a retry of U11 could take away the excuse
  of a verdict that is already recorded). What a tool may report of a device is proved
  once for each scanner and parser and cited by the tests that use it. `AlarmsAreTrue`,
  `PassesAreEarned`, `SkipsHaveGrounds` and `AssessmentTypeCorrect` hold for any devices,
  profiles, launches and outages.

Only model-checked: the liveness properties `EngineEnds`, `NoStarvation`, `CallsEnd`,
`BatchEnds` and `DueIsServed`, which rest on fairness and ENABLED and are out of reach
of the prover's backends.

## Not modelled

- Components marked `not_modelled` in `PROJECT.json`, with the reason. Most are database
  CRUD, document generation or network I/O.
- Of the engine's tests: U05 (it answers a constant for an IPv4 target), the guided
  manual tests (a result a person enters, in `TestRun` and `RunReview`), and the
  retired tests, which `_dispatch_test` can still execute but provisioning gives to no
  run. U03, U20 and U04's two windows are in `HostAdapter` and not in `Assessment`'s plan.
- Learning of profiles: `learn_from_run` is called with a fingerprint that the code
  never persists (the metadata is changed in place), so it does nothing.
- The length of the observers' windows: their timeout starts anew with each packet.
- In the sidecar, command lines, network detection and testssl's temporary files; in
  the host workflows, how an interface is selected from a list.
- Two backend processes on one database (the launcher's registry is per process, and
  batch scans refuse to start then), SQLite instead of PostgreSQL, and failures of
  single database writes.

## Plan

Proofs: a refinement from `TestRun` to `BackgroundRuns` would replace the informal
argument that one is the coarse view of the other.

Models: the testssl stream's temporary file and slot in `ToolSidecar`, the pause
reason in `TestRun` (a service pause is resumed by a ping), and refresh tokens.
