------------------------------ MODULE CableHandler ------------------------------
(* The wobbly cable handler of services/wobbly_cable.py: one handler object    *)
(* and one monitor task per launch of a test run, sharing the run's row with   *)
(* the engine and the routes.                                                  *)
(*                                                                             *)
(* A step of this model ends where the code awaits something other than the    *)
(* database: a probe, a sleep, a tool call or a WebSocket send.  Database      *)
(* round trips inside one session are part of the step.  Time is abstract: a   *)
(* sleep ends whenever its step is taken and the TCP grace period whenever     *)
(* GraceOver is.                                                               *)
EXTENDS Naturals, RunStatus

CONSTANTS
  MaxLaunch,      \* bound: launches of the run, hence handlers, over a behaviour
  FailThreshold,  \* FAIL_THRESHOLD, 2 in the code
  MaxWaits,       \* bound: polls of one reconnection wait before TIMEOUT_MINUTES
  Links,          \* the link qualities the environment ranges over
  MaxFlips        \* bound: how often the link may degrade

ASSUME BoundsAssumption ==
  /\ MaxLaunch \in Nat \ {0} /\ FailThreshold \in Nat \ {0}
  /\ MaxWaits \in Nat \ {0} /\ MaxFlips \in Nat

\* "down": no answer; "icmp": ping only; "tcp": a known service port answers.
ASSUME LinksAssumption == Links \subseteq {"down", "icmp", "tcp"} /\ "tcp" \in Links

VARIABLES
  status,   \* the committed status column of the run
  link,     \* the device as a probe sees it
  flips,    \* how often the link has degraded
  active,   \* _active_handlers[run]: the registered handler, 0 for none
  h,        \* the handler objects
  mon       \* their monitor tasks

cableVars == <<status, link, flips, active, h, mon>>

Handlers == 1..MaxLaunch

Fresh ==
  [running |-> TRUE, paused |-> FALSE, manual |-> FALSE, reason |-> "none",
   fails |-> 0, grace |-> FALSE]

Gone == [Fresh EXCEPT !.running = FALSE]

MonitorOff == [pc |-> "off", grace |-> FALSE, ok |-> FALSE, waits |-> 0]

MonitorOn == [MonitorOff EXCEPT !.pc = "sleep"]

HandlerType ==
  [running : BOOLEAN, paused : BOOLEAN, manual : BOOLEAN,
   reason : {"none", "cable", "service"}, fails : Nat, grace : BOOLEAN]

MonitorType ==
  [pc : {"off", "sleep", "probe", "decide", "stable", "restable", "kill",
         "wait", "poll", "settle"},
   grace : BOOLEAN, ok : BOOLEAN, waits : 0..(MaxWaits - 1)]

CableTypeOK ==
  /\ status \in Statuses
  /\ link \in Links /\ flips \in 0..MaxFlips
  /\ active \in 0..MaxLaunch
  /\ h \in [Handlers -> HandlerType]
  /\ mon \in [Handlers -> MonitorType]

CableInit ==
  /\ link \in Links /\ flips = 0
  /\ active = 0
  /\ h = [g \in Handlers |-> Gone]
  /\ mon = [g \in Handlers |-> MonitorOff]

--------------------------------------------------------------------------------
(* What the environment does to the device.                                    *)

Worse(l, k) ==
  <<l, k>> \in {<<"tcp", "icmp">>, <<"tcp", "down">>, <<"icmp", "down">>}

LinkDegrades ==
  /\ flips < MaxFlips
  /\ \E l \in Links : Worse(link, l) /\ link' = l
  /\ flips' = flips + 1
  /\ UNCHANGED <<status, active, h, mon>>

LinkRecovers ==
  /\ \E l \in Links : Worse(l, link) /\ link' = l
  /\ UNCHANGED <<status, flips, active, h, mon>>

Reachable == link # "down"

--------------------------------------------------------------------------------
(* The handler's own methods, as the flags after the call.                     *)

\* manual_pause().
ManuallyPaused(x) == [x EXCEPT !.paused = TRUE, !.manual = TRUE]

\* Mutant: a pause for an outage looks like a manual one.
CablePausedManually(x, why) ==
  [x EXCEPT !.paused = TRUE, !.manual = TRUE, !.reason = why]

\* The flags pause_for_disconnect() sets.
CablePaused(x, why) == [x EXCEPT !.paused = TRUE, !.reason = why]

\* resume() and the flag part of _resume_testing(), idempotent under the lock.
Resumed(x) ==
  IF x.paused
  THEN [x EXCEPT !.paused = FALSE, !.manual = FALSE, !.reason = "none",
                 !.fails = 0, !.grace = TRUE]
  ELSE x

\* Mutant: a status outside the canonical ones is written.
StatusAfterDisconnectLegacy == IF status \in Over THEN status ELSE "paused"

\* The row after pause_for_disconnect's guarded write.
StatusAfterDisconnect == IF status \in Over THEN status ELSE "paused_cable"

\* Mutant: _resume_testing does not save the status.
StatusAfterReconnectUnsaved(g) == status

\* The row after _resume_testing's guarded write.
StatusAfterReconnect(g) ==
  IF h[g].paused /\ status = "paused_cable" THEN "running" ELSE status

\* stop(), after which the engine cancels the monitor task.
StopHandler(g) ==
  /\ h' = [h EXCEPT ![g] = Gone]
  /\ active' = 0
  /\ mon' = [mon EXCEPT ![g] = MonitorOff]

--------------------------------------------------------------------------------
(* The monitor task of handler g.                                              *)

At(g, pc) == mon[g].pc = pc

Go(g, pc) == mon' = [mon EXCEPT ![g].pc = pc]

GraceOver(g) ==
  /\ h[g].grace
  /\ h' = [h EXCEPT ![g].grace = FALSE]
  /\ UNCHANGED <<status, link, flips, active, mon>>

\* Top of the loop: in_grace is read before the probe is awaited.
MonitorWake(g) ==
  /\ At(g, "sleep") /\ h[g].running
  /\ mon' = [mon EXCEPT ![g].pc = "probe", ![g].grace = h[g].grace]
  /\ UNCHANGED <<status, link, flips, active, h>>

MonitorProbe(g) ==
  /\ At(g, "probe")
  /\ mon' = [mon EXCEPT ![g].pc = "decide", ![g].ok = Reachable]
  /\ UNCHANGED <<status, link, flips, active, h>>

Decided(g, pc) ==
  mon' = [mon EXCEPT ![g] = [MonitorOff EXCEPT !.pc = pc]]

MonitorSeesLink(g) ==
  /\ At(g, "decide") /\ mon[g].ok
  /\ IF h[g].paused /\ ~h[g].manual
     THEN Decided(g, "stable") /\ UNCHANGED h
     ELSE Decided(g, "sleep") /\ h' = [h EXCEPT ![g].fails = 0]
  /\ UNCHANGED <<status, link, flips, active>>

\* A failure inside the grace period is ignored; outside it is counted.
MonitorMissesLink(g) ==
  /\ At(g, "decide") /\ ~mon[g].ok
  /\ LET fails == IF mon[g].grace THEN h[g].fails ELSE h[g].fails + 1
         lost  == ~mon[g].grace /\ fails >= FailThreshold /\ ~h[g].paused
         x     == [h[g] EXCEPT !.fails = IF fails > FailThreshold
                                         THEN FailThreshold ELSE fails]
     IN /\ h' = [h EXCEPT ![g] = IF lost THEN CablePaused(x, "cable") ELSE x]
        /\ status' = IF lost THEN StatusAfterDisconnect ELSE status
        /\ Decided(g, IF lost THEN "kill" ELSE "sleep")
  /\ UNCHANGED <<link, flips, active>>

MonitorStable(g) ==
  /\ At(g, "stable")
  /\ IF h[g].manual
     THEN Go(g, "sleep") /\ h' = [h EXCEPT ![g].fails = 0]
     ELSE Go(g, "restable") /\ UNCHANGED h
  /\ UNCHANGED <<status, link, flips, active>>

MonitorRestable(g) ==
  /\ At(g, "restable")
  /\ h' = [h EXCEPT ![g] = IF Reachable THEN Resumed(@) ELSE @,
                   ![g].fails = 0]
  /\ status' = IF Reachable THEN StatusAfterReconnect(g) ELSE status
  /\ Go(g, "sleep")
  /\ UNCHANGED <<link, flips, active>>

\* kill_target and the cable_disconnected broadcast, then the reconnection wait.
MonitorKilled(g) ==
  /\ At(g, "kill")
  /\ mon' = [mon EXCEPT ![g].pc = IF h[g].paused THEN "wait" ELSE "sleep",
                        ![g].waits = 0]
  /\ UNCHANGED <<status, link, flips, active, h>>

\* The sleep of one poll is over: leave if somebody resumed the run meanwhile.
MonitorWaited(g) ==
  /\ At(g, "wait")
  /\ Go(g, IF h[g].paused THEN "poll" ELSE "sleep")
  /\ UNCHANGED <<status, link, flips, active, h>>

\* Mutant: the monitor returns when a reconnection wait times out.
PollAgainOrLeave(g) ==
  LET n == mon[g].waits + 1
      over == n = MaxWaits \/ ~h[g].paused
  IN /\ mon' = [mon EXCEPT ![g].pc = IF over THEN "off" ELSE "wait",
                           ![g].waits = IF over THEN 0 ELSE n]
     /\ status' = IF over /\ h[g].paused THEN "paused_cable" ELSE status
     /\ UNCHANGED h

\* A poll that found nothing: another one, or _mark_paused_cable at the timeout.
PollAgain(g) ==
  LET n == mon[g].waits + 1
      over == n = MaxWaits \/ ~h[g].paused
  IN /\ mon' = [mon EXCEPT ![g].pc = IF over THEN "sleep" ELSE "wait",
                           ![g].waits = IF over THEN 0 ELSE n]
     /\ status' = IF over /\ h[g].paused THEN "paused_cable" ELSE status
     /\ UNCHANGED h

MonitorPolled(g) ==
  /\ At(g, "poll")
  /\ IF Reachable
     THEN Go(g, "settle") /\ UNCHANGED <<status, h>>
     ELSE PollAgain(g)
  /\ UNCHANGED <<link, flips, active>>

\* Unlike MonitorStable, the wait does not look at is_manually_paused.
MonitorSettled(g) ==
  /\ At(g, "settle")
  /\ IF Reachable
     THEN /\ h' = [h EXCEPT ![g] = Resumed(h[g])]
          /\ status' = StatusAfterReconnect(g)
          /\ mon' = [mon EXCEPT ![g] = MonitorOn]
     ELSE PollAgain(g)
  /\ UNCHANGED <<link, flips, active>>

Monitor(g) ==
  \/ MonitorWake(g) \/ MonitorProbe(g)
  \/ MonitorSeesLink(g) \/ MonitorMissesLink(g)
  \/ MonitorStable(g) \/ MonitorRestable(g)
  \/ MonitorKilled(g) \/ MonitorWaited(g)
  \/ MonitorPolled(g) \/ MonitorSettled(g)

CableNext ==
  \/ LinkDegrades \/ LinkRecovers
  \/ \E g \in Handlers : Monitor(g) \/ GraceOver(g)
================================================================================
