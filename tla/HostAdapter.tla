------------------------------- MODULE HostAdapter -------------------------------
(* The Ethernet adapter of the scanner's host, and the tests that work on it:    *)
(* U03 forces one link profile after another and probes the device under each,   *)
(* U20 takes the adapter down and up again.  Both restore it at the end, also    *)
(* after an exception or a cancellation.  A command goes on at the host scanner  *)
(* when its caller has stopped waiting, and runs on one adapter may overlap.     *)
(* U04 offers the device one address after another across the same link.         *)
(* The scanner here has ethtool or PowerShell.                                   *)
EXTENDS Naturals, FiniteSets

CONSTANTS
  Runs,      \* runs whose device is behind this adapter
  Profiles,  \* the profiles of U03 are 1 .. Profiles; 0 is autonegotiation
  MaxFaults  \* bound on cancellations, crashes and lost answers

ASSUME AdapterAssumption == Profiles \in Nat \ {0} /\ MaxFaults \in Nat

VARIABLES
  adapter,  \* link and profile
  work,     \* each run's workflow and what it noted
  cmds,     \* commands at the scanner, awaited by their run or not
  scars,    \* what nobody will put right: "profile", "link"
  faults

vars == <<adapter, work, cmds, scars, faults>>

All == 1 .. Profiles

Windows == 1 .. 2  \* U04's address ranges

\* applied and reached go into the verdict (for U04, the windows in which a lease was
\* acknowledged and in which anything was heard); seen, cut and disturbed are history:
\* the profiles the adapter really had when the device answered, or the windows in
\* which the run's own device asked for a lease, whether the link
\* was down, and whether a command the run does not wait for was executed.
NoWork ==
  [pc |-> "idle", test |-> "none", next |-> 0, applied |-> {}, reached |-> {},
   raised |-> FALSE, verdict |-> "none", seen |-> {}, cut |-> FALSE, disturbed |-> FALSE]

Init ==
  /\ adapter = [link |-> "up", profile |-> 0]
  /\ work = [r \in Runs |-> NoWork]
  /\ cmds = {}
  /\ scars = {}
  /\ faults = 0

--------------------------------------------------------------------------------
(* The workflows, between the answers of the scanner.                            *)

Posting == {"setting", "cycling", "restoring"}

\* The command a workflow posts on entering a state.
Posted(r, w) ==
  CASE w.pc = "setting"   -> {[run |-> r, op |-> "set", profile |-> w.next,
                               stage |-> "start", awaited |-> TRUE]}
    [] w.pc = "cycling"   -> {[run |-> r, op |-> "cycle", profile |-> 0,
                               stage |-> "start", awaited |-> TRUE]}
    [] w.pc = "restoring" -> {[run |-> r, op |-> "restore", profile |-> 0,
                               stage |-> "start", awaited |-> TRUE]}
    [] OTHER -> {}

\* _eval_u03, _eval_u04_v2 and _eval_u20.
Verdict(w, restored) ==
  CASE w.raised -> "error"
    [] ~w.raised /\ w.test = "U04" -> IF w.applied = Windows THEN "pass" ELSE "info"
    [] ~w.raised /\ w.test # "U04" /\ w.applied = {} -> "na"
    [] OTHER -> IF /\ w.test = "U03" => w.applied = All /\ w.reached = All
                   /\ w.test = "U20" => w.reached # {}
                   /\ restored
                THEN "pass" ELSE "advisory"

\* The next profile, or the restore of the finally clause.
Onward(w) ==
  IF w.test = "U03" /\ w.next < Profiles
  THEN [w EXCEPT !.pc = "setting", !.next = @ + 1]
  ELSE [w EXCEPT !.pc = "restoring"]

\* The answer to the command a workflow waits for: ok, failed, or an exception,
\* which U20 passes on after its restore.
After(w, outcome) ==
  CASE w.pc = "restoring" ->
         [NoWork EXCEPT !.verdict = Verdict(w, outcome = "ok")]
    [] w.pc # "restoring" /\ outcome = "ok" ->
         [w EXCEPT !.pc = "probing", !.applied = @ \cup {w.next}]
    [] OTHER ->
         [Onward(w) EXCEPT !.raised = w.test = "U20" /\ outcome = "error"]

\* _test_switch_negotiation, _test_network_disconnection and
\* _test_dhcp_two_phase_workflow, once an interface is selected; the adapter's state
\* which the first two read is sent along with the restore and unused.
Begin(r, test) ==
  LET first == CASE test = "U03" -> "setting" [] test = "U20" -> "cycling"
                 [] test = "U04" -> "queued"
      w == [NoWork EXCEPT !.pc = first, !.test = test, !.next = 1]
  IN
  /\ work[r].pc = "idle"
  /\ work' = [work EXCEPT ![r] = w]
  /\ cmds' = cmds \cup Posted(r, w)
  /\ UNCHANGED <<adapter, scars, faults>>

\* _probe_after_host_network_change: over a link that is up it may get an answer.
Probe(r, reachable) ==
  LET w  == work[r]
      w2 == Onward([w EXCEPT !.reached = IF reachable THEN @ \cup {w.next} ELSE @,
                             !.seen = IF reachable /\ ~w.disturbed THEN @ \cup {adapter.profile}
                                      ELSE @])
  IN
  /\ w.pc = "probing"
  /\ reachable => adapter.link = "up"
  /\ work' = [work EXCEPT ![r] = w2]
  /\ cmds' = cmds \cup Posted(r, w2)
  /\ UNCHANGED <<adapter, scars, faults>>

--------------------------------------------------------------------------------
(* U04: the observer serves one device at a time and takes the port for as long    *)
(* as packets keep coming.                                                         *)

\* _observer_lock: the run whose window is open.
Watching(r) == work[r].pc = "watching"

Watch(r) ==
  /\ work[r].pc = "queued"
  /\ \A q \in Runs : ~Watching(q)
  /\ work' = [work EXCEPT ![r].pc = "watching"]
  /\ UNCHANGED <<adapter, cmds, scars, faults>>

\* parse_dhcp_packet yields the sender, and observe_dhcp_activity drops the packets
\* of other devices.
Heard(r, d) == r = d

\* The device of run d asks for a lease, for ours or another server's; whoever
\* watches, and hears it, acknowledges, unless the answer cannot be sent.
AsksLease(d, sent) ==
  /\ adapter.link = "up"
  /\ \E r \in Runs :
       LET w == work[r] IN
       /\ Watching(r) /\ Heard(r, d)
       /\ work' = [work EXCEPT ![r] =
            [w EXCEPT !.reached = w.reached \cup {w.next},
                      !.applied = IF sent THEN w.applied \cup {w.next} ELSE w.applied,
                      !.seen = IF d = r THEN w.seen \cup {w.next} ELSE w.seen]]
  /\ UNCHANGED <<adapter, cmds, scars, faults>>

\* Silence for the timeout closes the window: on to the second range, then the
\* verdict.  A port that cannot be bound or read ends the test without one.
WindowCloses(r) ==
  /\ Watching(r)
  /\ work' = [work EXCEPT ![r] =
       IF work[r].next < 2 THEN [work[r] EXCEPT !.pc = "queued", !.next = 2]
       ELSE [NoWork EXCEPT !.verdict = Verdict(work[r], TRUE)]]
  /\ UNCHANGED <<adapter, cmds, scars, faults>>

PortTaken(r) ==
  /\ Watching(r)
  /\ work' = [work EXCEPT ![r] = [NoWork EXCEPT !.verdict = "info"]]
  /\ UNCHANGED <<adapter, cmds, scars, faults>>

--------------------------------------------------------------------------------
(* The host scanner: each command is a thread of its own.                        *)

\* Another's command was executed in a workflow, which has now proved nothing.
Disturbed(w) ==
  IF w.test \in {"none", "U04"} THEN w
  ELSE [w EXCEPT !.disturbed = TRUE, !.seen = {}, !.cut = FALSE]

Outcome(ok) == IF ok THEN "ok" ELSE "failed"

\* The command ends with an answer, which its run may still be waiting for.
Answered(c, outcome) ==
  LET w == IF c.awaited THEN After(work[c.run], outcome) ELSE work[c.run] IN
  /\ work' = [r \in Runs |->
       IF r = c.run /\ c.awaited THEN w
       ELSE Disturbed(work[r])]
  /\ cmds' = (cmds \ {c}) \cup (IF c.awaited THEN Posted(c.run, w) ELSE {})
  /\ UNCHANGED faults

\* Somebody will still restore the profile.
RestoreToCome ==
  \/ \E r \in Runs : work[r].pc \in {"setting", "cycling", "probing"}
  \/ \E c \in cmds : c.op = "restore"

\* Whether a command took effect and whether it says so: one that ran into its
\* timeout says failed, whatever it did.
Effects == {e \in [took : BOOLEAN, ok : BOOLEAN] : e.ok => e.took}

\* _set_interface_profile.
SetProfile(c, e) ==
  /\ c.op = "set"
  /\ adapter' = IF e.took THEN [adapter EXCEPT !.profile = c.profile] ELSE adapter
  /\ scars' = scars \cup IF e.took /\ ~RestoreToCome THEN {"profile"} ELSE {}
  /\ Answered(c, Outcome(e.ok))

\* _cycle_interface: down ...
CycleDown(c, e) ==
  /\ c.op = "cycle" /\ c.stage = "start"
  /\ adapter' = IF e.took THEN [adapter EXCEPT !.link = "down"] ELSE adapter
  /\ cmds' = (cmds \ {c}) \cup {[c EXCEPT !.stage = IF e.ok THEN "down" ELSE "kept"]}
  /\ work' = [r \in Runs |->
       IF r = c.run /\ c.awaited
       THEN [work[r] EXCEPT !.cut = e.took /\ ~work[r].disturbed]
       ELSE Disturbed(work[r])]
  /\ UNCHANGED <<scars, faults>>

\* Mutant: only the second command's exit code counts.
CycleUpAlone(c, e) ==
  /\ c.op = "cycle" /\ c.stage # "start"
  /\ adapter' = IF e.took THEN [adapter EXCEPT !.link = "up"] ELSE adapter
  /\ scars' = IF e.took THEN scars \ {"link"} ELSE scars \cup {"link"}
  /\ Answered(c, Outcome(e.ok))

\* ... and up again after down_seconds, whatever became of the first; the cycle has
\* succeeded if both commands have.
CycleUp(c, e) ==
  /\ c.op = "cycle" /\ c.stage # "start"
  /\ adapter' = IF e.took THEN [adapter EXCEPT !.link = "up"] ELSE adapter
  /\ scars' = IF e.took THEN scars \ {"link"} ELSE scars \cup {"link"}
  /\ Answered(c, Outcome(e.ok /\ c.stage = "down"))

\* _restore_interface: autonegotiation; a link that is down stays down.
Restore(c, e) ==
  /\ c.op = "restore"
  /\ adapter' = IF e.took THEN [adapter EXCEPT !.profile = 0] ELSE adapter
  /\ scars' = IF e.took THEN scars \ {"profile"} ELSE scars \cup {"profile"}
  /\ Answered(c, Outcome(e.ok))

--------------------------------------------------------------------------------
(* Faults.                                                                       *)

Fault == faults < MaxFaults /\ faults' = faults + 1

Forsaken(c) == [c EXCEPT !.awaited = FALSE]

\* Mutant: a late answer still counts for the workflow.
LoseKeeping(c) ==
  LET w == After(work[c.run], "error") IN
  /\ Fault
  /\ c.awaited
  /\ work' = [work EXCEPT ![c.run] = w]
  /\ cmds' = cmds \cup Posted(c.run, w)
  /\ UNCHANGED <<adapter, scars>>

\* The answer to a command does not come in time, or the command never arrived and
\* is one that fails without effect: the run takes the exception for the answer.
Lose(c) ==
  LET w == After(work[c.run], "error") IN
  /\ Fault
  /\ c.awaited
  /\ work' = [work EXCEPT ![c.run] = w]
  /\ cmds' = (cmds \ {c}) \cup Posted(c.run, w) \cup {Forsaken(c)}
  /\ UNCHANGED <<adapter, scars>>

\* Mutant: a cancellation is not followed by the restore.
CancelLeaving(r) ==
  /\ Fault
  /\ work[r].pc # "idle"
  /\ work' = [work EXCEPT ![r] = NoWork]
  /\ cmds' = {IF c.run = r THEN Forsaken(c) ELSE c : c \in cmds}
  /\ UNCHANGED <<adapter, scars>>

\* The run's task is cancelled: the finally clause restores, or gives the port back;
\* cancelled again, it stops waiting for the restore.  The command it waited for goes on.
Cancel(r) ==
  LET w == IF work[r].pc \in {"restoring", "queued", "watching"} THEN NoWork
           ELSE [work[r] EXCEPT !.pc = "restoring", !.raised = TRUE]
  IN
  /\ Fault
  /\ work[r].pc # "idle"
  /\ work' = [work EXCEPT ![r] = w]
  /\ cmds' = {IF c.run = r THEN Forsaken(c) ELSE c : c \in cmds} \cup Posted(r, w)
  /\ UNCHANGED <<adapter, scars>>

\* The server dies with its workflows; nothing at startup looks at the adapter.
Crash ==
  /\ Fault
  /\ scars' = scars \cup IF \E r \in Runs : work[r].pc \in Posting \cup {"probing"}
                         THEN {"profile"} ELSE {}
  /\ work' = [r \in Runs |-> NoWork]
  /\ cmds' = {Forsaken(c) : c \in cmds}
  /\ UNCHANGED adapter

\* The scanner dies with its commands, a cycle's second half among them.
ScannerDies ==
  LET lost == {c \in cmds : c.awaited}
      w(r) == IF \E c \in lost : c.run = r THEN After(work[r], "error") ELSE work[r]
  IN
  /\ Fault
  /\ cmds # {}
  /\ work' = [r \in Runs |-> w(r)]
  /\ cmds' = UNION {Posted(c.run, w(c.run)) : c \in lost}
  /\ scars' = scars \cup
       (IF \E c \in cmds : c.op = "restore" THEN {"profile"} ELSE {}) \cup
       (IF \E c \in cmds : c.op = "cycle" /\ c.stage # "start" THEN {"link"} ELSE {})
  /\ UNCHANGED adapter

--------------------------------------------------------------------------------

Execute(c) ==
  \E e \in Effects :
    SetProfile(c, e) \/ CycleDown(c, e) \/ CycleUp(c, e) \/ Restore(c, e)

Next ==
  \/ \E r \in Runs :
       \/ \E test \in {"U03", "U04", "U20"} : Begin(r, test)
       \/ Watch(r) \/ WindowCloses(r) \/ PortTaken(r)
       \/ \E sent \in BOOLEAN : AsksLease(r, sent)
       \/ \E reachable \in BOOLEAN : Probe(r, reachable)
       \/ Cancel(r)
  \/ \E c \in cmds : Execute(c) \/ Lose(c)
  \/ Crash
  \/ ScannerDies

Spec == Init /\ [][Next]_vars

--------------------------------------------------------------------------------
(* Properties.                                                                   *)

\* The adapter, the workflows and the commands have their types, and a workflow
\* waits for exactly one command while it says so: its answers cannot be mixed up.
TypeOK ==
  /\ adapter \in [link : {"up", "down"}, profile : 0 .. Profiles]
  /\ scars \subseteq {"profile", "link"} /\ faults \in 0 .. MaxFaults
  /\ \A c \in cmds : c.op \in {"set", "cycle", "restore"} /\ c.profile \in 0 .. Profiles
  /\ \A r \in Runs :
       /\ work[r].pc \in Posting \cup {"idle", "probing", "queued", "watching"}
       /\ work[r].verdict \in {"none", "error", "na", "info", "advisory", "pass"}
       /\ work[r].applied \cup work[r].reached \subseteq All \cup Windows
       /\ Cardinality({c \in cmds : c.run = r /\ c.awaited}) =
            IF work[r].pc \in Posting THEN 1 ELSE 0

\* Once no test and no command is at work, the adapter negotiates again and is up:
\* however the workflows of several runs, their cancellations and the commands they
\* left behind interleave, only a failed or lost restore, a failed "up", a profile
\* set after the last restore or a crash leave it otherwise.
AdapterIsRestored ==
  (\A r \in Runs : work[r].pc = "idle") /\ cmds = {} =>
    /\ adapter.profile # 0 => "profile" \in scars
    /\ adapter.link = "down" => "link" \in scars

\* U03 passes only a device that answered under every profile, and U20 only after
\* the link was down, as long as no other command touched the adapter meanwhile; U04
\* only one that itself asked for a lease in both windows, whoever else was there.
PassIsProven ==
  [][\A r \in Runs :
       work[r].pc # "idle" /\ work'[r].verdict = "pass" =>
         /\ work[r].test = "U03" /\ ~work[r].disturbed => work[r].seen = All
         /\ work[r].test = "U20" /\ ~work[r].disturbed => work[r].cut
         /\ work[r].test = "U04" => work[r].seen = Windows]_vars
==================================================================================
