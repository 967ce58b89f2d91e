------------------------------ MODULE ToolSidecar ------------------------------
(* src/tools/server.py, the sidecar that runs scanners as child processes, and *)
(* services/tools_client.py, through which the backend calls it.  Requests are *)
(* served by a few threads; a semaphore bounds the scans, a registry by target *)
(* says which processes a kill request ends.  A tool's output is abstracted.   *)
EXTENDS Naturals, FiniteSets

CONSTANTS
  Callers,    \* coroutines of the backend that call tools, one call at a time
  Requests,   \* bound: requests the sidecar has at a time
  Targets,    \* the target strings of scan requests
  Hosts,      \* the addresses kill requests name
  Keys,       \* first tokens of targets, the keys of _active_procs
  Key,        \* the key of a target: an address with its port is not the address
  MaxScans,   \* MAX_CONCURRENT_SCANS
  Workers,    \* gunicorn's threads
  MaxTries,   \* _MAX_RETRIES
  MaxStrays,  \* bound: unattended processes counted per target
  None

ASSUME SidecarAssumption ==
  /\ IsFiniteSet(Requests) /\ None \notin Requests
  /\ MaxScans \in Nat \ {0} /\ Workers \in Nat \ {0}
  /\ MaxTries \in Nat \ {0} /\ MaxStrays \in Nat \ {0}
  /\ Key \in [Targets -> Keys]
  /\ Hosts \subseteq Keys

VARIABLES
  call,     \* what each caller is doing in _post or _post_stream
  req,      \* the requests the sidecar has
  slots,    \* the value of _scan_semaphore
  tracked,  \* _active_procs
  kill,     \* the kill request being served
  strays    \* processes that run although no request attends to them

vars == <<call, req, slots, tracked, kill, strays>>

--------------------------------------------------------------------------------
(* Types and initial state.                                                    *)

NoCall == [pc |-> "idle", target |-> None, stream |-> FALSE, tries |-> 0, req |-> None]

NoRequest == [pc |-> "free", target |-> None, stream |-> FALSE, alive |-> FALSE]

NoKill == [pc |-> "idle", keys |-> {}, all |-> FALSE, taken |-> {}]

CallType ==
  [pc : {"idle", "sending", "sent"}, target : Targets \cup {None}, stream : BOOLEAN,
   tries : 0..MaxTries, req : Requests \cup {None}]

RequestType ==
  [pc : {"free", "queued", "spawned", "reading"}, target : Targets \cup {None},
   stream : BOOLEAN, alive : BOOLEAN]

KillType ==
  [pc : {"idle", "queued", "killing"}, keys : SUBSET Keys, all : BOOLEAN,
   taken : SUBSET Requests]

TypeOK ==
  /\ call \in [Callers -> CallType]
  /\ req \in [Requests -> RequestType]
  /\ slots \in 0..MaxScans
  /\ tracked \in [Keys -> SUBSET Requests]
  /\ kill \in KillType
  /\ strays \in [Targets -> 0..MaxStrays]

Init ==
  /\ call = [c \in Callers |-> NoCall]
  /\ req = [r \in Requests |-> NoRequest]
  /\ slots = MaxScans
  /\ tracked = [k \in Keys |-> {}]
  /\ kill = NoKill
  /\ strays = [t \in Targets |-> 0]

--------------------------------------------------------------------------------
(* Requests by their state.                                                    *)

Holding == {r \in Requests : req[r].pc \in {"spawned", "reading"}}

\* A thread is free to serve one more request.
WorkerFree ==
  Cardinality(Holding) + (IF kill.pc = "killing" THEN 1 ELSE 0) < Workers

WaitsFor(c, r) == call[c].pc = "sent" /\ call[c].req = r

\* Mutant: a retry does not count.
AfterFailureUncounted(k, retryable) ==
  IF retryable /\ k.tries < MaxTries
    THEN [k EXCEPT !.pc = "sending", !.req = None]
    ELSE IF k.stream
      THEN [k EXCEPT !.pc = "sending", !.req = None, !.stream = FALSE, !.tries = 1]
      ELSE NoCall

\* What a failed attempt makes of a call: another attempt, the synchronous
\* endpoint instead of the streaming one, or an exception for the caller.
AfterFailure(k, retryable) ==
  IF retryable /\ k.tries < MaxTries
    THEN [k EXCEPT !.pc = "sending", !.req = None, !.tries = @ + 1]
    ELSE IF k.stream
      THEN [k EXCEPT !.pc = "sending", !.req = None, !.stream = FALSE, !.tries = 1]
      ELSE NoCall

\* The calls after request r was answered, with success or with an error status.
Answered(r) == [c \in Callers |-> IF WaitsFor(c, r) THEN NoCall ELSE call[c]]

Failed(r, retryable) ==
  [c \in Callers |->
     IF WaitsFor(c, r) THEN AfterFailure(call[c], retryable) ELSE call[c]]

--------------------------------------------------------------------------------
(* The client.                                                                 *)

\* A method of ToolsClient is called, streaming or not.
Call(c, t, stream) ==
  /\ call[c].pc = "idle"
  /\ call' = [call EXCEPT ![c] =
       [pc |-> "sending", target |-> t, stream |-> stream, tries |-> 1, req |-> None]]
  /\ UNCHANGED <<req, slots, tracked, kill, strays>>

\* An attempt reaches the sidecar and waits there for a thread.
Send(c, r) ==
  /\ call[c].pc = "sending" /\ req[r].pc = "free"
  /\ call' = [call EXCEPT ![c] = [@ EXCEPT !.pc = "sent", !.req = r]]
  /\ req' = [req EXCEPT ![r] =
       [pc |-> "queued", target |-> call[c].target, stream |-> call[c].stream,
        alive |-> FALSE]]
  /\ UNCHANGED <<slots, tracked, kill, strays>>

\* An attempt that cannot connect.
Unreachable(c) ==
  /\ call[c].pc = "sending"
  /\ call' = [call EXCEPT ![c] = AfterFailure(call[c], TRUE)]
  /\ UNCHANGED <<req, slots, tracked, kill, strays>>

\* The stream breaks, or on_line raises: the tool is asked for once more, while
\* the sidecar has not noticed yet that nobody reads the first answer.
StreamBreaks(c) ==
  /\ call[c].pc = "sent" /\ call[c].stream
  /\ call' = [call EXCEPT ![c] = AfterFailure(call[c], FALSE)]
  /\ UNCHANGED <<req, slots, tracked, kill, strays>>

\* The caller's task is cancelled, or its read times out.
Leave(c) ==
  /\ call[c].pc # "idle"
  /\ call' = [call EXCEPT ![c] = NoCall]
  /\ UNCHANGED <<req, slots, tracked, kill, strays>>

--------------------------------------------------------------------------------
(* The sidecar's scan requests.                                                *)

\* A scan is refused: bad arguments (not to be retried), the tool missing, too
\* many scans of the target in this minute, no slot free.
Refuse(r, retryable) ==
  /\ req[r].pc = "queued" /\ WorkerFree
  /\ call' = Failed(r, retryable)
  /\ req' = [req EXCEPT ![r] = NoRequest]
  /\ UNCHANGED <<slots, tracked, kill, strays>>

\* Mutant: a failed start gives its slot back at once, and again when answered.
AdmitReleasing(r, started) ==
  /\ req[r].pc = "queued" /\ WorkerFree
  /\ slots > 0
  /\ slots' = IF started THEN slots - 1 ELSE slots
  /\ req' = [req EXCEPT ![r] =
       [@ EXCEPT !.pc = IF started THEN "spawned" ELSE "reading", !.alive = started]]
  /\ UNCHANGED <<call, tracked, kill, strays>>

\* A scan takes a slot without waiting and starts its process, if it can.
Admit(r, started) ==
  /\ req[r].pc = "queued" /\ WorkerFree
  /\ slots > 0
  /\ slots' = slots - 1
  /\ req' = [req EXCEPT ![r] =
       [@ EXCEPT !.pc = IF started THEN "spawned" ELSE "reading", !.alive = started]]
  /\ UNCHANGED <<call, tracked, kill, strays>>

\* _track_proc, called by the thread that has started the process.
Track(r) ==
  /\ req[r].pc = "spawned"
  /\ tracked' = [tracked EXCEPT ![Key[req[r].target]] = @ \cup {r}]
  /\ req' = [req EXCEPT ![r].pc = "reading"]
  /\ UNCHANGED <<call, slots, kill, strays>>

\* A process ends by itself.
Exits(r) ==
  /\ req[r].alive
  /\ req' = [req EXCEPT ![r].alive = FALSE]
  /\ UNCHANGED <<call, slots, tracked, kill, strays>>

\* The deadline of an attended process: the thread kills it.
TimesOut(r) ==
  /\ req[r].pc = "reading" /\ req[r].alive
  /\ req' = [req EXCEPT ![r].alive = FALSE]
  /\ UNCHANGED <<call, slots, tracked, kill, strays>>

\* Mutant: the whole entry of the target is dropped.
UntrackedAll(r) == [tracked EXCEPT ![Key[req[r].target]] = {}]

\* _untrack_proc.
Untracked(r) == [tracked EXCEPT ![Key[req[r].target]] = @ \ {r}]

\* Mutant: the process stays registered after its end.
RespondTracked(r) ==
  /\ req[r].pc = "reading" /\ ~req[r].alive
  /\ call' = Answered(r)
  /\ slots' = slots + 1
  /\ req' = [req EXCEPT ![r] = NoRequest]
  /\ kill' = [kill EXCEPT !.taken = @ \ {r}]
  /\ UNCHANGED <<tracked, strays>>

\* The process has ended: its result is the answer, and the slot is released.
Respond(r) ==
  /\ req[r].pc = "reading" /\ ~req[r].alive
  /\ call' = Answered(r)
  /\ tracked' = Untracked(r)
  /\ slots' = slots + 1
  /\ req' = [req EXCEPT ![r] = NoRequest]
  /\ kill' = [kill EXCEPT !.taken = @ \ {r}]
  /\ UNCHANGED strays

\* Mutant: the slot is not released when the client is gone.
AbandonLeaking(r) ==
  /\ req[r].pc = "reading" /\ req[r].stream
  /\ \A c \in Callers : ~WaitsFor(c, r)
  /\ tracked' = Untracked(r)
  /\ req' = [req EXCEPT ![r] = NoRequest]
  /\ UNCHANGED <<call, slots, kill, strays>>

\* A line cannot be delivered to a client that is gone.  GeneratorExit passes the
\* except clause that kills the process: the finally clauses unregister it and
\* release the slot, and it runs on unattended unless a kill has it in hand.
Abandon(r) ==
  /\ req[r].pc = "reading" /\ req[r].stream
  /\ \A c \in Callers : ~WaitsFor(c, r)
  /\ tracked' = Untracked(r)
  /\ slots' = slots + 1
  /\ req' = [req EXCEPT ![r] = NoRequest]
  /\ strays' = [strays EXCEPT ![req[r].target] =
       IF req[r].alive /\ r \notin kill.taken /\ @ < MaxStrays THEN @ + 1 ELSE @]
  /\ kill' = [kill EXCEPT !.taken = @ \ {r}]
  /\ UNCHANGED call

\* An unattended process ends by itself; nothing else ends it.
StrayExits(t) ==
  /\ strays[t] > 0
  /\ strays' = [strays EXCEPT ![t] = @ - 1]
  /\ UNCHANGED <<call, req, slots, tracked, kill>>

--------------------------------------------------------------------------------
(* Kill requests.                                                              *)

\* kill_target: a cancelled run, or a run paused because its device is gone.
AskKill(h) ==
  /\ kill.pc = "idle"
  /\ kill' = [NoKill EXCEPT !.pc = "queued", !.keys = {h}]
  /\ UNCHANGED <<call, req, slots, tracked, strays>>

\* kill_all: the backend has restarted.
AskKillAll ==
  /\ kill.pc = "idle"
  /\ kill' = [NoKill EXCEPT !.pc = "queued", !.all = TRUE]
  /\ UNCHANGED <<call, req, slots, tracked, strays>>

\* A thread serves the request, though the backend waits only ten seconds for
\* it.  kill_all copies the keys first.
KillStart ==
  /\ kill.pc = "queued" /\ WorkerFree
  /\ kill' = [kill EXCEPT !.pc = "killing",
       !.keys = IF kill.all THEN {k \in Keys : tracked[k] # {}} ELSE @]
  /\ UNCHANGED <<call, req, slots, tracked, strays>>

\* _kill_procs_for_target pops the processes of a key under the lock ...
KillTake(k) ==
  /\ kill.pc = "killing" /\ kill.taken = {} /\ k \in kill.keys
  /\ kill' = [kill EXCEPT !.keys = @ \ {k}, !.taken = tracked[k]]
  /\ tracked' = [tracked EXCEPT ![k] = {}]
  /\ UNCHANGED <<call, req, slots, strays>>

\* ... and ends them after releasing it.
KillTaken ==
  /\ kill.pc = "killing" /\ kill.taken # {}
  /\ req' = [r \in Requests |->
       IF r \in kill.taken THEN [req[r] EXCEPT !.alive = FALSE] ELSE req[r]]
  /\ kill' = [kill EXCEPT !.taken = {}]
  /\ UNCHANGED <<call, slots, tracked, strays>>

KillEnd ==
  /\ kill.pc = "killing" /\ kill.keys = {} /\ kill.taken = {}
  /\ kill' = NoKill
  /\ UNCHANGED <<call, req, slots, tracked, strays>>

--------------------------------------------------------------------------------
(* Specification.                                                              *)

ClientStep(c) ==
  \/ \E t \in Targets, stream \in BOOLEAN : Call(c, t, stream)
  \/ \E r \in Requests : Send(c, r)
  \/ Unreachable(c) \/ StreamBreaks(c) \/ Leave(c)

Serve(r) ==
  \/ \E retryable \in BOOLEAN : Refuse(r, retryable)
  \/ \E started \in BOOLEAN : Admit(r, started)

ServerStep(r) ==
  Serve(r) \/ Track(r) \/ Exits(r) \/ TimesOut(r) \/ Respond(r) \/ Abandon(r)

KillStep ==
  \/ KillStart \/ KillTaken \/ KillEnd
  \/ \E k \in Keys : KillTake(k)

Next ==
  \/ \E c \in Callers : ClientStep(c)
  \/ \E r \in Requests : ServerStep(r)
  \/ \E t \in Targets : StrayExits(t)
  \/ \E h \in Hosts : AskKill(h)
  \/ AskKillAll \/ KillStep

Spec == Init /\ [][Next]_vars

\* The backend's loop runs every attempt; the sidecar's threads run, and take the
\* requests in the order they came; an attended tool has a deadline.  Nobody has
\* to call, to leave or to kill, and no tool has to end by itself.
Fairness ==
  /\ \A c \in Callers : SF_vars(\E r \in Requests : Send(c, r))
  /\ \A r \in Requests :
       SF_vars(Serve(r)) /\ WF_vars(Track(r)) /\ WF_vars(TimesOut(r)) /\ WF_vars(Respond(r))
  /\ SF_vars(KillStart) /\ WF_vars(KillStep)

FairSpec == Spec /\ Fairness

--------------------------------------------------------------------------------
(* Properties.                                                                 *)

\* While a thread reads the output of a running tool, a kill request for the
\* tool's key finds the process, or one already has it in hand: no other
\* request's end, failure or kill makes it unkillable.
KillReaches ==
  \A r \in Requests :
    req[r].pc = "reading" /\ req[r].alive =>
      r \in tracked[Key[req[r].target]] \cup kill.taken

\* The registry names nothing but processes of requests being served under
\* their key, so a kill for one target never ends another target's scan.
TrackedIsServed ==
  \A k \in Keys : \A r \in tracked[k] :
    req[r].pc = "reading" /\ Key[req[r].target] = k

Pool ==
  INSTANCE ExclusivePool WITH
    Holders <- Requests, MaxConcurrent <- MaxScans, busy <- Holding, free <- slots

\* Whatever clients do, scans take and release their slots as an exclusive pool
\* does: none is leaked, and none released twice, by a refusal, a failed start, a
\* timeout, a kill or a client that left.
ImplementsExclusivePool == Pool!Spec

\* A call of the backend comes to an end, however often it is refused, killed,
\* broken off and repeated, and although threads are fewer than requests.
CallsEnd == \A c \in Callers : call[c].pc # "idle" ~> call[c].pc = "idle"
================================================================================
