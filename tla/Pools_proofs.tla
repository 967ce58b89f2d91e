------------------------------ MODULE Pools_proofs ------------------------------
(* Proofs about the two exclusive pools, each for any values of its parameters:  *)
(* the sidecar with its client, for any callers, targets, threads and slots and  *)
(* any finite set of requests, and the launcher of test runs, for any runs, any  *)
(* finite set of tasks and any number of slots.                                  *)
EXTENDS ToolSidecar, LaunchPool, FiniteSetTheorems, TLAPS

--------------------------------------------------------------------------------
(* The sidecar.                                                                  *)

\* A call under way is for a target.
CallInv ==
  /\ call \in [Callers -> CallType]
  /\ \A c \in Callers : call[c].pc # "idle" => call[c].target \in Targets

\* So is a request the sidecar has.
RequestInv ==
  /\ req \in [Requests -> RequestType]
  /\ \A r \in Requests : req[r].pc # "free" => req[r].target \in Targets

\* A slot is taken for every request that holds one, and for no other reason.
SlotsInv ==
  /\ slots \in Nat
  /\ slots + Cardinality(Holding) = MaxScans

\* The registry, the kill request and the strays are well-formed, and processes are
\* in the hands of a kill only while it is at work.
RegistryType ==
  /\ tracked \in [Keys -> SUBSET Requests]
  /\ kill \in KillType
  /\ kill.pc # "killing" => kill.taken = {}
  /\ strays \in [Targets -> 0..MaxStrays]

SidecarInv ==
  CallInv /\ RequestInv /\ SlotsInv /\ RegistryType /\ TrackedIsServed /\ KillReaches

--------------------------------------------------------------------------------
(* The client.                                                                   *)

\* What a failure makes of a call is a call for the same target, or none.
LEMMA FailureTyped ==
  ASSUME NEW k \in CallType, NEW retryable \in BOOLEAN,
         k.pc # "idle", k.target \in Targets
  PROVE  /\ AfterFailure(k, retryable) \in CallType
         /\ AfterFailure(k, retryable).pc # "idle" =>
              AfterFailure(k, retryable).target \in Targets
<1>1. CASE retryable /\ k.tries < MaxTries
  <2>1. k.tries + 1 \in 0..MaxTries
    BY <1>1, SidecarAssumption DEF CallType
  <2>2. AfterFailure(k, retryable) =
          [pc |-> "sending", target |-> k.target, stream |-> k.stream,
           tries |-> k.tries + 1, req |-> None]
    BY <1>1 DEF AfterFailure, CallType
  <2> QED
    BY <2>1, <2>2 DEF CallType
<1>2. CASE ~(retryable /\ k.tries < MaxTries) /\ k.stream
  <2>1. AfterFailure(k, retryable) =
          [pc |-> "sending", target |-> k.target, stream |-> FALSE, tries |-> 1,
           req |-> None]
    BY <1>2 DEF AfterFailure, CallType
  <2> QED
    BY <2>1, SidecarAssumption DEF CallType
<1>3. CASE ~(retryable /\ k.tries < MaxTries) /\ ~k.stream
  <2>1. AfterFailure(k, retryable) = NoCall
    BY <1>3 DEF AfterFailure
  <2> QED
    BY <2>1, SidecarAssumption DEF CallType, NoCall
<1> QED
  BY <1>1, <1>2, <1>3

\* No call is a call.
LEMMA NoCallTyped == NoCall \in CallType /\ NoCall.pc = "idle"
BY SidecarAssumption DEF CallType, NoCall

\* Answers and failures keep the calls' invariant.
LEMMA AnswerTyped ==
  ASSUME CallInv, NEW r \in Requests, NEW retryable \in BOOLEAN,
         call' = Answered(r) \/ call' = Failed(r, retryable)
  PROVE  CallInv'
<1>1. \A c \in Callers : WaitsFor(c, r) =>
        /\ AfterFailure(call[c], retryable) \in CallType
        /\ AfterFailure(call[c], retryable).pc # "idle" =>
             AfterFailure(call[c], retryable).target \in Targets
  BY FailureTyped DEF CallInv, WaitsFor
<1> QED
  BY <1>1, NoCallTyped DEF CallInv, Answered, Failed

\* Every step keeps the calls' invariant.
LEMMA CallInvNext == ASSUME CallInv, [Next]_vars PROVE CallInv'
<1>1. ASSUME NEW c \in Callers, NEW t \in Targets, NEW stream \in BOOLEAN, Call(c, t, stream)
      PROVE  CallInv'
  <2>1. [pc |-> "sending", target |-> t, stream |-> stream, tries |-> 1, req |-> None]
          \in CallType
    BY SidecarAssumption DEF CallType
  <2> QED
    BY <1>1, <2>1 DEF Call, CallInv
<1>2. ASSUME NEW c \in Callers, NEW r \in Requests, Send(c, r) PROVE CallInv'
  <2>1. /\ [call[c] EXCEPT !.pc = "sent", !.req = r] \in CallType
        /\ [call[c] EXCEPT !.pc = "sent", !.req = r].target \in Targets
    BY <1>2 DEF Send, CallInv, CallType
  <2> QED
    BY <1>2, <2>1 DEF Send, CallInv
<1>3. ASSUME NEW c \in Callers, Unreachable(c) \/ StreamBreaks(c) \/ Leave(c) PROVE CallInv'
  <2>1. call[c] \in CallType /\ call[c].pc # "idle" /\ call[c].target \in Targets
    BY <1>3 DEF Unreachable, StreamBreaks, Leave, CallInv
  <2>2. PICK k : /\ k \in CallType /\ (k.pc # "idle" => k.target \in Targets)
                 /\ call' = [call EXCEPT ![c] = k]
    BY <1>3, <2>1, FailureTyped, NoCallTyped DEF Unreachable, StreamBreaks, Leave
  <2> QED
    BY <2>2 DEF CallInv
<1>4. ASSUME NEW r \in Requests, NEW retryable \in BOOLEAN,
             Refuse(r, retryable) \/ Respond(r)
      PROVE  CallInv'
  BY <1>4, AnswerTyped DEF Refuse, Respond
<1>5. CASE UNCHANGED call
  BY <1>5 DEF CallInv
<1>6. ASSUME NEW r \in Requests,
             (\E started \in BOOLEAN : Admit(r, started)) \/ Track(r) \/ Exits(r)
               \/ TimesOut(r) \/ Abandon(r)
      PROVE  UNCHANGED call
  BY <1>6 DEF Admit, Track, Exits, TimesOut, Abandon
<1>7. ASSUME \/ \E t \in Targets : StrayExits(t)
             \/ \E h \in Hosts : AskKill(h)
             \/ AskKillAll \/ KillStep \/ UNCHANGED vars
      PROVE  UNCHANGED call
  BY <1>7
  DEF StrayExits, AskKill, AskKillAll, KillStep, KillStart, KillTake, KillTaken, KillEnd, vars
<1> QED
  BY <1>1, <1>2, <1>3, <1>4, <1>5, <1>6, <1>7 DEF Next, ClientStep, ServerStep, Serve

--------------------------------------------------------------------------------
(* Requests and their slots.                                                     *)

\* Steps of the client but Send, and steps of others, leave the requests alone.
LEMMA RequestsKept ==
  ASSUME \/ \E c \in Callers, t \in Targets, stream \in BOOLEAN : Call(c, t, stream)
         \/ \E c \in Callers : Unreachable(c) \/ StreamBreaks(c) \/ Leave(c)
         \/ \E t \in Targets : StrayExits(t)
         \/ \E h \in Hosts : AskKill(h)
         \/ AskKillAll \/ KillStart \/ KillEnd
         \/ \E k \in Keys : KillTake(k)
         \/ UNCHANGED vars
  PROVE  UNCHANGED <<req, slots>>
BY DEF Call, Unreachable, StreamBreaks, Leave, StrayExits, AskKill, AskKillAll, KillStart,
       KillEnd, KillTake, vars

\* A request that is none is free.
LEMMA NoRequestTyped == NoRequest \in RequestType /\ NoRequest.pc = "free"
BY DEF NoRequest, RequestType

\* A kill that ends the processes it has taken tells the requests nothing else.
LEMMA KillTakenMoves ==
  ASSUME RequestInv, KillTaken
  PROVE  /\ RequestInv'
         /\ slots' = slots
         /\ \A r \in Requests : req'[r].pc = req[r].pc
<1> DEFINE killed(r) == [req[r] EXCEPT !.alive = FALSE]
<1>1. \A r \in Requests :
        killed(r) \in RequestType /\ killed(r).pc = req[r].pc /\ killed(r).target = req[r].target
  BY DEF RequestInv, RequestType
<1>2. \A r \in Requests : req'[r] = killed(r) \/ req'[r] = req[r]
  BY DEF KillTaken
<1>3. req' = [r \in Requests |-> req'[r]] /\ slots' = slots
  BY DEF KillTaken
<1> HIDE DEF killed
<1>4. \A r \in Requests :
        req'[r] \in RequestType /\ req'[r].pc = req[r].pc /\ req'[r].target = req[r].target
  BY <1>1, <1>2 DEF RequestInv
<1>5. req' \in [Requests -> RequestType]
  BY <1>3, <1>4
<1> QED
  BY <1>3, <1>4, <1>5 DEF RequestInv

\* Every step keeps the requests' invariant.
LEMMA RequestInvNext == ASSUME CallInv, RequestInv, [Next]_vars PROVE RequestInv'
<1> USE DEF RequestInv
<1>1. ASSUME NEW c \in Callers, NEW r \in Requests, Send(c, r) PROVE RequestInv'
  <2>1. call[c].pc # "idle"
    BY <1>1 DEF Send
  <2>2. call[c].target \in Targets /\ call[c].stream \in BOOLEAN
    BY <2>1 DEF CallInv, CallType
  <2>3. req' = [req EXCEPT ![r] =
          [pc |-> "queued", target |-> call[c].target, stream |-> call[c].stream,
           alive |-> FALSE]]
    BY <1>1 DEF Send
  <2> QED
    BY <2>2, <2>3 DEF RequestType
<1>2. ASSUME NEW r \in Requests,
             (\E retryable \in BOOLEAN : Refuse(r, retryable)) \/ Respond(r) \/ Abandon(r)
      PROVE  RequestInv'
  BY <1>2, NoRequestTyped DEF Refuse, Respond, Abandon
<1>3. ASSUME NEW r \in Requests, NEW started \in BOOLEAN, Admit(r, started)
      PROVE  RequestInv'
  <2>1. /\ [req[r] EXCEPT !.pc = IF started THEN "spawned" ELSE "reading", !.alive = started]
             \in RequestType
        /\ [req[r] EXCEPT !.pc = IF started THEN "spawned" ELSE "reading",
                          !.alive = started].target \in Targets
    BY <1>3 DEF Admit, RequestType
  <2> QED
    BY <1>3, <2>1 DEF Admit
<1>4. ASSUME NEW r \in Requests, Track(r) \/ Exits(r) \/ TimesOut(r) PROVE RequestInv'
  <2>1. /\ [req[r] EXCEPT !.pc = "reading"] \in RequestType
        /\ [req[r] EXCEPT !.pc = "reading"].target = req[r].target
        /\ [req[r] EXCEPT !.alive = FALSE] \in RequestType
        /\ [req[r] EXCEPT !.alive = FALSE].target = req[r].target
        /\ [req[r] EXCEPT !.alive = FALSE].pc = req[r].pc
    BY DEF RequestType
  <2>2. CASE Track(r)
    BY <2>1, <2>2 DEF Track
  <2>3. CASE Exits(r) \/ TimesOut(r)
    BY <2>1, <2>3 DEF Exits, TimesOut
  <2> QED
    BY <1>4, <2>2, <2>3
<1>5. CASE KillTaken
  BY <1>5, KillTakenMoves
<1>6. CASE UNCHANGED <<req, slots>>
  BY <1>6
<1> QED
  BY <1>1, <1>2, <1>3, <1>4, <1>5, <1>6, RequestsKept
  DEF Next, ClientStep, ServerStep, Serve, KillStep

\* The requests that hold a slot are finitely many.
LEMMA HoldingFinite == IsFiniteSet(Holding) /\ Cardinality(Holding) \in Nat
<1>1. Holding \in SUBSET Requests
  BY DEF Holding
<1> QED
  BY <1>1, FS_Subset, FS_CardinalityType, SidecarAssumption

\* A scan that is admitted takes a slot for itself ...
LEMMA AdmitTakes ==
  ASSUME RequestInv, NEW r \in Requests, NEW started \in BOOLEAN, Admit(r, started)
  PROVE  r \notin Holding /\ Holding' = Holding \cup {r} /\ slots' = slots - 1 /\ slots > 0
BY DEF RequestInv, RequestType, Admit, Holding

\* ... and gives it back when it is answered or abandoned.
LEMMA EndReleases ==
  ASSUME RequestInv, NEW r \in Requests, Respond(r) \/ Abandon(r)
  PROVE  r \in Holding /\ Holding' = Holding \ {r} /\ slots' = slots + 1
BY NoRequestTyped DEF RequestInv, Respond, Abandon, Holding

\* No other step moves a slot.
LEMMA HoldingKept ==
  ASSUME RequestInv,
         \/ \E c \in Callers, r \in Requests : Send(c, r)
         \/ \E r \in Requests :
              \/ \E retryable \in BOOLEAN : Refuse(r, retryable)
              \/ Track(r) \/ Exits(r) \/ TimesOut(r)
         \/ KillTaken
         \/ UNCHANGED <<req, slots>>
  PROVE  Holding' = Holding /\ slots' = slots
<1>1. CASE \E c \in Callers, r \in Requests : Send(c, r)
  <2>1. PICK c \in Callers, q \in Requests : Send(c, q)
    BY <1>1
  <2>2. /\ req[q].pc = "free" /\ req'[q].pc = "queued" /\ slots' = slots
        /\ \A r \in Requests \ {q} : req'[r] = req[r]
    BY <2>1 DEF Send, RequestInv
  <2> QED
    BY <2>2 DEF Holding
<1>2. CASE \E r \in Requests, retryable \in BOOLEAN : Refuse(r, retryable)
  BY <1>2 DEF Refuse, Holding, NoRequest, RequestInv
<1>3. CASE \E r \in Requests : Track(r) \/ Exits(r) \/ TimesOut(r)
  BY <1>3 DEF Track, Exits, TimesOut, Holding, RequestInv, RequestType
<1>4. CASE KillTaken
  BY <1>4, KillTakenMoves DEF Holding
<1>5. CASE UNCHANGED <<req, slots>>
  BY <1>5 DEF Holding
<1> QED
  BY <1>1, <1>2, <1>3, <1>4, <1>5

\* Slots are taken and released one by one.
LEMMA SlotSteps ==
  ASSUME RequestInv, [Next]_vars
  PROVE  \/ UNCHANGED <<Holding, slots>>
         \/ \E r \in Requests :
              r \notin Holding /\ Holding' = Holding \cup {r} /\ slots' = slots - 1 /\ slots > 0
         \/ \E r \in Requests :
              r \in Holding /\ Holding' = Holding \ {r} /\ slots' = slots + 1
<1>1. CASE \E r \in Requests, started \in BOOLEAN : Admit(r, started)
  BY <1>1, AdmitTakes
<1>2. CASE \E r \in Requests : Respond(r) \/ Abandon(r)
  BY <1>2, EndReleases
<1>3. CASE \/ \E c \in Callers, r \in Requests : Send(c, r)
           \/ \E r \in Requests :
                \/ \E retryable \in BOOLEAN : Refuse(r, retryable)
                \/ Track(r) \/ Exits(r) \/ TimesOut(r)
           \/ KillTaken
           \/ UNCHANGED <<req, slots>>
  BY <1>3, HoldingKept
<1> QED
  BY <1>1, <1>2, <1>3, RequestsKept DEF Next, ClientStep, ServerStep, Serve, KillStep

\* So the semaphore and the holders of its slots add up.
LEMMA SlotsInvNext == ASSUME RequestInv, SlotsInv, [Next]_vars PROVE SlotsInv'
<1> USE DEF SlotsInv
<1>1. CASE UNCHANGED <<Holding, slots>>
  BY <1>1
<1>2. ASSUME NEW r \in Requests, r \notin Holding, Holding' = Holding \cup {r},
             slots' = slots - 1, slots > 0
      PROVE  SlotsInv'
  <2>1. Cardinality(Holding') = Cardinality(Holding) + 1
    BY <1>2, HoldingFinite, FS_AddElement
  <2> QED
    BY <1>2, <2>1, HoldingFinite, SidecarAssumption
<1>3. ASSUME NEW r \in Requests, r \in Holding, Holding' = Holding \ {r}, slots' = slots + 1
      PROVE  SlotsInv'
  <2>1. Cardinality(Holding') = Cardinality(Holding) - 1
    BY <1>3, HoldingFinite, FS_RemoveElement
  <2> QED
    BY <1>3, <2>1, HoldingFinite, SidecarAssumption
<1> QED
  BY <1>1, <1>2, <1>3, SlotSteps

--------------------------------------------------------------------------------
(* The registry and the kill requests.                                           *)

\* Every step keeps the types of the registry.
LEMMA RegistryTypeNext ==
  ASSUME RequestInv, RegistryType, [Next]_vars PROVE RegistryType'
<1> USE DEF RegistryType
<1>1. ASSUME NEW r \in Requests, Track(r) PROVE RegistryType'
  <2>1. Key[req[r].target] \in Keys
    BY <1>1, SidecarAssumption DEF Track, RequestInv
  <2> QED
    BY <1>1, <2>1 DEF Track
<1>2. ASSUME NEW r \in Requests, Respond(r) \/ Abandon(r) PROVE RegistryType'
  <2>1. tracked' \in [Keys -> SUBSET Requests]
    BY <1>2 DEF Respond, Abandon, Untracked
  <2>2. kill' \in KillType /\ (kill'.pc # "killing" => kill'.taken = {})
    BY <1>2 DEF Respond, Abandon, KillType
  <2>3. strays' \in [Targets -> 0..MaxStrays]
    BY <1>2, SidecarAssumption DEF Respond, Abandon
  <2> QED
    BY <2>1, <2>2, <2>3
<1>3. ASSUME NEW t \in Targets, StrayExits(t) PROVE RegistryType'
  BY <1>3, SidecarAssumption DEF StrayExits
<1>4. CASE (\E h \in Hosts : AskKill(h)) \/ AskKillAll
  <2>1. PICK ks \in SUBSET Keys, b \in BOOLEAN :
          kill' = [pc |-> "queued", keys |-> ks, all |-> b, taken |-> {}]
    <3>1. ASSUME NEW h \in Hosts, AskKill(h)
          PROVE  kill' = [pc |-> "queued", keys |-> {h}, all |-> FALSE, taken |-> {}]
      BY <3>1 DEF AskKill, NoKill
    <3>2. CASE AskKillAll
      BY <3>2 DEF AskKillAll, NoKill
    <3>3. \A h \in Hosts : {h} \in SUBSET Keys
      BY SidecarAssumption
    <3> QED
      BY <1>4, <3>1, <3>2, <3>3
  <2> QED
    BY <1>4, <2>1 DEF AskKill, AskKillAll, KillType
<1>5. CASE KillStart \/ KillEnd \/ KillTaken
  <2>1. CASE KillStart
    <3>1. PICK ks \in SUBSET Keys :
            kill' = [pc |-> "killing", keys |-> ks, all |-> kill.all, taken |-> kill.taken]
      BY <2>1 DEF KillStart, KillType
    <3> QED
      BY <2>1, <3>1 DEF KillStart, KillType
  <2>2. CASE KillEnd
    BY <2>2 DEF KillEnd, KillType, NoKill
  <2>3. CASE KillTaken
    BY <2>3 DEF KillTaken, KillType
  <2> QED
    BY <1>5, <2>1, <2>2, <2>3
<1>6. ASSUME NEW k \in Keys, KillTake(k) PROVE RegistryType'
  BY <1>6 DEF KillTake, KillType
<1>7. CASE UNCHANGED <<tracked, kill, strays>>
  BY <1>7
<1>8. ASSUME NEW c \in Callers, ClientStep(c) PROVE UNCHANGED <<tracked, kill, strays>>
  BY <1>8 DEF ClientStep, Call, Send, Unreachable, StreamBreaks, Leave
<1>9. ASSUME NEW r \in Requests, Serve(r) \/ Exits(r) \/ TimesOut(r)
      PROVE  UNCHANGED <<tracked, kill, strays>>
  BY <1>9 DEF Serve, Refuse, Admit, Exits, TimesOut
<1>10. CASE UNCHANGED vars
  BY <1>10 DEF vars
<1> QED
  BY <1>1, <1>2, <1>3, <1>4, <1>5, <1>6, <1>7, <1>8, <1>9, <1>10
  DEF Next, ServerStep, KillStep

\* A request that is not being read is in no entry, and one that is, in its own
\* key's entry alone: nothing but Track, KillTake and the ends of requests counts.
LEMMA TrackedNext ==
  ASSUME RequestInv, RegistryType, TrackedIsServed, KillReaches, [Next]_vars
  PROVE  TrackedIsServed' /\ KillReaches'
<1> USE DEF TrackedIsServed, KillReaches
<1>1. ASSUME NEW c \in Callers, NEW q \in Requests, Send(c, q)
      PROVE  TrackedIsServed' /\ KillReaches'
  <2>1. /\ req[q].pc = "free" /\ req'[q].pc = "queued"
        /\ \A r \in Requests \ {q} : req'[r] = req[r]
        /\ UNCHANGED <<tracked, kill>>
    BY <1>1 DEF Send, RequestInv, NoRequest
  <2> QED
    BY <2>1 DEF RegistryType
<1>2. ASSUME NEW q \in Requests, NEW retryable \in BOOLEAN, Refuse(q, retryable)
      PROVE  TrackedIsServed' /\ KillReaches'
  <2>1. /\ req[q].pc = "queued" /\ req'[q].pc = "free"
        /\ \A r \in Requests \ {q} : req'[r] = req[r]
        /\ UNCHANGED <<tracked, kill>>
    BY <1>2 DEF Refuse, RequestInv, NoRequest
  <2> QED
    BY <2>1 DEF RegistryType
<1>3. ASSUME NEW q \in Requests, NEW started \in BOOLEAN, Admit(q, started)
      PROVE  TrackedIsServed' /\ KillReaches'
  <2>1. /\ req[q].pc = "queued" /\ req'[q].pc \in {"spawned", "reading"}
        /\ req'[q].pc = "reading" => ~req'[q].alive
        /\ \A r \in Requests \ {q} : req'[r] = req[r]
        /\ UNCHANGED <<tracked, kill>>
    BY <1>3 DEF Admit, RequestInv, RequestType
  <2> QED
    BY <2>1 DEF RegistryType
<1>4. ASSUME NEW q \in Requests, Track(q)
      PROVE  TrackedIsServed' /\ KillReaches'
  <2> DEFINE key == Key[req[q].target]
  <2>1. /\ key \in Keys
        /\ req'[q].pc = "reading" /\ req'[q].target = req[q].target
        /\ \A r \in Requests \ {q} : req'[r] = req[r]
        /\ kill' = kill
    BY <1>4, SidecarAssumption DEF Track, RequestInv, RequestType
  <2>2. tracked' = [tracked EXCEPT ![key] = @ \cup {q}]
    BY <1>4 DEF Track
  <2>3. \A k \in Keys : \A r \in tracked'[k] : r \in tracked[k] \/ (r = q /\ k = key)
    BY <2>2 DEF RegistryType
  <2>4. \A k \in Keys : tracked[k] \subseteq tracked'[k] /\ q \in tracked'[key]
    BY <2>1, <2>2 DEF RegistryType
  <2>5. \A r \in Requests : req[r].pc = "reading" => Key[req[r].target] \in Keys
    BY SidecarAssumption DEF RequestInv
  <2>6. TrackedIsServed'
    BY <2>1, <2>3 DEF RegistryType
  <2>7. KillReaches'
    BY <2>1, <2>4, <2>5
  <2> QED
    BY <2>6, <2>7
<1>5. ASSUME NEW q \in Requests, Exits(q) \/ TimesOut(q)
      PROVE  TrackedIsServed' /\ KillReaches'
  <2>1. /\ req'[q].pc = req[q].pc /\ req'[q].target = req[q].target /\ ~req'[q].alive
        /\ \A r \in Requests \ {q} : req'[r] = req[r]
        /\ UNCHANGED <<tracked, kill>>
    BY <1>5 DEF Exits, TimesOut, RequestInv, RequestType
  <2> QED
    BY <2>1 DEF RegistryType
<1>6. ASSUME NEW q \in Requests, Respond(q) \/ Abandon(q)
      PROVE  TrackedIsServed' /\ KillReaches'
  <2> DEFINE key == Key[req[q].target]
  <2>1. /\ req[q].pc = "reading" /\ req'[q].pc = "free"
        /\ \A r \in Requests \ {q} : req'[r] = req[r]
    BY <1>6, NoRequestTyped DEF Respond, Abandon, RequestInv
  <2>2. tracked' = [tracked EXCEPT ![key] = @ \ {q}]
    BY <1>6 DEF Respond, Abandon, Untracked
  <2>3. kill'.taken = kill.taken \ {q}
    BY <1>6 DEF Respond, Abandon, RegistryType, KillType
  <2>4. \A k \in Keys : tracked'[k] = tracked[k] \ {q}
    BY <2>2 DEF RegistryType
  <2>5. \A r \in Requests : req[r].pc = "reading" => Key[req[r].target] \in Keys
    BY SidecarAssumption DEF RequestInv
  <2>6. TrackedIsServed'
    BY <2>1, <2>4 DEF RegistryType
  <2>7. KillReaches'
    BY <2>1, <2>3, <2>4, <2>5
  <2> QED
    BY <2>6, <2>7
<1>7. ASSUME NEW x \in Keys, KillTake(x)
      PROVE  TrackedIsServed' /\ KillReaches'
  <2>1. /\ kill.taken = {} /\ kill'.taken = tracked[x]
        /\ req' = req
        /\ tracked'[x] = {} /\ \A k \in Keys \ {x} : tracked'[k] = tracked[k]
    BY <1>7 DEF KillTake, RegistryType, KillType
  <2>2. \A r \in Requests : req[r].pc = "reading" => Key[req[r].target] \in Keys
    BY SidecarAssumption DEF RequestInv
  <2> QED
    BY <2>1, <2>2
<1>8. CASE KillTaken
  <2>1. /\ UNCHANGED tracked
        /\ \A r \in Requests : req'[r].pc = req[r].pc /\ req'[r].target = req[r].target
        /\ \A r \in Requests : r \in kill.taken => ~req'[r].alive
        /\ \A r \in Requests : r \notin kill.taken => req'[r].alive = req[r].alive
    BY <1>8 DEF KillTaken, RequestInv, RequestType
  <2> QED
    BY <2>1 DEF RegistryType
<1>9. CASE \/ \E c \in Callers, t \in Targets, stream \in BOOLEAN : Call(c, t, stream)
           \/ \E c \in Callers : Unreachable(c) \/ StreamBreaks(c) \/ Leave(c)
           \/ \E t \in Targets : StrayExits(t)
           \/ UNCHANGED vars
  BY <1>9 DEF Call, Unreachable, StreamBreaks, Leave, StrayExits, vars
<1>10. CASE (\E h \in Hosts : AskKill(h)) \/ AskKillAll \/ KillStart \/ KillEnd
  <2>1. UNCHANGED <<req, tracked>>
    BY <1>10 DEF AskKill, AskKillAll, KillStart, KillEnd
  <2>2. kill.taken \subseteq kill'.taken
    BY <1>10 DEF AskKill, AskKillAll, KillStart, KillEnd, RegistryType, KillType
  <2> QED
    BY <2>1, <2>2
<1> QED
  BY <1>1, <1>2, <1>3, <1>4, <1>5, <1>6, <1>7, <1>8, <1>9, <1>10
  DEF Next, ClientStep, ServerStep, Serve, KillStep

--------------------------------------------------------------------------------
(* The theorems.                                                                 *)

\* Nothing is called, served, tracked or killed at first.
LEMMA SidecarInvInit == Init => SidecarInv
<1> SUFFICES ASSUME Init PROVE SidecarInv
  OBVIOUS
<1> USE DEF Init
<1>1. CallInv
  BY NoCallTyped DEF CallInv
<1>2. RequestInv
  BY NoRequestTyped DEF RequestInv
<1>3. SlotsInv
  <2>1. Holding = {}
    BY NoRequestTyped DEF Holding
  <2> QED
    BY <2>1, FS_EmptySet, SidecarAssumption DEF SlotsInv
<1>4. RegistryType
  BY SidecarAssumption DEF RegistryType, NoKill, KillType
<1>5. TrackedIsServed /\ KillReaches
  BY NoRequestTyped DEF TrackedIsServed, KillReaches
<1> QED
  BY <1>1, <1>2, <1>3, <1>4, <1>5 DEF SidecarInv

\* The parts of SidecarInv hold together in every reachable state.
LEMMA SidecarInvariant == Spec => []SidecarInv
<1>1. SidecarInv /\ [Next]_vars => SidecarInv'
  BY CallInvNext, RequestInvNext, SlotsInvNext, RegistryTypeNext, TrackedNext DEF SidecarInv
<1> QED
  BY <1>1, SidecarInvInit, PTL DEF Spec

\* Calls, requests, registry and kill request stay well-formed, and the semaphore's
\* value between 0 and MAX_CONCURRENT_SCANS.
THEOREM SidecarTypeCorrect == Spec => []TypeOK
<1>1. SidecarInv => TypeOK
  BY HoldingFinite, SidecarAssumption
  DEF SidecarInv, CallInv, RequestInv, SlotsInv, RegistryType, TypeOK
<1> QED
  BY <1>1, SidecarInvariant, PTL

\* However requests end and kills overlap, a running tool that is being read is
\* registered under its target or already taken by a kill.
THEOREM KillReachesTools == Spec => []KillReaches
<1>1. SidecarInv => KillReaches
  BY DEF SidecarInv
<1> QED
  BY <1>1, SidecarInvariant, PTL

\* A kill request ends processes of its own target and of no other.
THEOREM TrackedAreServed == Spec => []TrackedIsServed
<1>1. SidecarInv => TrackedIsServed
  BY DEF SidecarInv
<1> QED
  BY <1>1, SidecarInvariant, PTL

\* Scans take and release slots as an exclusive pool does, whoever leaves, kills,
\* retries or fails.
THEOREM SidecarImplementsPool == Spec => ImplementsExclusivePool
<1>1. Init => Pool!Init
  BY NoRequestTyped DEF Init, Pool!Init, Holding
<1>2. SidecarInv /\ [Next]_vars => [Pool!Next]_<<Holding, slots>>
  <2> SUFFICES ASSUME SidecarInv, [Next]_vars, ~UNCHANGED <<Holding, slots>>
               PROVE  Pool!Next
    OBVIOUS
  <2>1. RequestInv
    BY DEF SidecarInv
  <2> QED
    BY <2>1, SlotSteps DEF Pool!Next, Pool!Begin, Pool!End
<1> QED
  BY <1>1, <1>2, SidecarInvariant, PTL DEF Spec, ImplementsExclusivePool, Pool!Spec

--------------------------------------------------------------------------------
(* The launcher.                                                                 *)

\* A slot is taken for every task at work, and for no other reason.
LaunchSlots == permits + Cardinality(Working) = MaxConcurrent

PoolInv == PoolTypeOK /\ LaunchSlots

\* A live task that was launched in time is the one registered for its run, and no
\* other task of the run is outstanding.
LaunchedAlone ==
  \A t \in Tasks \ late :
    Alive(t) =>
      /\ owner[t] \in Runs /\ registry[owner[t]] = t
      /\ \A u \in Tasks \ {t} : owner[u] = owner[t] => state[u] = "free"

--------------------------------------------------------------------------------

\* The tasks that hold a slot are finitely many.
LEMMA ExecutingFinite == IsFiniteSet(Working) /\ Cardinality(Working) \in Nat
<1>1. Working \in SUBSET Tasks
  BY DEF Working
<1>2. IsFiniteSet(Working)
  BY <1>1, FS_Subset, PoolAssumption
<1> QED
  BY <1>2, FS_CardinalityType

\* Steps that leave the slots alone leave the set of their holders alone.
LEMMA ExecutingKept ==
  ASSUME PoolTypeOK, NEW t \in Tasks, NEW s \in TaskStates,
         s \in {"running", "paused"} <=> state[t] \in {"running", "paused"},
         state' = [state EXCEPT ![t] = s]
  PROVE  Working' = Working
BY DEF Working, PoolTypeOK, TaskStates

\* The type invariant and the slot count are inductive.
LEMMA PoolInvInit == PoolInit => PoolInv
<1> SUFFICES ASSUME PoolInit PROVE PoolInv
  OBVIOUS
<1>1. PoolTypeOK
  BY PoolAssumption DEF PoolInit, PoolTypeOK, TaskStates
<1>2. Working = {}
  BY DEF PoolInit, Working
<1>3. LaunchSlots
  BY <1>2, FS_EmptySet, PoolAssumption DEF PoolInit, LaunchSlots
<1> QED
  BY <1>1, <1>3 DEF PoolInv

\* A task gets through the semaphore: one slot less, one holder more.
LEMMA SlotTaken ==
  ASSUME PoolInv, NEW t \in Tasks, Acquire(t)
  PROVE  PoolInv' /\ t \notin Working /\ Working' = Working \cup {t}
<1> USE DEF PoolInv
<1>1. PoolTypeOK'
  BY PoolAssumption DEF Acquire, PoolTypeOK, TaskStates
<1>2. t \notin Working /\ Working' = Working \cup {t}
  BY DEF Acquire, Working, PoolTypeOK
<1>3. Cardinality(Working') = Cardinality(Working) + 1
  BY <1>2, ExecutingFinite, FS_AddElement
<1> QED
  BY <1>1, <1>2, <1>3, ExecutingFinite, PoolAssumption
  DEF Acquire, LaunchSlots, PoolTypeOK

\* An engine ends, in a pause or not: its slot is free again.
LEMMA SlotGivenBack ==
  ASSUME PoolInv, NEW t \in Tasks, Finish(t)
  PROVE  PoolInv' /\ t \in Working /\ Working' = Working \ {t}
<1> USE DEF PoolInv
<1>1. t \in Working /\ Working' = Working \ {t}
  BY DEF Finish, Working, PoolTypeOK
<1>2. Cardinality(Working') = Cardinality(Working) - 1
  BY <1>1, ExecutingFinite, FS_RemoveElement
<1>3. Cardinality(Working') \in Nat
  BY <1>1, ExecutingFinite, FS_RemoveElement, FS_CardinalityType
<1>4. permits' \in 0..MaxConcurrent
  BY <1>2, <1>3, ExecutingFinite, PoolAssumption DEF Finish, LaunchSlots, PoolTypeOK
<1>5. PoolTypeOK'
  BY <1>4 DEF Finish, PoolTypeOK, TaskStates
<1> QED
  BY <1>1, <1>2, <1>5, ExecutingFinite, PoolAssumption DEF Finish, LaunchSlots, PoolTypeOK

\* Every other step leaves slots and holders alone.
LEMMA SlotsKept ==
  ASSUME PoolInv, [PoolNext]_poolVars, \A t \in Tasks : ~Acquire(t) /\ ~Finish(t)
  PROVE  PoolInv' /\ Working' = Working /\ permits' = permits
<1> USE DEF PoolInv
<1>1. ASSUME PoolTypeOK', permits' = permits, Working' = Working
      PROVE  PoolInv' /\ Working' = Working /\ permits' = permits
  BY <1>1 DEF LaunchSlots
<1>2. ASSUME NEW r \in Runs, NEW t \in Tasks, Launch(r, t)
      PROVE  PoolTypeOK' /\ permits' = permits /\ Working' = Working
  <2>1. PoolTypeOK'
    BY <1>2 DEF Launch, PoolTypeOK, TaskStates
  <2>2. Working' = Working
    BY <1>2, ExecutingKept DEF Launch, TaskStates
  <2> QED
    BY <1>2, <2>1, <2>2 DEF Launch
<1>3. ASSUME NEW r \in Runs, Cancel(r)
      PROVE  PoolTypeOK' /\ permits' = permits /\ Working' = Working
  <2>1. registry[r] \in Tasks
    BY <1>3 DEF Cancel, PoolTypeOK
  <2>2. PoolTypeOK'
    BY <1>3, <2>1 DEF Cancel, PoolTypeOK, TaskStates
  <2>3. Working' = Working
    BY <1>3, <2>1, ExecutingKept DEF Cancel, TaskStates
  <2> QED
    BY <1>3, <2>2, <2>3 DEF Cancel
<1>4. ASSUME NEW t \in Tasks, Pause(t) \/ Resume(t) \/ CancelDelivered(t) \/ Cleanup(t)
      PROVE  PoolTypeOK' /\ permits' = permits /\ Working' = Working
  <2>1. PoolTypeOK'
    BY <1>4 DEF Pause, Resume, CancelDelivered, Cleanup, PoolTypeOK, TaskStates
  <2>2. PICK s \in TaskStates :
          /\ state' = [state EXCEPT ![t] = s]
          /\ s \in {"running", "paused"} <=> state[t] \in {"running", "paused"}
    BY <1>4 DEF Pause, Resume, CancelDelivered, Cleanup, TaskStates
  <2>3. Working' = Working
    BY <2>2, ExecutingKept
  <2> QED
    BY <1>4, <2>1, <2>3 DEF Pause, Resume, CancelDelivered, Cleanup
<1>5. CASE UNCHANGED poolVars
  BY <1>5 DEF poolVars, PoolTypeOK, LaunchSlots, Working
<1> QED
  BY <1>1, <1>2, <1>3, <1>4, <1>5 DEF PoolNext

\* Every step of the launcher keeps types and slot count.
LEMMA PoolInvNext == ASSUME PoolInv, [PoolNext]_poolVars PROVE PoolInv'
BY SlotTaken, SlotGivenBack, SlotsKept

\* The types and the slot count hold in every reachable state.
LEMMA PoolInvariant == PoolSpec => []PoolInv
<1>1. PoolInit => PoolInv
  BY PoolInvInit
<1>2. PoolInv /\ [PoolNext]_poolVars => PoolInv'
  BY PoolInvNext
<1> QED
  BY <1>1, <1>2, PTL DEF PoolSpec

\* The launcher's state is always well-formed; in particular the semaphore's
\* value stays between 0 and MAX_CONCURRENT_RUNS.
THEOREM PoolTypeCorrect == PoolSpec => []PoolTypeOK
<1>1. PoolInv => PoolTypeOK
  BY DEF PoolInv
<1> QED
  BY <1>1, PoolInvariant, PTL

\* At most MAX_CONCURRENT_RUNS engines execute, paused ones included, also when a
\* launch slips in between a task's end and its done callback.
THEOREM PoolIsBounded == PoolSpec => []ConcurrencyBound
<1>1. PoolInv => ConcurrencyBound
  BY ExecutingFinite, PoolAssumption DEF PoolInv, LaunchSlots, PoolTypeOK, ConcurrencyBound
<1> QED
  BY <1>1, PoolInvariant, PTL

\* The launcher hands out its slots as an exclusive pool does, whatever is launched,
\* cancelled, paused, resumed and relaunched and whenever the callbacks run.
THEOREM PoolImplements == PoolSpec => SlotsAreExclusive
<1>1. PoolInit => Abstract!Init
  BY DEF PoolInit, Abstract!Init, Working
<1>2. PoolInv /\ [PoolNext]_poolVars => [Abstract!Next]_<<Working, permits>>
  <2> SUFFICES ASSUME PoolInv, [PoolNext]_poolVars, ~UNCHANGED <<Working, permits>>
               PROVE  Abstract!Next
    OBVIOUS
  <2>1. PICK t \in Tasks : Acquire(t) \/ Finish(t)
    BY SlotsKept
  <2>2. CASE Acquire(t)
    BY <2>2, SlotTaken DEF Acquire, Abstract!Next, Abstract!Begin
  <2>3. CASE Finish(t)
    BY <2>3, SlotGivenBack DEF Finish, Abstract!Next, Abstract!End
  <2> QED
    BY <2>1, <2>2, <2>3
<1> QED
  BY <1>1, <1>2, PoolInvariant, PTL DEF PoolSpec, SlotsAreExclusive, Abstract!Spec

--------------------------------------------------------------------------------

\* Nothing is launched in the beginning.
LEMMA LaunchedAloneInit == PoolInit => LaunchedAlone
BY DEF PoolInit, LaunchedAlone, Alive

\* Every step keeps the tasks that were launched in time alone: a launch for their
\* run is refused, and no callback of their run is due.
LEMMA LaunchedAloneNext ==
  ASSUME PoolTypeOK, LaunchedAlone, [PoolNext]_poolVars
  PROVE  LaunchedAlone'
<1> DEFINE Good(t) ==
      /\ owner[t] \in Runs /\ registry[owner[t]] = t
      /\ \A u \in Tasks \ {t} : owner[u] = owner[t] => state[u] = "free"
<1> SUFFICES ASSUME NEW t \in Tasks, t \notin late', Alive(t)'
             PROVE  Good(t)'
  BY DEF LaunchedAlone
<1>g. t \notin late /\ Alive(t) => Good(t)
  BY DEF LaunchedAlone
<1>1. ASSUME NEW r \in Runs, NEW v \in Tasks, Launch(r, v)
      PROVE  Good(t)'
  <2>1. CASE v = t
    <3>1. \A u \in Tasks : owner[u] = r => state[u] = "free"
      BY <1>1, <2>1 DEF Launch, Outstanding, PoolTypeOK
    <3>2. /\ owner'[t] = r /\ registry'[r] = t
          /\ \A u \in Tasks \ {t} : owner'[u] = owner[u] /\ state'[u] = state[u]
      BY <1>1, <2>1 DEF Launch, PoolTypeOK
    <3> QED
      BY <3>1, <3>2
  <2>2. CASE v # t
    <3>1. t \notin late /\ Alive(t) /\ owner'[t] = owner[t]
      BY <1>1, <2>2 DEF Launch, Alive, PoolTypeOK
    <3>2. Good(t)
      BY <1>g, <3>1
    <3>3. owner[t] # r
      BY <1>1, <3>1, <3>2, PoolAssumption DEF Launch, Executing, Alive
    <3>4. /\ registry'[owner[t]] = registry[owner[t]]
          /\ owner'[v] = r
          /\ \A u \in Tasks \ {v} : owner'[u] = owner[u] /\ state'[u] = state[u]
      BY <1>1, <3>2, <3>3 DEF Launch, PoolTypeOK
    <3> QED
      BY <3>1, <3>2, <3>3, <3>4
  <2> QED
    BY <2>1, <2>2
<1>2. ASSUME NEW v \in Tasks, NEW s \in TaskStates, state' = [state EXCEPT ![v] = s],
             state[v] # "free", s = "done" \/ Alive(v), UNCHANGED <<registry, owner, late>>
      PROVE  Good(t)'
  <2>1. Alive(t)
    BY <1>2 DEF Alive, PoolTypeOK
  <2>2. Good(t)
    BY <1>2, <1>g, <2>1
  <2>3. \A u \in Tasks : state[u] = "free" => state'[u] = "free"
    BY <1>2 DEF PoolTypeOK
  <2> QED
    BY <1>2, <2>2, <2>3
<1>3. ASSUME NEW r \in Runs, Cancel(r) PROVE Good(t)'
  <2>1. registry[r] \in Tasks
    BY <1>3 DEF Cancel, PoolTypeOK
  <2> QED
    BY <1>2, <1>3, <2>1 DEF Cancel, Alive, TaskStates
<1>4. ASSUME NEW v \in Tasks,
             Acquire(v) \/ Pause(v) \/ Resume(v) \/ Finish(v) \/ CancelDelivered(v)
      PROVE  Good(t)'
  BY <1>2, <1>4 DEF Acquire, Pause, Resume, Finish, CancelDelivered, Alive, TaskStates
<1>5. ASSUME NEW v \in Tasks, Cleanup(v) PROVE Good(t)'
  <2>1. v # t /\ t \notin late /\ Alive(t) /\ owner'[t] = owner[t]
    BY <1>5 DEF Cleanup, Alive, PoolTypeOK
  <2>2. Good(t)
    BY <1>g, <2>1
  <2>3. owner[v] # owner[t]
    BY <1>5, <2>1, <2>2 DEF Cleanup
  <2>4. /\ registry'[owner[t]] = registry[owner[t]]
        /\ owner'[v] = Nobody /\ state'[v] = "free"
        /\ \A u \in Tasks \ {v} : owner'[u] = owner[u] /\ state'[u] = state[u]
    BY <1>5, <2>2, <2>3 DEF Cleanup, PoolTypeOK
  <2> QED
    BY <2>1, <2>2, <2>4, PoolAssumption
<1>6. CASE UNCHANGED poolVars
  BY <1>6, <1>g DEF poolVars, Alive
<1> QED
  BY <1>1, <1>3, <1>4, <1>5, <1>6 DEF PoolNext

\* A task launched in time has its run to itself, in every reachable state.
LEMMA LaunchedAloneInvariant == PoolSpec => []LaunchedAlone
<1>1. PoolTypeOK /\ LaunchedAlone /\ [PoolNext]_poolVars => LaunchedAlone'
  BY LaunchedAloneNext
<1> QED
  BY <1>1, LaunchedAloneInit, PoolTypeCorrect, PTL DEF PoolSpec

\* cancel_test_run and is_run_executing find the task that works on the run, unless
\* it was launched before the callback of an earlier task of the run.
THEOREM RegistryTracks == PoolSpec => []RegistryTracksLive
<1>1. LaunchedAlone => RegistryTracksLive
  BY DEF LaunchedAlone, RegistryTracksLive
<1> QED
  BY <1>1, LaunchedAloneInvariant, PTL

\* A task launched in time is the only live task of its run, whenever the callbacks
\* run: two engines work on one run only if both were launched before a callback of an
\* earlier task, which takes whatever task it finds out of the registry.
THEOREM OneEngineEach == PoolSpec => []OneTaskPerRun
<1>1. LaunchedAlone => OneTaskPerRun
  <2> SUFFICES ASSUME LaunchedAlone, NEW t \in Tasks, NEW u \in Tasks, Alive(t), Alive(u),
                      owner[t] = owner[u], t # u
               PROVE  t \in late /\ u \in late
    BY DEF OneTaskPerRun
  <2> QED
    BY DEF LaunchedAlone, Alive
<1> QED
  BY <1>1, LaunchedAloneInvariant, PTL
================================================================================
