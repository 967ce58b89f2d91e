--------------------------- MODULE HostAdapter_proofs ---------------------------
(* Proofs about the host adapter, for any runs, any number of link profiles and  *)
(* any number of faults.                                                         *)
EXTENDS HostAdapter, FiniteSetTheorems, TLAPS

Tests == {"U03", "U04", "U20"}

Work ==
  [pc : Posting \cup {"idle", "probing", "queued", "watching"}, test : Tests \cup {"none"},
   next : Nat, applied : SUBSET (All \cup Windows), reached : SUBSET (All \cup Windows),
   raised : BOOLEAN, verdict : {"none", "error", "na", "info", "advisory", "pass"},
   seen : SUBSET Nat, cut : BOOLEAN, disturbed : BOOLEAN]

Command ==
  [run : Runs, op : {"set", "cycle", "restore"}, profile : 0 .. Profiles,
   stage : {"start", "down", "kept"}, awaited : BOOLEAN]

\* The phases of each test, and the range its counter is in.
Phased(w) ==
  /\ w.test = "none" => w.pc = "idle"
  /\ w.test = "U03"  => w.pc \in {"setting", "probing", "restoring"} /\ w.next \in All
  /\ w.test = "U20"  => w.pc \in {"cycling", "probing", "restoring"} /\ w.next \in All
  /\ w.test = "U04"  => w.pc \in {"queued", "watching"} /\ w.next \in Windows
  /\ w.pc # "idle"   => w.verdict = "none"
  /\ w.pc = "cycling" => w.applied = {}

\* What a verdict will count was witnessed, unless another command interfered: the
\* device answered under the profiles that were reached, the link was down when a
\* cycle is counted, and each lease acknowledged was asked for by the run's device.
Witnessed(w) ==
  /\ w.test = "U03" /\ ~w.disturbed => w.seen = w.reached
  /\ w.test = "U20" /\ ~w.disturbed /\ w.applied # {} => w.cut
  /\ w.test = "U04" => w.applied \subseteq w.seen /\ w.seen \subseteq Windows

Sound(w) == w \in Work /\ Phased(w) /\ Witnessed(w)

\* The command a workflow in this state waits for.
Serves(c, w) ==
  \/ c.op = "set" /\ w.pc = "setting" /\ c.profile = w.next
  \/ c.op = "cycle" /\ w.pc = "cycling"
  \/ c.op = "restore" /\ w.pc = "restoring"

TypesInv ==
  /\ adapter \in [link : {"up", "down"}, profile : 0 .. Profiles]
  /\ scars \subseteq {"profile", "link"} /\ faults \in 0 .. MaxFaults
  /\ cmds \subseteq Command
  /\ work \in [Runs -> Work]

SoundInv == \A r \in Runs : Sound(work[r])

\* A workflow that waits has one command, and no command is awaited by another.
ServiceInv ==
  /\ \A c \in cmds : c.awaited => Serves(c, work[c.run])
  /\ \A c, d \in cmds : c.awaited /\ d.awaited /\ c.run = d.run => c = d
  /\ \A r \in Runs : work[r].pc \in Posting => \E c \in cmds : c.run = r /\ c.awaited

\* Undisturbed, the profile probed is the one that was set, and a cycle whose first
\* half succeeded has cut the link.
ProbedInv ==
  /\ \A r \in Runs :
       work[r].test = "U03" /\ work[r].pc = "probing" /\ ~work[r].disturbed =>
         adapter.profile = work[r].next
  /\ \A c \in cmds :
       c.awaited /\ c.op = "cycle" /\ c.stage = "down" /\ ~work[c.run].disturbed =>
         work[c.run].cut

\* Whatever is not as it was has someone to put it right, or has left its scar.
MendingInv ==
  /\ adapter.profile # 0 => "profile" \in scars \/ RestoreToCome
  /\ adapter.link = "down" =>
       "link" \in scars \/ \E c \in cmds : c.op = "cycle" /\ c.stage # "start"

AdapterInv == TypesInv /\ SoundInv /\ ServiceInv /\ ProbedInv /\ MendingInv

--------------------------------------------------------------------------------
(* What the operators of the workflows return.                                   *)

\* The ranges of the counter.
LEMMA Ranges ==
  /\ All \subseteq Nat /\ Windows \subseteq Nat /\ All \subseteq 0 .. Profiles
  /\ 1 \in All /\ 1 \in Windows /\ 2 \in Windows
BY AdapterAssumption DEF All, Windows

\* NoWork has witnessed nothing and claims nothing.
LEMMA NoWorkIsSound == Sound(NoWork)
<1>1. NoWork \in Work
  BY DEF NoWork, Work, Posting, Tests
<1>2. Phased(NoWork) /\ Witnessed(NoWork)
  BY DEF NoWork, Phased, Witnessed
<1> QED
  BY <1>1, <1>2 DEF Sound

\* So does a workflow that ends with a verdict.
LEMMA EndIsSound ==
  ASSUME NEW v \in {"none", "error", "na", "info", "advisory", "pass"}
  PROVE  /\ Sound([NoWork EXCEPT !.verdict = v])
         /\ [NoWork EXCEPT !.verdict = v].pc = "idle"
         /\ [NoWork EXCEPT !.verdict = v].verdict = v
         /\ [NoWork EXCEPT !.verdict = v].test = "none"
<1>1. NoWork \in Work
  BY NoWorkIsSound DEF Sound
<1>2. [NoWork EXCEPT !.verdict = v] \in Work
  BY <1>1 DEF Work
<1>3. NoWork.pc = "idle" /\ NoWork.test = "none"
  BY DEF NoWork
<1>4. /\ [NoWork EXCEPT !.verdict = v].pc = "idle"
      /\ [NoWork EXCEPT !.verdict = v].verdict = v
      /\ [NoWork EXCEPT !.verdict = v].test = "none"
  BY <1>1, <1>3 DEF Work
<1>5. Phased([NoWork EXCEPT !.verdict = v]) /\ Witnessed([NoWork EXCEPT !.verdict = v])
  BY <1>4 DEF Phased, Witnessed
<1> QED
  BY <1>2, <1>4, <1>5 DEF Sound

\* A verdict is one of five.
LEMMA VerdictType ==
  ASSUME NEW w \in Work, NEW restored \in BOOLEAN
  PROVE  Verdict(w, restored) \in {"none", "error", "na", "info", "advisory", "pass"}
<1>1. w.raised \in BOOLEAN
  BY DEF Work
<1> QED
  BY <1>1 DEF Verdict

\* A pass needs every profile reached, a host reached after the cycle, or a lease
\* acknowledged in both windows.
LEMMA VerdictPass ==
  ASSUME NEW w \in Work, NEW restored \in BOOLEAN, Verdict(w, restored) = "pass"
  PROVE  /\ w.test = "U03" => w.reached = All
         /\ w.test = "U20" => w.applied # {}
         /\ w.test = "U04" => w.applied = Windows
<1>1. w.raised \in BOOLEAN
  BY DEF Work
<1> QED
  BY <1>1 DEF Verdict

\* The workflow goes on to a profile there is, or to its restore.
LEMMA OnwardIsSound ==
  ASSUME NEW w, Sound(w), w.test \in {"U03", "U20"}
  PROVE  /\ Sound(Onward(w))
         /\ Onward(w).pc \in {"setting", "restoring"}
         /\ Onward(w).test = w.test /\ Onward(w).disturbed = w.disturbed
<1> USE DEF Sound
<1>1. w.next \in All /\ w.verdict = "none" /\ w.pc # "idle"
  BY DEF Phased
<1>2. CASE w.test = "U03" /\ w.next < Profiles
  <2>1. PICK n \in All : n = w.next + 1
    BY <1>1, <1>2, AdapterAssumption DEF All
  <2>2. Onward(w) = [w EXCEPT !.pc = "setting", !.next = n]
    BY <1>2, <2>1 DEF Onward
  <2>3. Onward(w) \in Work
    BY <2>2, Ranges DEF Work, Posting
  <2>4. /\ Onward(w).pc = "setting" /\ Onward(w).test = w.test /\ Onward(w).next = n
        /\ Onward(w).verdict = w.verdict /\ Onward(w).disturbed = w.disturbed
        /\ Onward(w).seen = w.seen /\ Onward(w).reached = w.reached
    BY <2>2 DEF Work
  <2>5. Phased(Onward(w)) /\ Witnessed(Onward(w))
    BY <1>1, <1>2, <2>4 DEF Phased, Witnessed
  <2> QED
    BY <2>3, <2>4, <2>5
<1>3. CASE ~(w.test = "U03" /\ w.next < Profiles)
  <2>1. Onward(w) = [w EXCEPT !.pc = "restoring"]
    BY <1>3 DEF Onward
  <2>2. Onward(w) \in Work
    BY <2>1 DEF Work, Posting
  <2>3. /\ Onward(w).pc = "restoring" /\ Onward(w).test = w.test /\ Onward(w).next = w.next
        /\ Onward(w).verdict = w.verdict /\ Onward(w).disturbed = w.disturbed
        /\ Onward(w).seen = w.seen /\ Onward(w).reached = w.reached
        /\ Onward(w).cut = w.cut /\ Onward(w).applied = w.applied
    BY <2>1 DEF Work
  <2>4. Phased(Onward(w)) /\ Witnessed(Onward(w))
    BY <1>1, <2>3 DEF Phased, Witnessed
  <2> QED
    BY <2>2, <2>3, <2>4
<1> QED
  BY <1>2, <1>3

\* A workflow that another command has disturbed goes on as before, with nothing
\* witnessed.
LEMMA DisturbedIsSound ==
  ASSUME NEW w, Sound(w)
  PROVE  /\ Sound(Disturbed(w))
         /\ Disturbed(w).pc = w.pc /\ Disturbed(w).next = w.next
         /\ Disturbed(w).test = w.test /\ Disturbed(w).verdict = w.verdict
         /\ w.test \in {"U03", "U20"} => Disturbed(w).disturbed
<1> USE DEF Sound
<1>1. CASE w.test \in {"none", "U04"}
  BY <1>1 DEF Disturbed
<1>2. CASE w.test \notin {"none", "U04"}
  <2>1. Disturbed(w) = [w EXCEPT !.disturbed = TRUE, !.seen = {}, !.cut = FALSE]
    BY <1>2 DEF Disturbed
  <2>2. Disturbed(w) \in Work
    BY <2>1 DEF Work
  <2>3. /\ Disturbed(w).pc = w.pc /\ Disturbed(w).next = w.next
        /\ Disturbed(w).test = w.test /\ Disturbed(w).verdict = w.verdict
        /\ Disturbed(w).disturbed /\ Disturbed(w).applied = w.applied
    BY <2>1 DEF Work
  <2>4. Phased(Disturbed(w)) /\ Witnessed(Disturbed(w))
    BY <1>2, <2>3 DEF Phased, Witnessed
  <2> QED
    BY <2>2, <2>3, <2>4
<1> QED
  BY <1>1, <1>2

\* After an answer: a restore ends the workflow with its verdict, another command
\* that succeeded is followed by a probe, one that failed by the next command.
LEMMA AfterIsSound ==
  ASSUME NEW w, Sound(w), w.pc \in Posting, NEW outcome \in {"ok", "failed", "error"},
         outcome = "ok" /\ w.pc = "cycling" /\ ~w.disturbed => w.cut
  PROVE  /\ Sound(After(w, outcome))
         /\ w.pc = "restoring" =>
              /\ After(w, outcome).pc = "idle"
              /\ After(w, outcome).verdict = Verdict(w, outcome = "ok")
         /\ w.pc # "restoring" /\ outcome = "ok" =>
              /\ After(w, outcome).pc = "probing" /\ After(w, outcome).next = w.next
              /\ After(w, outcome).test = w.test /\ After(w, outcome).disturbed = w.disturbed
         /\ w.pc # "restoring" /\ outcome # "ok" =>
              After(w, outcome).pc \in {"setting", "restoring"}
<1> USE DEF Sound
<1>1. CASE w.pc = "restoring"
  <2>1. PICK v \in {"none", "error", "na", "info", "advisory", "pass"} :
          v = Verdict(w, outcome = "ok")
    BY VerdictType
  <2>2. After(w, outcome) = [NoWork EXCEPT !.verdict = v]
    BY <1>1, <2>1 DEF After
  <2> QED
    BY <1>1, <2>1, <2>2, EndIsSound
<1>2. w.pc \in {"setting", "cycling"} =>
        w.test \in {"U03", "U20"} /\ w.next \in All /\ w.verdict = "none"
        /\ (w.test = "U20" => w.pc = "cycling")
  BY DEF Phased, Work, Tests
<1>3. CASE w.pc # "restoring" /\ outcome = "ok"
  <2>1. PICK a \in SUBSET (All \cup Windows) : a = w.applied \cup {w.next}
    BY <1>2, <1>3 DEF Work, Posting
  <2>2. After(w, outcome) = [w EXCEPT !.pc = "probing", !.applied = a]
    BY <1>3, <2>1 DEF After
  <2>3. After(w, outcome) \in Work
    BY <2>2 DEF Work
  <2>4. /\ After(w, outcome).pc = "probing" /\ After(w, outcome).next = w.next
        /\ After(w, outcome).test = w.test /\ After(w, outcome).disturbed = w.disturbed
        /\ After(w, outcome).verdict = w.verdict /\ After(w, outcome).seen = w.seen
        /\ After(w, outcome).reached = w.reached /\ After(w, outcome).cut = w.cut
    BY <2>2 DEF Work
  <2>5. Phased(After(w, outcome)) /\ Witnessed(After(w, outcome))
    BY <1>2, <1>3, <2>4 DEF Phased, Witnessed, Posting
  <2> QED
    BY <1>3, <2>3, <2>4, <2>5
<1>4. CASE w.pc # "restoring" /\ outcome # "ok"
  <2>1. Sound(Onward(w)) /\ Onward(w).pc \in {"setting", "restoring"}
    BY <1>2, <1>4, OnwardIsSound DEF Posting
  <2>2. PICK o \in Work : o = Onward(w)
    BY <2>1
  <2>3. PICK b \in BOOLEAN : b = (w.test = "U20" /\ outcome = "error")
    OBVIOUS
  <2>4. After(w, outcome) = [o EXCEPT !.raised = b]
    BY <1>2, <1>4, <2>2, <2>3 DEF After
  <2>5. After(w, outcome) \in Work
    BY <2>2, <2>4 DEF Work
  <2>6. /\ After(w, outcome).pc = o.pc /\ After(w, outcome).next = o.next
        /\ After(w, outcome).test = o.test /\ After(w, outcome).disturbed = o.disturbed
        /\ After(w, outcome).verdict = o.verdict /\ After(w, outcome).seen = o.seen
        /\ After(w, outcome).reached = o.reached /\ After(w, outcome).cut = o.cut
        /\ After(w, outcome).applied = o.applied
    BY <2>2, <2>4 DEF Work
  <2>7. Phased(After(w, outcome)) /\ Witnessed(After(w, outcome))
    BY <2>1, <2>2, <2>6 DEF Phased, Witnessed
  <2> QED
    BY <1>4, <2>1, <2>2, <2>5, <2>6, <2>7
<1> QED
  BY <1>1, <1>3, <1>4 DEF Posting

\* A command is posted by a workflow that begins to wait, and only then.
LEMMA PostedServes ==
  ASSUME NEW r \in Runs, NEW w, Sound(w)
  PROVE  /\ w.pc \in Posting => \E p \in Command :
              /\ Posted(r, w) = {p} /\ p.run = r /\ p.awaited /\ p.stage = "start"
              /\ Serves(p, w)
         /\ w.pc \notin Posting => Posted(r, w) = {}
<1> USE DEF Sound
<1>1. CASE w.pc = "setting"
  <2>1. w.next \in 0 .. Profiles
    BY <1>1, Ranges DEF Phased, Work, Tests
  <2> DEFINE p == [run |-> r, op |-> "set", profile |-> w.next, stage |-> "start",
                   awaited |-> TRUE]
  <2>2. Posted(r, w) = {p}
    BY <1>1 DEF Posted
  <2>3. p \in Command /\ Serves(p, w)
    BY <1>1, <2>1 DEF Command, Serves
  <2> QED
    BY <1>1, <2>2, <2>3 DEF Posting
<1>2. ASSUME NEW o \in {"cycle", "restore"},
             Posted(r, w) = {[run |-> r, op |-> o, profile |-> 0, stage |-> "start",
                              awaited |-> TRUE]},
             w.pc = IF o = "cycle" THEN "cycling" ELSE "restoring"
      PROVE  \E p \in Command :
               /\ Posted(r, w) = {p} /\ p.run = r /\ p.awaited /\ p.stage = "start"
               /\ Serves(p, w)
  <2> DEFINE p == [run |-> r, op |-> o, profile |-> 0, stage |-> "start", awaited |-> TRUE]
  <2>1. p \in Command
    BY AdapterAssumption DEF Command
  <2>2. Serves(p, w)
    BY <1>2 DEF Serves
  <2> QED
    BY <1>2, <2>1, <2>2
<1>3. CASE w.pc = "cycling"
  BY <1>2, <1>3 DEF Posted, Posting
<1>4. CASE w.pc = "restoring"
  BY <1>2, <1>4 DEF Posted, Posting
<1>5. CASE w.pc \notin Posting
  BY <1>5 DEF Posted, Posting
<1> QED
  BY <1>1, <1>3, <1>4, <1>5 DEF Posting

--------------------------------------------------------------------------------

\* AdapterInv holds before any test begins.
LEMMA AdapterInvInit == Init => AdapterInv
<1> SUFFICES ASSUME Init PROVE AdapterInv
  OBVIOUS
<1>1. \A r \in Runs : work[r] = NoWork /\ work[r].pc = "idle" /\ work[r].test = "none"
  BY DEF Init, NoWork
<1>2. SoundInv
  BY <1>1, NoWorkIsSound DEF SoundInv
<1>3. TypesInv
  <2>1. work \in [Runs -> Work]
    BY NoWorkIsSound DEF Init, Sound
  <2>2. adapter \in [link : {"up", "down"}, profile : 0 .. Profiles] /\ faults \in 0 .. MaxFaults
    BY AdapterAssumption DEF Init
  <2> QED
    BY <2>1, <2>2 DEF Init, TypesInv
<1>4. ServiceInv /\ ProbedInv
  BY <1>1 DEF Init, ServiceInv, ProbedInv, Posting
<1>5. MendingInv
  BY DEF Init, MendingInv
<1> QED
  BY <1>2, <1>3, <1>4, <1>5 DEF AdapterInv

\* A workflow of one run turns to another state and posts the command that state
\* waits for, after the one it waited for was taken away or given up; the others go
\* on, disturbed or not: the rest of the commands, and their service, is as before.
LEMMA TurnKeepsService ==
  ASSUME TypesInv, SoundInv, ServiceInv, NEW r \in Runs, NEW w, Sound(w), NEW rest,
         NEW f \in [Runs -> Work], work' = f, f[r] = w,
         \A q \in Runs \ {r} : f[q] = work[q] \/ f[q] = Disturbed(work[q]),
         rest \subseteq Command, \A c \in rest : c.awaited => c \in cmds /\ c.run # r,
         \A c \in cmds : c.awaited /\ c.run # r => c \in rest,
         cmds' = rest \cup Posted(r, w)
  PROVE  /\ SoundInv' /\ ServiceInv' /\ cmds' \subseteq Command
         /\ \A c \in cmds' : c \in rest \/ (c.run = r /\ c.awaited /\ c.stage = "start")
         /\ w.pc = "restoring" => \E c \in cmds' : c.op = "restore"
<1>1. work \in [Runs -> Work] /\ cmds \subseteq Command
  BY DEF TypesInv
<1>2. work'[r] = w
  OBVIOUS
<1>3. \A q \in Runs \ {r} : /\ Sound(work'[q])
                            /\ work'[q].pc = work[q].pc /\ work'[q].next = work[q].next
  BY DisturbedIsSound DEF SoundInv
<1>4. SoundInv'
  BY <1>2, <1>3 DEF SoundInv
<1>5. \A c \in Posted(r, w) : /\ c \in Command /\ c.run = r /\ c.awaited /\ c.stage = "start"
                             /\ Serves(c, w)
  BY PostedServes
<1>6. w.pc \in Posting => \E c \in Posted(r, w) : TRUE
  BY PostedServes
<1>7. \A c, d \in Posted(r, w) : c = d
  BY PostedServes
<1>8. \A c \in rest : c.awaited => c \in cmds /\ c.run \in Runs \ {r}
  BY DEF Command
<1>9. ServiceInv'
  <2>1. ASSUME NEW c \in cmds', c.awaited PROVE Serves(c, work'[c.run])
    <3>1. CASE c \in Posted(r, w)
      BY <1>2, <1>5, <3>1
    <3>2. CASE c \in rest
      BY <1>3, <1>8, <2>1, <3>2 DEF ServiceInv, Serves
    <3> QED
      BY <3>1, <3>2
  <2>2. ASSUME NEW c \in cmds', NEW d \in cmds', c.awaited, d.awaited, c.run = d.run
        PROVE  c = d
    BY <1>5, <1>7, <1>8, <2>2 DEF ServiceInv
  <2>3. ASSUME NEW q \in Runs, work'[q].pc \in Posting
        PROVE  \E c \in cmds' : c.run = q /\ c.awaited
    <3>1. CASE q = r
      BY <1>2, <1>5, <1>6, <2>3, <3>1
    <3>2. CASE q # r
      BY <1>3, <2>3, <3>2 DEF ServiceInv
    <3> QED
      BY <3>1, <3>2
  <2> QED
    BY <2>1, <2>2, <2>3 DEF ServiceInv
<1>10. w.pc = "restoring" => \E c \in cmds' : c.op = "restore"
  BY <1>5, <1>6 DEF Serves, Posting
<1> QED
  BY <1>4, <1>5, <1>9, <1>10

\* A turn that leaves the adapter alone, and a command where there was one, keeps all.
LEMMA TurnKeeps ==
  ASSUME AdapterInv, NEW r \in Runs, NEW w, Sound(w), NEW rest,
         work' = [work EXCEPT ![r] = w],
         rest \subseteq Command, \A c \in rest : c.awaited => c \in cmds /\ c.run # r,
         \A c \in cmds : c.awaited /\ c.run # r => c \in rest,
         \A c \in cmds : \E d \in rest : d.op = c.op /\ d.stage = c.stage,
         cmds' = rest \cup Posted(r, w),
         UNCHANGED <<adapter, scars>>, faults' \in 0 .. MaxFaults,
         w.pc = "probing" /\ w.test = "U03" /\ ~w.disturbed => adapter.profile = w.next,
         work[r].pc \in {"setting", "cycling", "probing"} =>
           w.pc \in {"setting", "cycling", "probing", "restoring"}
  PROVE  AdapterInv'
<1> USE DEF AdapterInv
<1>1. work \in [Runs -> Work]
  BY DEF TypesInv
<1>2. PICK f \in [Runs -> Work] : f = work'
  BY <1>1 DEF Sound
<1>3. f[r] = w /\ \A q \in Runs \ {r} : f[q] = work[q]
  BY <1>1, <1>2
<1>4. /\ SoundInv' /\ ServiceInv' /\ cmds' \subseteq Command
      /\ \A c \in cmds' : c \in rest \/ (c.run = r /\ c.awaited /\ c.stage = "start")
      /\ w.pc = "restoring" => \E c \in cmds' : c.op = "restore"
  BY <1>2, <1>3, TurnKeepsService
<1>5. TypesInv'
  BY <1>2, <1>4 DEF TypesInv
<1>6. ProbedInv'
  <2>1. ASSUME NEW q \in Runs,
               work'[q].test = "U03" /\ work'[q].pc = "probing" /\ ~work'[q].disturbed
        PROVE  adapter'.profile = work'[q].next
    BY <1>2, <1>3, <2>1 DEF ProbedInv
  <2>2. ASSUME NEW c \in cmds', c.awaited, c.op = "cycle", c.stage = "down",
               ~work'[c.run].disturbed
        PROVE  work'[c.run].cut
    <3>1. c \in cmds /\ c.run \in Runs \ {r}
      BY <1>4, <2>2 DEF Command
    <3> QED
      BY <1>2, <1>3, <2>2, <3>1 DEF ProbedInv
  <2> QED
    BY <2>1, <2>2 DEF ProbedInv
<1>7. RestoreToCome => RestoreToCome'
  <2>1. ASSUME NEW q \in Runs, work[q].pc \in {"setting", "cycling", "probing"}
        PROVE  RestoreToCome'
    BY <1>2, <1>3, <1>4, <2>1 DEF RestoreToCome
  <2> QED
    BY <2>1 DEF RestoreToCome
<1>8. MendingInv'
  BY <1>7 DEF MendingInv
<1> QED
  BY <1>4, <1>5, <1>6, <1>8

\* While a run does not wait, no command is awaited by it.
LEMMA NobodyServes ==
  ASSUME AdapterInv, NEW r \in Runs, work[r].pc \notin Posting
  PROVE  \A c \in cmds : c.awaited => c.run # r
BY DEF AdapterInv, ServiceInv, Serves, Posting

\* A turn of a workflow that does not wait.
LEMMA FreeTurnKeeps ==
  ASSUME AdapterInv, NEW r \in Runs, NEW w, Sound(w), work[r].pc \notin Posting,
         work' = [work EXCEPT ![r] = w], cmds' = cmds \cup Posted(r, w),
         UNCHANGED <<adapter, scars, faults>>,
         w.pc = "probing" => FALSE,
         work[r].pc = "probing" => w.pc \in {"setting", "restoring"}
  PROVE  AdapterInv'
<1>1. cmds \subseteq Command /\ faults' \in 0 .. MaxFaults
  BY DEF AdapterInv, TypesInv
<1>2. \A c \in cmds : c.awaited => c.run # r
  BY NobodyServes
<1>3. \A c \in cmds : \E d \in cmds : d.op = c.op /\ d.stage = c.stage
  OBVIOUS
<1> QED
  BY <1>1, <1>2, <1>3, TurnKeeps DEF Posting

\* A test that begins has witnessed nothing, and its first command is posted with it.
LEMMA BeginKeeps ==
  ASSUME AdapterInv, NEW r \in Runs, NEW test \in Tests, Begin(r, test)
  PROVE  AdapterInv'
<1>1. PICK first \in {"setting", "cycling", "queued"} :
        first = CASE test = "U03" -> "setting" [] test = "U20" -> "cycling"
                  [] test = "U04" -> "queued"
  BY DEF Tests
<1>2. PICK w : w = [NoWork EXCEPT !.pc = first, !.test = test, !.next = 1]
  OBVIOUS
<1>3. /\ work[r].pc = "idle" /\ work' = [work EXCEPT ![r] = w]
      /\ cmds' = cmds \cup Posted(r, w) /\ UNCHANGED <<adapter, scars, faults>>
  BY <1>1, <1>2 DEF Begin
<1>4. w \in Work
  BY <1>2, NoWorkIsSound DEF Sound, Work, Posting
<1>5. /\ w.pc = first /\ w.test = test /\ w.next = 1 /\ w.verdict = "none"
      /\ w.seen = {} /\ w.reached = {} /\ w.applied = {}
  BY <1>2 DEF NoWork
<1>6. Phased(w) /\ Witnessed(w)
  BY <1>1, <1>5, Ranges DEF Phased, Witnessed, Tests
<1> QED
  BY <1>1, <1>3, <1>4, <1>5, <1>6, FreeTurnKeeps DEF Sound, Posting

\* What a probe is told over an undisturbed link, it was told under the profile that
\* the workflow has set; the next command follows.
LEMMA ProbeTurns ==
  ASSUME AdapterInv, NEW r \in Runs, NEW reachable \in BOOLEAN, Probe(r, reachable)
  PROVE  \E w :
           /\ Sound(w) /\ w.pc \in {"setting", "restoring"} /\ work[r].pc = "probing"
           /\ work' = [work EXCEPT ![r] = w]
           /\ cmds' = cmds \cup Posted(r, w)
           /\ UNCHANGED <<adapter, scars, faults>>
<1>1. PICK w \in Work : w = work[r]
  BY DEF AdapterInv, TypesInv
<1>2. /\ Sound(w) /\ w.pc = "probing" /\ w.test \in {"U03", "U20"} /\ w.next \in All
      /\ w.verdict = "none"
      /\ w.test = "U03" /\ ~w.disturbed => adapter.profile = w.next
  BY <1>1 DEF Probe, AdapterInv, SoundInv, Sound, Phased, Work, Tests, ProbedInv
<1>3. PICK reached \in SUBSET (All \cup Windows) :
        reached = IF reachable THEN w.reached \cup {w.next} ELSE w.reached
  BY <1>1, <1>2 DEF Work
<1>4. PICK seen \in SUBSET Nat :
        seen = IF reachable /\ ~w.disturbed THEN w.seen \cup {adapter.profile} ELSE w.seen
  <2>1. adapter.profile \in Nat
    BY AdapterAssumption DEF AdapterInv, TypesInv
  <2> QED
    BY <1>1, <2>1 DEF Work
<1>5. PICK v : v = [w EXCEPT !.reached = reached, !.seen = seen]
  OBVIOUS
<1>6. /\ work' = [work EXCEPT ![r] = Onward(v)]
      /\ cmds' = cmds \cup Posted(r, Onward(v))
      /\ UNCHANGED <<adapter, scars, faults>>
  BY <1>1, <1>3, <1>4, <1>5 DEF Probe
<1>7. v \in Work
  BY <1>5 DEF Work
<1>8. /\ v.pc = w.pc /\ v.test = w.test /\ v.next = w.next /\ v.verdict = w.verdict
      /\ v.applied = w.applied /\ v.cut = w.cut /\ v.disturbed = w.disturbed
      /\ v.reached = reached /\ v.seen = seen
  BY <1>5 DEF Work
<1>9. Sound(v)
  BY <1>2, <1>3, <1>4, <1>7, <1>8 DEF Sound, Phased, Witnessed
<1>10. Sound(Onward(v)) /\ Onward(v).pc \in {"setting", "restoring"}
  BY <1>2, <1>8, <1>9, OnwardIsSound
<1> QED
  BY <1>1, <1>2, <1>6, <1>10

\* So nothing is lost by a probe.
LEMMA ProbeKeeps ==
  ASSUME AdapterInv, NEW r \in Runs, NEW reachable \in BOOLEAN, Probe(r, reachable)
  PROVE  AdapterInv'
BY ProbeTurns, FreeTurnKeeps DEF Posting

\* A run that queues for the observer, or watches, runs U04.
LEMMA QueuedIsU04 ==
  ASSUME AdapterInv, NEW r \in Runs, work[r].pc \in {"queued", "watching"}
  PROVE  /\ Sound(work[r]) /\ work[r].test = "U04" /\ work[r].next \in Windows
         /\ work[r].verdict = "none"
BY DEF AdapterInv, SoundInv, Sound, Phased, Work, Tests

\* U04's window opens, hears the run's own device, closes or cannot be opened.
LEMMA WindowKeeps ==
  ASSUME AdapterInv, NEW r \in Runs,
         \/ Watch(r) \/ WindowCloses(r) \/ PortTaken(r)
         \/ \E sent \in BOOLEAN : AsksLease(r, sent)
  PROVE  AdapterInv'
<1>1. PICK w \in Work : w = work[r]
  BY DEF AdapterInv, TypesInv
<1>2. /\ Sound(w) /\ w.test = "U04" /\ w.next \in Windows /\ w.verdict = "none"
      /\ w.pc \in {"queued", "watching"}
  BY <1>1, QueuedIsU04 DEF Watch, WindowCloses, PortTaken, AsksLease, Watching, Heard
<1>3. ASSUME NEW v, Sound(v), v.pc \in {"idle", "queued", "watching"},
             work' = [work EXCEPT ![r] = v], UNCHANGED <<adapter, cmds, scars, faults>>
      PROVE  AdapterInv'
  <2>1. cmds' = cmds \cup Posted(r, v)
    BY <1>3 DEF Posted
  <2> QED
    BY <1>1, <1>2, <1>3, <2>1, FreeTurnKeeps DEF Posting
<1>4. CASE Watch(r)
  <2>1. PICK v : v = [w EXCEPT !.pc = "watching"]
    OBVIOUS
  <2>2. v \in Work
    BY <2>1 DEF Work
  <2>3. /\ v.pc = "watching" /\ v.test = w.test /\ v.next = w.next /\ v.verdict = w.verdict
        /\ v.applied = w.applied /\ v.seen = w.seen
    BY <2>1 DEF Work
  <2>4. Sound(v)
    BY <1>2, <2>2, <2>3 DEF Sound, Phased, Witnessed
  <2>5. work' = [work EXCEPT ![r] = v] /\ UNCHANGED <<adapter, cmds, scars, faults>>
    BY <1>1, <1>4, <2>1 DEF Watch
  <2> QED
    BY <1>3, <2>3, <2>4, <2>5
<1>5. CASE WindowCloses(r)
  <2>1. CASE w.next < 2
    <3>1. PICK v : v = [w EXCEPT !.pc = "queued", !.next = 2]
      OBVIOUS
    <3>2. v \in Work
      BY <3>1 DEF Work
    <3>3. /\ v.pc = "queued" /\ v.test = w.test /\ v.next = 2 /\ v.verdict = w.verdict
          /\ v.applied = w.applied /\ v.seen = w.seen
      BY <3>1 DEF Work
    <3>4. Sound(v)
      BY <1>2, <3>2, <3>3, Ranges DEF Sound, Phased, Witnessed
    <3>5. work' = [work EXCEPT ![r] = v] /\ UNCHANGED <<adapter, cmds, scars, faults>>
      BY <1>1, <1>5, <2>1, <3>1 DEF WindowCloses
    <3> QED
      BY <1>3, <3>3, <3>4, <3>5
  <2>2. CASE ~(w.next < 2)
    <3>1. PICK v \in {"none", "error", "na", "info", "advisory", "pass"} :
            v = Verdict(w, TRUE)
      BY VerdictType
    <3>2. /\ work' = [work EXCEPT ![r] = [NoWork EXCEPT !.verdict = v]]
          /\ UNCHANGED <<adapter, cmds, scars, faults>>
      BY <1>1, <1>5, <2>2, <3>1 DEF WindowCloses
    <3> QED
      BY <1>3, <3>2, EndIsSound
  <2> QED
    BY <2>1, <2>2
<1>6. CASE PortTaken(r)
  <2>1. /\ work' = [work EXCEPT ![r] = [NoWork EXCEPT !.verdict = "info"]]
        /\ UNCHANGED <<adapter, cmds, scars, faults>>
    BY <1>6 DEF PortTaken
  <2>2. Sound([NoWork EXCEPT !.verdict = "info"]) /\ [NoWork EXCEPT !.verdict = "info"].pc = "idle"
    BY EndIsSound
  <2> QED
    BY <1>3, <2>1, <2>2
<1>7. ASSUME NEW sent \in BOOLEAN, AsksLease(r, sent) PROVE AdapterInv'
  <2>1. PICK a \in SUBSET (All \cup Windows) :
          a = IF sent THEN w.applied \cup {w.next} ELSE w.applied
    BY <1>2 DEF Work
  <2>2. PICK n \in SUBSET (All \cup Windows) : n = w.reached \cup {w.next}
    BY <1>2 DEF Work
  <2>3. PICK e \in SUBSET Nat : e = w.seen \cup {w.next}
    BY <1>2, Ranges DEF Work
  <2>4. PICK v : v = [w EXCEPT !.reached = n, !.applied = a, !.seen = e]
    OBVIOUS
  <2>5. work' = [work EXCEPT ![r] = v] /\ UNCHANGED <<adapter, cmds, scars, faults>>
        /\ w.pc = "watching"
    BY <1>1, <1>7, <2>1, <2>2, <2>3, <2>4 DEF AsksLease, Heard, Watching
  <2>6. v \in Work
    BY <2>4 DEF Work
  <2>7. /\ v.pc = w.pc /\ v.test = w.test /\ v.next = w.next /\ v.verdict = w.verdict
        /\ v.applied = a /\ v.seen = e
    BY <2>4 DEF Work
  <2>8. Sound(v)
    BY <1>2, <2>1, <2>3, <2>6, <2>7 DEF Sound, Phased, Witnessed
  <2> QED
    BY <1>3, <2>5, <2>7, <2>8
<1> QED
  BY <1>4, <1>5, <1>6, <1>7

\* A command that is given up goes on, and no workflow will take its answer.
LEMMA ForsakenGoesOn ==
  ASSUME NEW c \in Command
  PROVE  /\ Forsaken(c) \in Command /\ ~Forsaken(c).awaited /\ Forsaken(c).run = c.run
         /\ Forsaken(c).op = c.op /\ Forsaken(c).stage = c.stage
BY DEF Forsaken, Command

\* A lost answer is an exception: the workflow goes on to its next command or ends.
LEMMA LoseKeeps == ASSUME AdapterInv, NEW c \in cmds, Lose(c) PROVE AdapterInv'
<1>1. c \in Command /\ cmds \subseteq Command /\ c.run \in Runs /\ c.awaited
  BY DEF AdapterInv, TypesInv, Command, Lose
<1>2. PICK r \in Runs : r = c.run
  BY <1>1
<1>3. PICK w : w = After(work[r], "error")
  OBVIOUS
<1>4. Sound(work[r]) /\ work[r].pc \in Posting
  BY <1>1, <1>2 DEF AdapterInv, SoundInv, ServiceInv, Serves, Posting
<1>5. Sound(w) /\ w.pc \in {"idle", "setting", "restoring"} /\ (w.pc = "idle" => work[r].pc = "restoring")
  BY <1>3, <1>4, AfterIsSound
<1>6. PICK rest : rest = (cmds \ {c}) \cup {Forsaken(c)}
  OBVIOUS
<1>7. /\ work' = [work EXCEPT ![r] = w] /\ cmds' = rest \cup Posted(r, w)
      /\ UNCHANGED <<adapter, scars>> /\ faults' \in 0 .. MaxFaults
  <2>1. faults' \in 0 .. MaxFaults
    BY AdapterAssumption DEF Lose, Fault, AdapterInv, TypesInv
  <2> QED
    BY <1>2, <1>3, <1>6, <2>1 DEF Lose
<1>8. rest \subseteq Command /\ \A d \in rest : d.awaited => d \in cmds /\ d.run # r
  BY <1>1, <1>2, <1>6, ForsakenGoesOn DEF AdapterInv, ServiceInv
<1>9. \A d \in cmds : d.awaited /\ d.run # r => d \in rest
  BY <1>2, <1>6
<1>10. \A d \in cmds : \E e \in rest : e.op = d.op /\ e.stage = d.stage
  BY <1>1, <1>6, ForsakenGoesOn
<1> QED
  BY <1>5, <1>7, <1>8, <1>9, <1>10, TurnKeeps

\* A cancelled workflow restores; cancelled again, it ends and its restore goes on.
LEMMA CancelKeeps == ASSUME AdapterInv, NEW r \in Runs, Cancel(r) PROVE AdapterInv'
<1>1. cmds \subseteq Command /\ work[r] \in Work /\ Sound(work[r]) /\ work[r].pc # "idle"
  BY DEF AdapterInv, TypesInv, SoundInv, Cancel
<1>2. PICK w : w = IF work[r].pc \in {"restoring", "queued", "watching"} THEN NoWork
                   ELSE [work[r] EXCEPT !.pc = "restoring", !.raised = TRUE]
  OBVIOUS
<1>3. Sound(w) /\ w.pc \in {"idle", "restoring"}
      /\ (w.pc = "idle" => work[r].pc \in {"restoring", "queued", "watching"})
  <2>1. CASE work[r].pc \in {"restoring", "queued", "watching"}
    BY <1>2, <2>1, NoWorkIsSound DEF NoWork
  <2>2. CASE work[r].pc \notin {"restoring", "queued", "watching"}
    <3>1. PICK u \in Work : u = work[r]
      BY <1>1
    <3>2. w = [u EXCEPT !.pc = "restoring", !.raised = TRUE]
      BY <1>2, <2>2, <3>1
    <3>3. w \in Work
      BY <3>2 DEF Work, Posting
    <3>4. /\ w.pc = "restoring" /\ w.test = u.test /\ w.next = u.next
          /\ w.verdict = u.verdict /\ w.disturbed = u.disturbed
          /\ w.seen = u.seen /\ w.reached = u.reached
          /\ w.cut = u.cut /\ w.applied = u.applied
      BY <3>2 DEF Work
    <3>5. Phased(w) /\ Witnessed(w)
      BY <1>1, <2>2, <3>1, <3>4 DEF Sound, Phased, Witnessed
    <3> QED
      BY <3>3, <3>4, <3>5 DEF Sound
  <2> QED
    BY <2>1, <2>2
<1>4. PICK rest : rest = {IF c.run = r THEN Forsaken(c) ELSE c : c \in cmds}
  OBVIOUS
<1>5. /\ work' = [work EXCEPT ![r] = w] /\ cmds' = rest \cup Posted(r, w)
      /\ UNCHANGED <<adapter, scars>> /\ faults' \in 0 .. MaxFaults
  <2>1. faults' \in 0 .. MaxFaults
    BY AdapterAssumption DEF Cancel, Fault, AdapterInv, TypesInv
  <2> QED
    BY <1>2, <1>4, <2>1 DEF Cancel
<1>6. rest \subseteq Command /\ \A d \in rest : d.awaited => d \in cmds /\ d.run # r
  BY <1>1, <1>4, ForsakenGoesOn
<1>7. \A d \in cmds : d.awaited /\ d.run # r => d \in rest
  BY <1>4
<1>8. \A d \in cmds : \E e \in rest : e.op = d.op /\ e.stage = d.stage
  BY <1>1, <1>4, ForsakenGoesOn
<1> QED
  BY <1>3, <1>5, <1>6, <1>7, <1>8, TurnKeeps

--------------------------------------------------------------------------------
(* The scanner's steps.                                                          *)

\* The end of a command: only the workflow that waits for it takes the answer, goes
\* on to a probe under the profile the command set, or posts its next command; every
\* other workflow is disturbed.
LEMMA AnsweredKeeps ==
  ASSUME AdapterInv, NEW c \in cmds, NEW outcome \in {"ok", "failed"}, Answered(c, outcome),
         outcome = "ok" /\ c.awaited /\ c.op = "cycle" /\ ~work[c.run].disturbed =>
           work[c.run].cut
  PROVE  /\ work' \in [Runs -> Work] /\ cmds' \subseteq Command /\ faults' = faults
         /\ SoundInv' /\ ServiceInv'
         /\ cmds \ {c} \subseteq cmds'
         /\ \A q \in Runs :
              work'[q].test = "U03" /\ work'[q].pc = "probing" /\ ~work'[q].disturbed =>
                outcome = "ok" /\ c.op = "set" /\ work'[q].next = c.profile
         /\ \A d \in cmds' :
              d.awaited /\ d.op = "cycle" /\ d.stage = "down" /\ ~work'[d.run].disturbed =>
                work'[d.run].cut
         /\ c.op # "restore" /\ RestoreToCome => RestoreToCome'
<1> USE DEF AdapterInv
<1>1. /\ work \in [Runs -> Work] /\ cmds \subseteq Command /\ c \in Command /\ c.run \in Runs
      /\ c.awaited \in BOOLEAN
  BY DEF TypesInv, Command
<1>2. \A q \in Runs :
        /\ Sound(Disturbed(work[q])) /\ Disturbed(work[q]) \in Work
        /\ Disturbed(work[q]).pc = work[q].pc /\ Disturbed(work[q]).next = work[q].next
        /\ Disturbed(work[q]).test = work[q].test
        /\ work[q].test \in {"U03", "U20"} => Disturbed(work[q]).disturbed
  BY DisturbedIsSound DEF SoundInv, Sound
<1>3. \A d \in cmds : d.awaited /\ d.op = "cycle" => work[d.run].test = "U20" /\ d.run \in Runs
  BY <1>1 DEF ServiceInv, Serves, SoundInv, Sound, Phased, Work, Tests, Command
<1>4. faults' = faults
  BY DEF Answered
<1>5. CASE ~c.awaited
  <2>1. work' = [q \in Runs |-> Disturbed(work[q])] /\ cmds' = cmds \ {c}
    BY <1>5 DEF Answered
  <2>2. work' \in [Runs -> Work] /\ SoundInv'
    BY <1>2, <2>1 DEF SoundInv
  <2>3. ServiceInv'
    <3>1. \A d \in cmds' : d.awaited => Serves(d, work'[d.run])
      BY <1>1, <1>2, <2>1 DEF ServiceInv, Serves, Command
    <3>2. \A d, e \in cmds' : d.awaited /\ e.awaited /\ d.run = e.run => d = e
      BY <2>1 DEF ServiceInv
    <3>3. \A q \in Runs : work'[q].pc \in Posting => \E d \in cmds' : d.run = q /\ d.awaited
      BY <1>2, <1>5, <2>1 DEF ServiceInv
    <3> QED
      BY <3>1, <3>2, <3>3 DEF ServiceInv
  <2>4. \A q \in Runs : work'[q].test = "U03" => work'[q].disturbed
    BY <1>2, <2>1
  <2>5. \A d \in cmds' : d.awaited /\ d.op = "cycle" => work'[d.run].disturbed
    BY <1>2, <1>3, <2>1
  <2>6. c.op # "restore" /\ RestoreToCome => RestoreToCome'
    BY <1>2, <2>1 DEF RestoreToCome
  <2> QED
    BY <1>1, <1>4, <2>1, <2>2, <2>3, <2>4, <2>5, <2>6
<1>6. CASE c.awaited
  <2>1. PICK r \in Runs : r = c.run
    BY <1>1
  <2>2. PICK w : w = After(work[r], outcome)
    OBVIOUS
  <2>3. Serves(c, work[r]) /\ work[r].pc \in Posting /\ Sound(work[r])
    BY <1>6, <2>1 DEF ServiceInv, Serves, SoundInv, Posting
  <2>4. outcome = "ok" /\ work[r].pc = "cycling" /\ ~work[r].disturbed => work[r].cut
    BY <1>6, <2>1, <2>3 DEF Serves
  <2>5. /\ Sound(w)
        /\ work[r].pc = "restoring" => w.pc = "idle"
        /\ work[r].pc # "restoring" /\ outcome = "ok" =>
              w.pc = "probing" /\ w.next = work[r].next /\ w.test = work[r].test
        /\ work[r].pc # "restoring" /\ outcome # "ok" => w.pc \in {"setting", "restoring"}
    BY <2>2, <2>3, <2>4, AfterIsSound
  <2>6. PICK f \in [Runs -> Work] :
          f = work' /\ f[r] = w /\ \A q \in Runs \ {r} : f[q] = Disturbed(work[q])
    <3>1. work' = [q \in Runs |-> IF q = r THEN w ELSE Disturbed(work[q])]
      BY <1>6, <2>1, <2>2 DEF Answered
    <3>2. work' \in [Runs -> Work]
      BY <1>2, <2>5, <3>1 DEF Sound
    <3> QED
      BY <3>1, <3>2
  <2>7. cmds' = (cmds \ {c}) \cup Posted(r, w)
    BY <1>6, <2>1, <2>2 DEF Answered
  <2>8. \A d \in cmds \ {c} : d.awaited => d \in cmds /\ d.run # r
    BY <1>6, <2>1 DEF ServiceInv
  <2>9. /\ SoundInv' /\ ServiceInv' /\ cmds' \subseteq Command
        /\ \A d \in cmds' : d \in cmds \ {c} \/ (d.run = r /\ d.awaited /\ d.stage = "start")
        /\ w.pc = "restoring" => \E d \in cmds' : d.op = "restore"
    <3>1. PICK rest : rest = cmds \ {c}
      OBVIOUS
    <3>2. rest \subseteq Command /\ cmds' = rest \cup Posted(r, w)
      BY <1>1, <2>7, <3>1
    <3>3. \A d \in rest : d.awaited => d \in cmds /\ d.run # r
      BY <2>8, <3>1
    <3>4. \A d \in cmds : d.awaited /\ d.run # r => d \in rest
      BY <2>1, <3>1
    <3>5. \A q \in Runs \ {r} : f[q] = work[q] \/ f[q] = Disturbed(work[q])
      BY <2>6
    <3>6. Sound(w) /\ work' = f /\ f[r] = w
      BY <2>5, <2>6
    <3>7. /\ SoundInv' /\ ServiceInv' /\ cmds' \subseteq Command
          /\ \A d \in cmds' : d \in rest \/ (d.run = r /\ d.awaited /\ d.stage = "start")
          /\ w.pc = "restoring" => \E d \in cmds' : d.op = "restore"
      BY <3>2, <3>3, <3>4, <3>5, <3>6, TurnKeepsService
    <3> QED
      BY <3>1, <3>7
  <2>10. ASSUME NEW q \in Runs,
                work'[q].test = "U03" /\ work'[q].pc = "probing" /\ ~work'[q].disturbed
         PROVE  outcome = "ok" /\ c.op = "set" /\ work'[q].next = c.profile
    <3>1. q = r
      BY <1>2, <2>6, <2>10
    <3>2. work[r].pc # "restoring" /\ outcome = "ok" /\ work[r].test = "U03" /\ w.next = work[r].next
      BY <2>3, <2>5, <2>6, <2>10, <3>1 DEF Posting
    <3>3. work[r].pc = "setting"
      BY <2>3, <3>2 DEF Sound, Phased, Posting
    <3> QED
      BY <2>3, <2>6, <3>1, <3>2, <3>3 DEF Serves
  <2>11. ASSUME NEW d \in cmds', d.awaited, d.op = "cycle", d.stage = "down"
         PROVE  work'[d.run].disturbed
    <3>1. d \in cmds /\ d.run \in Runs \ {r}
      BY <1>3, <2>8, <2>9, <2>11
    <3> QED
      BY <1>2, <1>3, <2>6, <2>11, <3>1
  <2>12. ASSUME c.op # "restore", RestoreToCome PROVE RestoreToCome'
    <3>1. ASSUME NEW q \in Runs, work[q].pc \in {"setting", "cycling", "probing"}
          PROVE  RestoreToCome'
      <4>1. CASE q = r
        BY <2>5, <2>6, <2>9, <3>1, <4>1 DEF RestoreToCome
      <4>2. CASE q # r
        BY <1>2, <2>6, <3>1, <4>2 DEF RestoreToCome
      <4> QED
        BY <4>1, <4>2
    <3>2. ASSUME NEW d \in cmds, d.op = "restore" PROVE RestoreToCome'
      BY <2>7, <2>12, <3>2 DEF RestoreToCome
    <3> QED
      BY <2>12, <3>1, <3>2 DEF RestoreToCome
  <2> QED
    BY <1>4, <2>6, <2>7, <2>9, <2>10, <2>11, <2>12
<1> QED
  BY <1>1, <1>5, <1>6

\* A profile set with nobody left to restore it leaves its scar at once.
LEMMA SetProfileKeeps ==
  ASSUME AdapterInv, NEW c \in cmds, NEW e \in Effects, SetProfile(c, e)
  PROVE  AdapterInv'
<1> USE DEF AdapterInv
<1>1. /\ c \in Command /\ c.profile \in 0 .. Profiles /\ c.op = "set"
      /\ e.took \in BOOLEAN /\ e.ok \in BOOLEAN /\ (e.ok => e.took)
  BY DEF TypesInv, Command, SetProfile, Effects
<1>2. PICK outcome \in {"ok", "failed"} : outcome = Outcome(e.ok) /\ (outcome = "ok" => e.took)
  BY <1>1 DEF Outcome
<1>3. Answered(c, outcome)
  BY <1>2 DEF SetProfile
<1>4. /\ work' \in [Runs -> Work] /\ cmds' \subseteq Command /\ faults' = faults
      /\ SoundInv' /\ ServiceInv'
      /\ cmds \ {c} \subseteq cmds'
      /\ \A q \in Runs :
           work'[q].test = "U03" /\ work'[q].pc = "probing" /\ ~work'[q].disturbed =>
             outcome = "ok" /\ c.op = "set" /\ work'[q].next = c.profile
      /\ \A d \in cmds' :
           d.awaited /\ d.op = "cycle" /\ d.stage = "down" /\ ~work'[d.run].disturbed =>
             work'[d.run].cut
      /\ RestoreToCome => RestoreToCome'
  BY <1>1, <1>3, AnsweredKeeps
<1>5. /\ adapter' = IF e.took THEN [adapter EXCEPT !.profile = c.profile] ELSE adapter
      /\ scars' = scars \cup IF e.took /\ ~RestoreToCome THEN {"profile"} ELSE {}
  BY DEF SetProfile
<1>6. /\ adapter' \in [link : {"up", "down"}, profile : 0 .. Profiles]
      /\ adapter'.link = adapter.link
      /\ adapter'.profile = IF e.took THEN c.profile ELSE adapter.profile
  BY <1>1, <1>5 DEF TypesInv
<1>7. TypesInv'
  BY <1>4, <1>5, <1>6 DEF TypesInv
<1>8. ProbedInv'
  BY <1>2, <1>4, <1>6 DEF ProbedInv
<1>9. MendingInv'
  <2>1. adapter'.profile # 0 => "profile" \in scars' \/ RestoreToCome'
    BY <1>4, <1>5, <1>6 DEF MendingInv
  <2>2. adapter'.link = "down" =>
          "link" \in scars' \/ \E d \in cmds' : d.op = "cycle" /\ d.stage # "start"
    BY <1>1, <1>4, <1>5, <1>6 DEF MendingInv
  <2> QED
    BY <2>1, <2>2 DEF MendingInv
<1> QED
  BY <1>4, <1>7, <1>8, <1>9

\* The second half of a cycle puts the link up, or leaves its scar; it succeeds only
\* if the first half did, and then the link was down.
LEMMA CycleUpKeeps ==
  ASSUME AdapterInv, NEW c \in cmds, NEW e \in Effects, CycleUp(c, e)
  PROVE  AdapterInv'
<1> USE DEF AdapterInv
<1>1. /\ c.op = "cycle" /\ c.stage # "start"
      /\ e.took \in BOOLEAN /\ e.ok \in BOOLEAN /\ (e.ok => e.took)
  BY DEF CycleUp, Effects
<1>2. PICK outcome \in {"ok", "failed"} :
        outcome = Outcome(e.ok /\ c.stage = "down") /\ (outcome = "ok" => c.stage = "down")
  BY <1>1 DEF Outcome
<1>3. Answered(c, outcome)
  BY <1>2 DEF CycleUp
<1>4. /\ work' \in [Runs -> Work] /\ cmds' \subseteq Command /\ faults' = faults
      /\ SoundInv' /\ ServiceInv'
      /\ \A q \in Runs :
           work'[q].test = "U03" /\ work'[q].pc = "probing" /\ ~work'[q].disturbed =>
             c.op = "set"
      /\ \A d \in cmds' :
           d.awaited /\ d.op = "cycle" /\ d.stage = "down" /\ ~work'[d.run].disturbed =>
             work'[d.run].cut
      /\ RestoreToCome => RestoreToCome'
  <2>1. outcome = "ok" /\ c.awaited /\ c.op = "cycle" /\ ~work[c.run].disturbed =>
          work[c.run].cut
    BY <1>2 DEF ProbedInv
  <2> QED
    BY <1>1, <1>3, <2>1, AnsweredKeeps
<1>5. /\ adapter' = IF e.took THEN [adapter EXCEPT !.link = "up"] ELSE adapter
      /\ scars' = IF e.took THEN scars \ {"link"} ELSE scars \cup {"link"}
  BY DEF CycleUp
<1>6. /\ adapter' \in [link : {"up", "down"}, profile : 0 .. Profiles]
      /\ adapter'.link = IF e.took THEN "up" ELSE adapter.link
      /\ adapter'.profile = adapter.profile
  BY <1>5 DEF TypesInv
<1>7. TypesInv'
  BY <1>4, <1>5, <1>6 DEF TypesInv
<1>8. ProbedInv'
  BY <1>1, <1>4 DEF ProbedInv
<1>9. MendingInv'
  BY <1>4, <1>5, <1>6 DEF MendingInv
<1> QED
  BY <1>4, <1>7, <1>8, <1>9

\* A restore puts the profile right, or leaves its scar.
LEMMA RestoreKeeps ==
  ASSUME AdapterInv, NEW c \in cmds, NEW e \in Effects, Restore(c, e)
  PROVE  AdapterInv'
<1> USE DEF AdapterInv
<1>1. /\ c.op = "restore"
      /\ e.took \in BOOLEAN /\ e.ok \in BOOLEAN
  BY DEF Restore, Effects
<1>2. PICK outcome \in {"ok", "failed"} : outcome = Outcome(e.ok)
  BY DEF Outcome
<1>3. Answered(c, outcome)
  BY <1>2 DEF Restore
<1>4. /\ work' \in [Runs -> Work] /\ cmds' \subseteq Command /\ faults' = faults
      /\ SoundInv' /\ ServiceInv' /\ cmds \ {c} \subseteq cmds'
      /\ \A q \in Runs :
           work'[q].test = "U03" /\ work'[q].pc = "probing" /\ ~work'[q].disturbed =>
             c.op = "set"
      /\ \A d \in cmds' :
           d.awaited /\ d.op = "cycle" /\ d.stage = "down" /\ ~work'[d.run].disturbed =>
             work'[d.run].cut
  BY <1>1, <1>3, AnsweredKeeps
<1>5. /\ adapter' = IF e.took THEN [adapter EXCEPT !.profile = 0] ELSE adapter
      /\ scars' = IF e.took THEN scars \ {"profile"} ELSE scars \cup {"profile"}
  BY DEF Restore
<1>6. /\ adapter' \in [link : {"up", "down"}, profile : 0 .. Profiles]
      /\ adapter'.link = adapter.link
      /\ e.took => adapter'.profile = 0
  BY <1>5, AdapterAssumption DEF TypesInv
<1>7. TypesInv'
  BY <1>4, <1>5, <1>6 DEF TypesInv
<1>8. ProbedInv'
  BY <1>1, <1>4 DEF ProbedInv
<1>9. MendingInv'
  BY <1>1, <1>4, <1>5, <1>6 DEF MendingInv
<1> QED
  BY <1>4, <1>7, <1>8, <1>9

\* The first half of a cycle: what it cuts, its run has witnessed, and every other
\* workflow is disturbed.
LEMMA CycleDownKeeps ==
  ASSUME AdapterInv, NEW c \in cmds, NEW e \in Effects, CycleDown(c, e)
  PROVE  AdapterInv'
<1> USE DEF AdapterInv
<1>1. /\ work \in [Runs -> Work] /\ cmds \subseteq Command /\ c \in Command /\ c.run \in Runs
      /\ c.awaited \in BOOLEAN /\ c.op = "cycle" /\ c.stage = "start"
      /\ e.took \in BOOLEAN /\ e.ok \in BOOLEAN /\ (e.ok => e.took)
  BY DEF TypesInv, Command, CycleDown, Effects
<1>2. PICK d \in Command :
        /\ d = [c EXCEPT !.stage = IF e.ok THEN "down" ELSE "kept"]
        /\ d.run = c.run /\ d.awaited = c.awaited /\ d.op = "cycle" /\ d.profile = c.profile
        /\ d.stage # "start" /\ (d.stage = "down" => e.took)
  <2>1. PICK stage \in {"down", "kept"} :
          stage = (IF e.ok THEN "down" ELSE "kept") /\ (stage = "down" => e.took)
    BY <1>1
  <2>2. PICK d : d = [c EXCEPT !.stage = stage]
    OBVIOUS
  <2>3. /\ d \in Command /\ d.run = c.run /\ d.awaited = c.awaited /\ d.op = c.op
        /\ d.profile = c.profile /\ d.stage = stage
    BY <1>1, <2>1, <2>2 DEF Command
  <2>4. d = [c EXCEPT !.stage = IF e.ok THEN "down" ELSE "kept"]
    BY <2>1, <2>2
  <2> QED
    BY <1>1, <2>1, <2>3, <2>4
<1>3. cmds' = (cmds \ {c}) \cup {d} /\ cmds' \subseteq Command
      /\ UNCHANGED <<scars, faults>>
  BY <1>1, <1>2 DEF CycleDown
<1>4. \A q \in Runs :
        /\ Sound(Disturbed(work[q])) /\ Disturbed(work[q]) \in Work
        /\ Disturbed(work[q]).pc = work[q].pc /\ Disturbed(work[q]).next = work[q].next
        /\ Disturbed(work[q]).test = work[q].test
        /\ work[q].test \in {"U03", "U20"} => Disturbed(work[q]).disturbed
  BY DisturbedIsSound DEF SoundInv, Sound
<1>5. \A b \in cmds : b.awaited /\ b.op = "cycle" =>
        /\ b.run \in Runs /\ work[b.run].test = "U20" /\ work[b.run].pc = "cycling"
  BY <1>1 DEF ServiceInv, Serves, SoundInv, Sound, Phased, Work, Tests, Command
<1>6. ASSUME c.awaited, NEW q \in Runs, q = c.run
      PROVE  /\ Sound(work'[q]) /\ work'[q] \in Work
             /\ work'[q].pc = work[q].pc /\ work'[q].next = work[q].next
             /\ work'[q].test = work[q].test
             /\ work'[q].cut = (e.took /\ ~work[q].disturbed)
             /\ work'[q].disturbed = work[q].disturbed
  <2>1. PICK w \in Work : w = work[q]
    BY <1>1
  <2>2. PICK cut \in BOOLEAN : cut = (e.took /\ ~w.disturbed)
    OBVIOUS
  <2>3. work'[q] = [w EXCEPT !.cut = cut]
    BY <1>1, <1>6, <2>1, <2>2 DEF CycleDown
  <2>4. work'[q] \in Work
    BY <2>1, <2>3 DEF Work
  <2>5. /\ work'[q].pc = w.pc /\ work'[q].next = w.next /\ work'[q].test = w.test
        /\ work'[q].verdict = w.verdict /\ work'[q].applied = w.applied
        /\ work'[q].disturbed = w.disturbed /\ work'[q].cut = cut
    BY <2>1, <2>3 DEF Work
  <2>6. w.test = "U20" /\ Sound(w) /\ w.pc = "cycling"
    BY <1>1, <1>5, <1>6, <2>1 DEF SoundInv
  <2>7. Phased(work'[q]) /\ w.applied = {}
    BY <2>5, <2>6 DEF Phased, Sound
  <2>8. Witnessed(work'[q])
    BY <2>5, <2>6, <2>7 DEF Witnessed
  <2>9. Sound(work'[q])
    BY <2>4, <2>7, <2>8 DEF Sound
  <2> QED
    BY <2>1, <2>2, <2>4, <2>5, <2>9
<1>7. ASSUME NEW q \in Runs, ~(q = c.run /\ c.awaited)
      PROVE  work'[q] = Disturbed(work[q])
  BY <1>1, <1>7 DEF CycleDown
<1>8. \A q \in Runs :
        /\ Sound(work'[q]) /\ work'[q] \in Work
        /\ work'[q].pc = work[q].pc /\ work'[q].next = work[q].next
        /\ work'[q].test = work[q].test
  BY <1>4, <1>6, <1>7
<1>9. work' \in [Runs -> Work]
  <2>1. PICK f : f = [q \in Runs |-> work'[q]]
    OBVIOUS
  <2>2. work' = f
    BY <2>1 DEF CycleDown
  <2> QED
    BY <1>8, <2>1, <2>2
<1>10. adapter' \in [link : {"up", "down"}, profile : 0 .. Profiles]
       /\ adapter'.profile = adapter.profile
  BY <1>1 DEF CycleDown, TypesInv
<1>11. TypesInv' /\ SoundInv'
  BY <1>3, <1>8, <1>9, <1>10 DEF TypesInv, SoundInv
<1>12. ServiceInv'
  <2>1. \A b \in cmds' : b.awaited => Serves(b, work'[b.run])
    BY <1>1, <1>2, <1>3, <1>8 DEF ServiceInv, Serves, Command
  <2>2. \A a \in cmds \ {c} : ~(a.awaited /\ d.awaited /\ a.run = d.run)
    BY <1>2 DEF ServiceInv
  <2>3. ASSUME NEW a \in cmds', NEW b \in cmds', a.awaited, b.awaited, a.run = b.run
        PROVE  a = b
    <3>1. CASE a = d \/ b = d
      BY <1>3, <2>2, <2>3, <3>1
    <3>2. CASE a # d /\ b # d
      BY <1>3, <2>3, <3>2 DEF ServiceInv
    <3> QED
      BY <3>1, <3>2
  <2>4. ASSUME NEW q \in Runs, work'[q].pc \in Posting
        PROVE  \E b \in cmds' : b.run = q /\ b.awaited
    <3>1. PICK b \in cmds : b.run = q /\ b.awaited
      BY <1>8, <2>4 DEF ServiceInv
    <3> QED
      BY <1>2, <1>3, <3>1
  <2> QED
    BY <2>1, <2>3, <2>4 DEF ServiceInv
<1>13. ProbedInv'
  <2>1. ASSUME NEW q \in Runs,
               work'[q].test = "U03" /\ work'[q].pc = "probing" /\ ~work'[q].disturbed
        PROVE  adapter'.profile = work'[q].next
    <3>1. q = c.run /\ c.awaited
      BY <1>4, <1>7, <1>8, <2>1
    <3> QED
      BY <1>1, <1>5, <1>8, <2>1, <3>1
  <2>2. ASSUME NEW b \in cmds', b.awaited, b.op = "cycle", b.stage = "down",
               ~work'[b.run].disturbed
        PROVE  work'[b.run].cut
    <3>1. CASE b = d
      BY <1>1, <1>2, <1>6, <2>2, <3>1
    <3>2. CASE b \in cmds \ {c}
      <4>1. b.run \in Runs /\ work[b.run].test = "U20" /\ ~(b.run = c.run /\ c.awaited)
        BY <1>1, <1>5, <2>2, <3>2 DEF ServiceInv
      <4> QED
        BY <1>4, <1>7, <2>2, <4>1
    <3> QED
      BY <1>3, <3>1, <3>2
  <2> QED
    BY <2>1, <2>2 DEF ProbedInv
<1>14. MendingInv'
  <2>1. RestoreToCome => RestoreToCome'
    BY <1>1, <1>3, <1>8 DEF RestoreToCome
  <2>2. \E b \in cmds' : b.op = "cycle" /\ b.stage # "start"
    BY <1>2, <1>3
  <2> QED
    BY <1>3, <1>10, <2>1, <2>2 DEF MendingInv
<1> QED
  BY <1>11, <1>12, <1>13, <1>14

--------------------------------------------------------------------------------

\* The server's crash forsakes every command; a workflow that would have restored
\* leaves a scar instead.
LEMMA CrashKeeps == ASSUME AdapterInv, Crash PROVE AdapterInv'
<1> USE DEF AdapterInv
<1>1. /\ work' = [r \in Runs |-> NoWork] /\ cmds' = {Forsaken(c) : c \in cmds}
      /\ adapter' = adapter /\ faults' \in 0 .. MaxFaults
      /\ scars' = scars \cup IF \E r \in Runs : work[r].pc \in Posting \cup {"probing"}
                            THEN {"profile"} ELSE {}
  BY AdapterAssumption DEF Crash, Fault, TypesInv
<1>2. \A c \in cmds' : /\ c \in Command /\ ~c.awaited
                      /\ \E d \in cmds : c = Forsaken(d) /\ d.op = c.op /\ d.stage = c.stage
  BY <1>1, ForsakenGoesOn DEF TypesInv
<1>3. \A c \in cmds : \E d \in cmds' : d.op = c.op /\ d.stage = c.stage
  BY <1>1, ForsakenGoesOn DEF TypesInv
<1>4. Sound(NoWork) /\ NoWork.pc = "idle" /\ NoWork.test = "none"
  BY NoWorkIsSound DEF NoWork
<1>5. TypesInv' /\ SoundInv'
  BY <1>1, <1>2, <1>4 DEF TypesInv, SoundInv, Sound
<1>6. ServiceInv' /\ ProbedInv'
  BY <1>1, <1>2, <1>4 DEF ServiceInv, ProbedInv, Posting
<1>7. MendingInv'
  <2>1. adapter'.profile # 0 => "profile" \in scars' \/ RestoreToCome'
    BY <1>1, <1>3 DEF MendingInv, RestoreToCome, Posting
  <2>2. adapter'.link = "down" =>
          "link" \in scars' \/ \E d \in cmds' : d.op = "cycle" /\ d.stage # "start"
    BY <1>1, <1>3 DEF MendingInv
  <2> QED
    BY <2>1, <2>2 DEF MendingInv
<1> QED
  BY <1>5, <1>6, <1>7

\* The scanner's death takes every command; each workflow that waited goes on as
\* after an exception, and the halves that are lost leave their scars.
LEMMA ScannerDiesKeeps == ASSUME AdapterInv, ScannerDies PROVE AdapterInv'
<1> USE DEF AdapterInv
<1>1. PICK lost : lost = {c \in cmds : c.awaited}
  OBVIOUS
<1>2. PICK f : f = [r \in Runs |-> IF \E c \in lost : c.run = r THEN After(work[r], "error")
                                   ELSE work[r]]
  OBVIOUS
<1>3. /\ work' = f
      /\ adapter' = adapter /\ faults' \in 0 .. MaxFaults
      /\ scars' = scars \cup
           (IF \E c \in cmds : c.op = "restore" THEN {"profile"} ELSE {}) \cup
           (IF \E c \in cmds : c.op = "cycle" /\ c.stage # "start" THEN {"link"} ELSE {})
  BY <1>1, <1>2, AdapterAssumption DEF ScannerDies, Fault, TypesInv
<1>4. \A r \in Runs : (\E c \in lost : c.run = r) <=> work[r].pc \in Posting
  BY <1>1 DEF ServiceInv, Serves, Posting
<1>5. \A r \in Runs :
        /\ Sound(f[r])
        /\ work[r].pc = "restoring" => f[r].pc = "idle"
        /\ work[r].pc \in {"setting", "cycling"} => f[r].pc \in {"setting", "restoring"}
        /\ work[r].pc \notin Posting => f[r] = work[r]
  <2> SUFFICES ASSUME NEW r \in Runs
               PROVE  /\ Sound(f[r])
                      /\ work[r].pc = "restoring" => f[r].pc = "idle"
                      /\ work[r].pc \in {"setting", "cycling"} => f[r].pc \in {"setting", "restoring"}
                      /\ work[r].pc \notin Posting => f[r] = work[r]
    OBVIOUS
  <2>1. CASE work[r].pc \in Posting
    BY <1>2, <1>4, <2>1, AfterIsSound DEF SoundInv, Posting
  <2>2. CASE work[r].pc \notin Posting
    BY <1>2, <1>4, <2>2 DEF SoundInv, Posting
  <2> QED
    BY <2>1, <2>2
<1>6. cmds' = UNION {Posted(c.run, f[c.run]) : c \in lost}
  <2>1. \A c \in lost : c.run \in Runs
    BY <1>1 DEF TypesInv, Command
  <2> QED
    BY <1>1, <1>2, <2>1 DEF ScannerDies
<1>7. \A d \in cmds' : /\ d \in Command /\ d.awaited /\ d.run \in Runs /\ d.stage = "start"
                      /\ d \in Posted(d.run, f[d.run]) /\ Serves(d, f[d.run])
  <2>1. ASSUME NEW c \in lost, NEW d \in Posted(c.run, f[c.run])
        PROVE  d \in Command /\ d.awaited /\ d.run = c.run /\ d.stage = "start"
               /\ Serves(d, f[c.run]) /\ c.run \in Runs
    BY <1>1, <1>5, PostedServes DEF TypesInv, Command
  <2> QED
    BY <1>6, <2>1
<1>8. \A r \in Runs : f[r].pc \in Posting => \E d \in cmds' : d.run = r /\ d.awaited /\ Serves(d, f[r])
  <2> SUFFICES ASSUME NEW r \in Runs, f[r].pc \in Posting
               PROVE  \E d \in cmds' : d.run = r /\ d.awaited /\ Serves(d, f[r])
    OBVIOUS
  <2>1. work[r].pc \in Posting
    BY <1>5
  <2>2. PICK c \in lost : c.run = r
    BY <1>4, <2>1
  <2>3. PICK p \in Command : Posted(r, f[r]) = {p} /\ p.run = r /\ p.awaited /\ Serves(p, f[r])
    BY <1>5, PostedServes
  <2>4. p \in cmds'
    BY <1>6, <2>2, <2>3
  <2> QED
    BY <2>3, <2>4
<1>9. \A d, b \in cmds' : d.run = b.run => d = b
  <2> SUFFICES ASSUME NEW d \in cmds', NEW b \in cmds', d.run = b.run PROVE d = b
    OBVIOUS
  <2>1. d \in Posted(d.run, f[d.run]) /\ b \in Posted(d.run, f[d.run]) /\ d.run \in Runs
    BY <1>7
  <2> QED
    BY <1>5, <2>1, PostedServes
<1>10. TypesInv' /\ SoundInv'
  <2>1. f \in [Runs -> Work]
    BY <1>2, <1>5 DEF Sound
  <2>2. cmds' \subseteq Command
    BY <1>7
  <2>3. scars' \subseteq {"profile", "link"}
    BY <1>3 DEF TypesInv
  <2>4. SoundInv'
    BY <1>3, <1>5 DEF SoundInv
  <2> QED
    BY <1>3, <2>1, <2>2, <2>3, <2>4 DEF TypesInv
<1>11. ServiceInv'
  BY <1>3, <1>7, <1>8, <1>9 DEF ServiceInv
<1>12. ProbedInv'
  <2>1. \A r \in Runs : f[r].pc = "probing" => f[r] = work[r]
    BY <1>5 DEF Posting
  <2> QED
    BY <1>3, <1>7, <2>1 DEF ProbedInv
<1>13. MendingInv'
  <2>1. ASSUME NEW r \in Runs, work[r].pc \in {"setting", "cycling", "probing"}
        PROVE  RestoreToCome'
    <3>1. f[r].pc \in {"setting", "probing", "restoring"}
      BY <1>5, <2>1 DEF Posting
    <3>2. f[r].pc = "restoring" => \E d \in cmds' : d.op = "restore"
      BY <1>8 DEF Posting, Serves
    <3> QED
      BY <1>3, <3>1, <3>2 DEF RestoreToCome
  <2>2. RestoreToCome => RestoreToCome' \/ "profile" \in scars'
    BY <1>3, <2>1 DEF RestoreToCome
  <2> QED
    BY <1>3, <2>2 DEF MendingInv
<1> QED
  BY <1>10, <1>11, <1>12, <1>13

--------------------------------------------------------------------------------

\* AdapterInv is an invariant, one lemma for each kind of step.
LEMMA AdapterInvNext == AdapterInv /\ [Next]_vars => AdapterInv'
<1> SUFFICES ASSUME AdapterInv, [Next]_vars PROVE AdapterInv'
  OBVIOUS
<1>1. ASSUME NEW r \in Runs, NEW test \in {"U03", "U04", "U20"}, Begin(r, test)
      PROVE  AdapterInv'
  BY <1>1, BeginKeeps DEF Tests
<1>2. ASSUME NEW r \in Runs,
             Watch(r) \/ WindowCloses(r) \/ PortTaken(r) \/ \E sent \in BOOLEAN : AsksLease(r, sent)
      PROVE  AdapterInv'
  BY <1>2, WindowKeeps
<1>3. ASSUME NEW r \in Runs, NEW reachable \in BOOLEAN, Probe(r, reachable) PROVE AdapterInv'
  BY <1>3, ProbeKeeps
<1>4. ASSUME NEW r \in Runs, Cancel(r) PROVE AdapterInv'
  BY <1>4, CancelKeeps
<1>5. ASSUME NEW c \in cmds, Execute(c) PROVE AdapterInv'
  BY <1>5, SetProfileKeeps, CycleDownKeeps, CycleUpKeeps, RestoreKeeps DEF Execute
<1>6. ASSUME NEW c \in cmds, Lose(c) PROVE AdapterInv'
  BY <1>6, LoseKeeps
<1>7. CASE Crash
  BY <1>7, CrashKeeps
<1>8. CASE ScannerDies
  BY <1>8, ScannerDiesKeeps
<1>9. CASE UNCHANGED vars
  BY <1>9 DEF vars, AdapterInv, TypesInv, SoundInv, ServiceInv, ProbedInv, MendingInv, RestoreToCome
<1> QED
  BY <1>1, <1>2, <1>3, <1>4, <1>5, <1>6, <1>7, <1>8, <1>9 DEF Next

\* The invariant holds in every reachable state.
LEMMA AdapterInvariant == Spec => []AdapterInv
BY AdapterInvInit, AdapterInvNext, PTL DEF Spec

\* The adapter, the workflows and the commands have their types, and a workflow waits
\* for exactly one command while it says so: its answers cannot be mixed up.
THEOREM AdapterTypeCorrect == Spec => []TypeOK
<1>1. ASSUME AdapterInv, NEW r \in Runs
      PROVE  Cardinality({c \in cmds : c.run = r /\ c.awaited}) =
               IF work[r].pc \in Posting THEN 1 ELSE 0
  <2>1. CASE work[r].pc \in Posting
    <3>1. PICK c \in cmds : c.run = r /\ c.awaited
      BY <1>1, <2>1 DEF AdapterInv, ServiceInv
    <3>2. {d \in cmds : d.run = r /\ d.awaited} = {c}
      BY <1>1, <3>1 DEF AdapterInv, ServiceInv
    <3> QED
      BY <2>1, <3>2, FS_Singleton
  <2>2. CASE work[r].pc \notin Posting
    <3>1. {d \in cmds : d.run = r /\ d.awaited} = {}
      BY <1>1, <2>2, NobodyServes
    <3> QED
      BY <2>2, <3>1, FS_EmptySet
  <2> QED
    BY <2>1, <2>2
<1>2. AdapterInv => TypeOK
  <2> SUFFICES ASSUME AdapterInv PROVE TypeOK
    OBVIOUS
  <2>1. \A c \in cmds : c.op \in {"set", "cycle", "restore"} /\ c.profile \in 0 .. Profiles
    BY DEF AdapterInv, TypesInv, Command
  <2>2. \A r \in Runs :
          /\ work[r].pc \in Posting \cup {"idle", "probing", "queued", "watching"}
          /\ work[r].verdict \in {"none", "error", "na", "info", "advisory", "pass"}
          /\ work[r].applied \cup work[r].reached \subseteq All \cup Windows
    BY DEF AdapterInv, TypesInv, Work
  <2> QED
    BY <1>1, <2>1, <2>2 DEF TypeOK, AdapterInv, TypesInv
<1> QED
  BY <1>2, AdapterInvariant, PTL

\* Once no test and no command is at work, the adapter negotiates again and is up,
\* but for the scars of a failed or lost command or of a crash: however the workflows
\* of any number of runs, their cancellations and what they left behind interleave.
THEOREM AdapterRestored == Spec => []AdapterIsRestored
<1>1. AdapterInv => AdapterIsRestored
  BY DEF AdapterInv, MendingInv, RestoreToCome, AdapterIsRestored
<1> QED
  BY <1>1, AdapterInvariant, PTL

--------------------------------------------------------------------------------
(* Passes.                                                                       *)

ProvenStep ==
  \A r \in Runs :
    work[r].pc # "idle" /\ work'[r].verdict = "pass" =>
      /\ work[r].test = "U03" /\ ~work[r].disturbed => work[r].seen = All
      /\ work[r].test = "U20" /\ ~work[r].disturbed => work[r].cut
      /\ work[r].test = "U04" => work[r].seen = Windows

\* An answer leads to a pass only by way of the verdict.
LEMMA AfterPass ==
  ASSUME NEW w, Sound(w), w.pc \in Posting, NEW outcome \in {"ok", "failed", "error"},
         After(w, outcome).verdict = "pass"
  PROVE  w.pc = "restoring" /\ Verdict(w, outcome = "ok") = "pass"
<1>1. w.verdict = "none" /\ w \in Work
  BY DEF Sound, Phased, Posting
<1>2. CASE w.pc = "restoring"
  <2>1. PICK v \in {"none", "error", "na", "info", "advisory", "pass"} :
          v = Verdict(w, outcome = "ok")
    BY <1>1, VerdictType
  <2>2. After(w, outcome) = [NoWork EXCEPT !.verdict = v]
    BY <1>2, <2>1 DEF After
  <2> QED
    BY <1>2, <2>1, <2>2, EndIsSound
<1>3. CASE w.pc # "restoring" /\ outcome = "ok"
  <2>1. PICK a : a = w.applied \cup {w.next}
    OBVIOUS
  <2>2. After(w, outcome) = [w EXCEPT !.pc = "probing", !.applied = a]
    BY <1>3, <2>1 DEF After
  <2>3. After(w, outcome).verdict = w.verdict
    BY <1>1, <2>2 DEF Work
  <2> QED
    BY <1>1, <2>3
<1>4. CASE w.pc # "restoring" /\ outcome # "ok"
  BY <1>1, <1>4, AfterIsSound DEF Sound, Phased
<1> QED
  BY <1>2, <1>3, <1>4

\* A workflow at work comes to a pass only by the verdict on what it has noted.
LEMMA PassIsVerdict ==
  ASSUME AdapterInv, Next, NEW r \in Runs, work[r].pc # "idle", work'[r].verdict = "pass"
  PROVE  \E restored \in BOOLEAN : Verdict(work[r], restored) = "pass"
<1> USE DEF AdapterInv
<1>0. /\ Sound(work[r]) /\ work[r].verdict = "none" /\ work \in [Runs -> Work]
      /\ work' \in [Runs -> Work] /\ Sound(work'[r]) /\ work'[r].pc = "idle"
  <2>1. AdapterInv'
    BY AdapterInvNext
  <2> QED
    BY <2>1 DEF SoundInv, TypesInv, Sound, Phased
<1>1. NoWork.verdict = "none" /\ [NoWork EXCEPT !.verdict = "info"].verdict = "info"
  BY DEF NoWork
<1>2. Disturbed(work[r]).verdict = "none"
  BY <1>0, DisturbedIsSound
<1>3. ASSUME NEW q \in Runs, q # r, NEW w, work' = [work EXCEPT ![q] = w] PROVE FALSE
  BY <1>0, <1>3
<1>4. ASSUME NEW q \in Runs, NEW test \in {"U03", "U04", "U20"}, Begin(q, test) PROVE FALSE
  BY <1>3, <1>4 DEF Begin
<1>5. ASSUME NEW q \in Runs, Watch(q) \/ \E sent \in BOOLEAN : AsksLease(q, sent) PROVE FALSE
  <2>1. PICK w : work' = [work EXCEPT ![q] = w]
    BY <1>5 DEF Watch, AsksLease, Heard
  <2>2. q = r
    BY <1>3, <2>1
  <2>3. PICK v \in Work : v = work[r]
    BY <1>0
  <2>4. CASE Watch(q)
    <3>1. work'[r] = [v EXCEPT !.pc = "watching"]
      BY <1>0, <2>2, <2>3, <2>4 DEF Watch
    <3> QED
      BY <1>0, <3>1 DEF Work
  <2>5. ASSUME NEW sent \in BOOLEAN, AsksLease(q, sent) PROVE FALSE
    <3>0. PICK n, a, e : /\ n = v.reached \cup {v.next} /\ e = v.seen \cup {v.next}
                         /\ a = IF sent THEN v.applied \cup {v.next} ELSE v.applied
      OBVIOUS
    <3>1. work'[r] = [v EXCEPT !.reached = n, !.applied = a, !.seen = e]
      BY <1>0, <2>2, <2>3, <2>5, <3>0 DEF AsksLease, Heard
    <3>2. work'[r].verdict = v.verdict
      BY <3>1 DEF Work
    <3> QED
      BY <1>0, <2>3, <3>2
  <2> QED
    BY <1>5, <2>4, <2>5
<1>6. ASSUME NEW q \in Runs, WindowCloses(q)
      PROVE  \E restored \in BOOLEAN : Verdict(work[r], restored) = "pass"
  <2>1. PICK w : work' = [work EXCEPT ![q] = w]
    BY <1>6 DEF WindowCloses
  <2>2. q = r
    BY <1>3, <2>1
  <2>3. CASE work[r].next < 2
    BY <1>0, <1>6, <2>2, <2>3 DEF WindowCloses, Work
  <2>4. CASE ~(work[r].next < 2)
    <3>1. PICK v \in {"none", "error", "na", "info", "advisory", "pass"} :
            v = Verdict(work[r], TRUE)
      BY <1>0, VerdictType
    <3>2. work' = [work EXCEPT ![r] = [NoWork EXCEPT !.verdict = v]]
      BY <1>6, <2>2, <2>4, <3>1 DEF WindowCloses
    <3>3. work'[r].verdict = v
      BY <1>0, <3>2, EndIsSound
    <3> QED
      BY <3>1, <3>3
  <2> QED
    BY <2>3, <2>4
<1>7. ASSUME NEW q \in Runs, PortTaken(q) PROVE FALSE
  BY <1>0, <1>1, <1>3, <1>7 DEF PortTaken
<1>8. ASSUME NEW q \in Runs, NEW reachable \in BOOLEAN, Probe(q, reachable) PROVE FALSE
  BY <1>0, <1>3, <1>8, ProbeTurns
<1>9. ASSUME NEW q \in Runs, Cancel(q) PROVE FALSE
  <2>1. PICK w : work' = [work EXCEPT ![q] = w]
    BY <1>9 DEF Cancel
  <2>2. q = r
    BY <1>3, <2>1
  <2>3. CASE work[r].pc \in {"restoring", "queued", "watching"}
    BY <1>0, <1>1, <1>9, <2>2, <2>3 DEF Cancel
  <2>4. CASE work[r].pc \notin {"restoring", "queued", "watching"}
    <3>1. PICK v \in Work : v = work[r]
      BY <1>0
    <3>2. work'[r] = [v EXCEPT !.pc = "restoring", !.raised = TRUE]
      BY <1>0, <1>9, <2>2, <2>4, <3>1 DEF Cancel
    <3> QED
      BY <1>0, <3>2 DEF Work
  <2> QED
    BY <2>3, <2>4
<1>10. \A c \in cmds : c.awaited /\ c.run = r => work[r].pc \in Posting
  BY DEF ServiceInv, Serves, Posting
<1>11. ASSUME NEW c \in cmds, NEW outcome \in {"ok", "failed"}, Answered(c, outcome)
       PROVE  \E restored \in BOOLEAN : Verdict(work[r], restored) = "pass"
  <2>1. CASE r = c.run /\ c.awaited
    <3>1. work'[r] = After(work[r], outcome) /\ work[r].pc \in Posting
      BY <1>10, <1>11, <2>1 DEF Answered
    <3>2. Verdict(work[r], outcome = "ok") = "pass"
      BY <1>0, <3>1, AfterPass
    <3> QED
      BY <3>2
  <2>2. CASE ~(r = c.run /\ c.awaited)
    <3>1. work'[r] = Disturbed(work[r])
      BY <1>11, <2>2 DEF Answered
    <3> QED
      BY <1>2, <3>1
  <2> QED
    BY <2>1, <2>2
<1>12. ASSUME NEW c \in cmds, NEW e \in Effects,
              SetProfile(c, e) \/ CycleUp(c, e) \/ Restore(c, e)
       PROVE  \E restored \in BOOLEAN : Verdict(work[r], restored) = "pass"
  <2>1. \E outcome \in {"ok", "failed"} : Answered(c, outcome)
    BY <1>12 DEF SetProfile, CycleUp, Restore, Outcome
  <2> QED
    BY <1>11, <2>1
<1>13. ASSUME NEW c \in cmds, NEW e \in Effects, CycleDown(c, e) PROVE FALSE
  <2>1. CASE r = c.run /\ c.awaited
    <3>1. PICK v \in Work : v = work[r]
      BY <1>0
    <3>2. PICK cut : work'[r] = [v EXCEPT !.cut = cut]
      BY <1>13, <2>1, <3>1 DEF CycleDown
    <3>3. work'[r].verdict = v.verdict
      BY <3>2 DEF Work
    <3> QED
      BY <1>0, <3>1, <3>3
  <2>2. CASE ~(r = c.run /\ c.awaited)
    <3>1. work'[r] = Disturbed(work[r])
      BY <1>13, <2>2 DEF CycleDown
    <3> QED
      BY <1>2, <3>1
  <2> QED
    BY <2>1, <2>2
<1>14. ASSUME NEW c \in cmds, Lose(c)
       PROVE  \E restored \in BOOLEAN : Verdict(work[r], restored) = "pass"
  <2>1. c.awaited /\ work' = [work EXCEPT ![c.run] = After(work[c.run], "error")] /\ c.run \in Runs
    BY <1>14 DEF Lose, TypesInv, Command
  <2>2. c.run = r
    BY <1>3, <2>1
  <2>3. work'[r] = After(work[r], "error") /\ work[r].pc \in Posting
    BY <1>0, <1>10, <2>1, <2>2
  <2> QED
    BY <1>0, <2>3, AfterPass
<1>15. CASE Crash
  BY <1>1, <1>15 DEF Crash
<1>16. CASE ScannerDies
  <2>1. PICK lost : lost = {c \in cmds : c.awaited}
    OBVIOUS
  <2>2. work'[r] = IF \E c \in lost : c.run = r THEN After(work[r], "error") ELSE work[r]
    BY <1>16, <2>1 DEF ScannerDies
  <2>3. work'[r] = After(work[r], "error") /\ work[r].pc \in Posting
    BY <1>0, <1>10, <2>1, <2>2
  <2> QED
    BY <1>0, <2>3, AfterPass
<1> QED
  BY <1>4, <1>5, <1>6, <1>7, <1>8, <1>9, <1>12, <1>13, <1>14, <1>15, <1>16 DEF Next, Execute

\* A pass is proven: U03's device answered under every profile and U20's link was cut,
\* as long as no other command touched the adapter meanwhile; U04's device itself asked
\* for a lease in both windows.
THEOREM PassProven == Spec => PassIsProven
<1>1. AdapterInv /\ Next => ProvenStep
  <2> SUFFICES ASSUME AdapterInv, Next, NEW r \in Runs,
                      work[r].pc # "idle", work'[r].verdict = "pass"
               PROVE  /\ work[r].test = "U03" /\ ~work[r].disturbed => work[r].seen = All
                      /\ work[r].test = "U20" /\ ~work[r].disturbed => work[r].cut
                      /\ work[r].test = "U04" => work[r].seen = Windows
    BY DEF ProvenStep
  <2>1. Sound(work[r]) /\ work[r] \in Work
    BY DEF AdapterInv, SoundInv, Sound
  <2>2. PICK restored \in BOOLEAN : Verdict(work[r], restored) = "pass"
    BY PassIsVerdict
  <2>3. /\ work[r].test = "U03" => work[r].reached = All
        /\ work[r].test = "U20" => work[r].applied # {}
        /\ work[r].test = "U04" => work[r].applied = Windows
    BY <2>1, <2>2, VerdictPass
  <2> QED
    BY <2>1, <2>3 DEF Sound, Witnessed
<1>2. AdapterInv /\ [Next]_vars => [ProvenStep]_vars
  BY <1>1
<1>3. Spec => [][ProvenStep]_vars
  BY <1>2, AdapterInvariant, PTL DEF Spec
<1> QED
  BY <1>3 DEF ProvenStep, PassIsProven
================================================================================
