---------------------------- MODULE RunReview_proofs ----------------------------
(* Proofs about the results of a run and what is derived from them, for any      *)
(* finite set of tests, any trust levels and any number of overlapping requests. *)
EXTENDS RunReview, FiniteSetTheorems, TLAPS

Settling == {"complete", "review"}

EngineType ==
  [pc : {"off", "loop", "stored", "finalizing"}, todo : SUBSET Tests, done : Counts,
   auto : BOOLEAN, seen : ResultType \cup {<<>>}]

SessionType ==
  [pc : {"idle", "loaded", "read"}, kind : {"edit", "override"} \cup Settling,
   tests : SUBSET Tests, verdict : AllVerdicts, loaded : RunType \cup {<<>>},
   seen : ResultType \cup {<<>>}, alone : BOOLEAN]

ReviewTypes ==
  /\ result \in ResultType
  /\ run \in RunType
  /\ eng \in EngineType
  /\ tx \in [Clients -> SessionType]
  /\ requests \in 0..MaxRequests

\* The engine runs no test twice, so that its own count stays within the plan; it
\* finalizes by results that it has read.
EngineSound(e) ==
  /\ e.done + Cardinality(e.todo) <= Cardinality(Tests)
  /\ e.pc = "finalizing" => e.seen \in ResultType

\* The results as a session sees them that has written its own.
View(s, res) ==
  [t \in Tests |->
     IF t \notin s.tests THEN res[t]
     ELSE [verdict |-> s.verdict, overridden |-> res[t].overridden \/ s.kind = "override"]]

\* A session that no other commit has overlapped holds the row and the results as
\* they are; one that settles the run has seen no manual work left.
SessionSound(s, row, res) ==
  /\ s.kind \in Settling => s.tests = {}
  /\ s.pc # "idle" => s.loaded \in RunType /\ (s.alone => s.loaded = row)
  /\ s.pc = "read" =>
       /\ s.seen \in ResultType
       /\ s.alone => s.seen = View(s, res)
       /\ s.kind \in Settling => ~PendingManual(s.seen)

ReviewInv ==
  /\ ReviewTypes
  /\ EngineSound(eng)
  /\ \A c \in Clients : SessionSound(tx[c], run, result)

--------------------------------------------------------------------------------
(* Counting.                                                                     *)

\* A set of tests is counted by a number of at most all tests.
LEMMA TestsCount ==
  ASSUME NEW S \in SUBSET Tests
  PROVE  /\ Cardinality(S) \in Counts
         /\ Cardinality(S) = 0 <=> S = {}
<1>1. IsFiniteSet(S) /\ Cardinality(S) <= Cardinality(Tests)
  BY FS_Subset, ReviewAssumption
<1>2. Cardinality(S) \in Nat /\ Cardinality(Tests) \in Nat
  BY <1>1, FS_CardinalityType, ReviewAssumption
<1>3. Cardinality(S) = 0 <=> S = {}
  BY <1>1, FS_EmptySet
<1> QED
  BY <1>1, <1>2, <1>3 DEF Counts

\* The larger of two counts is a count, and at least both.
LEMMA LargerCount ==
  ASSUME NEW m \in Counts, NEW n \in Counts
  PROVE  /\ Larger(m, n) \in Counts
         /\ Larger(m, n) >= m /\ Larger(m, n) >= n
         /\ Larger(m, m) = m
<1>1. Cardinality(Tests) \in Nat
  BY FS_CardinalityType, ReviewAssumption
<1> QED
  BY <1>1 DEF Larger, Counts

\* The summary of the results consists of counts.
LEMMA SummarizeTypes ==
  ASSUME NEW res
  PROVE  Summarize(res) \in SummaryType
<1> DEFINE pending == With(res, {"pending"})
           concerns == Failing(res) \cup With(res, {"advisory"})
<1>1. /\ Cardinality(Tests \ pending) \in Counts
      /\ Cardinality(pending \cap Manual) \in Counts
      /\ Cardinality(pending \cap Of("manual_evidence")) \in Counts
      /\ Cardinality(Failing(res)) \in Counts
      /\ Cardinality(With(res, {"advisory"})) \in Counts
      /\ Cardinality(Failing(res) \cap Of("release_blocking")) \in Counts
      /\ Cardinality(concerns \cap Of("review_required")) \in Counts
      /\ Cardinality({t \in Tests : res[t].overridden}) \in Counts
  BY TestsCount DEF With, Failing, Of
<1>2. Larger(Cardinality(pending \cap Manual),
             Cardinality(pending \cap Of("manual_evidence"))) \in Counts
  BY <1>1, LargerCount
<1> HIDE DEF pending, concerns
<1> QED
  BY <1>1, <1>2 DEF Summarize, SummaryType, pending, concerns

\* What the merge with the counters of the row makes of each count.
LEMMA MergedFields ==
  ASSUME NEW r \in RunType, NEW s \in SummaryType
  PROVE  /\ Merged(r, s) \in SummaryType
         /\ Merged(r, s).done = Larger(s.done, r.done)
         /\ Merged(r, s).failed = Larger(s.failed, r.failed)
         /\ Merged(r, s).advisory = Larger(s.advisory, r.advisory)
         /\ Merged(r, s).manual = s.manual
         /\ Merged(r, s).blocking = s.blocking
         /\ Merged(r, s).overrides = s.overrides
         /\ Merged(r, s).review =
              IF s.blocking = 0 /\ s.review = 0 THEN Larger(s.failed, r.failed) ELSE s.review
<1>1. /\ Larger(s.done, r.done) \in Counts
      /\ Larger(s.failed, r.failed) \in Counts
      /\ Larger(s.advisory, r.advisory) \in Counts
  BY LargerCount DEF RunType, SummaryType
<1> QED
  BY <1>1 DEF Merged, SummaryType

--------------------------------------------------------------------------------
(* The row as the handlers recompute it.                                         *)

\* Writing the counters keeps a row a row.
LEMMA CountedFields ==
  ASSUME NEW r \in RunType, NEW res
  PROVE  /\ Counted(r, res) \in RunType
         /\ Counted(r, res).status = r.status
         /\ Counted(r, res).done = Summarize(res).done
         /\ Counted(r, res).failed = Summarize(res).failed
         /\ Counted(r, res).advisory = Summarize(res).advisory
<1> PICK s \in SummaryType : s = Summarize(res)
  BY SummarizeTypes
<1> QED
  BY DEF Counted, RunType, SummaryType

\* So does storing the summary, which changes nothing else.
LEMMA SummarizedFields ==
  ASSUME NEW r \in RunType, NEW res
  PROVE  /\ Summarized(r, res) \in RunType
         /\ Summarized(r, res) = [r EXCEPT !.summary = Merged(r, Summarize(res))]
<1>1. Summarize(res) \in SummaryType
  BY SummarizeTypes
<1>2. Merged(r, Summarize(res)) \in SummaryType
  BY <1>1, MergedFields
<1> QED
  BY <1>2 DEF Summarized, RunType

Overalls == {"pass", "qualified_pass", "incomplete", "fail", None}

\* Each form of the overall verdict gives one of them, or none.
LEMMA OverallTypes ==
  ASSUME NEW res
  PROVE  /\ FinalVerdict(res) \in Overalls
         /\ SummaryVerdict(res) \in Overalls
         /\ RefreshedVerdict(res) \in Overalls
BY DEF FinalVerdict, SummaryVerdict, RefreshedVerdict, Overall, Overalls

\* A row whose counters are those of the results.
CountersOf(r, res) ==
  /\ r.done = Summarize(res).done
  /\ r.failed = Summarize(res).failed
  /\ r.advisory = Summarize(res).advisory

\* A row whose counters and stored summary are those of the results.
SummaryOf(r, res) ==
  /\ CountersOf(r, res)
  /\ \E q \in RunType : CountersOf(q, res) /\ r.summary = Merged(q, Summarize(res))

\* What a refresh makes of the row.
LEMMA RefreshedFields ==
  ASSUME NEW r \in RunType, NEW res
  PROVE  /\ Refreshed(r, res) \in RunType
         /\ SummaryOf(Refreshed(r, res), res)
         /\ Refreshed(r, res).status =
              IF r.status \in Unsettled THEN r.status
              ELSE IF PendingManual(res) THEN "awaiting_manual"
              ELSE IF r.status = "awaiting_review" THEN r.status ELSE "completed"
         /\ r.status \notin Unsettled =>
              Refreshed(r, res).overall =
                IF PendingManual(res) THEN None ELSE RefreshedVerdict(res)
<1> PICK c \in RunType : c = Counted(r, res)
  BY CountedFields
<1>1. c.status = r.status /\ CountersOf(c, res)
  BY CountedFields DEF CountersOf
<1> DEFINE new ==
      IF r.status \in Unsettled THEN c
      ELSE IF PendingManual(res)
        THEN [c EXCEPT !.status = "awaiting_manual", !.overall = None]
        ELSE [c EXCEPT !.status = IF c.status = "awaiting_review" THEN c.status ELSE "completed",
                       !.overall = RefreshedVerdict(res)]
<1>2. RefreshedVerdict(res) \in {"pass", "qualified_pass", "incomplete", "fail", None}
  BY OverallTypes DEF Overalls
<1>3. new \in RunType /\ new.done = c.done /\ new.failed = c.failed /\ new.advisory = c.advisory
  BY <1>2 DEF RunType
<1>4. /\ new.status =
           IF r.status \in Unsettled THEN r.status
           ELSE IF PendingManual(res) THEN "awaiting_manual"
           ELSE IF r.status = "awaiting_review" THEN r.status ELSE "completed"
      /\ r.status \notin Unsettled =>
           new.overall = IF PendingManual(res) THEN None ELSE RefreshedVerdict(res)
  BY <1>1 DEF RunType
<1>5. Refreshed(r, res) = Summarized(new, res)
  BY DEF Refreshed
<1> PICK q \in RunType : q = new
  BY <1>3
<1>6. CountersOf(q, res)
  BY <1>1, <1>3 DEF CountersOf
<1>7. /\ Summarized(q, res) \in RunType
      /\ Summarized(q, res) = [q EXCEPT !.summary = Merged(q, Summarize(res))]
  BY SummarizedFields
<1> HIDE DEF new
<1>8. SummaryOf(Summarized(q, res), res)
  BY <1>6, <1>7 DEF SummaryOf, CountersOf, RunType
<1> QED
  BY <1>4, <1>5, <1>7, <1>8 DEF RunType

\* What complete, request-review and the engine's end make of it.
LEMMA SettledFields ==
  ASSUME NEW r \in RunType, NEW res, NEW status \in {"completed", "awaiting_review"}
  PROVE  /\ Settled(r, res, status) \in RunType
         /\ SummaryOf(Settled(r, res, status), res)
         /\ Settled(r, res, status).status = status
         /\ Settled(r, res, status).overall = SummaryVerdict(res)
<1> PICK c \in RunType : c = Counted(r, res)
  BY CountedFields
<1>1. CountersOf(c, res)
  BY CountedFields DEF CountersOf
<1>2. SummaryVerdict(res) \in {"pass", "qualified_pass", "incomplete", "fail", None}
  BY OverallTypes DEF Overalls
<1>3. [c EXCEPT !.status = status, !.overall = SummaryVerdict(res)] \in RunType
  BY <1>2 DEF RunType
<1> PICK q \in RunType : q = [c EXCEPT !.status = status, !.overall = SummaryVerdict(res)]
  BY <1>3
<1>4. CountersOf(q, res) /\ q.status = status /\ q.overall = SummaryVerdict(res)
  BY <1>1 DEF CountersOf, RunType
<1>5. /\ Summarized(q, res) \in RunType
      /\ Summarized(q, res) = [q EXCEPT !.summary = Merged(q, Summarize(res))]
  BY SummarizedFields
<1>6. SummaryOf(Summarized(q, res), res)
  BY <1>4, <1>5 DEF SummaryOf, CountersOf, RunType
<1>7. Settled(r, res, status) = Summarized(q, res)
  BY DEF Settled
<1> QED
  BY <1>4, <1>5, <1>6, <1>7 DEF RunType

\* The engine's end leaves a row, too.
LEMMA FinalizedTypes ==
  ASSUME NEW r \in RunType, NEW res
  PROVE  Finalized(r, res) \in RunType
<1> PICK c \in RunType : c = Counted(r, res)
  BY CountedFields
<1>1. FinalVerdict(res) \in {"pass", "qualified_pass", "incomplete", "fail", None}
  BY OverallTypes DEF Overalls
<1> DEFINE new ==
      [c EXCEPT !.status = IF PendingManual(res) THEN "awaiting_manual" ELSE "completed",
                !.overall = IF PendingManual(res) THEN None ELSE FinalVerdict(res)]
<1>2. new \in RunType
  BY <1>1 DEF RunType
<1>3. Finalized(r, res) = Summarized(new, res)
  BY DEF Finalized
<1> QED
  BY <1>2, <1>3, SummarizedFields

--------------------------------------------------------------------------------
(* The invariant.                                                                *)

\* A run begins with no summary, no result, no engine and no session.
LEMMA InitSound == Init => ReviewInv
<1> SUFFICES ASSUME Init PROVE ReviewInv
  OBVIOUS
<1>1. Cardinality(Tests) \in Nat /\ 0 \in Counts /\ Cardinality({}) = 0
  BY FS_CardinalityType, FS_EmptySet, ReviewAssumption DEF Counts
<1>2. result \in ResultType
  BY DEF Init, ResultType, AllVerdicts
<1>3. NoSummary \in SummaryType
  BY <1>1 DEF NoSummary, SummaryType
<1>4. run \in RunType
  BY <1>1, <1>3 DEF Init, RunType, Unsettled
<1>5. eng \in EngineType /\ EngineSound(eng)
  BY <1>1 DEF Init, NoEngine, EngineType, EngineSound
<1>6. NoTx \in SessionType
  BY DEF NoTx, SessionType, AllVerdicts, Settling
<1>7. requests \in 0..MaxRequests /\ tx \in [Clients -> SessionType]
  BY <1>6, ReviewAssumption DEF Init
<1>8. \A c \in Clients : SessionSound(tx[c], run, result)
  BY DEF Init, SessionSound, NoTx, Settling
<1> QED
  BY <1>2, <1>4, <1>5, <1>7, <1>8 DEF ReviewInv, ReviewTypes

\* After a commit, whatever it wrote, the sessions that are open stay sound: none
\* of them counts on the row or the results any more.
LEMMA OverlapsSound ==
  ASSUME NEW ts \in [Clients -> SessionType], NEW row, NEW res, NEW row2, NEW res2,
         \A c \in Clients : SessionSound(ts[c], row, res)
  PROVE  /\ Overlaps(ts) \in [Clients -> SessionType]
         /\ \A c \in Clients : SessionSound(Overlaps(ts)[c], row2, res2)
<1> SUFFICES ASSUME NEW c \in Clients
             PROVE  /\ Overlaps(ts)[c] \in SessionType
                    /\ SessionSound(Overlaps(ts)[c], row2, res2)
  BY DEF Overlaps
<1> PICK s \in SessionType : s = ts[c]
  OBVIOUS
<1>1. SessionSound(s, row, res)
  OBVIOUS
<1>2. CASE s.pc = "idle"
  <2>1. Overlaps(ts)[c] = s
    BY <1>2 DEF Overlaps
  <2> QED
    BY <1>1, <1>2, <2>1 DEF SessionSound
<1>3. CASE s.pc # "idle"
  <2> PICK q \in SessionType : q = [s EXCEPT !.alone = FALSE]
    BY DEF SessionType
  <2>1. Overlaps(ts)[c] = q
    BY <1>3 DEF Overlaps
  <2>2. /\ q.pc = s.pc /\ q.kind = s.kind /\ q.tests = s.tests /\ q.loaded = s.loaded
        /\ q.seen = s.seen /\ q.alone = FALSE
    BY DEF SessionType
  <2> QED
    BY <1>1, <2>1, <2>2 DEF SessionSound
<1> QED
  BY <1>2, <1>3

\* A request begins with the row as it is.
LEMMA BeginKeeps ==
  ASSUME ReviewInv, NEW c \in Clients, NEW kind \in {"edit", "override"} \cup Settling,
         NEW ts \in SUBSET Tests, NEW v \in AllVerdicts, kind \in Settling => ts = {},
         Begin(c, kind, ts, v)
  PROVE  ReviewInv'
<1> USE DEF ReviewInv, ReviewTypes
<1>1. requests' \in 0..MaxRequests
  BY ReviewAssumption DEF Begin
<1> PICK s : s = [NoTx EXCEPT !.pc = "loaded", !.kind = kind, !.tests = ts, !.verdict = v,
                              !.loaded = run]
  OBVIOUS
<1>2. /\ s \in SessionType
      /\ s.pc = "loaded" /\ s.kind = kind /\ s.tests = ts /\ s.loaded = run
  BY DEF NoTx, SessionType, Settling
<1>3. tx' = [tx EXCEPT ![c] = s]
  BY DEF Begin
<1>4. SessionSound(s, run, result)
  BY <1>2 DEF SessionSound
<1>5. UNCHANGED <<result, run, eng>>
  BY DEF Begin
<1>6. tx' \in [Clients -> SessionType]
  BY <1>2, <1>3
<1>7. \A d \in Clients : SessionSound(tx'[d], run, result)
  BY <1>3, <1>4
<1> QED
  BY <1>1, <1>5, <1>6, <1>7

\* The view of a session is one of results.
LEMMA ViewTypes ==
  ASSUME NEW s \in SessionType, NEW res \in ResultType
  PROVE  View(s, res) \in ResultType
BY DEF View, SessionType, ResultType

\* A session reads the results as they are, but for its own; to settle a run it goes
\* on only if no manual work is left.
LEMMA ReadKeeps ==
  ASSUME ReviewInv, NEW c \in Clients, Read(c)
  PROVE  ReviewInv'
<1> USE DEF ReviewInv, ReviewTypes
<1> PICK s \in SessionType : s = tx[c]
  OBVIOUS
<1>1. UNCHANGED <<result, run, eng, requests>> /\ s.pc = "loaded"
  BY DEF Read
<1>2. ASSUME NEW q \in SessionType, SessionSound(q, run, result), tx' = [tx EXCEPT ![c] = q]
      PROVE  ReviewInv'
  <2>1. tx' \in [Clients -> SessionType]
    BY <1>2
  <2>2. \A d \in Clients : SessionSound(tx'[d], run, result)
    BY <1>2
  <2> QED
    BY <1>1, <2>1, <2>2
<1>3. CASE s.kind \in Settling /\ PendingManual(result)
  <2>1. tx' = [tx EXCEPT ![c] = NoTx]
    BY <1>3 DEF Read, Settling
  <2>2. NoTx \in SessionType /\ SessionSound(NoTx, run, result)
    BY DEF NoTx, SessionType, SessionSound, AllVerdicts, Settling
  <2> QED
    BY <1>2, <2>1, <2>2
<1>4. CASE ~(s.kind \in Settling /\ PendingManual(result))
  <2>1. OwnView(c) = View(s, result)
    BY DEF OwnView, View
  <2> PICK q : q = [s EXCEPT !.pc = "read", !.seen = OwnView(c)]
    OBVIOUS
  <2>2. tx' = [tx EXCEPT ![c] = q]
    BY <1>4 DEF Read, Settling
  <2>3. OwnView(c) \in ResultType
    BY <2>1, ViewTypes
  <2>4. /\ q \in SessionType
        /\ q.pc = "read" /\ q.kind = s.kind /\ q.tests = s.tests /\ q.verdict = s.verdict
        /\ q.loaded = s.loaded /\ q.alone = s.alone /\ q.seen = OwnView(c)
    BY <2>3 DEF SessionType
  <2>5. View(q, result) = View(s, result)
    BY <2>4 DEF View
  <2>6. SessionSound(s, run, result)
    OBVIOUS
  <2>7. s.kind \in Settling => ~PendingManual(q.seen)
    <3>1. ASSUME s.tests = {} PROVE View(s, result) = result
      BY <3>1 DEF View, ResultType
    <3> QED
      BY <1>4, <2>1, <2>4, <2>6, <3>1 DEF SessionSound
  <2>8. SessionSound(q, run, result)
    BY <1>1, <2>1, <2>3, <2>4, <2>5, <2>6, <2>7 DEF SessionSound
  <2> QED
    BY <1>2, <2>2, <2>4, <2>8
<1> QED
  BY <1>3, <1>4

\* The row a session wants to write is a row.
LEMMA NewRowTypes ==
  ASSUME ReviewInv, NEW c \in Clients, tx[c].pc = "read"
  PROVE  /\ tx[c].loaded \in RunType
         /\ NewRow(c) \in RunType
<1> PICK r : r = tx[c].loaded
  OBVIOUS
<1>1. r \in RunType
  BY DEF ReviewInv, SessionSound
<1> QED
  BY <1>1, RefreshedFields, SettledFields DEF NewRow

\* A row is a function on its columns.
RunColumns == {"status", "overall", "done", "failed", "advisory", "summary"}

\* Writing the columns that the session has changed keeps the row a row; if the
\* session has loaded the row as it still is, that is the row it wants.
LEMMA ChangedRow ==
  ASSUME run \in RunType, NEW old \in RunType, NEW new \in RunType
  PROVE  /\ Changed(old, new) \in RunType
         /\ old = run => Changed(old, new) = new
<1>1. /\ DOMAIN run = RunColumns
      /\ DOMAIN new = RunColumns
  BY DEF RunType, RunColumns
<1>2. Changed(old, new) \in RunType
  <2> PICK q : q = Changed(old, new)
    OBVIOUS
  <2>1. q = [f \in RunColumns |-> IF new[f] = old[f] THEN run[f] ELSE new[f]]
    BY <1>1 DEF Changed
  <2>2. q = [status |-> q.status, overall |-> q.overall, done |-> q.done,
             failed |-> q.failed, advisory |-> q.advisory, summary |-> q.summary]
    BY <2>1 DEF RunColumns
  <2>3. /\ q.status \in {run.status, new.status} /\ q.overall \in {run.overall, new.overall}
        /\ q.done \in {run.done, new.done} /\ q.failed \in {run.failed, new.failed}
        /\ q.advisory \in {run.advisory, new.advisory}
        /\ q.summary \in {run.summary, new.summary}
    BY <2>1 DEF RunColumns
  <2> QED
    BY <2>2, <2>3 DEF RunType
<1>3. ASSUME old = run PROVE Changed(old, new) = new
  <2>1. Changed(old, new) = [f \in RunColumns |-> new[f]]
    BY <1>1, <1>3 DEF Changed
  <2>2. new = [f \in RunColumns |-> new[f]]
    BY <1>1 DEF RunType
  <2> QED
    BY <2>1, <2>2
<1> QED
  BY <1>2, <1>3

\* A commit writes results and a row, and closes the session.
LEMMA CommitKeeps ==
  ASSUME ReviewInv, NEW c \in Clients, Commit(c)
  PROVE  ReviewInv'
<1> USE DEF ReviewInv, ReviewTypes
<1>1. tx[c].pc = "read" /\ UNCHANGED <<eng, requests>>
  BY DEF Commit
<1>2. tx[c].seen \in ResultType
  BY <1>1 DEF SessionSound
<1>3. result' \in ResultType
  BY <1>2 DEF Commit, ResultType
<1>4. run' \in RunType
  BY <1>1, NewRowTypes, ChangedRow DEF Commit
<1>5. NoTx \in SessionType /\ SessionSound(NoTx, run, result)
  BY DEF NoTx, SessionType, SessionSound, AllVerdicts, Settling
<1> PICK ts : ts = [tx EXCEPT ![c] = NoTx]
  OBVIOUS
<1>6. ts \in [Clients -> SessionType] /\ \A d \in Clients : SessionSound(ts[d], run, result)
  BY <1>5
<1>7. tx' = Overlaps(ts)
  BY DEF Commit
<1>8. /\ Overlaps(ts) \in [Clients -> SessionType]
      /\ \A d \in Clients : SessionSound(Overlaps(ts)[d], run', result')
  BY <1>6, OverlapsSound
<1> QED
  BY <1>1, <1>3, <1>4, <1>7, <1>8

\* What the engine writes overlaps the sessions that are open.
LEMMA EngineWrites ==
  ASSUME ReviewInv, tx' = Overlaps(tx), result' \in ResultType, run' \in RunType,
         eng' \in EngineType, EngineSound(eng'), requests' \in 0..MaxRequests
  PROVE  ReviewInv'
<1> USE DEF ReviewInv, ReviewTypes
<1> QED
  BY OverlapsSound

\* The engine's counts are those of its plan.
LEMMA TodoCount ==
  ASSUME NEW S \in SUBSET Tests, NEW t \in S
  PROVE  Cardinality(S \ {t}) = Cardinality(S) - 1 /\ Cardinality(S) \in Nat
<1>1. IsFiniteSet(S)
  BY FS_Subset, ReviewAssumption
<1> QED
  BY <1>1, FS_RemoveElement, FS_CardinalityType

\* Every step of the engine keeps the invariant.
LEMMA EngineKeeps ==
  ASSUME ReviewInv, Engine
  PROVE  ReviewInv'
<1>0. /\ result \in ResultType /\ run \in RunType /\ eng \in EngineType
      /\ requests \in 0..MaxRequests /\ EngineSound(eng)
  BY DEF ReviewInv, ReviewTypes
<1>1. /\ Cardinality(Tests) \in Nat
      /\ Cardinality(eng.todo) \in Nat
      /\ eng.done \in Nat
  BY <1>0, FS_CardinalityType, FS_Subset, ReviewAssumption DEF EngineType, Counts
<1>2. NoEngine \in EngineType /\ EngineSound(NoEngine)
  BY <1>1, FS_EmptySet DEF NoEngine, EngineType, EngineSound, Counts
<1>3. CASE EngineStarts
  <2>1. requests' \in 0..MaxRequests
    BY <1>0, <1>3, ReviewAssumption DEF EngineStarts
  <2>2. run' \in RunType
    BY <1>0, <1>3 DEF EngineStarts, RunType, Unsettled
  <2> PICK e : e = [NoEngine EXCEPT !.pc = "loop", !.todo = Tests]
    OBVIOUS
  <2>3. e \in EngineType /\ e.pc = "loop" /\ e.todo = Tests /\ e.done = 0
    <3>1. NoEngine = [pc |-> "off", todo |-> {}, done |-> 0, auto |-> FALSE, seen |-> <<>>]
      BY DEF NoEngine
    <3>2. NoEngine.done = 0
      BY <3>1
    <3> QED
      BY <1>2, <3>2 DEF EngineType
  <2>4. EngineSound(e)
    BY <1>1, <2>3 DEF EngineSound
  <2> QED
    BY <1>0, <1>3, <2>1, <2>2, <2>3, <2>4, EngineWrites DEF EngineStarts
<1>4. CASE EngineProgress
  <2>1. run' \in RunType
    BY <1>0, <1>4 DEF EngineProgress, RunType, EngineType, Unsettled
  <2>2. eng' \in EngineType /\ EngineSound(eng')
    BY <1>0, <1>4 DEF EngineProgress, EngineType, EngineSound
  <2> QED
    BY <1>0, <1>4, <2>1, <2>2, EngineWrites DEF EngineProgress
<1>5. CASE EngineReads
  <2> PICK e : e = [eng EXCEPT !.pc = "finalizing", !.seen = result]
    OBVIOUS
  <2>1. /\ e \in EngineType /\ e.todo = eng.todo /\ e.done = eng.done /\ e.seen = result
    BY <1>0 DEF EngineType
  <2>2. EngineSound(e)
    BY <1>0, <2>1 DEF EngineSound
  <2> QED
    BY <1>5, <2>1, <2>2 DEF EngineReads, ReviewInv, ReviewTypes
<1>6. CASE EngineFinalizes
  <2>1. run' \in RunType
    BY <1>0, <1>6, FinalizedTypes DEF EngineFinalizes
  <2> QED
    BY <1>0, <1>2, <1>6, <2>1, EngineWrites DEF EngineFinalizes
<1>7. CASE EngineStops
  <2>1. run' \in RunType
    BY <1>0, <1>7 DEF EngineStops, RunType, Unsettled
  <2> QED
    BY <1>0, <1>2, <1>7, <2>1, EngineWrites DEF EngineStops
<1>8. ASSUME NEW t \in Tests, EngineLeaves(t) PROVE ReviewInv'
  <2>1. run' \in RunType
    BY <1>0, <1>8 DEF EngineLeaves, RunType, EngineType
  <2>2. eng.todo \in SUBSET Tests /\ t \in eng.todo
    BY <1>0, <1>8 DEF EngineLeaves, EngineType
  <2>3. Cardinality(eng.todo \ {t}) = Cardinality(eng.todo) - 1
    BY <2>2, TodoCount
  <2>4. /\ eng' \in EngineType /\ eng'.todo = eng.todo \ {t} /\ eng'.done = eng.done
        /\ eng'.pc = "loop"
    BY <1>0, <1>8 DEF EngineLeaves, EngineType
  <2>5. EngineSound(eng')
    BY <1>0, <1>1, <2>3, <2>4 DEF EngineSound
  <2> QED
    BY <1>0, <1>8, <2>1, <2>4, <2>5, EngineWrites DEF EngineLeaves
<1>9. ASSUME NEW t \in Tests, NEW v \in Verdicts, EngineStores(t, v) PROVE ReviewInv'
  <2>1. result' \in ResultType
    BY <1>0, <1>9, ReviewAssumption DEF EngineStores, ResultType
  <2>2. eng.todo \in SUBSET Tests /\ t \in eng.todo
    BY <1>0, <1>9 DEF EngineStores, EngineType
  <2>3. Cardinality(eng.todo \ {t}) = Cardinality(eng.todo) - 1
    BY <2>2, TodoCount
  <2>4. PICK auto \in BOOLEAN :
          eng' = [eng EXCEPT !.pc = "stored", !.todo = @ \ {t}, !.done = @ + 1, !.auto = auto]
    BY <1>9 DEF EngineStores
  <2>5. /\ eng'.pc = "stored" /\ eng'.todo = eng.todo \ {t} /\ eng'.done = eng.done + 1
        /\ eng'.auto = auto /\ eng'.seen = eng.seen
        /\ eng' = [pc |-> eng'.pc, todo |-> eng'.todo, done |-> eng'.done,
                   auto |-> eng'.auto, seen |-> eng'.seen]
    BY <1>0, <2>4 DEF EngineType
  <2>6. Cardinality(eng.todo \ {t}) \in Nat
    BY <2>2, TestsCount DEF Counts
  <2>7. eng'.done + Cardinality(eng'.todo) <= Cardinality(Tests) /\ eng'.done \in Counts
    BY <1>0, <1>1, <2>3, <2>5, <2>6 DEF EngineSound, Counts
  <2>8. eng.seen \in ResultType \cup {<<>>}
    BY <1>0 DEF EngineType
  <2>9. eng' \in EngineType
    BY <2>2, <2>5, <2>7, <2>8 DEF EngineType
  <2>10. EngineSound(eng')
    BY <2>5, <2>7 DEF EngineSound
  <2> QED
    BY <1>0, <1>9, <2>1, <2>9, <2>10, EngineWrites DEF EngineStores
<1> QED
  BY <1>3, <1>4, <1>5, <1>6, <1>7, <1>8, <1>9 DEF Engine

\* A crash ends the engine and every session.
LEMMA CrashKeeps ==
  ASSUME ReviewInv, Crash
  PROVE  ReviewInv'
<1> USE DEF ReviewInv, ReviewTypes
<1>1. Cardinality(Tests) \in Nat /\ 0 \in Counts /\ Cardinality({}) = 0
  BY FS_CardinalityType, FS_EmptySet, ReviewAssumption DEF Counts
<1>2. NoEngine \in EngineType /\ EngineSound(NoEngine)
  BY <1>1 DEF NoEngine, EngineType, EngineSound
<1>3. run' \in RunType
  BY DEF Crash, RunType, Unsettled
<1>4. NoTx \in SessionType /\ SessionSound(NoTx, run', result)
  BY DEF NoTx, SessionType, SessionSound, AllVerdicts, Settling
<1>5. tx' \in [Clients -> SessionType] /\ \A c \in Clients : SessionSound(tx'[c], run', result)
  BY <1>4 DEF Crash
<1> QED
  BY <1>2, <1>3, <1>5 DEF Crash

\* Every step of the specification keeps the invariant.
LEMMA NextSound == ReviewInv /\ [Next]_vars => ReviewInv'
<1> SUFFICES ASSUME ReviewInv, [Next]_vars PROVE ReviewInv'
  OBVIOUS
<1>1. ASSUME NEW c \in Clients, Request(c) PROVE ReviewInv'
  <2>1. ASSUME NEW v \in Verdicts, NEW ts \in SUBSET Manual, BeginEdit(c, ts, v)
        PROVE  ReviewInv'
    BY <2>1, BeginKeeps, ReviewAssumption DEF BeginEdit, Settling
  <2>2. ASSUME NEW v \in Verdicts, NEW t \in Tests, BeginOverride(c, t, v)
        PROVE  ReviewInv'
    <3> PICK ts \in SUBSET Tests : ts = {t}
      OBVIOUS
    <3> QED
      BY <2>2, BeginKeeps, ReviewAssumption DEF BeginOverride, Settling
  <2>3. ASSUME NEW kind \in {"complete", "review"}, BeginSettle(c, kind)
        PROVE  ReviewInv'
    BY <2>3, BeginKeeps DEF BeginSettle, Settling, AllVerdicts
  <2> QED
    BY <1>1, <2>1, <2>2, <2>3 DEF Request
<1>2. CASE UNCHANGED vars
  BY <1>2 DEF vars, ReviewInv, ReviewTypes
<1> QED
  BY <1>1, <1>2, ReadKeeps, CommitKeeps, EngineKeeps, CrashKeeps DEF Next

\* The invariant holds in every reachable state.
LEMMA ReviewInvariant == Spec => []ReviewInv
BY InitSound, NextSound, PTL DEF Spec

--------------------------------------------------------------------------------
(* The theorems.                                                                 *)

\* Results, row, engine and the overlapping sessions are well-formed in every state;
\* in particular no counter of the row exceeds the number of tests.
THEOREM ReviewTypeCorrect == Spec => []TypeOK
<1>1. ReviewInv => TypeOK
  BY DEF ReviewInv, ReviewTypes, SessionSound, SessionType, EngineType, TypeOK
<1> QED
  BY <1>1, ReviewInvariant, PTL

\* A report that calls the device operationally ready rests on results none of which
\* failed, erred, is pending manual work or is overridden: the merge with a row that
\* is out of date can only make a run look worse.
THEOREM OperationalRunsAreClean == Spec => []OperationalIsClean
<1>1. ReviewInv => OperationalIsClean
  <2> SUFFICES ASSUME ReviewInv, OperationalReady(run, Reported)
               PROVE  /\ Failing(result) = {} /\ \A t \in Tests : ~result[t].overridden
                      /\ ~PendingManual(result)
    BY DEF OperationalIsClean
  <2> PICK s : s = Summarize(result)
    OBVIOUS
  <2>1. run \in RunType /\ s \in SummaryType
    BY SummarizeTypes DEF ReviewInv, ReviewTypes
  <2>2. s.manual = 0 /\ s.blocking = 0 /\ s.overrides = 0
    BY <2>1, MergedFields DEF OperationalReady, ReportReady, Reported
  <2>3. Larger(s.failed, run.failed) = 0
    BY <2>1, MergedFields DEF OperationalReady, ReportReady, Reported
  <2>4. s.failed \in Counts /\ run.failed \in Counts
    BY <2>1 DEF SummaryType, RunType
  <2>5. Larger(s.failed, run.failed) >= s.failed
    BY <2>4, LargerCount
  <2>6. s.failed = 0
    BY <2>3, <2>4, <2>5 DEF Counts
  <2> DEFINE pending == With(result, {"pending"})
  <2>7. /\ s.failed = Cardinality(Failing(result))
        /\ s.overrides = Cardinality({t \in Tests : result[t].overridden})
        /\ s.manual = Larger(Cardinality(pending \cap Manual),
                             Cardinality(pending \cap Of("manual_evidence")))
    BY DEF Summarize
  <2>8. Failing(result) = {}
    BY <2>6, <2>7, TestsCount DEF Failing, With
  <2>9. {t \in Tests : result[t].overridden} = {}
    BY <2>2, <2>7, TestsCount
  <2>10. /\ pending \cap Manual \in SUBSET Tests
         /\ pending \cap Of("manual_evidence") \in SUBSET Tests
    BY DEF With
  <2>11. /\ Cardinality(pending \cap Manual) \in Counts
         /\ Cardinality(pending \cap Of("manual_evidence")) \in Counts
    BY <2>10, TestsCount
  <2>12. s.manual >= Cardinality(pending \cap Manual)
    BY <2>7, <2>11, LargerCount
  <2>13. Cardinality(pending \cap Manual) = 0
    BY <2>2, <2>11, <2>12 DEF Counts
  <2>14. pending \cap Manual = {}
    BY <2>10, <2>13, TestsCount
  <2> QED
    BY <2>8, <2>9, <2>14 DEF PendingManual
<1> QED
  BY <1>1, ReviewInvariant, PTL

\* A session that no other write overlapped commits the row it wants, made of the
\* results as they are from then on.
LEMMA AloneCommits ==
  ASSUME ReviewInv, NEW c \in Clients, Commit(c), tx[c].alone
  PROVE  /\ run \in RunType
         /\ result' = tx[c].seen
         /\ run' = NewRow(c) /\ tx[c].loaded = run
<1> PICK s \in SessionType : s = tx[c]
  BY DEF ReviewInv, ReviewTypes
<1>1. s.pc = "read" /\ SessionSound(s, run, result) /\ run \in RunType /\ result \in ResultType
  BY DEF Commit, ReviewInv, ReviewTypes
<1>2. s.loaded = run /\ s.seen = View(s, result) /\ s.seen \in ResultType
  BY <1>1 DEF SessionSound
<1>3. run' = NewRow(c)
  BY <1>1, <1>2, NewRowTypes, ChangedRow DEF Commit
<1>4. result' = [t \in Tests |-> IF t \in s.tests THEN s.seen[t] ELSE result[t]]
  BY DEF Commit
<1>5. \A t \in Tests : t \notin s.tests => s.seen[t] = result[t]
  BY <1>2 DEF View
<1>6. s.seen = [t \in Tests |-> s.seen[t]]
  BY <1>2 DEF ResultType
<1>7. result' = s.seen
  BY <1>4, <1>5, <1>6
<1> QED
  BY <1>1, <1>2, <1>3, <1>7

\* The verdicts agree where the row is recomputed from the results.
LEMMA VerdictsAgree ==
  ASSUME NEW res
  PROVE  /\ SummaryVerdict(res) =
              IF With(res, {"pass"}) # {} THEN FinalVerdict(res)
              ELSE Overall(res, SummaryVerdict(res))
         /\ RefreshedVerdict(res) =
              IF With(res, {"pass"}) # {} THEN FinalVerdict(res)
              ELSE Overall(res, RefreshedVerdict(res))
<1>1. With(res, {"pass"}) # {} => With(res, {"pending"}) # Tests
  BY DEF With
<1> QED
  BY <1>1 DEF SummaryVerdict, RefreshedVerdict, FinalVerdict, Overall

\* What such a commit does to the row: it agrees with the results if it is settled,
\* and stores their counters and summary.
LEMMA RepairsRow ==
  ASSUME ReviewInv, NEW c \in Clients, Repairs(c)
  PROVE  Agrees(run', result') /\ SummaryOf(run', result') /\ run' \in RunType
<1> PICK r \in RunType : r = run
  BY AloneCommits DEF Repairs
<1> PICK res : res = tx[c].seen
  OBVIOUS
<1>1. /\ tx[c].pc = "read" /\ tx[c].loaded = r /\ run' = NewRow(c) /\ result' = res
      /\ Settles(run')
  BY AloneCommits DEF Repairs, Commit
<1>2. CASE tx[c].kind \in Settling
  <2> PICK status \in {"completed", "awaiting_review"} : run' = Settled(r, res, status)
    BY <1>1, <1>2 DEF NewRow, Settling
  <2>1. ~PendingManual(res)
    BY <1>1, <1>2 DEF ReviewInv, SessionSound
  <2>2. /\ run' \in RunType /\ SummaryOf(run', res) /\ run'.status = status
        /\ run'.overall = SummaryVerdict(res)
    BY SettledFields
  <2>3. Agrees(run', res)
    BY <2>1, <2>2, VerdictsAgree DEF Agrees, PendingManual
  <2> QED
    BY <1>1, <2>2, <2>3
<1>3. CASE tx[c].kind \notin Settling
  <2>1. run' = Refreshed(r, res)
    BY <1>1, <1>3 DEF NewRow, Settling
  <2>2. /\ run' \in RunType /\ SummaryOf(run', res)
        /\ run'.status = IF r.status \in Unsettled THEN r.status
                         ELSE IF PendingManual(res) THEN "awaiting_manual"
                         ELSE IF r.status = "awaiting_review" THEN r.status ELSE "completed"
        /\ r.status \notin Unsettled =>
             run'.overall = IF PendingManual(res) THEN None ELSE RefreshedVerdict(res)
    BY <2>1, RefreshedFields
  <2>3. r.status \notin Unsettled
    BY <1>1, <2>2 DEF Settles, Unsettled
  <2>4. Agrees(run', res)
    BY <2>2, <2>3, VerdictsAgree DEF Agrees, PendingManual
  <2> QED
    BY <1>1, <2>2, <2>4
<1> QED
  BY <1>2, <1>3

\* An edit, override, completion or review request that overlaps no other write
\* leaves a settled row that agrees with the results on the work that is left and on
\* the verdict, whatever races, cancellations and crashes came before.
THEOREM AloneWritesAgree == Spec => AloneAgrees
<1>1. ReviewInv /\ [Next]_vars =>
        [\A c \in Clients : Repairs(c) => Agrees(run', result')]_vars
  BY RepairsRow
<1>2. Spec => [][\A c \in Clients : Repairs(c) => Agrees(run', result')]_vars
  BY <1>1, ReviewInvariant, PTL DEF Spec
<1> QED
  BY <1>2 DEF AloneAgrees

\* A summary merged once with a row of the same results is what merging the results
\* themselves gives: merging is idempotent.
LEMMA MergedTwice ==
  ASSUME NEW r \in RunType, NEW res, SummaryOf(r, res)
  PROVE  Merged(r, r.summary) = Merged(r, Summarize(res))
<1> PICK s \in SummaryType : s = Summarize(res)
  BY SummarizeTypes
<1> PICK q \in RunType : CountersOf(q, res) /\ r.summary = Merged(q, s)
  BY DEF SummaryOf
<1> PICK m : m = r.summary
  OBVIOUS
<1>1. /\ q.done = s.done /\ q.failed = s.failed /\ q.advisory = s.advisory
      /\ r.done = s.done /\ r.failed = s.failed /\ r.advisory = s.advisory
  BY DEF SummaryOf, CountersOf
<1>2. /\ s.done \in Counts /\ s.failed \in Counts /\ s.advisory \in Counts
      /\ s.blocking \in Counts /\ s.review \in Counts
  BY DEF SummaryType
<1>3. /\ Larger(s.done, s.done) = s.done /\ Larger(s.failed, s.failed) = s.failed
      /\ Larger(s.advisory, s.advisory) = s.advisory
  BY <1>2, LargerCount
<1>4. /\ m \in SummaryType
      /\ m.done = s.done /\ m.failed = s.failed /\ m.advisory = s.advisory
      /\ m.manual = s.manual /\ m.blocking = s.blocking /\ m.overrides = s.overrides
      /\ m.review = IF s.blocking = 0 /\ s.review = 0 THEN s.failed ELSE s.review
  BY <1>1, <1>3, MergedFields
<1> PICK a \in SummaryType : a = Merged(r, m)
  BY <1>4, MergedFields
<1> PICK b \in SummaryType : b = Merged(r, s)
  BY MergedFields
<1>5. /\ a.done = s.done /\ a.failed = s.failed /\ a.advisory = s.advisory
      /\ a.manual = s.manual /\ a.blocking = s.blocking /\ a.overrides = s.overrides
      /\ a.review = IF m.blocking = 0 /\ m.review = 0 THEN s.failed ELSE m.review
  BY <1>1, <1>3, <1>4, MergedFields
<1>6. /\ b.done = s.done /\ b.failed = s.failed /\ b.advisory = s.advisory
      /\ b.manual = s.manual /\ b.blocking = s.blocking /\ b.overrides = s.overrides
      /\ b.review = IF s.blocking = 0 /\ s.review = 0 THEN s.failed ELSE s.review
  BY <1>1, <1>3, MergedFields
<1>7. a.review = b.review
  BY <1>4, <1>5, <1>6
<1>8. /\ a = [done |-> a.done, manual |-> a.manual, failed |-> a.failed,
             advisory |-> a.advisory, blocking |-> a.blocking, review |-> a.review,
             overrides |-> a.overrides]
      /\ b = [done |-> b.done, manual |-> b.manual, failed |-> b.failed,
             advisory |-> b.advisory, blocking |-> b.blocking, review |-> b.review,
             overrides |-> b.overrides]
  BY DEF SummaryType
<1> QED
  BY <1>5, <1>6, <1>7, <1>8

\* Such a write also leaves a stored summary with which the run shows as ready for
\* its report, or operationally ready, exactly if the report's own summary is.
THEOREM AloneWritesSummarize == Spec => AloneSummarizes
<1> DEFINE Same ==
      \A c \in Clients : Repairs(c) =>
        /\ ReportReady(run, Displayed)' = ReportReady(run, Reported)'
        /\ OperationalReady(run, Displayed)' = OperationalReady(run, Reported)'
<1>1. ASSUME ReviewInv, NEW c \in Clients, Repairs(c) PROVE Displayed' = Reported'
  BY <1>1, RepairsRow, MergedTwice DEF Displayed, Reported
<1>2. ReviewInv /\ [Next]_vars => [Same]_vars
  <2> SUFFICES ASSUME ReviewInv, NEW c \in Clients, Repairs(c)
               PROVE  /\ ReportReady(run, Displayed)' = ReportReady(run, Reported)'
                      /\ OperationalReady(run, Displayed)' = OperationalReady(run, Reported)'
    OBVIOUS
  <2>1. Displayed' = Reported'
    BY <1>1
  <2> QED
    BY <2>1 DEF ReportReady, OperationalReady
<1>3. Spec => [][Same]_vars
  BY <1>2, ReviewInvariant, PTL DEF Spec
<1> QED
  BY <1>3 DEF AloneSummarizes
==================================================================================
