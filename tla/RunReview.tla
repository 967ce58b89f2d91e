------------------------------- MODULE RunReview -------------------------------
(* The results of one run and what is derived from them: its status, its overall *)
(* verdict, its counters and the readiness summary that decides on the official  *)
(* report.  The engine, edits, overrides, complete and request-review each read  *)
(* the rows and write them back in a database session of their own, which under  *)
(* READ COMMITTED may overlap.  TestRun models the engine's life and the row's   *)
(* status more closely; here the engine is a sequence of stores, and the results *)
(* keep the verdicts, overrides and trust levels that TestRun abstracts.         *)
EXTENDS Naturals, FiniteSets

CONSTANTS
  Tests,
  Manual,    \* the guided manual tests
  Trust,     \* the trust level of each test
  Verdicts,  \* bound: the verdicts that occur
  Clients,   \* requests that overlap
  MaxRequests,  \* bound: starts, edits, overrides, completions, review requests
  None

TrustLevels == {"release_blocking", "review_required", "advisory", "manual_evidence"}

\* "na" stands for na, info and skipped_safe_mode, which count alike.
AllVerdicts == {"pending", "pass", "fail", "advisory", "na", "error"}

ASSUME ReviewAssumption ==
  /\ IsFiniteSet(Tests) /\ Manual \subseteq Tests
  /\ Trust \in [Tests -> TrustLevels]
  /\ Verdicts \subseteq AllVerdicts /\ "pending" \in Verdicts
  /\ MaxRequests \in Nat /\ None \notin AllVerdicts

VARIABLES
  result,  \* the verdict of each test, and whether it carries an override
  run,     \* the row of the run, with the summary in its metadata
  eng,     \* where the engine is
  tx,      \* the session of each request
  requests  \* how many there were

vars == <<result, run, eng, tx, requests>>

--------------------------------------------------------------------------------
(* services/run_readiness.py.                                                    *)

Larger(m, n) == IF m >= n THEN m ELSE n

With(res, vs) == {t \in Tests : res[t].verdict \in vs}

Of(level) == {t \in Tests : Trust[t] = level}

Failing(res) == With(res, {"fail", "error"})

\* summarize_results_for_readiness.
Summarize(res) ==
  LET pending == With(res, {"pending"})
      concerns == Failing(res) \cup With(res, {"advisory"})
  IN [done |-> Cardinality(Tests \ pending),
      manual |-> Larger(Cardinality(pending \cap Manual),
                        Cardinality(pending \cap Of("manual_evidence"))),
      failed |-> Cardinality(Failing(res)),
      advisory |-> Cardinality(With(res, {"advisory"})),
      blocking |-> Cardinality(Failing(res) \cap Of("release_blocking")),
      review |-> Cardinality(concerns \cap Of("review_required")),
      overrides |-> Cardinality({t \in Tests : res[t].overridden})]

NoSummary ==
  [done |-> 0, manual |-> 0, failed |-> 0, advisory |-> 0, blocking |-> 0,
   review |-> 0, overrides |-> 0]

\* Mutant: a failure that is not release-blocking needs nobody.
MergedSilent(r, counts) ==
  [counts EXCEPT
    !.done = Larger(@, r.done), !.failed = Larger(@, r.failed),
    !.advisory = Larger(@, r.advisory)]

\* build_run_readiness_summary merges the counts it is given, of the results or of
\* the stored summary, with the counters of the row; failures that are neither
\* release-blocking nor review-required still need a reviewer.
Merged(r, counts) ==
  LET failed == Larger(counts.failed, r.failed)
  IN [counts EXCEPT
       !.done = Larger(@, r.done), !.failed = failed,
       !.advisory = Larger(@, r.advisory),
       !.review = IF counts.blocking = 0 /\ @ = 0 THEN failed ELSE @]

ReportReady(r, s) ==
  r.status = "completed" /\ s.manual = 0 /\ s.done >= Cardinality(Tests) /\ r.overall # None

OperationalReady(r, s) ==
  ReportReady(r, s) /\ s.blocking = 0 /\ s.review = 0 /\ s.overrides = 0

\* What a run shows (the list and the page of runs read the stored summary), and
\* what a report is generated from (the results themselves).
Displayed == Merged(run, run.summary)

Reported == Merged(run, Summarize(result))

--------------------------------------------------------------------------------
(* The overall verdict, in its three forms.                                      *)

PendingManual(res) == With(res, {"pending"}) \cap Manual # {}

\* What they agree on; the last case is where they differ.
Overall(res, otherwise) ==
  IF With(res, {"fail"}) # {} THEN "fail"
  ELSE IF With(res, {"error"}) # {} THEN "incomplete"
  ELSE IF With(res, {"advisory"}) # {} THEN "qualified_pass"
  ELSE otherwise

\* _finalize_run: everything else is a pass.
FinalVerdict(res) == Overall(res, "pass")

\* _overall_verdict_from_summary: something must be done.
SummaryVerdict(res) ==
  Overall(res, IF With(res, {"pending"}) # Tests THEN "pass" ELSE None)

\* _overall_verdict in routes/test_results.py: something must have passed.
RefreshedVerdict(res) ==
  Overall(res, IF With(res, {"pass"}) # {} THEN "pass" ELSE None)

--------------------------------------------------------------------------------
(* The row as the handlers recompute it.                                         *)

\* "running" stands for every status of a run with an engine, "failed" for
\* cancelled too: nothing here tells them apart.
Unsettled == {"pending", "running", "failed"}

\* The counters, then the summary that is built from them.
Counted(r, res) ==
  LET counts == Summarize(res)
  IN [r EXCEPT !.done = counts.done, !.failed = counts.failed,
               !.advisory = counts.advisory]

Summarized(r, res) == [r EXCEPT !.summary = Merged(r, Summarize(res))]

\* Mutant: the stored summary is left alone.
RefreshedUnsummarized(r, res) ==
  LET c == Counted(r, res)
  IN IF r.status \in Unsettled THEN c
     ELSE IF PendingManual(res)
       THEN [c EXCEPT !.status = "awaiting_manual", !.overall = None]
       ELSE [c EXCEPT !.status = IF @ = "awaiting_review" THEN @ ELSE "completed",
                      !.overall = RefreshedVerdict(res)]

\* Mutant: the verdict of a run that is completed already is kept.
RefreshedKeeping(r, res) ==
  LET c == Counted(r, res)
      new == IF r.status \in Unsettled THEN c
             ELSE IF PendingManual(res)
               THEN [c EXCEPT !.status = "awaiting_manual", !.overall = None]
               ELSE [c EXCEPT !.status = IF @ = "awaiting_review" THEN @ ELSE "completed",
                              !.overall = IF @ = None THEN RefreshedVerdict(res) ELSE @]
  IN Summarized(new, res)

\* _refresh_parent_run.
Refreshed(r, res) ==
  LET c == Counted(r, res)
      new == IF r.status \in Unsettled THEN c
             ELSE IF PendingManual(res)
               THEN [c EXCEPT !.status = "awaiting_manual", !.overall = None]
               ELSE [c EXCEPT !.status = IF @ = "awaiting_review" THEN @ ELSE "completed",
                              !.overall = RefreshedVerdict(res)]
  IN Summarized(new, res)

\* complete_test_run and request_review_for_test_run.
Settled(r, res, status) ==
  Summarized([Counted(r, res) EXCEPT !.status = status, !.overall = SummaryVerdict(res)], res)

\* _finalize_run.
Finalized(r, res) ==
  Summarized([Counted(r, res) EXCEPT
    !.status = IF PendingManual(res) THEN "awaiting_manual" ELSE "completed",
    !.overall = IF PendingManual(res) THEN None ELSE FinalVerdict(res)], res)

--------------------------------------------------------------------------------
(* Types and initial state.                                                      *)

Counts == 0..Cardinality(Tests)

SummaryType ==
  [done : Counts, manual : Counts, failed : Counts, advisory : Counts,
   blocking : Counts, review : Counts, overrides : Counts]

RunType ==
  [status : Unsettled \cup {"awaiting_manual", "awaiting_review", "completed"},
   overall : {"pass", "qualified_pass", "incomplete", "fail", None},
   done : Counts, failed : Counts, advisory : Counts, summary : SummaryType]

ResultType == [Tests -> [verdict : AllVerdicts, overridden : BOOLEAN]]

NoEngine == [pc |-> "off", todo |-> {}, done |-> 0, auto |-> FALSE, seen |-> <<>>]

NoTx ==
  [pc |-> "idle", kind |-> "edit", tests |-> {}, verdict |-> "pending",
   loaded |-> <<>>, seen |-> <<>>, alone |-> TRUE]

TypeOK ==
  /\ result \in ResultType
  /\ run \in RunType
  /\ eng.pc \in {"off", "loop", "stored", "finalizing"}
  /\ eng.todo \subseteq Tests /\ eng.done \in Counts
  /\ \A c \in Clients :
       /\ tx[c].pc \in {"idle", "loaded", "read"}
       /\ tx[c].pc # "idle" => tx[c].loaded \in RunType /\ tx[c].tests \subseteq Tests
       /\ tx[c].pc = "read" => tx[c].seen \in ResultType
  /\ requests \in 0..MaxRequests

Init ==
  /\ result = [t \in Tests |-> [verdict |-> "pending", overridden |-> FALSE]]
  /\ run = [status |-> "pending", overall |-> None, done |-> 0, failed |-> 0,
            advisory |-> 0, summary |-> NoSummary]
  /\ eng = NoEngine
  /\ tx = [c \in Clients |-> NoTx]
  /\ requests = 0

--------------------------------------------------------------------------------
(* Requests: a session loads the run, then reads the results, then commits.      *)

\* A commit while other sessions are open: they may hold what it has replaced.
Overlaps(ts) ==
  [c \in Clients |-> IF ts[c].pc = "idle" THEN ts[c] ELSE [ts[c] EXCEPT !.alone = FALSE]]

\* An UPDATE that is not committed locks its row.
Locked(t) == \E c \in Clients : tx[c].pc = "read" /\ t \in tx[c].tests

Begin(c, kind, ts, v) ==
  /\ tx[c].pc = "idle" /\ requests < MaxRequests
  /\ requests' = requests + 1
  /\ tx' = [tx EXCEPT ![c] =
       [NoTx EXCEPT !.pc = "loaded", !.kind = kind, !.tests = ts, !.verdict = v, !.loaded = run]]
  /\ UNCHANGED <<result, run, eng>>

\* update_result, and bulk_update_manual_results, which gives several tests one
\* verdict only if that is na or pending.
BeginEdit(c, ts, v) ==
  /\ ts # {} /\ ts \subseteq Manual
  /\ Cardinality(ts) > 1 => v \in {"na", "pending"}
  /\ Begin(c, "edit", ts, v)

BeginOverride(c, t, v) == Begin(c, "override", {t}, v)

BeginSettle(c, kind) == kind \in {"complete", "review"} /\ Begin(c, kind, {}, "pending")

\* The results with the session's own changes, which are flushed by the query.
OwnView(c) ==
  [t \in Tests |->
     IF t \notin tx[c].tests THEN result[t]
     ELSE [verdict |-> tx[c].verdict,
           overridden |-> result[t].overridden \/ tx[c].kind = "override"]]

\* The query for all results.  complete and request-review refuse a run with
\* manual work left.
Read(c) ==
  /\ tx[c].pc = "loaded"
  /\ \A t \in tx[c].tests : ~Locked(t)
  /\ tx' = [tx EXCEPT ![c] =
       IF @.kind \in {"complete", "review"} /\ PendingManual(result) THEN NoTx
       ELSE [@ EXCEPT !.pc = "read", !.seen = OwnView(c)]]
  /\ UNCHANGED <<result, run, eng, requests>>

\* What the session makes of the row as it has loaded it.
NewRow(c) ==
  LET r == tx[c].loaded
      res == tx[c].seen
  IN CASE tx[c].kind = "complete" -> Settled(r, res, "completed")
       [] tx[c].kind = "review" -> Settled(r, res, "awaiting_review")
       [] OTHER -> Refreshed(r, res)

\* SQLAlchemy updates the columns the session has changed, and no other.
Changed(old, new) == [f \in DOMAIN run |-> IF new[f] = old[f] THEN run[f] ELSE new[f]]

Commit(c) ==
  /\ tx[c].pc = "read"
  /\ result' = [t \in Tests |-> IF t \in tx[c].tests THEN tx[c].seen[t] ELSE result[t]]
  /\ run' = Changed(tx[c].loaded, NewRow(c))
  /\ tx' = Overlaps([tx EXCEPT ![c] = NoTx])
  /\ UNCHANGED <<eng, requests>>

--------------------------------------------------------------------------------
(* The engine.                                                                   *)

\* start, or a restart of a failed or cancelled run: every test runs again.
EngineStarts ==
  /\ eng.pc = "off" /\ run.status \in {"pending", "failed"}
  /\ requests < MaxRequests /\ requests' = requests + 1
  /\ run' = [run EXCEPT !.status = "running"]
  /\ eng' = [NoEngine EXCEPT !.pc = "loop", !.todo = Tests]
  /\ tx' = Overlaps(tx)
  /\ UNCHANGED result

\* Mutant: a test that has ended is run again.
EngineStoresAgain(t, v) ==
  /\ eng.pc = "loop" /\ t \in eng.todo /\ ~Locked(t)
  /\ v # "pending" /\ (t \in Manual => v = "na")
  /\ result' = [result EXCEPT ![t].verdict = v]
  /\ eng' = [eng EXCEPT !.pc = "stored", !.done = @ + 1, !.auto = v # "na"]
  /\ tx' = Overlaps(tx)
  /\ UNCHANGED <<run, requests>>

\* The result of an automatic test, or na for a test that does not apply, is
\* committed; what an override has recorded stays in its columns.
EngineStores(t, v) ==
  /\ eng.pc = "loop" /\ t \in eng.todo /\ ~Locked(t)
  /\ v # "pending" /\ (t \in Manual => v = "na")
  /\ result' = [result EXCEPT ![t].verdict = v]
  /\ \E auto \in BOOLEAN :
       /\ v # "na" => auto
       /\ t \in Manual => ~auto
       /\ eng' = [eng EXCEPT !.pc = "stored", !.todo = @ \ {t}, !.done = @ + 1, !.auto = auto]
  /\ tx' = Overlaps(tx)
  /\ UNCHANGED <<run, requests>>

\* A manual test is left to the engineer; only the progress is written.
EngineLeaves(t) ==
  /\ eng.pc = "loop" /\ t \in eng.todo \cap Manual
  /\ eng' = [eng EXCEPT !.todo = @ \ {t}]
  /\ run' = [run EXCEPT !.done = eng.done]
  /\ tx' = Overlaps(tx)
  /\ UNCHANGED <<result, requests>>

\* _persist_run_progress counts the tests of this execution; after a test it
\* writes running, whatever the row says by then.
EngineProgress ==
  /\ eng.pc = "stored"
  /\ eng' = [eng EXCEPT !.pc = "loop"]
  /\ run' = [run EXCEPT !.done = eng.done,
                        !.status = IF eng.auto THEN "running" ELSE @]
  /\ tx' = Overlaps(tx)
  /\ UNCHANGED <<result, requests>>

\* _finalize_run reads the results ...
EngineReads ==
  /\ eng.pc = "loop" /\ eng.todo = {}
  /\ eng' = [eng EXCEPT !.pc = "finalizing", !.seen = result]
  /\ UNCHANGED <<result, run, tx, requests>>

\* ... then loads the row and commits.
EngineFinalizes ==
  /\ eng.pc = "finalizing"
  /\ run' = Finalized(run, eng.seen)
  /\ eng' = NoEngine
  /\ tx' = Overlaps(tx)
  /\ UNCHANGED <<result, requests>>

\* A cancellation or an exception ends the engine.
EngineStops ==
  /\ eng.pc \in {"loop", "stored"}
  /\ run' = [run EXCEPT !.status = "failed"]
  /\ eng' = NoEngine
  /\ tx' = Overlaps(tx)
  /\ UNCHANGED <<result, requests>>

\* The backend dies: sessions are rolled back, an orphaned run is failed.
Crash ==
  /\ eng.pc # "off" \/ \E c \in Clients : tx[c].pc # "idle"
  /\ run' = [run EXCEPT !.status = IF @ = "running" THEN "failed" ELSE @]
  /\ eng' = NoEngine
  /\ tx' = [c \in Clients |-> NoTx]
  /\ UNCHANGED <<result, requests>>

--------------------------------------------------------------------------------

Request(c) ==
  \/ \E v \in Verdicts :
       \/ \E ts \in SUBSET Manual : BeginEdit(c, ts, v)
       \/ \E t \in Tests : BeginOverride(c, t, v)
  \/ \E kind \in {"complete", "review"} : BeginSettle(c, kind)

Engine ==
  \/ EngineStarts \/ EngineProgress \/ EngineReads \/ EngineFinalizes \/ EngineStops
  \/ \E t \in Tests : EngineLeaves(t) \/ \E v \in Verdicts : EngineStores(t, v)

Next ==
  \/ \E c \in Clients : Request(c) \/ Read(c) \/ Commit(c)
  \/ Engine \/ Crash

Spec == Init /\ [][Next]_vars

--------------------------------------------------------------------------------
(* Properties.                                                                   *)

Settles(r) == r.status \in {"awaiting_manual", "awaiting_review", "completed"}

\* The row says of the results what is so: which work is left, and the verdict.
Agrees(r, res) ==
  /\ PendingManual(res) = (r.status = "awaiting_manual")
  /\ r.status = "awaiting_manual" => r.overall = None
  /\ r.status # "awaiting_manual" =>
       r.overall = IF With(res, {"pass"}) # {} THEN FinalVerdict(res) ELSE Overall(res, r.overall)

Repairs(c) == Commit(c) /\ tx[c].alone /\ Settles(run')

\* An edit, override, completion or review request that overlaps no other write
\* leaves a settled row that agrees with the results, whatever earlier races,
\* cancellations and crashes have made of it.
AloneAgrees == [][\A c \in Clients : Repairs(c) => Agrees(run', result')]_vars

\* It also leaves a stored summary with which the run shows as ready for its
\* report, or operationally ready, exactly if the report's own summary is.
AloneSummarizes ==
  [][\A c \in Clients : Repairs(c) =>
       /\ ReportReady(run, Displayed)' = ReportReady(run, Reported)'
       /\ OperationalReady(run, Displayed)' = OperationalReady(run, Reported)']_vars

\* A report that calls the device operationally ready rests on results none of
\* which failed, erred, is pending or overridden, even if the row is out of date.
OperationalIsClean ==
  OperationalReady(run, Reported) =>
    /\ Failing(result) = {} /\ \A t \in Tests : ~result[t].overridden
    /\ ~PendingManual(result)
==================================================================================
