------------------------------- MODULE MCRunReview -------------------------------
(* A small instance of RunReview for TLC: a release-blocking automatic test and a  *)
(* manual one.                                                                     *)
EXTENDS RunReview, TLC

MCTrust ==
  [t \in Tests |-> IF t \in Manual THEN "manual_evidence" ELSE "release_blocking"]

MCVerdicts == {"pending", "pass", "fail", "na"}

\* Requests are interchangeable: no definition tells them apart.
ClientSymmetry == Permutations(Clients)
==================================================================================
