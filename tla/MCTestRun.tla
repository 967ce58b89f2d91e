------------------------------- MODULE MCTestRun -------------------------------
(* Small instances of TestRun for TLC.                                         *)
EXTENDS TestRun, TLC

SingleAuto == <<"auto">>

\* A test with a host-interface workflow (U03, U04, U20).
SingleHost == <<"host">>

\* One guided manual test.
SingleManual == <<"manual">>

\* Clients are interchangeable: no definition tells them apart.
ClientSymmetry == Permutations(Clients)
================================================================================
