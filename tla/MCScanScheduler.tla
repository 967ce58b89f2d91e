----------------------------- MODULE MCScanScheduler -----------------------------
(* Small instances of ScanScheduler for TLC.                                       *)
EXTENDS ScanScheduler

MCLimits == {0, 1}
================================================================================
