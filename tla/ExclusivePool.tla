----------------------------- MODULE ExclusivePool -----------------------------
(* What the launcher promises of its tasks and the sidecar of its requests: at *)
(* any time a bounded number holds a slot, each of them one, and no slot is    *)
(* lost or given back twice.                                                   *)
EXTENDS Naturals

CONSTANTS
  Holders,        \* who may hold a slot
  MaxConcurrent   \* MAX_CONCURRENT_RUNS, MAX_CONCURRENT_SCANS

VARIABLES
  busy,   \* those who hold a slot
  free    \* how many more may begin

Init == busy = {} /\ free = MaxConcurrent

Begin(r) ==
  /\ r \notin busy /\ free > 0
  /\ busy' = busy \cup {r}
  /\ free' = free - 1

End(r) ==
  /\ r \in busy
  /\ busy' = busy \ {r}
  /\ free' = free + 1

Next == \E r \in Holders : Begin(r) \/ End(r)

Spec == Init /\ [][Next]_<<busy, free>>
================================================================================
