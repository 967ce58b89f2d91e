----------------------------- MODULE MCToolSidecar -----------------------------
(* Small instances of ToolSidecar for TLC: one device, named by its address and *)
(* by address and port, as the TLS scan of another port than 443 names it.      *)
EXTENDS ToolSidecar

MCTargets == {"ip", "ip:port"}
MCHosts == {"ip"}
MCKey == [t \in MCTargets |-> t]
================================================================================
