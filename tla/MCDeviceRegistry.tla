---------------------------- MODULE MCDeviceRegistry ----------------------------
(* Two devices, two requests at a time, two addresses.                           *)
EXTENDS DeviceRegistry, TLC

Symmetry == Permutations(Rows) \cup Permutations(Macs) \cup Permutations(Clients)
==================================================================================
