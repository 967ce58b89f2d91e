------------------------------ MODULE MCLaunchPool ------------------------------
(* A small instance of LaunchPool for TLC: more runs than slots.               *)
EXTENDS LaunchPool

MCSlots == 2
================================================================================
