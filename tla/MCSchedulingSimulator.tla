------------------------- MODULE MCSchedulingSimulator -------------------------
(* Instances of SchedulingSimulator for TLC.                               *)
EXTENDS SchedulingSimulator

CONSTANTS s1, s2, c1, c2, nodes, volumes, claims, none
================================================================================
