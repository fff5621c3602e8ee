---------------------------- MODULE MCNodeSelection ----------------------------
(* Instances of NodeSelection for TLC.                                     *)
EXTENDS NodeSelection

CONSTANTS n1, n2, n3, unknown, none
================================================================================
