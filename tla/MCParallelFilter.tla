---------------------------- MODULE MCParallelFilter ----------------------------
(* Instances of ParallelFilter for TLC.                                     *)
EXTENDS ParallelFilter

CONSTANTS w1, w2, none
================================================================================
