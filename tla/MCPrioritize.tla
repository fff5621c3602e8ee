------------------------------ MODULE MCPrioritize ------------------------------
(* Instances of Prioritize for TLC.                                        *)
EXTENDS Prioritize

CONSTANTS n1, n2, e1, e2, e3, none

\* Different subsets of extenders give different totals, and the order of the nodes
\* depends on who answers.
Plugins == [n \in Nodes |-> IF n = n1 THEN 3 ELSE 0]
Scores == [e \in Extenders |->
            [n \in Nodes |-> CASE e = e1 -> IF n = n1 THEN 0 ELSE 1
                               [] e = e2 -> IF n = n1 THEN 2 ELSE 1
                               [] OTHER -> IF n = n1 THEN 0 ELSE 4]]
Weights == [e \in Extenders |-> IF e = e1 THEN 2 ELSE 1]
================================================================================
