--------------------------- MODULE MCMutatingSnapshot ---------------------------
(* Small snapshots for model checking MutatingSnapshot.                    *)
EXTENDS MutatingSnapshot

CONSTANTS n1, n2, n3, p1, p2, p3, p4, none

\* Two pods run, on different nodes; the others are not in the snapshot.
HomeTwo == [p \in Pods |-> CASE p = p1 -> n1 [] p = p2 -> n2 [] OTHER -> NoNode]
================================================================================
