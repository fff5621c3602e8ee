----------------------------- MODULE FilterContract -----------------------------
(* What a caller of findNodesThatPassFilters may rely on, without the      *)
(* goroutines: ParallelFilter meets it and NodeSelection builds on it.     *)
EXTENDS Integers, FiniteSets

\* How a search of some nodes with the given verdicts of the filter plugins may
\* end: with nodes that pass, at most limit of them, and some rejections on
\* record, with every node accounted for unless there were enough nodes, an error,
\* or a caller who gave up.
Outcomes(nodes, verdict, limit) ==
  {o \in [found : SUBSET {n \in nodes : verdict[n] = "Success"},
          rejected : SUBSET {n \in nodes : verdict[n] = "Unschedulable"},
          error : BOOLEAN, interrupted : BOOLEAN] :
     /\ Cardinality(o.found) =< limit
     /\ o.error => nodes # {}
     /\ \/ o.error \/ o.interrupted \/ Cardinality(o.found) = limit
        \/ o.found \cup o.rejected = nodes}
================================================================================
