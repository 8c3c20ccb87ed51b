----------------------------- MODULE MCPractice -----------------------------
(* TLC instance of Practice: two questions list the same knowledge points in *)
(* opposite order, and two tasks share their knowledge point.                *)
EXTENDS Practice, TLC

CONSTANTS n1, n2, q1, q2, t1, t2, t3, r1, r2, k1, k2

TheKnowledgeOf == q1 :> <<n1, n2>> @@ q2 :> <<n2, n1>>
TheExams == {<<q2, q1>>}
TheChapters == {{q1}, {q1, q2}}
TheAssigned == {<<t1, q1>>}
TheTopic == [t \in Tasks |-> n1]
Fine == [sample |-> 1, completion |-> 100, slow |-> FALSE, poor |-> FALSE, units |-> TRUE]
TheReports == {Fine,
               [Fine EXCEPT !.sample = 4, !.completion = 50],
               [Fine EXCEPT !.completion = 80, !.slow = TRUE, !.units = FALSE]}
Symmetry == Permutations(Requests) \cup Permutations(Keys)
=============================================================================
