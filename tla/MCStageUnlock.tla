--------------------------- MODULE MCStageUnlock ---------------------------
(* TLC instances of StageUnlock: a chapter with one knowledge point below it; *)
(* school s1 examines both, school s2 only the chapter.                       *)
EXTENDS StageUnlock, TLC

CONSTANTS c, n, s1, s2, q1, q2, q3, q4, t1, t2, t3, k1, k2

TheParent == c :> Root @@ n :> c
TheSyllabus == s1 :> {c, n} @@ s2 :> {c}
TheSchoolOf == [q \in Questions |-> IF q = q3 THEN s2 ELSE s1]
TheKnowledgeOf == [q \in Questions |-> IF q = q2 THEN {n} ELSE {c}]
TheTaskNode == [t \in Tasks |-> IF t = t1 THEN c ELSE n]
TheExams == {{q1}}
=============================================================================
