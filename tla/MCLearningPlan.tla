--------------------------- MODULE MCLearningPlan ---------------------------
(* TLC instance of LearningPlan.  The first school has a handout and two
   courses, one of them mapped to two knowledge points. *)
EXTENDS LearningPlan

CONSTANTS s1, s2, h1, c1, c2, k1, k2, j1, j2, g1

Candidate(s, k, kind) == [section |-> s, knowledge |-> k, kind |-> kind]
ThePool == [s \in {s1, s2} |->
    IF s = s1 THEN <<Candidate(h1, k1, "HANDOUT"), Candidate(c1, k1, "COURSE"),
                     Candidate(c2, k1, "COURSE"), Candidate(c2, k2, "COURSE")>>
    ELSE <<Candidate(c2, k2, "COURSE")>>]
TheBindings == {Candidate(c2, k2, "COURSE")}
TheCapacity == [d \in Days |-> IF d < 2 THEN 65 ELSE 70]
TheStart == [j \in {j1, j2} |-> IF j = j1 THEN 0 ELSE 1]
=============================================================================
