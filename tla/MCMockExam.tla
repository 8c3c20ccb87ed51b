----------------------------- MODULE MCMockExam -----------------------------
(* TLC instances of MockExam.  The only question of the bank counts for    *)
(* both pairs, so one slot lacks a question at first, and two do once the   *)
(* student has practised it.                                                *)
EXTENDS MockExam, TLC

CONSTANTS p1, b1, s1, s2, r1, r2, k1, k2

ThePairs == {"x", "y"}
TheBankPairs == b1 :> ThePairs
TwoSchools == s1 :> <<"x", "y">> @@ s2 :> <<"y">>
=============================================================================
