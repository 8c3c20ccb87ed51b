--------------------------- MODULE MCModelRouter ---------------------------
(* TLC instance of ModelRouter: two cases of the evaluation share a router, or
   one attempt of a job has it for itself. *)
EXTENDS ModelRouter, TLC

CONSTANTS r1, r2

RunSymmetry == Permutations(Runs)
=============================================================================
