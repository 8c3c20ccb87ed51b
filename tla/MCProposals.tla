---------------------------- MODULE MCProposals ----------------------------
(* TLC instance of Proposals: two runs; the adjustment proposed by the first
   changes the task on which the second one's proposal is based. *)
EXTENDS Proposals

CONSTANTS p1, p2, t1, t2

TheSource == [p \in {p1, p2} |-> IF p = p1 THEN t1 ELSE t2]
TheKinds == [p \in {p1, p2} |-> IF p = p1 THEN {"MINOR_ADJUST"}
                               ELSE {"MAJOR_REPLAN", "STAGE_TRANSITION"}]
=============================================================================
