----------------------------- MODULE MCJobQueue -----------------------------
(* TLC instances of JobQueue: one or two workers serve one job. *)
EXTENDS JobQueue, TLC

CONSTANTS w1, w2

TwoWorkers == {w1, w2}
=============================================================================
