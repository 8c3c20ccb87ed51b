--------------------------- MODULE MCAgentRunner ----------------------------
(* TLC instances of AgentRunner. *)
EXTENDS AgentRunner, TLC

CONSTANTS w1, w2, search, minor, major, a1, a2

TwoWorkers == {w1, w2}
OneWorker == {w1}
Reads == {search}
Minors == {minor}
Majors == {major}
TwoArgs == {a1, a2}
OneArg == {a1}
NoTools == {}

Symmetry == Permutations(Workers) \cup Permutations(Args)
=============================================================================
