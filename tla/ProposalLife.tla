---------------------------- MODULE ProposalLife ----------------------------
(***************************************************************************)
(* What a proposal promises, whoever decides it and whatever fails on the  *)
(* way: it is open, then granted or refused, and a grant ends as done or   *)
(* failed.  effect[p] counts what was done to the plan in its name.  A     *)
(* direct proposal changes the plan in the step that makes it done; the    *)
(* others are carried out while they are granted.                          *)
(***************************************************************************)
EXTENDS Naturals

CONSTANT Proposals

VARIABLES phase,    \* phase[p]
          direct,   \* the proposals that change the plan themselves
          effect    \* effect[p]

lifeVars == <<phase, direct, effect>>

LifeInit ==
    /\ phase = [p \in Proposals |-> "absent"]
    /\ direct = {}
    /\ effect = [p \in Proposals |-> 0]

Move(p, from, to) == phase[p] \in from /\ phase' = [phase EXCEPT ![p] = to]

Submit(p) ==
    /\ Move(p, {"absent"}, "open")
    /\ direct' \in {direct, direct \cup {p}}
    /\ UNCHANGED effect

Grant(p) == p \notin direct /\ Move(p, {"open"}, "granted") /\ UNCHANGED <<direct, effect>>

Refuse(p) == Move(p, {"open"}, "refused") /\ UNCHANGED <<direct, effect>>

GiveUp(p) == Move(p, {"open", "granted"}, "failed") /\ UNCHANGED <<direct, effect>>

CarryOut(p) ==
    /\ phase[p] = "granted" /\ effect[p] = 0
    /\ effect' = [effect EXCEPT ![p] = 1]
    /\ UNCHANGED <<phase, direct>>

Complete(p) ==
    \/ /\ p \in direct /\ effect[p] = 0
       /\ Move(p, {"open"}, "done")
       /\ effect' = [effect EXCEPT ![p] = 1]
       /\ UNCHANGED direct
    \/ /\ p \notin direct /\ effect[p] = 1
       /\ Move(p, {"granted"}, "done")
       /\ UNCHANGED <<direct, effect>>

LifeNext ==
    \E p \in Proposals :
        Submit(p) \/ Grant(p) \/ Refuse(p) \/ GiveUp(p) \/ CarryOut(p) \/ Complete(p)

\* One step decides about one proposal; expire_proposals refuses a set of them.
RefuseMany ==
    /\ \E S \in SUBSET {p \in Proposals : phase[p] = "open"} :
         phase' = [p \in Proposals |-> IF p \in S THEN "refused" ELSE phase[p]]
    /\ UNCHANGED <<direct, effect>>

LifeSpec == LifeInit /\ [][LifeNext \/ RefuseMany]_lifeVars
=============================================================================
