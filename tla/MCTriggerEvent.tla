--------------------------- MODULE MCTriggerEvent ---------------------------
(* Two requests race for a lone event, or one goes on and on over a group   *)
(* of two events.                                                           *)
EXTENDS TriggerEvent, FiniteSets, TLC

CONSTANTS e1, e2, e3, u1, r1, r2

LoneAndGroup == [e \in Events |-> IF e = e1 THEN e1 ELSE u1]

RaceOrGroup ==
    \/ state[e2] = "absent" /\ state[e3] = "absent"
    \/ state[e1] = "absent" /\ Cardinality({r \in Requests : req[r] # "idle"}) < 2

\* Requests are alike.
RequestSymmetry == Permutations(Requests)
=============================================================================
