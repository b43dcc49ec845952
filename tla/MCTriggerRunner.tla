--------------------------- MODULE MCTriggerRunner ---------------------------
(* Two runners, three ids of events for two loans, each fired on its own.   *)
EXTENDS TriggerRunner, TLC

CONSTANTS e1, e2, e3, p1, p2, r1, r2, t1, t2

EachAlone == [e \in Events |-> e]
ToTarget == [e \in Events |-> IF e = e3 THEN t2 ELSE t1]
\* The runners' safety properties speak of behaviours in which the lock has
\* worked.
LockHeld == slips = {}
RunnerSymmetry == Permutations(Runners) \cup Permutations(Requests)
=============================================================================
