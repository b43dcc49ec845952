---------------------------- MODULE EventPromise ----------------------------
(***************************************************************************)
(* What Action/Trigger promises about one event, whoever processes it and  *)
(* however often: its reactor runs only after a validator has approved it, *)
(* and it is declared complete only after its reactor has run.             *)
(* OpenILS::Application::Trigger::Event keeps the promise with the flags   *)
(* it derives from the row's state column; TriggerEvent implements it.     *)
(***************************************************************************)
EXTENDS Naturals

CONSTANT Events         \* ids of action_trigger.event rows

VARIABLES approved,     \* events some validator has returned true for
          reactions,    \* 0, 1 or more (2): how often its reactor has been run
          completed     \* events that have been given state 'complete'

vars == <<approved, reactions, completed>>

Init ==
    /\ approved = {}
    /\ reactions = [e \in Events |-> 0]
    /\ completed = {}

\* A validator accepts some of the events it was given.
Approve(S) ==
    /\ approved' = approved \cup S
    /\ UNCHANGED <<reactions, completed>>

\* A reactor is handed a set of events, all of them approved.
React(S) ==
    /\ S \subseteq approved
    /\ reactions' = [e \in Events |->
                       IF e \in S THEN IF reactions[e] = 0 THEN 1 ELSE 2
                                  ELSE reactions[e]]
    /\ UNCHANGED <<approved, completed>>

\* Events are closed, all of them having been reacted to.
Complete(S) ==
    /\ \A e \in S : reactions[e] > 0
    /\ completed' = completed \cup S
    /\ UNCHANGED <<approved, reactions>>

Next == \E S \in SUBSET Events : Approve(S) \/ React(S) \/ Complete(S)

Spec == Init /\ [][Next]_vars
=============================================================================
