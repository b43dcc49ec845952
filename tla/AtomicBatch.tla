----------------------------- MODULE AtomicBatch -----------------------------
(***************************************************************************)
(* What create(), update(), remove() and apply() of the staff clients'     *)
(* pcrud services promise for a list of objects: all of them are saved or  *)
(* none, and the caller is told "ok" only when they are.                   *)
(***************************************************************************)
VARIABLES
    work,       \* the objects to be written, chosen by the caller
    saved,      \* those committed
    told        \* what the caller was told

BatchInit == saved = {} /\ told = "none"

Save ==
    /\ saved' = work
    /\ told = "none" /\ UNCHANGED <<work, told>>

Tell(answer) ==
    /\ told = "none" /\ told' = answer
    /\ saved = IF answer = "ok" THEN work ELSE {}
    /\ UNCHANGED <<work, saved>>

BatchNext == Save \/ Tell("ok") \/ Tell("failed")

BatchSpec == BatchInit /\ [][BatchNext]_<<work, saved, told>>
=============================================================================
