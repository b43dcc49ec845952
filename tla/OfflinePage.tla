----------------------------- MODULE OfflinePage -----------------------------
(***************************************************************************)
(* The offline page from its start: its tabs have their databases opened   *)
(* by the shared worker (WorkerSchemas), and once they are, the staff      *)
(* enter transactions and download the block list (OfflineEntry).          *)
(***************************************************************************)
EXTENDS OfflineEntry

CONSTANTS
    Tabs, Schemas, Jobs,    \* of WorkerSchemas
    MayFail

ASSUME PageAssumption ==
    /\ MayFail \in BOOLEAN
    /\ IsFiniteSet(Schemas) /\ "none" \notin Tabs \cup Schemas

VARIABLES step, cannot, job, out, back, created, db, opener

Worker == INSTANCE WorkerSchemas

startVars == <<step, cannot, job, out, back, created, db, opener>>
pageVars == <<vars, startVars>>

\* What the pages ask for when they are loaded has been served.  The staff do
\* not begin before; a page that cannot connect has nothing to offer them.
Served == cannot = {} /\ \A t \in Tabs, j \in Jobs : job[t][j].state = "ok"

PageInit == Init /\ Worker!Init

PageNext ==
    \/ ~Served /\ Worker!Next /\ UNCHANGED vars
    \/ Served /\ Next /\ UNCHANGED startVars

\* The browser runs pages and worker, messages arrive, and the worker's queries
\* and requests end.
PageSpec ==
    /\ PageInit /\ [][PageNext]_pageVars
    /\ WF_pageVars(~Served /\ Worker!Page /\ UNCHANGED vars)
    /\ WF_pageVars(~Served /\ Worker!Worker /\ UNCHANGED vars)
    /\ WF_pageVars(Served /\ (Tested \/ Serve) /\ UNCHANGED <<manner, startVars>>)
    /\ WF_pageVars(Served /\ Builder /\ UNCHANGED <<manner, startVars>>)

\* What a tab takes for connected is open, and the block list that the tabs then
\* share is built by one rebuild at a time and is whole after it.
PageInv == Worker!ConnectedIsOpen /\ TypeOK /\ ListWhole

\* Every request made while the tabs connect is answered.
RequestsEnd == Worker!RequestsEnd

-----------------------------------------------------------------------------
\* Why PageInv and Recorded hold: neither part disturbs the other.
PageIInv == Worker!SchemasInv /\ EntryIInv
=============================================================================
