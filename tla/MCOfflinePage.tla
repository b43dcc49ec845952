---------------------------- MODULE MCOfflinePage ----------------------------
(* Two tabs, three patrons, some of whom may be on the list, which may have *)
(* a line twice.                                                            *)
EXTENDS OfflinePage
CONSTANTS p1, p2, p3, i1, i2
MCFiles == {<<p1, p2, p1>>, <<p2, p3>>, <<p1, p2, p3>>, <<>>}
Waiting == [patient |-> TRUE, apart |-> TRUE]
Hasty == [patient |-> FALSE, apart |-> FALSE]
MCManners == {Waiting, Hasty}

\* Before one initial state of the page the worker's start is explored in full,
\* before the others the tabs start one after the other.
OneByOne ==
    cannot = {} /\ (job["t1"][1].state = "ok" \/ job["t2"][1].state = "idle")
FreshPage == Patient /\ strict /\ blocks = {}

\* Staff who wait enter three times with one download, hasty ones once with two.  A
\* page's first request is to the offline schema.
Small ==
    /\ Patient => builds + waiting <= 1
    /\ ~Patient => adds <= 1 /\ form.item # i2 /\ form.patron # p3 /\ ~strict
    /\ Served => \A t \in Tabs, j \in Jobs : job[t][j].schema = "offline"
    /\ Served \/ FreshPage \/ OneByOne
=============================================================================
