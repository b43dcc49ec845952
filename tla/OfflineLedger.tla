---------------------------- MODULE OfflineLedger ----------------------------
(***************************************************************************)
(* What offline circulation promises about each transaction the staff      *)
(* enter during an outage: from the page it reaches the browser's store,   *)
(* from there the server, and it leaves that path only when the staff      *)
(* decide so or the store refuses it.  There is no step to "lost".         *)
(***************************************************************************)
CONSTANTS Xacts

VARIABLE fate       \* Xacts -> where the transaction has got to

Fates == {"unborn", "page", "store", "server", "dropped", "refused", "lost"}

LedgerInit == fate = [x \in Xacts |-> "unborn"]

\* A saved registration skips the page; what the store refuses is back on the
\* page until its save ends; "dropped" is the staff's decision, which they take
\* back by importing a file they had exported before.
Moves ==
    {<<"unborn", "page">>, <<"unborn", "store">>, <<"page", "store">>,
     <<"store", "server">>, <<"dropped", "server">>, <<"store", "page">>,
     <<"page", "refused">>, <<"store", "refused">>,
     <<"page", "dropped">>, <<"store", "dropped">>, <<"dropped", "store">>,
     <<"refused", "store">>, <<"refused", "server">>}

LedgerNext ==
    /\ fate' \in [Xacts -> Fates]
    /\ \A x \in Xacts : fate'[x] = fate[x] \/ <<fate[x], fate'[x]>> \in Moves

LedgerSpec == LedgerInit /\ [][LedgerNext]_fate
=============================================================================
