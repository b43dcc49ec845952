--------------------------- MODULE MCOfflineXacts ---------------------------
(* One tab that enters transactions and one that uploads them.             *)
EXTENDS OfflineXacts, TLC

CONSTANTS x1, x2, x3, s1, s2, u1, u2, t1, t2

Desk == [hurries |-> {"save"}, registers |-> FALSE, close |-> TRUE, stay |-> FALSE,
         lose |-> TRUE, refuse |-> FALSE]
Form == [hurries |-> {"save", "click"}, registers |-> TRUE, close |-> FALSE, stay |-> FALSE,
         lose |-> TRUE, refuse |-> FALSE]
Refusing == [hurries |-> {"save"}, registers |-> FALSE, close |-> TRUE, stay |-> FALSE,
             lose |-> FALSE, refuse |-> TRUE]
Careless == [hurries |-> {"save", "click", "add", "process"}, registers |-> FALSE, close |-> FALSE,
             stay |-> TRUE, lose |-> TRUE, refuse |-> FALSE]
TwoTabs == [hurries |-> {"tabs"}, registers |-> FALSE, close |-> FALSE, stay |-> FALSE,
            lose |-> FALSE, refuse |-> FALSE]
MCWays == {Desk, Form, Refusing, Careless, TwoTabs}

\* x3 is the registration; imports and a second upload are not for every way.
Asked == {u \in Uploads : up[u].pc # "none"}
Small ==
    /\ ways = Form => x2 \notin entered
    /\ ways = Careless \/ (imports = 0 /\ disk = {})
    /\ ways \in {Careless, Refusing} => Cardinality(Asked) <= 1

Alike == Permutations(Sessions) \cup Permutations(Uploads)
=============================================================================
