--------------------------- MODULE MCHoldRequests ---------------------------
\* Holds that are to be picked up at one library and filled with copies of
\* another: which of them is which does not matter.
EXTENDS HoldRequests, TLC

CONSTANTS l1, l2, t1, t2, d1, d2

MCPickupLib == [h \in Holds |-> l2]
MCHomeLib == [c \in Copies |-> l1]
MCPotential == [h \in Holds |-> Copies]
MCSlotOf == [h \in Holds |-> t1]
Alike == Permutations(Holds) \cup Permutations(Copies)

\* Transactions that do not overlap, and not every hold, copy and trip at once: two holds for a copy that travels,
\* two copies for a hold, or two trips.
RowsInPlay ==
    Cardinality({h \in Holds : hold[h] # NewRow})
    + Cardinality({c \in Copies : copy[c] # "available"})
Trips == Cardinality({i \in TransitIds : transit[i] # NoLeg})
SmallSerial ==
    /\ NoOverlap
    /\ RowsInPlay <= 3
    /\ Trips > 1 => RowsInPlay <= 1

\* The circulation counter and the office that sees to the holds.
Counter == {"checkin", "checkout"}
CounterAndOffice ==
    /\ desk[d1].op \in Counter \cup {"none"} /\ desk[d2].op \notin Counter
    /\ \A t \in Targeters : tgt[t].pc = "idle"
CounterAndAborts ==
    /\ CounterAndOffice
    /\ desk[d2].op \in {"none", "cancel", "reset", "abort", "freeze"}
    /\ desk[d1].op = "checkout" => desk[d2].op = "none" /\ desk[d1].who # NoHold
    /\ (\E h \in Holds : hold[h].frozen) \/ desk[d2].op = "freeze" =>
          /\ desk[d1].op = "none" \/ desk[d2].op = "none"
          /\ Trips <= 1 /\ \E c \in Copies : copy[c] = "available"

\* A targeter beside another or beside a request, and a little after what is excused.
Racing ==
    /\ Cardinality(Busy) <= 2
    /\ Cardinality(overtaken) + Cardinality(contested) <= 1
    /\ overtaken \cup contested # {} => \A h \in Holds : Open(hold[h])
    /\ Cardinality({h \in Holds : ~Open(hold[h])}) <= 1
    /\ \A i \in TransitIds : transit[i].state \in {"none", "open"}
    /\ desk[d1].op # "abort" /\ (desk[d1].op = "checkout" => desk[d1].who # NoHold)

\* No action reads what is recorded of the past.  A process that targets by slot and on
\* demand may take a hold whether it was asked for or not, and without one nobody is asked.
Office == <<hold, copy, out, transit, desk, crossed>>
Serial == <<hold, copy, out, transit, tgt, desk, alone, crossed>>
Present == <<rows, tgt, asked, desk, marks>>
=============================================================================
