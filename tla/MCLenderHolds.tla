---------------------------- MODULE MCLenderHolds ----------------------------
EXTENDS LenderHolds, TLC
CONSTANTS h1, h2, c1, c2, w1, w2

\* Requests of every kind, one after the other, and no call is lost; only one of two
\* lenders is connected.
Strays == [potential |-> Copies, expiring |-> {}, connected |-> {c1}, asks |-> Kinds,
           late |-> {}, lost |-> {}, refusing |-> TRUE, stale |-> FALSE,
           closed |-> FALSE]

\* Both are, one hold expires, any call but placing may be lost, and Capture may be
\* clicked in an old list.
Unsure == [Strays EXCEPT !.expiring = {h1}, !.connected = Copies, !.stale = TRUE,
                         !.lost = {"delete", "checkout", "checkin"}]

\* The delete of a cancelled hold comes at any later time.
LateDeletes == [Strays EXCEPT !.connected = Copies, !.late = {"cancel"}, !.refusing = FALSE,
                              !.asks = {"target", "cancel", "uncancel", "reset"}]

\* Two requests of any kind at a time, about one copy; closed holds are reset, too.
Loans == [Strays EXCEPT !.potential = {c1}, !.late = Kinds \ {"fill"}, !.refusing = FALSE,
                        !.closed = TRUE]

MCScenes == {Strays, Unsure, LateDeletes, Loans}

\* The processes are alike.
WorkerSymmetry == Permutations(Workers)
=============================================================================
