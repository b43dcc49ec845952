--------------------------- MODULE MCShelfClearing ---------------------------
EXTENDS ShelfClearing
CONSTANTS h1, h2, h3, c1, c2, w1, w2
\* One hold for each copy is on the shelf, and a third one waits.
MCShelved == [c \in Copies |-> IF c = c1 THEN h1 ELSE h2]

Alone == [clearers |-> {w1}, placed |-> Holds, clearStatus |-> TRUE, overlap |-> {}]

\* Two clear the shelf at a time, and holds are reset meanwhile.
Twice == [Alone EXCEPT !.clearers = {w1, w2}, !.placed = {h1, h2},
                       !.overlap = {"clear", "reset"}]

\* Patrons cancel meanwhile; the copies keep their status, and are listed again.
Cancels == [Alone EXCEPT !.clearStatus = FALSE, !.overlap = {"cancel"}]

MCScenes == {Alone, Twice, Cancels}
=============================================================================
