---------------------------- MODULE MCCheckoutDesk ----------------------------
EXTENDS CheckoutDesk
CONSTANTS p1, p2, c1, c2, c3, s1
\* s1 is typed short, and may stand for two copies.
MCMatches == [s \in Shorts |-> {c1, c2}]

\* The first copy is on loan to the second patron.
MCOut == [c \in Copies |-> IF c = c1 THEN p2 ELSE Nobody]

Desk == [codes |-> {c1, c2}, owing |-> {p1}, missing |-> {}, alerted |-> {c2},
         lent |-> MCOut, renews |-> FALSE, optsOut |-> FALSE, hurries |-> {}]

\* Staff wait for every answer; one barcode is typed short, and a copy is missing.
Waits == [Desk EXCEPT !.codes = {c1, c2, s1}, !.missing = {c2}]

\* Staff scan on, with missing copies, and a patron may be refused.
Scans == [Desk EXCEPT !.codes = {c1, c2, c3}, !.owing = {}, !.missing = {c2, c3},
                      !.optsOut = TRUE, !.hurries = {"scan"}]

\* Staff go to other pages while a checkout is under way; loans are renewed.
Leaves == [Desk EXCEPT !.renews = TRUE, !.hurries = {"leave"}]

MCScenes == {Waits, Scans, Leaves}

\* Only those who leave early open a fourth page.
FewPages == page.visit <= 3 \/ "leave" \in Hurries
=============================================================================
