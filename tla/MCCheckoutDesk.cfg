SPECIFICATION Spec
CONSTANTS
    p1 = p1  p2 = p2  c1 = c1  c2 = c2  c3 = c3  s1 = s1
    Patrons = {p1, p2}  Nobody = Nobody
    Copies = {c1, c2, c3}
    Shorts = {s1}
    Matches <- MCMatches
    Scenes <- MCScenes
    MaxScans = 3
    MaxOpens = 4
CHECK_DEADLOCK FALSE
CONSTRAINT FewPages
INVARIANTS DeskInv PatronInv BarcodeInv ShownFirst
