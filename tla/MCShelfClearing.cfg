SPECIFICATION FairSpec
CONSTANTS
    h1 = h1  h2 = h2  h3 = h3  c1 = c1  c2 = c2  w1 = w1  w2 = w2
    Holds = {h1, h2, h3}  NoHold = NoHold
    Copies = {c1, c2}  NoCopy = NoCopy
    Shelved <- MCShelved
    Clearers = {w1, w2}
    Scenes <- MCScenes
    MaxCaptures = 2
CHECK_DEADLOCK FALSE
INVARIANTS ShelfInv ToldOnce
PROPERTIES ClearingEnds
