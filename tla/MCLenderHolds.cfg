SPECIFICATION Spec
CONSTANTS
    h1 = h1  h2 = h2  c1 = c1  c2 = c2  w1 = w1  w2 = w2
    Holds = {h1, h2}  NoHold = NoHold
    Copies = {c1, c2}  NoCopy = NoCopy
    Workers = {w1, w2}
    Scenes <- MCScenes
    MaxAsked = 3
SYMMETRY WorkerSymmetry
CHECK_DEADLOCK FALSE
INVARIANTS LenderInv Asked StraysExplained
