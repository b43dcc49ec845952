SPECIFICATION Spec
CONSTANTS
    l1 = l1  l2 = l2  t1 = t1  t2 = t2  d1 = d1  d2 = d2
    Holds = {h1}  NoHold = NoHold
    Copies = {c1, c2}  NoCopy = NoCopy
    Libs = {l1, l2}  NoLib = NoLib
    PickupLib <- MCPickupLib
    HomeLib <- MCHomeLib
    Potential <- MCPotential
    Expiring = {h1}
    Targeters = {t1}  OnDemand = {}
    SlotOf <- MCSlotOf
    Desks = {d1, d2}
    MaxTransits = 2
    FillsRelated = TRUE
    GoHome = TRUE
VIEW Office
SYMMETRY Alike
CONSTRAINT CounterAndAborts
INVARIANTS InTransitHasTransit
