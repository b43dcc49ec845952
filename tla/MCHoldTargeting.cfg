SPECIFICATION Spec
CONSTANTS
    l1 = l1  l2 = l2  t1 = t1  t2 = t2  d1 = d1  d2 = d2
    Holds = {h1, h2}  NoHold = NoHold
    Copies = {c1}  NoCopy = NoCopy
    Libs = {l1, l2}  NoLib = NoLib
    PickupLib <- MCPickupLib
    HomeLib <- MCHomeLib
    Potential <- MCPotential
    Expiring = {}
    Targeters = {t1, t2}  OnDemand = {t2}
    SlotOf <- MCSlotOf
    Desks = {d1}
    MaxTransits = 1
    FillsRelated = TRUE
    GoHome = FALSE
VIEW Present
SYMMETRY Alike
CONSTRAINT Racing
INVARIANTS FrozenUntargeted DistinctTargets FilledHasCopy
PROPERTIES SuspendedWaits
