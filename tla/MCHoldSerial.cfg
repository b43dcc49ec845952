SPECIFICATION Spec
CONSTANTS
    l1 = l1  l2 = l2  t1 = t1  t2 = t2  d1 = d1  d2 = d2
    Holds = {h1, h2}  NoHold = NoHold
    Copies = {c1, c2}  NoCopy = NoCopy
    Libs = {l1, l2}  NoLib = NoLib
    PickupLib <- MCPickupLib
    HomeLib <- MCHomeLib
    Potential <- MCPotential
    Expiring = {h1, h2}
    Targeters = {t1}  OnDemand = {t1}
    SlotOf <- MCSlotOf
    Desks = {d1}
    MaxTransits = 2
    FillsRelated = TRUE
    GoHome = FALSE
VIEW Serial
SYMMETRY Alike
CONSTRAINT SmallSerial
INVARIANTS SerialInv
PROPERTIES CheckinRepairs
