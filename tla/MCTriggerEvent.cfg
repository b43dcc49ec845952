CONSTANTS
    e1 = e1
    e2 = e2
    e3 = e3
    u1 = u1
    r1 = r1
    r2 = r2
    Events = {e1, e2, e3}
    Units = {e1, u1}
    GroupedUnits = {u1}
    UnitOf <- LoneAndGroup
    Requests = {r1, r2}
    ParallelCollect = 2
    ParallelReact = 2
SPECIFICATION Spec
CONSTRAINT RaceOrGroup
SYMMETRY RequestSymmetry
INVARIANTS ReactedOnlyIfApproved ProcessedMeansReacted
PROPERTIES NeverPendingAgain PromiseKept
