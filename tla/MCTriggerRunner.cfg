CONSTANTS
    e1 = e1
    e2 = e2
    e3 = e3
    p1 = p1
    p2 = p2
    r1 = r1
    r2 = r2
    t1 = t1
    t2 = t2
    Free = Free
    Events = {e1, e2, e3}
    Units = {e1, e2, e3}
    GroupedUnits = {}
    UnitOf <- EachAlone
    Requests = {r1, r2}
    ParallelCollect = 1
    ParallelReact = 1
    Runners = {p1, p2}
    HookRunners = {p1, p2}
    Targets = {t1, t2}
    TargetOf <- ToTarget
    MaxFaults = 2
SPECIFICATION RunnerSpec
CONSTRAINT LockHeld
SYMMETRY RunnerSymmetry
CHECK_DEADLOCK FALSE
INVARIANTS RunnerInv ReactedOnce
