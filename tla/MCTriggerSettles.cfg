CONSTANTS
    e1 = e1
    e2 = e2
    e3 = e3
    p1 = p1
    p2 = p2
    r1 = r1
    r2 = r2
    t1 = t1
    t2 = t2
    Free = Free
    Events = {e1, e2}
    Units = {e1, e2}
    GroupedUnits = {}
    UnitOf <- EachAlone
    Requests = {r1}
    ParallelCollect = 1
    ParallelReact = 1
    Runners = {p1, p2}
    HookRunners = {p1}
    Targets = {t1}
    TargetOf <- ToTarget
    MaxFaults = 1
SPECIFICATION RunnerFairSpec
PROPERTIES
    TakenUp
    Settles
CHECK_DEADLOCK FALSE
