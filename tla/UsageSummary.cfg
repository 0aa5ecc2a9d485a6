SPECIFICATION Spec
CONSTANTS
    d1 = d1
    d2 = d2
    t1 = t1
    t2 = t2
    s1 = s1
    s2 = s2
    r1 = r1
    r2 = r2
    r3 = r3
    h1 = h1
    h2 = h2
    native = native
    declared = declared
    Events <- AllEvents
    Decisions = {d1, d2}
    Attempts = {t1, t2}
    Ids <- EventIds
    UsageStreams = {s1, s2}
    Runs = {r1, r2, r3}
    Roots = {h1, h2}
    Configs = {native, declared}
    LifecycleRuns = {r1}
    LifecycleConfigs = {native}
    MaxSafe = 120
    MaxEvents = 7
    Nothing = nothing
INVARIANTS CountedOnce AvailableIsAll WindowsAgree FiguresRight
PROPERTY OnlyEvidenceDrops
CHECK_DEADLOCK FALSE
