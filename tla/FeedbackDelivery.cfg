SPECIFICATION WorkloadSpec
CONSTANTS
    d1 = d1
    d2 = d2
    i1 = i1
    i2 = i2
    i3 = i3
    t1 = t1
    r1 = r1
    Decisions = {d1, d2}
    Ids = {i1, i2, i3}
    Delayable = {d1}
    Unrecordable = {d1}
    Attempts = {t1}
    Runs = {r1}
    Events <- AnyEvent
    Agents = {a1}
    Replayer = replayer
    Archives = {}
    Nothing = nothing
INVARIANTS TypeOK ReceiptsHonest EvidenceSound DeletedLeavesNothing
PROPERTY EvidenceKept
