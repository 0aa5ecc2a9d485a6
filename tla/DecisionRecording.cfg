SPECIFICATION Spec
CONSTANTS
    a1 = a1
    a2 = a2
    d1 = d1
    d2 = d2
    t1 = t1
    t2 = t2
    Attempts = {a1, a2}
    Decisions = {d1}
    Texts = {t1, t2}
    DecisionOf <- RetryId
    TextOf <- ReuseText
    Limit = 1
    Case = case
    Replayer = replayer
    Nobody = nobody
INVARIANT ReceiptsHonest
PROPERTY DeletedStaysDeleted
PROPERTY NothingLost
