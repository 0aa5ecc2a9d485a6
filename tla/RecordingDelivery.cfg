SPECIFICATION FairSpec
CONSTANTS
    a1 = a1
    a2 = a2
    d1 = d1
    d2 = d2
    t1 = t1
    t2 = t2
    Case = case
    Replayer = replayer
    Nobody = nobody
    Attempts = {a1, a2}
    Decisions = {d1}
    Texts = {t1}
    DecisionOf <- RetryId
    TextOf <- RetryText
    Limit = 2
PROPERTY RequestsDelivered
