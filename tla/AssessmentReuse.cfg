CONSTANTS
    p1 = p1
    p2 = p2
    c1 = c1
    c2 = c2
    Predictions <- TwoPredictions
    Changes <- TwoChanges
    Nobody = Nobody
SPECIFICATION SmallSpec
PROPERTIES ReuseIsCurrent EverythingEnds
