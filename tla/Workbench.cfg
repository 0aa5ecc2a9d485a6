SPECIFICATION MCSpec
CONSTANTS
    a = a
    b = b
    x = x
    y = y
    Services = {s1, s2}
    Clients = {a, b}
    Tabs = {x, y}
    Nobody = nobody
    MaxFaults = 2
    MaxStops = 2
    MaxTokens = 2
    MaxAsks = 2
    MaxVisits = 2
    MaxSlips = 1
    MaxEvents = 3
    Batch = 2
INVARIANTS Reachable SessionsRight NothingSkipped
PROPERTIES StopSparesWork ServedAgain StopEnds ChangesArrive
CHECK_DEADLOCK FALSE
