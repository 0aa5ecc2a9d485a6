CONSTANTS
    Requests = {r1, r2, r3}
    Releases = {r3}
    Capacity = 2
    None = None
SPECIFICATION WorkerFairSpec
INVARIANTS OneModel PipesClean
PROPERTIES Answered CancelledWorkStops
