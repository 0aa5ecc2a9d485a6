CONSTANTS
    Jobs = {j1, j2}
    Decisions = {d1, d2}
    Archives = {a1, a2}
    Callers = {c1}
    Rounds = 1
    Nobody = Nobody
SPECIFICATION ScopedSpec
INVARIANT OnlyTrueLeft
PROPERTIES CompletedIsThere WaitsEnd
