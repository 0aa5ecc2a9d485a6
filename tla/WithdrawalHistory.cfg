CONSTANTS
    Decisions = {d1}
    Versions = {v1}
    Archives = {a1, a2, a3}
    NoVersion = NoVersion
    NoArchive = NoArchive
    MaxRevision = 1
    MaxPolicy = 1
SPECIFICATION SpecH
SYMMETRY Symmetry
INVARIANT WithdrawalIsFinal
