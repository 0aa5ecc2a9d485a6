CONSTANTS
    Decisions = {d1, d2}
    Versions = {v1, v2}
    Archives = {a1, a2}
    NoVersion = NoVersion
    NoArchive = NoArchive
    MaxRevision = 2
    MaxPolicy = 2
SPECIFICATION ScopedSpec
SYMMETRY Symmetry
INVARIANTS RetrievalWorks VersionsFresh DeletionComplete
PROPERTIES VersionsImmutable NothingRevived
