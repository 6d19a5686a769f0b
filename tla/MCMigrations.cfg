\* A file with its own COMMIT and without down SQL, one with down SQL in the run's
\* transaction, and two concurrent runs.
CONSTANTS
    m1 = m1
    m2 = m2
    m2b = m2b
    r1 = r1
    r2 = r2
    l1 = l1
    None = None
    Files = {m1, m2}
    Version <- VersionOf
    HasDown = {m2}
    OwnCommit = {m1}
    Runs = {r1, r2}
    Readers = {l1}

SPECIFICATION FairSpec

INVARIANTS
    LedgerMatchesSchema
    CacheFollowsCommits

PROPERTIES
    PendingInOrder
    ImplementsLedger
    EveryRunEnds
