\* Three nodes, one request after the other: batches, versions and sums.
CONSTANTS
    None = None
    Root = root
    Ids = {root, n1, n2, n3}
    Names = {x, y}
    empty = empty
    small = small
    large = large
    Hashes = {small, large}
    Size <- MCSize
    VERSIONS_KEPT = 2
    Quotas = {2, 6}
    DefaultQuota = 6
    Retention = FALSE
    Requests = {r1}
    Overtaking = FALSE
    MostReferences = 12
SYMMETRY Symmetry
SPECIFICATION Spec
INVARIANTS
    TypeOK
    RefCountExact
    QuotaExact
    SaveNeverFailsForHistory
    NothingLiveBelowTrash
    TrashIsListed
