\* Directories, and two requests that overtake each other and the expiry.
CONSTANTS
    None = None
    Root = root
    Ids = {root, n1, n2}
    Names = {x, y}
    empty = empty
    small = small
    large = large
    Hashes = {}
    Size <- MCSize
    VERSIONS_KEPT = 0
    Quotas = {2}
    DefaultQuota = 2
    Retention = TRUE
    Requests = {r1, r2}
    Overtaking = TRUE
    MostReferences = 3
SYMMETRY Symmetry
SPECIFICATION Spec
INVARIANT NoCycle
