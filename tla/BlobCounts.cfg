\* The local store, every write carried to its end: the count of a blob.
CONSTANTS
    None = None
    Hashes = {h1}
    Slots = {s1}
    Requests = {r1, r2}
    Sweepers = {w1}
    Backend = "local"
    Grace = 1
    Deadline = 0
    Faults = {}
    MaxNow = 3
SYMMETRY Symmetry
SPECIFICATION Spec
INVARIANT
    RefCountExact
