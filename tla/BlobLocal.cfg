\* The local store, every write carried to its end: the promise of a 201.
CONSTANTS
    None = None
    Hashes = {h1}
    Slots = {s1, s2}
    Requests = {r1, r2}
    Sweepers = {w1}
    Backend = "local"
    Grace = 3
    Deadline = 1
    Faults = {}
    MaxNow = 8
SYMMETRY Symmetry
SPECIFICATION Spec
INVARIANTS
    AckedHasBytes
