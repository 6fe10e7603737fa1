\* The object store and every fault: the rows stay exact and orphans go.
CONSTANTS
    None = None
    Hashes = {h1}
    Slots = {s1}
    Requests = {r1, r2}
    Sweepers = {w1}
    Backend = "s3"
    Grace = 1
    Deadline = 0
    Faults = {"abandon", "sweep_dies", "slow", "blind"}
    MaxNow = 3
SPECIFICATION FairSpec
INVARIANTS
    TypeOK
    CountsOnlyMissRaises
PROPERTIES
    SweepTakesNothingHeld
    OrphansAreCollected
