\* Writers that die, oversleep their claim or come late, and the sweeps.
CONSTANTS
    None = None
    Sessions = {u1, u2}
    Requests = {r1, r2}
    Size = 2
    MOST_SESSIONS = 1
    Lifetime = 3
    ClaimTime = 1
    RenewEvery = 0
    StagingGrace = 1
    BeginTime = 0
    SweepTime = 0
    Faults = {"die", "pause"}
    MaxNow = 3
CONSTRAINTS FirstMishap InOrder OneFilled
SPECIFICATION FairSpec
INVARIANTS
    TypeOK
    FinishedIsWhole
    WritersApart
    OpenSessionHasFile
    SessionCeiling
PROPERTIES
    KeepsThePromise
    ScratchIsReclaimed
