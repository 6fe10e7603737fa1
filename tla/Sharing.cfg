\* Two accounts, their trees, grants and links, and departures.
CONSTANTS
    None = None
    Users = {u1, u2}
    Addresses = {a1, a2, a3}
    Folders = {d1, d2}
    Files = {f1, f2}
    Names = {x}
    Quota = 1
    MostGiven = 2
    SameAddress = FALSE
SYMMETRY Symmetry
CONSTRAINT FourRows
SPECIFICATION Spec
INVARIANTS
    TypeOK
    WholeTrees
    SumsExact
    GivenByTheOwner
PROPERTIES
    RightsFollowTheAddress
    NothingLostInDeparture
