\* An address that is set to what it is already.
CONSTANTS
    None = None
    Users = {u1, u2}
    Addresses = {a1, a2, a3}
    Folders = {d1, d2}
    Files = {f1, f2}
    Names = {x}
    Quota = 1
    MostGiven = 2
    SameAddress = TRUE
SYMMETRY Symmetry
CONSTRAINT FourRows
SPECIFICATION Spec
PROPERTY RightsFollowTheAddress
