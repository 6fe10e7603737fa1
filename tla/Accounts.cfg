\* Sign-ins, single sign-on and administrators, all at once.
CONSTANTS
    Accounts = {u1, u2}
    First = u1
    Passwords = {p1}
    None = None
    Sids = {s1, s2}
    Flows = {f1}
    Requests = {r1, r2}
    FREE_ATTEMPTS = 2
    CreateAccounts = TRUE
SPECIFICATION Spec
INVARIANTS TypeOK GuessesAreEarned DisablingEndsSessions
SYMMETRY Symmetry
CONSTRAINTS FewRows FewAttempts
