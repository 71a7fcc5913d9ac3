SPECIFICATION Spec
CONSTANTS
    Dbs = {d1, d2}
    Users = {u1}
    Passwords = {p1, p2}
    Requests = {r1, r2, r3}
    None = None
    MaxFaults = 1
SYMMETRY Symmetry
INVARIANTS
    TypeOK
    AnsweredHolds
    GrantsHaveAccounts
PROPERTY FormsAreAtomic
CHECK_DEADLOCK FALSE
