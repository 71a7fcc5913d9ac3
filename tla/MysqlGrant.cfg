SPECIFICATION Spec
CONSTANTS
    Dbs = {d1}
    Users = {u1}
    Passwords = {p1}
    Requests = {r1, r2}
    None = None
    MaxFaults = 0
PROPERTY GrantEnsuresBoth
CHECK_DEADLOCK FALSE
