SPECIFICATION Spec
CONSTANTS
    a1 = a1
    a2 = a2
    h1 = h1
    h2 = h2
    Agents = {a1, a2}
    Hosts = {h1, h2}
    HostOf <- OwnHost
    Tokens = {t1, t2}
    Calls = {c1, c2, c3}
    None = None
    Torn = Torn
    MaxInFlight = 1
    MaxFaults = 2
    MaxDbErrors = 1
    AdminDeletes = TRUE
    TokensExpire = TRUE
SYMMETRY Symmetry
INVARIANTS
    TokenUseBounded
    RowsBounded
    ServedCertIsListed
    GhostsBounded
PROPERTY RegistrationIsAtomic
CHECK_DEADLOCK FALSE
