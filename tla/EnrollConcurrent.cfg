SPECIFICATION Spec
CONSTANTS
    a1 = a1
    a2 = a2
    h1 = h1
    h2 = h2
    Agents = {a1, a2}
    Hosts = {h1, h2}
    HostOf <- OwnHost
    Tokens = {t1, t2}
    Calls = {c1, c2, c3}
    None = None
    Torn = Torn
    MaxInFlight = 2
    MaxFaults = 2
    MaxDbErrors = 0
    AdminDeletes = TRUE
    TokensExpire = FALSE
SYMMETRY Symmetry
INVARIANTS
    TypeOK
    TokenUseBounded
    RowsBounded
    RowBelongsToHost
    NoBrickedAgent
    ServedCertIsListed
PROPERTIES
    IdentityIsStable
    LockedOutStays
CHECK_DEADLOCK FALSE
