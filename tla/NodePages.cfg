SPECIFICATION PageSpec
CONSTANTS
    Browsers = {b1}
    Logins = {l1, l2}
    Requests = {r1, r2}
    Keys = {good, bad}
    GoodKeys = {good}
    Ids = {n1, n2}
    Hosts = {h1, h2}
    None = None
    MaxFaults = 1
SYMMETRY Symmetry
INVARIANTS
    PageTypeOK
    RowsMatchCookies
    ServedIsEntitled
    CallGoesWhereListed
PROPERTIES
    LicenceStays
    TurnedAwayForCause
CHECK_DEADLOCK FALSE
