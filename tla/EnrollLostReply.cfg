SPECIFICATION FairSpec
CONSTANTS
    a1 = a1
    a2 = a2
    h1 = h1
    h2 = h2
    Agents = {a1}
    Hosts = {h1}
    HostOf <- OwnHost
    Tokens = {t1}
    Calls = {c1, c2}
    None = None
    Torn = Torn
    MaxInFlight = 1
    MaxFaults = 1
    MaxDbErrors = 0
    AdminDeletes = FALSE
    TokensExpire = FALSE
PROPERTY InstallAttaches
CHECK_DEADLOCK FALSE
