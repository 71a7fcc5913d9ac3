SPECIFICATION Spec
CONSTANTS
    ca1 = ca1
    ca2 = ca2
    ca3 = ca3
    ca4 = ca4
    pw1 = pw1
    pw2 = pw2
    Cas <- FourCas
    Passwords <- TwoPasswords
    None = None
    Torn = Torn
    MaxFaults = 2
    MaxDbErrors = 2
INVARIANTS
    TypeOK
    OneCA
    ServesWhole
    PrintedWorks
PROPERTY ComesUp
CHECK_DEADLOCK FALSE
