SPECIFICATION Spec
CONSTANTS
    site = site
    siteConf = siteConf
    short = short
    long = long
    wrong = wrong
    Names <- TwoNames
    ConfName <- WithSuffix
    Configs <- ThreeTexts
    Size <- Lengths
    Bad <- TheWrong
    Found <- TheLong
    Requests = {r1, r2, r3}
    None = None
    MaxFaults = 1
SYMMETRY Symmetry
INVARIANTS
    TypeOK
    LinkHasFile
    FileIsWhole
    AnsweredIsOnDisk
PROPERTIES
    NginxSurvives
CHECK_DEADLOCK FALSE
