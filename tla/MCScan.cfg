SPECIFICATION Spec
CONSTANTS
    c1 = c1
    c2 = c2
    CRs <- OneCR
    Providers <- Both
    Overlap = 2
    Grain <- Dates
    Skew <- Clocks
    Lag = 1
    Interval = 1
    MaxItems = 2
    MaxScan = 1
    MaxTime = 3
    MaxActs = 3
    MaxMoves = 1
INVARIANTS
    ScanInv
    NothingMissed
    AnnouncedOnce
PROPERTIES
    CreationAnnounced
    TargetFresh
CHECK_DEADLOCK FALSE
