SPECIFICATION Spec
CONSTANTS
    c1 = c1
    c2 = c2
    Commit = Commit
    Calls <- MCCalls
    Plans <- MCPlans
    MaxTroubles = 1
INVARIANTS
    BridgeInv
    CITimeoutKept
PROPERTIES
    StoppedRunsEnd
