SPECIFICATION Spec
CONSTANTS
    h1 = h1
    h2 = h2
    Heads <- TwoHeads
    FirstHead = h1
    NoHead = NoHead
    MaxAttempts = 2
    NSteps = 2
    MaxPushes = 2
    MaxReplays = 1
    MaxFaults = 1
    MaxCrashes = 1
CHECK_DEADLOCK FALSE
INVARIANTS
    PreflightInv
    CommentFollowsGate
PROPERTIES
    ImplementsGate
