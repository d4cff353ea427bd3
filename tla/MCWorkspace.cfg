SPECIFICATION Spec
CHECK_DEADLOCK FALSE
CONSTANTS
    p = p
    c = c
    q = q
    one = one
    two = two
    Runs <- MCRuns
    NoRun = NoRun
    Periodic = Periodic
    Parent <- MCParent
    Inherits <- MCInherits
    Commits <- MCCommits
    NoCommit = NoCommit
    EventHead <- MCEventHead
    GateHead = two
    Plans <- MCPlans
    MaxFaults = 1
INVARIANTS
    WorkspaceInv RecordTruth LeasedCheckout
PROPERTIES
    Reclaimed
