SPECIFICATION FairSpec
CONSTANTS
    r1 = r1
    c1 = c1
    g1 = g1
    r2 = r2
    c2 = c2
    a = a
    b = b
    c = c
    NoRun = NoRun
    Runs <- ChainRuns
    Parent <- ChainParent
    Agents <- ChainAgents
    AgentOf <- ChainAgentOf
    AgentLimit <- OneEach
    GlobalLimit = 2
    MaxPerRoot = 3
    MaxDepth = 2
    MaxTimeouts = 1
    Cancellable <- OnlyMiddle
    MaxCancels = 1
INVARIANTS
    TreeInv
    CauseIsTrue
PROPERTIES
    StopIsFinal
    RunsEnd
CHECK_DEADLOCK FALSE
