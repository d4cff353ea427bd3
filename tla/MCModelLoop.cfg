SPECIFICATION Spec
CONSTANTS
    Chains <- MCChains
    Fixed = 3
    Handover = 1
    Prefix = 2
    Slack = 1
    SummaryTarget = 2
    LeastTarget = 1
    KeepRecent = 2
    MaxRewrites = 1
    MaxSummaries = 3
    MaxRounds = 5
    Retries = 1
    RoundSizes = {1, 3}
    DraftSizes = {1, 3}
    Reference = 1
    MaxCalls = 2
INVARIANTS LoopInv
PROPERTIES LoopEnds
