SPECIFICATION Spec
CHECK_DEADLOCK FALSE
CONSTANTS
    Size = 3
    ChangeRequests = {m1, m2}
    Branches = {b1, b2}
    Others = {1}
    Page = 1
    Casts <- MCCasts
    MaxBatches = 2
    MaxFaults = 1
SYMMETRY Renamings
INVARIANTS DedupInv NewestNotDropped
