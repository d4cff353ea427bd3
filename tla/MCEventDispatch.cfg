SPECIFICATION FairSpec
CONSTANTS
    e1 = e1
    e2 = e2
    e3 = e3
    i2 = i2
    i3 = i3
    r1 = r1
    Events <- MCEvents
    Invs <- MCInvs
    EventOf <- MCEventOf
    Gated <- MCGated
    Resources <- MCResources
    ResourceOf <- MCResourceOf
    Batch <- MCBatch
    MaxAttempts = 2
    MaxCrashes = 1
    MaxStops = 1
    MaxCancels = 1
INVARIANTS
    DispatchInv
    CompletedMeansDelivered
    InOrder
PROPERTIES
    ImplementsDelivery
    NoStartAfterSweep
    EventsClose
CHECK_DEADLOCK FALSE
