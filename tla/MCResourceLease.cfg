SPECIFICATION FairSpec
CONSTANTS
    parent = parent
    child = child
    other = other
    k1 = k1
    k2 = k2
    r1 = r1
    r2 = r2
    NoOwner = NoOwner
    Leases <- MCLeases
    Keys <- MCKeys
    Owners <- MCOwners
    OwnerOf <- MCOwnerOf
    Wants <- MCWants
    Faulty <- MCFaulty
    Ttl = 3
    Interval = 1
    MaxDelay = 1
    Timeout = 2
    MaxFaults = 2
INVARIANTS
    LeaseInv
    LostOnlyWhenFaulty
PROPERTY
    WaitingEnds
