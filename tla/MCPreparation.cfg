SPECIFICATION Spec
CHECK_DEADLOCK FALSE
CONSTANTS
    a1 = a1  w1 = w1  w2 = w2  m1 = m1  p = p  q = q
    Agents = {a1}
    Warmups = {w1, w2}
    Manuals = {m1}
    NoTask = none
    Finger <- MCFinger
    Casts <- MCCasts
    MaxSnapshots = 1
    MaxMishaps = 1
INVARIANTS PreparationInv CacheInUse
PROPERTIES TasksEnd
