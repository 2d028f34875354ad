SPECIFICATION Spec
CONSTANTS
    o1 = o1
    o2 = o2
    Profiles = {o1, o2}
    MaxAttempts = 3
    ProfileOf <- TheFirstTwo
    SweepBatch = 2
    ViewBatch = 1
    MaxFaults = 1
INVARIANT
    NothingMissed
CHECK_DEADLOCK FALSE
