SPECIFICATION FairSpec
CONSTANTS
    d1 = d1
    d2 = d2
    d3 = d3
    i1 = i1
    Deliveries = {d1, d2, d3}
    Integrations = {i1}
    Owner <- Owners
    Waits = 2
    BatchLimit = 2
    MaxFaults = 1
INVARIANTS
    DeliveryInv
    CallsBounded
PROPERTIES
    KeepsPromise
    Settles
CHECK_DEADLOCK FALSE
