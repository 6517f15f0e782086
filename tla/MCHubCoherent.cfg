\* One connection, two hubs with one id and a third: the registry and the hardware.
CONSTANTS
    None = None
    h1 = h1
    h2 = h2
    l1 = l1
    l2 = l2
    Hubs = {h1, h2}
    Locations = {l1, l2, l3}
    Ports = {1, 2}
    PortsOf <- MCPortsOf
    InitBus <- Twins
    Roles = {master}
    Tasks = {t1}
    Durations <- NoDeadline
    Ops <- EveryOp
    MaxTime = 0
    MaxReplugs = 0
SPECIFICATION Spec
INVARIANT CoherentAtRest
INVARIANT PhysicalExclusive
