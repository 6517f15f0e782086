\* Two connections, every operation, and hubs that are plugged in and out.
CONSTANTS
    None = None
    h1 = h1
    h2 = h2
    l1 = l1
    l2 = l2
    Hubs = {h1, h2}
    Locations = {l1}
    Ports = {1}
    PortsOf <- DisjointPorts
    InitBus <- OneHub
    Roles = {master, uut}
    Tasks = {t1, t2}
    Durations <- ShortOnly
    Ops <- EveryOp
    MaxTime = 1
    MaxReplugs = 1
SYMMETRY TaskSymmetry
SPECIFICATION Spec
INVARIANT TypeOK
INVARIANT NoLeakedGrant
PROPERTY NoResurrection
