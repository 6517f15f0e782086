\* Two connections on one hub: leases, deadlines, rediscovery, rollback.
CONSTANTS
    None = None
    h1 = h1
    h2 = h2
    l1 = l1
    l2 = l2
    Hubs = {h1}
    Locations = {l1}
    Ports = {1}
    PortsOf <- MCPortsOf
    InitBus <- OneHub
    Roles = {master, uut}
    Tasks = {t1, t2}
    Durations <- MCDurations
    Ops <- LeaseOps
    MaxTime = 2
    MaxReplugs = 0
SYMMETRY TaskSymmetry
SPECIFICATION Spec
INVARIANT NoLeakedGrant
PROPERTY NoResurrection
PROPERTY EndedByOwnRole
PROPERTY ImplementsLeases
