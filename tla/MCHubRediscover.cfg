\* A live reservation and a rediscovery.
CONSTANTS
    None = None
    h1 = h1
    h2 = h2
    l1 = l1
    l2 = l2
    Hubs = {h1}
    Locations = {l1}
    Ports = {1}
    PortsOf <- MCPortsOf
    InitBus <- OneHub
    Roles = {master}
    Tasks = {t1}
    Durations <- NoDeadline
    Ops <- LeaseOps
    MaxTime = 0
    MaxReplugs = 0
SPECIFICATION Spec
PROPERTY LeaseKept
