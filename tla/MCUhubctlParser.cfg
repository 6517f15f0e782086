\* Every output of up to six lines about two hubs and a port.
CONSTANTS
    None = None
    Hubs = {h1, h2}
    PortNumbers = {1}
    MaxLines = 6
CHECK_DEADLOCK FALSE
SPECIFICATION Spec
INVARIANT TypeOK
INVARIANT SectionsKept
INVARIANT OwnPortsKept
INVARIANT EveryPortOnce
