\* Two clients, three starts of any kind, one reboot, on a device that may have
\* a default route by another interface.
CONSTANTS
    None = None
    AnyAddress = any
    Own = own
    LinkLocal = linklocal
    Tasks = {t1, t2}
    Inet = {own, other}
    Inet6 = {six}
    Gateways4 = {g1, g2}
    Gateways6 = {}
    OnLink <- FamilyLinks
    Elsewhere = {g2}
    Issued <- Asked
    Invocations <- Documented
    MaxStarts = 3
    MaxBoots = 1
CHECK_DEADLOCK FALSE
SPECIFICATION FairSpec
INVARIANT TypeOK
INVARIANT ServingConfigured
INVARIANT StartExplained
INVARIANT ConfiguredHolds
PROPERTY ReportKept
PROPERTY StartEnds
