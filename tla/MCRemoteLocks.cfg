\* Three connections on two worker threads, requests that nest the locks.
CONSTANTS
    None = None
    DeviceRoles = {uut}
    Reasons = {}
    Commands <- RegistryRequests
    MaxTests = 2
    MaxRestarts = 0
    Tasks = {t1, t2, t3}
    Workers = 2
    HubRequests <- LockingRequests
SPECIFICATION FairSpec
INVARIANT TypeOK
INVARIANT NoCircularWait
PROPERTY ImplementsRegistry
PROPERTY EveryRequestEnds
