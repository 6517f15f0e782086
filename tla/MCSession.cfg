\* One session of three commands: the reader dropped at any byte of an answer.
CONSTANTS
    None = None
    DeviceRoles = {uut, slave}
    Reasons = {}
    Commands <- MixedCommands
    MaxTests = 3
    MaxRestarts = 1
    Sessions = {s1}
    HeaderBytes = 2
    PayloadSizes = {1, 2}
    JunkLengths = {1, 3}
    MaxCalls = 3
CHECK_DEADLOCK FALSE
SPECIFICATION FairSpec
INVARIANT TypeOK
INVARIANT BrokenOnlyAfterTimeout
PROPERTY ImplementsRequestReply
PROPERTY CommandEnds
PROPERTY RequestsServed
