\* A timeout in the middle of an answer puts the reader off the frames.
CONSTANTS
    None = None
    DeviceRoles = {uut}
    Reasons = {}
    Commands <- StartOrAsk
    MaxTests = 2
    MaxRestarts = 0
    Sessions = {s1}
    HeaderBytes = 2
    PayloadSizes = {1}
    JunkLengths = {}
    MaxCalls = 2
CHECK_DEADLOCK FALSE
SPECIFICATION Spec
INVARIANT LengthsArePrefixes
