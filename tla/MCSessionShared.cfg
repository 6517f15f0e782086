\* Two sessions of two commands on one remote that may be restarted.
CONSTANTS
    None = None
    DeviceRoles = {uut}
    Reasons = {}
    Commands <- TestCommands
    MaxTests = 2
    MaxRestarts = 1
    Sessions = {s1, s2}
    HeaderBytes = 1
    PayloadSizes = {1}
    JunkLengths = {}
    MaxCalls = 2
CHECK_DEADLOCK FALSE
SYMMETRY SessionSymmetry
SPECIFICATION Spec
INVARIANT FreshAnswers
PROPERTY NoTestReborn
