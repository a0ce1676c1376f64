SPECIFICATION Spec
CONSTANTS
    Streams <- MCStreams
    Cap = 2
    Requests = {2, 8}
    Samples = {0, 1, 3}
    MaxCalls = 3
    PreSkips = {0, 1, 3}
    States = {"ok"}
INVARIANTS
    LengthPlayedAlways
CHECK_DEADLOCK FALSE
