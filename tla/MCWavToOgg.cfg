SPECIFICATION FairSpec
CONSTANTS
    Ratios <- MCRatios
    ChunkSizes = {0, 1, 2, 3}
    MaxFrames = 9
    Scales = {1, 2}
    Lookaheads = {1, 2, 3}
    FrameSizes = {2, 3}
    Channels = {1, 2}
    ChunkFrames = 3
    MaxBytes = 18
    MaxPackets = 20
INVARIANTS
    NothingLost
    PlaysInput
    GranulesRise
    EndMarked
PROPERTIES
    Ends
CHECK_DEADLOCK FALSE
