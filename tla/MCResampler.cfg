SPECIFICATION ConverterSpec
CONSTANTS
    Ratios <- MCRatios
    ChunkSizes = {0, 1, 2, 7}
    MaxFrames = 40
INVARIANTS
    ChunkingInvisible
    CountExact
\* the stream ends
CHECK_DEADLOCK FALSE
