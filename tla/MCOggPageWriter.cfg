SPECIFICATION Spec
CONSTANTS
    MaxSegs = 3
    MaxPageGranules = 0
    DefaultMaxPageGranules = 3
    GranuleMod = 16
    Laces <- MCLaces
    Granules <- MCGranules
    Serial = Serial
    MaxPackets = 5
INVARIANTS
    PageLimits
    PageHeadersRight
    StreamIntegrity
    SpanBounded
\* the stream ends
CHECK_DEADLOCK FALSE
