SPECIFICATION FairSpec
CONSTANTS
    MaxSegs = 2
    MaxPageGranules = 3
    DefaultMaxPageGranules = 9
    GranuleMod = 16
    Laces <- MCLaces
    Granules <- MCGranules
    Serial = Serial
    MaxPackets = 5
    NoSerial = NoSerial
PROPERTIES
    ImplementsChannel
    EveryPacketArrives
\* the stream ends
CHECK_DEADLOCK FALSE
