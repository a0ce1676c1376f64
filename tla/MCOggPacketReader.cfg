SPECIFICATION Spec
CONSTANTS
    Files <- MCFiles
    NoSerial = NoSerial
    NoGranule = 15
    Sent <- MCSent
    MaxFaults = 2
INVARIANTS
    InOrder
    DamageContained
    GranuleIsOwn
\* reading stops at the end of the file
CHECK_DEADLOCK FALSE
