SPECIFICATION FairSeek
CONSTANTS
    Files <- MCFiles
    NoSerial = NoSerial
    NoGranule = 99
    Sent <- MCSent
    Targets <- MCTargets
    Backup = 5
    Window = 6
    MaxCalls = 1
INVARIANTS
    SeekLands
    SeekFindsBetween
    LengthRight
PROPERTIES
    CallsEnd
\* callers stop calling
CHECK_DEADLOCK FALSE
