CONSTANTS
    SSIZE = 2
    PTR = 4
    LENGTHS = 6
    MaxLen = 6
    MaxBytes = 9
SPECIFICATION FairSpec
INVARIANTS
    TypeOK
    FlagIsRight
PROPERTIES
    StreamSpec
    OneSendAtATime
    WriteReturns
    WrittenArrives
