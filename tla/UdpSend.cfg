CONSTANTS
    SSIZE = 3
    PTR = 12
    MaxLen = 2
    MaxDraft = 5
SPECIFICATION ReturningSpec
INVARIANTS
    TypeOK
    SentIsWritten
PROPERTIES
    EndPacketReturns
