CONSTANTS
    BYTE = 3
SPECIFICATION FairReads
INVARIANTS
    NeverTooMuch
    RealValue
PROPERTIES
    ReadEnds
