CONSTANTS
    SSIZE = 2
    PTR = 4
    LENGTHS = 4
    MaxLen = 5
    MaxBytes = 9
SPECIFICATION FairSpec
PROPERTIES
    WrittenArrives
