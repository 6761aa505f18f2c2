CONSTANTS
    RSIZE = 2
    PTR = 4
    LENGTHS = 8
    MaxLen = 4
    MaxBytes = 7
SPECIFICATION Spec
PROPERTIES
    EofIsReal
