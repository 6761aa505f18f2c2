CONSTANTS
    SSIZE = 2
    PTR = 4
    LENGTHS = 6
    MaxLen = 6
    MaxBytes = 9
SPECIFICATION Spec
PROPERTIES
    FailsWhenClosed
