CONSTANTS
    a = a
    b = b
    None = None
    Servers <- MCServers
    MaxRandom = 1
    MaxRestarts = 1
    MaxTears = 1
    MaxSent = 3
SPECIFICATION Spec
INVARIANTS
    WillRetry
