CONSTANTS
    SEC = 3
    WRAP = 8
    DEFAULT_LEASE = 4
    Leases <- MCLeases
    PollGap = 7
SPECIFICATION SmoothSpec
INVARIANTS
    TimersWithinLease
