CONSTANTS
    RSIZE = 5
    PTR = 10
    Peers = {1, 2}
    MaxData = 2
    MaxIn = 3
    MaxLen = 2
SPECIFICATION PollingSpec
PROPERTY StoppedCallsReturn
