CONSTANTS
    out = out
    in = in
    udp = udp
    NoObj = NoObj
    MAX_SOCK_NUM = 2
    RxCap = 1
    StopPolls = 0
    OutClients <- MCNone
    InClients <- MCIn
    Udps <- MCNone
    ServerPorts <- MCPorts2
    OtherPort <- MCOther
SPECIFICATION PollingSpec
PROPERTIES
    AcceptAddsNoListener
    AcceptDropsNoData
    KeepsListening
