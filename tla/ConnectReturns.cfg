CONSTANTS
    out = out
    in = in
    udp = udp
    NoObj = NoObj
    MAX_SOCK_NUM = 1
    RxCap = 1
    StopPolls = 1
    OutClients <- MCOut
    InClients <- MCIn
    Udps <- MCNone
    ServerPorts <- MCPorts
    OtherPort <- MCOther
SPECIFICATION ConnectSpec
PROPERTIES
    ConnectReturns
