------------------------- MODULE MCEthernetSockets -------------------------
(* Small instances of EthernetSockets for TLC. *)
EXTENDS EthernetSockets

CONSTANTS out, in, udp

MCOut == {out}
MCIn == {in}
MCUdp == {udp}
MCNone == {}

\* Port 80 is served; 49152 stands for every other local port.
MCPorts == {80}
MCPorts2 == {80, 23}
MCOther == 49152
=============================================================================
