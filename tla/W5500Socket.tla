---------------------------- MODULE W5500Socket ----------------------------
(* The socket registers of the W5500 as the driver in src/ sees them: the   *)
(* status Sn_SR, the source port Sn_PORT and the number of received bytes   *)
(* Sn_RX_RSR of every hardware socket, the commands the driver writes to    *)
(* Sn_CR, and the steps the chip and the remote peer take on their own.     *)
(* The chip is not part of the repository: what its statuses mean is taken  *)
(* from how the driver uses them.                                           *)
EXTENDS Integers

CONSTANTS
    MAX_SOCK_NUM,   \* number of hardware sockets
    RxCap,          \* bound: most unread units a receive buffer holds
    ServerPorts,    \* local ports of EthernetServer objects
    OtherPort       \* stands for every ephemeral or UDP local port

ASSUME SocketAssumption ==
    /\ MAX_SOCK_NUM \in Nat \ {0}
    /\ RxCap \in Nat \ {0}
    /\ ServerPorts \subseteq Nat \ {0}
    /\ OtherPort \in (Nat \ {0}) \ ServerPorts

VARIABLES SnSR, SnPORT, SnRX_RSR

chipVars == <<SnSR, SnPORT, SnRX_RSR>>

Sock == 0 .. MAX_SOCK_NUM - 1

Statuses == {"CLOSED", "INIT", "LISTEN", "SYNSENT", "SYNRECV", "ESTABLISHED",
             "FIN_WAIT", "CLOSING", "TIME_WAIT", "CLOSE_WAIT", "LAST_ACK",
             "UDP"}

Connected == {"ESTABLISHED", "CLOSE_WAIT"}

\* A closing handshake this side has started and the chip has not finished.
HalfClosed == {"FIN_WAIT", "CLOSING", "TIME_WAIT", "LAST_ACK"}

\* Statuses in which a retransmission timeout or a RST closes the socket.
Handshaking == {"SYNSENT", "SYNRECV"}

Abortable == Handshaking \union Connected \union HalfClosed

ChipInit ==
    /\ SnSR = [s \in Sock |-> "CLOSED"]
    /\ SnPORT = [s \in Sock |-> 0]
    /\ SnRX_RSR = [s \in Sock |-> 0]

----------------------------------------------------------------------------
(* Commands written to Sn_CR. *)

SetStatus(s, status) ==
    /\ SnSR' = [SnSR EXCEPT ![s] = status]
    /\ UNCHANGED <<SnPORT, SnRX_RSR>>

CmdCLOSE(s) == SetStatus(s, "CLOSED")

CmdLISTEN(s) == SetStatus(s, "LISTEN")

CmdCONNECT(s) == SetStatus(s, "SYNSENT")

\* DISCON sends a FIN on a connection and gives up a socket without one.
CmdDISCON(s) ==
    \/ SnSR[s] = "ESTABLISHED" /\ SetStatus(s, "FIN_WAIT")
    \/ SnSR[s] = "CLOSE_WAIT" /\ SetStatus(s, "LAST_ACK")
    \/ SnSR[s] \notin Connected /\ \/ SetStatus(s, "CLOSED")
                                   \/ UNCHANGED chipVars

\* Sn_MR and Sn_PORT are set and OPEN is executed: the buffers are emptied.
CmdOPEN(s, status, p) ==
    /\ SnSR' = [SnSR EXCEPT ![s] = status]
    /\ SnPORT' = [SnPORT EXCEPT ![s] = p]
    /\ SnRX_RSR' = [SnRX_RSR EXCEPT ![s] = 0]

\* RECV after one unit has been copied out of the receive buffer.
CmdRECV(s) ==
    /\ SnRX_RSR' = [SnRX_RSR EXCEPT ![s] = @ - 1]
    /\ UNCHANGED <<SnSR, SnPORT>>

----------------------------------------------------------------------------
(* Steps of the chip and of the peer: they happen between any two register *)
(* accesses of the driver.                                                  *)

ChipMoves(s, from, to) == SnSR[s] = from /\ SetStatus(s, to)

ChipHandshake(s) ==
    \/ ChipMoves(s, "SYNSENT", "ESTABLISHED")
    \/ ChipMoves(s, "SYNRECV", "ESTABLISHED")

ChipSyn(s) == ChipMoves(s, "LISTEN", "SYNRECV")

ChipFin(s) == ChipMoves(s, "ESTABLISHED", "CLOSE_WAIT")

ChipCloseHandshake(s) ==
    \/ ChipMoves(s, "FIN_WAIT", "CLOSING")
    \/ ChipMoves(s, "FIN_WAIT", "TIME_WAIT")
    \/ ChipMoves(s, "CLOSING", "TIME_WAIT")
    \/ ChipMoves(s, "TIME_WAIT", "CLOSED")
    \/ ChipMoves(s, "LAST_ACK", "CLOSED")

\* The peer answers with RST, or retransmissions are exhausted.
ChipAbort(s) == SnSR[s] \in Abortable /\ SetStatus(s, "CLOSED")

ChipData(s) ==
    /\ SnSR[s] \in {"ESTABLISHED", "FIN_WAIT"}
    /\ SnRX_RSR[s] < RxCap
    /\ SnRX_RSR' = [SnRX_RSR EXCEPT ![s] = @ + 1]
    /\ UNCHANGED <<SnSR, SnPORT>>

Chip == \E s \in Sock :
    \/ ChipHandshake(s)
    \/ ChipSyn(s)
    \/ ChipFin(s)
    \/ ChipCloseHandshake(s)
    \/ ChipAbort(s)
    \/ ChipData(s)

ChipTypeOK ==
    /\ SnSR \in [Sock -> Statuses]
    /\ SnPORT \in [Sock -> ServerPorts \union {0, OtherPort}]
    /\ SnRX_RSR \in [Sock -> 0 .. RxCap]
=============================================================================
