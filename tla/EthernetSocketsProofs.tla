----------------------- MODULE EthernetSocketsProofs -----------------------
(* Safety of the socket pool for every number of sockets, objects, server   *)
(* ports and polls, proved with TLAPS.                                      *)
EXTENDS EthernetSockets, TLAPS

USE DEF Sock

(* TypeOK is inductive by itself. *)

LEMMA InitType == Init => TypeOK
  BY SocketAssumption, ObjectAssumption
  DEF Init, ChipInit, TypeOK, ChipTypeOK, CpuStates, Labels, Idle, Statuses

\* What a step does to the thread stays within its type.
LEMMA ReturnType == Return => cpu' \in CpuStates
  BY SocketAssumption, ObjectAssumption DEF Return, CpuStates, Labels, Idle

LEMMA GotoType ==
  ASSUME TypeOK, NEW label \in Labels, Goto(label)
  PROVE  cpu' \in CpuStates
  BY DEF TypeOK, Goto, CpuStates

LEMMA LoopType ==
  ASSUME TypeOK, NEW label \in Labels, NEW k \in Sock, Loop(label, k)
  PROVE  cpu' \in CpuStates
  BY DEF TypeOK, Loop, CpuStates

LEMMA MoreType ==
  ASSUME TypeOK, More
  PROVE  cpu.i + 1 \in Sock
  BY SocketAssumption DEF TypeOK, CpuStates, More

\* An object that gives its socket back has none.
LEMMA ReleaseType ==
  ASSUME TypeOK, NEW o, sock' = [sock EXCEPT ![o] = MAX_SOCK_NUM]
  PROVE  sock' \in [Objects -> 0 .. MAX_SOCK_NUM]
<1>1. MAX_SOCK_NUM \in 0 .. MAX_SOCK_NUM
  BY SocketAssumption
<1>2. QED
  BY <1>1 DEF TypeOK

LEMMA OwnedSockType ==
  ASSUME TypeOK, NEW o \in Objects, sock[o] # MAX_SOCK_NUM
  PROVE  sock[o] \in Sock
<1>1. sock[o] \in 0 .. MAX_SOCK_NUM
  BY DEF TypeOK
<1>2. QED
  BY <1>1, SocketAssumption

LEMMA AcceptReturnType ==
  ASSUME TypeOK, AcceptReturn
  PROVE  cpu' \in CpuStates
<1>1. "available.scan" \in Labels /\ "write.scan" \in Labels /\ 0 \in Sock
  BY SocketAssumption DEF Labels
<1>2. QED
  BY <1>1, ReturnType, LoopType DEF AcceptReturn

LEMMA AcceptNextType ==
  ASSUME TypeOK, NEW heard \in BOOLEAN, AcceptNext(heard)
  PROVE  cpu' \in CpuStates
<1>1. CASE More
  <2>1. cpu' = [cpu EXCEPT !.pc = "accept.scan", !.i = cpu.i + 1,
                           !.listening = heard, !.polls = 0]
    BY <1>1 DEF AcceptNext
  <2>2. cpu.i + 1 \in Sock
    BY <1>1, MoreType
  <2>3. "accept.scan" \in Labels /\ 0 \in 0 .. StopPolls
    BY ObjectAssumption DEF Labels
  <2>4. QED
    BY <2>1, <2>2, <2>3 DEF TypeOK, CpuStates
<1>2. CASE ~More /\ heard
  BY <1>2, AcceptReturnType DEF AcceptNext
<1>3. CASE ~More /\ ~heard
  <2>1. "begin.scan" \in Labels /\ 0 \in Sock
    BY SocketAssumption DEF Labels
  <2>2. QED
    BY <1>3, <2>1, LoopType DEF AcceptNext
<1>4. QED
  BY <1>1, <1>2, <1>3

----------------------------------------------------------------------------
(* The chip's registers keep their types under every command and step. *)

LEMMA SetStatusType ==
  ASSUME TypeOK, NEW s, NEW status \in Statuses, SetStatus(s, status)
  PROVE  ChipTypeOK'
  BY DEF TypeOK, ChipTypeOK, SetStatus

LEMMA OpenType ==
  ASSUME TypeOK, NEW s, NEW status \in Statuses,
         NEW p \in ServerPorts \union {0, OtherPort}, CmdOPEN(s, status, p)
  PROVE  ChipTypeOK'
<1>1. 0 \in 0 .. RxCap
  BY SocketAssumption
<1>2. QED
  BY <1>1 DEF TypeOK, ChipTypeOK, CmdOPEN

LEMMA UnchangedChipType ==
  ASSUME TypeOK, UNCHANGED chipVars
  PROVE  ChipTypeOK'
  BY DEF TypeOK, ChipTypeOK, chipVars

LEMMA DisconnectType ==
  ASSUME TypeOK, NEW s, CmdDISCON(s)
  PROVE  ChipTypeOK'
<1>1. {"FIN_WAIT", "LAST_ACK", "CLOSED"} \subseteq Statuses
  BY DEF Statuses
<1>2. QED
  BY <1>1, SetStatusType, UnchangedChipType DEF CmdDISCON

LEMMA ReceiveType ==
  ASSUME TypeOK, NEW s, SnRX_RSR[s] > 0, CmdRECV(s)
  PROVE  ChipTypeOK'
<1>1. CASE s \in Sock
  BY <1>1, SocketAssumption DEF TypeOK, ChipTypeOK, CmdRECV
<1>2. CASE s \notin Sock
  BY <1>2, SocketAssumption DEF TypeOK, ChipTypeOK, CmdRECV
<1>3. QED
  BY <1>1, <1>2

LEMMA EnvironmentType ==
  ASSUME TypeOK, Environment
  PROVE  TypeOK'
<1>1. PICK s \in Sock :
        \/ ChipHandshake(s) \/ ChipSyn(s) \/ ChipFin(s)
        \/ ChipCloseHandshake(s) \/ ChipAbort(s) \/ ChipData(s)
  BY DEF Environment, Chip
<1>2. ASSUME ChipData(s)
      PROVE  ChipTypeOK'
  <2>1. SnRX_RSR[s] + 1 \in 0 .. RxCap
    BY <1>2, SocketAssumption DEF ChipData, TypeOK, ChipTypeOK
  <2>2. QED
    BY <1>2, <2>1 DEF ChipData, TypeOK, ChipTypeOK
<1>3. ASSUME ~ChipData(s)
      PROVE  ChipTypeOK'
  <2>1. \E status \in Statuses : SetStatus(s, status)
    BY <1>1, <1>3
    DEF ChipHandshake, ChipSyn, ChipFin, ChipCloseHandshake, ChipAbort,
        ChipMoves, Statuses
  <2>2. QED
    BY <2>1, SetStatusType
<1>4. ChipTypeOK'
  BY <1>2, <1>3
<1>5. QED
  BY <1>4 DEF Environment, TypeOK

----------------------------------------------------------------------------

LEMMA ConnectType ==
  ASSUME TypeOK,
         \/ \E c \in OutClients : Connect(c)
         \/ ConnectScan \/ ConnectOpen \/ ConnectRefused \/ ConnectCommand
         \/ ConnectPoll \/ ConnectRepoll
  PROVE  TypeOK'
<1> USE SocketAssumption
<1>1. ASSUME NEW c \in OutClients, Connect(c)
      PROVE  TypeOK'
  <2>1. cpu' \in CpuStates
    BY <1>1 DEF Connect, TypeOK, CpuStates, Labels, Objects, Clients
  <2>2. QED
    BY <1>1, <2>1, UnchangedChipType DEF Connect, TypeOK
<1>2. ASSUME ConnectScan
      PROVE  TypeOK'
  <2>1. cpu' \in CpuStates
    BY <1>2, GotoType, LoopType, MoreType, ReturnType DEF ConnectScan, Labels
  <2>2. sock' \in [Objects -> 0 .. MAX_SOCK_NUM]
    BY <1>2 DEF ConnectScan, TypeOK, CpuStates
  <2>3. QED
    BY <1>2, <2>1, <2>2, UnchangedChipType DEF ConnectScan, TypeOK
<1>3. ASSUME ConnectOpen
      PROVE  TypeOK'
  <2>1. cpu' \in CpuStates
    BY <1>3, GotoType DEF ConnectOpen, Labels
  <2>2. ChipTypeOK'
    BY <1>3, OpenType DEF ConnectOpen, Statuses
  <2>3. QED
    BY <1>3, <2>1, <2>2 DEF ConnectOpen, TypeOK
<1>4. ASSUME ConnectRefused
      PROVE  TypeOK'
  <2>1. sock' \in [Objects -> 0 .. MAX_SOCK_NUM]
    BY <1>4, ReleaseType DEF ConnectRefused
  <2>2. QED
    BY <1>4, <2>1, ReturnType, UnchangedChipType DEF ConnectRefused, TypeOK
<1>5. ASSUME ConnectCommand
      PROVE  TypeOK'
  <2>1. cpu' \in CpuStates
    BY <1>5, GotoType DEF ConnectCommand, Labels
  <2>2. ChipTypeOK'
    BY <1>5, SetStatusType DEF ConnectCommand, CmdCONNECT, Statuses
  <2>3. QED
    BY <1>5, <2>1, <2>2 DEF ConnectCommand, TypeOK
<1>6. ASSUME ConnectPoll
      PROVE  TypeOK'
  <2>1. cpu' \in CpuStates
    BY <1>6, GotoType, ReturnType DEF ConnectPoll, Labels
  <2>2. QED
    BY <1>6, <2>1, UnchangedChipType DEF ConnectPoll, TypeOK
<1>7. ASSUME ConnectRepoll
      PROVE  TypeOK'
  <2>1. cpu' \in CpuStates
    BY <1>7, GotoType, ReturnType DEF ConnectRepoll, Labels
  <2>2. sock' \in [Objects -> 0 .. MAX_SOCK_NUM]
    BY <1>7 DEF ConnectRepoll, TypeOK
  <2>3. QED
    BY <1>7, <2>1, <2>2, UnchangedChipType DEF ConnectRepoll, TypeOK
<1>8. QED
  BY <1>1, <1>2, <1>3, <1>4, <1>5, <1>6, <1>7

LEMMA StopType ==
  ASSUME TypeOK,
         \/ \E c \in Clients : Stop(c)
         \/ StopDisconnect \/ StopPoll \/ StopForce \/ StopDone
  PROVE  TypeOK'
<1> USE SocketAssumption
<1>1. ASSUME NEW c \in Clients, Stop(c)
      PROVE  TypeOK'
  <2>1. sock[c] \in Sock
    BY <1>1, OwnedSockType DEF Stop, Objects
  <2>2. cpu' \in CpuStates
    BY <1>1, <2>1 DEF Stop, TypeOK, CpuStates, Labels, Objects
  <2>3. QED
    BY <1>1, <2>2, UnchangedChipType DEF Stop, TypeOK
<1>2. ASSUME StopDisconnect
      PROVE  TypeOK'
  <2>1. cpu' \in CpuStates
    BY <1>2, GotoType DEF StopDisconnect, Labels
  <2>2. QED
    BY <1>2, <2>1, DisconnectType DEF StopDisconnect, TypeOK
<1>3. ASSUME StopPoll
      PROVE  TypeOK'
  <2>1. ASSUME cpu' = [cpu EXCEPT !.polls = @ + 1], cpu.polls < StopPolls
        PROVE  cpu' \in CpuStates
    <3>1. cpu \in CpuStates /\ cpu.polls \in 0 .. StopPolls
      BY DEF TypeOK, CpuStates
    <3>2. cpu.polls + 1 \in 0 .. StopPolls
      BY <2>1, <3>1, ObjectAssumption
    <3>3. QED
      BY <2>1, <3>1, <3>2 DEF CpuStates
  <2>2. cpu' \in CpuStates
    BY <1>3, <2>1, GotoType DEF StopPoll, Labels
  <2>3. QED
    BY <1>3, <2>2, UnchangedChipType DEF StopPoll, TypeOK
<1>4. ASSUME StopForce
      PROVE  TypeOK'
  <2>1. cpu' \in CpuStates
    BY <1>4, GotoType DEF StopForce, Labels
  <2>2. ChipTypeOK'
    BY <1>4, SetStatusType DEF StopForce, CmdCLOSE, Statuses
  <2>3. QED
    BY <1>4, <2>1, <2>2 DEF StopForce, TypeOK
<1>5. ASSUME StopDone
      PROVE  TypeOK'
  <2>1. cpu.listening \in BOOLEAN
    BY DEF TypeOK, CpuStates
  <2>2. cpu' \in CpuStates
    BY <1>5, <2>1, AcceptNextType, ReturnType DEF StopDone
  <2>3. sock' \in [Objects -> 0 .. MAX_SOCK_NUM]
    BY <1>5 DEF StopDone, TypeOK
  <2>4. server_port' \in [Sock -> ServerPorts \union {0}]
    BY <1>5 DEF StopDone, TypeOK
  <2>5. QED
    BY <1>5, <2>2, <2>3, <2>4, UnchangedChipType DEF StopDone, TypeOK
<1>6. QED
  BY <1>1, <1>2, <1>3, <1>4, <1>5

LEMMA UdpType ==
  ASSUME TypeOK,
         \/ \E u \in Udps : UdpBegin(u) \/ UdpStop(u)
         \/ UdpScan \/ UdpOpen
  PROVE  TypeOK'
<1> USE SocketAssumption
<1>1. ASSUME NEW u \in Udps, UdpBegin(u)
      PROVE  TypeOK'
  <2>1. cpu' \in CpuStates
    BY <1>1 DEF UdpBegin, TypeOK, CpuStates, Labels, Objects
  <2>2. QED
    BY <1>1, <2>1, UnchangedChipType DEF UdpBegin, TypeOK
<1>2. ASSUME NEW u \in Udps, UdpStop(u)
      PROVE  TypeOK'
  <2>1. ChipTypeOK'
    BY <1>2, SetStatusType DEF UdpStop, CmdCLOSE, Statuses
  <2>2. sock' \in [Objects -> 0 .. MAX_SOCK_NUM]
    BY <1>2, ReleaseType DEF UdpStop
  <2>3. server_port' \in [Sock -> ServerPorts \union {0}]
    BY <1>2 DEF UdpStop, TypeOK
  <2>4. QED
    BY <1>2, <2>1, <2>2, <2>3 DEF UdpStop, TypeOK
<1>3. ASSUME UdpScan
      PROVE  TypeOK'
  <2>1. cpu' \in CpuStates
    BY <1>3, GotoType, LoopType, MoreType, ReturnType DEF UdpScan, Labels
  <2>2. sock' \in [Objects -> 0 .. MAX_SOCK_NUM]
    BY <1>3 DEF UdpScan, TypeOK, CpuStates
  <2>3. QED
    BY <1>3, <2>1, <2>2, UnchangedChipType DEF UdpScan, TypeOK
<1>4. ASSUME UdpOpen
      PROVE  TypeOK'
  <2>1. ChipTypeOK'
    BY <1>4, OpenType DEF UdpOpen, Statuses
  <2>2. QED
    BY <1>4, <2>1, ReturnType DEF UdpOpen, TypeOK
<1>5. QED
  BY <1>1, <1>2, <1>3, <1>4

LEMMA BeginType ==
  ASSUME TypeOK,
         \/ \E p \in ServerPorts : ServerBegin(p)
         \/ BeginScan \/ BeginOpen \/ BeginListen \/ BeginPort
  PROVE  TypeOK'
<1> USE SocketAssumption
<1>1. ASSUME NEW p \in ServerPorts, ServerBegin(p)
      PROVE  TypeOK'
  <2>1. cpu' \in CpuStates
    BY <1>1 DEF ServerBegin, TypeOK, CpuStates, Labels
  <2>2. QED
    BY <1>1, <2>1, UnchangedChipType DEF ServerBegin, TypeOK
<1>2. ASSUME BeginScan
      PROVE  TypeOK'
  <2>1. cpu' \in CpuStates
    BY <1>2, GotoType, LoopType, MoreType, AcceptReturnType
    DEF BeginScan, Labels
  <2>2. QED
    BY <1>2, <2>1, UnchangedChipType DEF BeginScan, TypeOK
<1>3. ASSUME BeginOpen
      PROVE  TypeOK'
  <2>1. cpu' \in CpuStates
    BY <1>3, GotoType DEF BeginOpen, Labels
  <2>2. cpu.port \in ServerPorts \union {0, OtherPort}
    BY DEF TypeOK, CpuStates
  <2>3. ChipTypeOK'
    BY <1>3, <2>2, OpenType DEF BeginOpen, Statuses
  <2>4. QED
    BY <1>3, <2>1, <2>3 DEF BeginOpen, TypeOK
<1>4. ASSUME BeginListen
      PROVE  TypeOK'
  <2>1. cpu' \in CpuStates
    BY <1>4, GotoType DEF BeginListen, Labels
  <2>2. ChipTypeOK'
    BY <1>4, SetStatusType, UnchangedChipType
    DEF BeginListen, CmdLISTEN, Statuses
  <2>3. QED
    BY <1>4, <2>1, <2>2 DEF BeginListen, TypeOK
<1>5. ASSUME BeginPort
      PROVE  TypeOK'
  <2>1. cpu.port \in ServerPorts \union {0}
    BY DEF TypeOK, CpuStates
  <2>2. server_port' \in [Sock -> ServerPorts \union {0}]
    BY <1>5, <2>1 DEF BeginPort, TypeOK
  <2>3. QED
    BY <1>5, <2>2, AcceptReturnType, UnchangedChipType DEF BeginPort, TypeOK
<1>6. QED
  BY <1>1, <1>2, <1>3, <1>4, <1>5

LEMMA ServerType ==
  ASSUME TypeOK,
         \/ \E p \in ServerPorts : ServerAvailable(p) \/ ServerWrite(p)
         \/ AcceptScan \/ AcceptStatus \/ AcceptRx
         \/ AvailableScan \/ AvailableRx \/ WriteScan
         \/ SendTaken \/ SendPoll \/ SendClose
  PROVE  TypeOK'
<1> USE SocketAssumption
<1>1. ASSUME NEW p \in ServerPorts, NEW op \in {"available", "write"},
             ServerCall(p, op)
      PROVE  TypeOK'
  <2>1. cpu' \in CpuStates
    BY <1>1 DEF ServerCall, TypeOK, CpuStates, Labels
  <2>2. QED
    BY <1>1, <2>1, UnchangedChipType DEF ServerCall, TypeOK
<1>2. ASSUME AcceptScan \/ AcceptStatus \/ AcceptRx
      PROVE  TypeOK'
  <2>1. cpu.listening \in BOOLEAN /\ TRUE \in BOOLEAN
    BY DEF TypeOK, CpuStates
  <2>2. cpu' \in CpuStates
    BY <1>2, <2>1, GotoType, AcceptNextType
    DEF AcceptScan, AcceptStatus, AcceptRx, Labels
  <2>3. QED
    BY <1>2, <2>2, UnchangedChipType
    DEF AcceptScan, AcceptStatus, AcceptRx, TypeOK
<1>3. ASSUME AvailableNext
      PROVE  cpu' \in CpuStates /\ sock' \in [Objects -> 0 .. MAX_SOCK_NUM]
  <2>1. cpu' \in CpuStates
    BY <1>3, LoopType, MoreType, ReturnType DEF AvailableNext, Labels
  <2>2. sock' \in [Objects -> 0 .. MAX_SOCK_NUM]
    BY <1>3 DEF AvailableNext, TypeOK
  <2>3. QED
    BY <2>1, <2>2
<1>4. ASSUME AvailableScan
      PROVE  TypeOK'
  <2>1. cpu' \in CpuStates /\ sock' \in [Objects -> 0 .. MAX_SOCK_NUM]
    BY <1>3, <1>4, GotoType DEF AvailableScan, Labels, TypeOK
  <2>2. QED
    BY <1>4, <2>1, UnchangedChipType DEF AvailableScan, TypeOK
<1>5. ASSUME AvailableRx
      PROVE  TypeOK'
  <2>1. cpu.i \in 0 .. MAX_SOCK_NUM
    BY DEF TypeOK, CpuStates
  <2>2. ASSUME NEW c \in InClients, sock' = [sock EXCEPT ![c] = cpu.i]
        PROVE  sock' \in [Objects -> 0 .. MAX_SOCK_NUM]
    BY <2>1, <2>2 DEF TypeOK
  <2>3. cpu' \in CpuStates /\ sock' \in [Objects -> 0 .. MAX_SOCK_NUM]
    BY <1>3, <1>5, <2>2, ReturnType DEF AvailableRx
  <2>4. QED
    BY <1>5, <2>3, UnchangedChipType DEF AvailableRx, TypeOK
<1>6. ASSUME WriteNext
      PROVE  cpu' \in CpuStates
  BY <1>6, LoopType, MoreType, ReturnType DEF WriteNext, Labels
<1>7. ASSUME WriteScan
      PROVE  TypeOK'
  <2>1. cpu' \in CpuStates
    BY <1>6, <1>7, GotoType DEF WriteScan, Labels
  <2>2. QED
    BY <1>7, <2>1, UnchangedChipType DEF WriteScan, TypeOK
<1>8. ASSUME SendReturn
      PROVE  cpu' \in CpuStates
  BY <1>6, <1>8, ReturnType DEF SendReturn
<1>9. ASSUME SendTaken \/ SendPoll
      PROVE  TypeOK'
  <2>1. cpu' \in CpuStates
    BY <1>8, <1>9, GotoType DEF SendTaken, SendPoll, Labels
  <2>2. QED
    BY <1>9, <2>1, UnchangedChipType DEF SendTaken, SendPoll, TypeOK
<1>10. ASSUME SendClose
       PROVE  TypeOK'
  <2>1. ChipTypeOK'
    BY <1>10, SetStatusType DEF SendClose, CmdCLOSE, Statuses
  <2>2. QED
    BY <1>8, <1>10, <2>1 DEF SendClose, TypeOK
<1>11. QED
  BY <1>1, <1>2, <1>4, <1>5, <1>7, <1>9, <1>10 DEF ServerAvailable, ServerWrite

LEMMA ClientType ==
  ASSUME TypeOK, NEW c \in Clients, Read(c) \/ Write(c)
  PROVE  TypeOK'
<1>1. ASSUME Read(c)
      PROVE  TypeOK'
  BY <1>1, ReceiveType DEF Read, TypeOK
<1>2. ASSUME Write(c)
      PROVE  TypeOK'
  <2>1. sock[c] \in Sock
    BY <1>2, OwnedSockType DEF Write, Objects
  <2>2. cpu' \in CpuStates
    BY <1>2, <2>1 DEF Write, TypeOK, CpuStates, Labels, Objects
  <2>3. QED
    BY <1>2, <2>2, UnchangedChipType DEF Write, TypeOK
<1>3. QED
  BY <1>1, <1>2

\* The operation under way takes a step, with the peer's help or without.
Running == Driver \/ SendTaken

LEMMA NextType ==
  ASSUME TypeOK, [Next]_vars
  PROVE  TypeOK'
<1>1. ASSUME Sketch
      PROVE  TypeOK'
  BY <1>1, ConnectType, StopType, UdpType, BeginType, ServerType, ClientType
  DEF Sketch
<1>2. ASSUME Running
      PROVE  TypeOK'
  BY <1>2, ConnectType, StopType, UdpType, BeginType, ServerType DEF Running, Driver
<1>3. ASSUME UNCHANGED vars
      PROVE  TypeOK'
  BY <1>3, UnchangedChipType DEF vars, TypeOK
<1>4. QED
  BY <1>1, <1>2, <1>3, EnvironmentType DEF Next, Running

\* Every variable keeps its type: no scan runs past the last socket, and no
\* object ever names a socket that does not exist.
THEOREM TypeCorrect == Spec => []TypeOK
<1>1. QED
  BY InitType, NextType, PTL DEF Spec

----------------------------------------------------------------------------
(* Safety invariants, on top of the type invariant. *)

(* What the chip can do to a socket on its own, whatever its status. *)

LEMMA EnvironmentStep ==
  ASSUME TypeOK, Environment
  PROVE  \E s \in Sock :
           /\ \A t \in Sock : t # s => SnSR'[t] = SnSR[t]
           /\ SnPORT' = SnPORT
           /\ SnSR'[s] # SnSR[s] =>
                /\ SnSR'[s] \in {"ESTABLISHED", "SYNRECV", "CLOSE_WAIT",
                                 "CLOSING", "TIME_WAIT", "CLOSED"}
                /\ SnSR'[s] = "ESTABLISHED" => SnSR[s] \in Handshaking
                /\ SnSR'[s] = "SYNRECV" => SnSR[s] = "LISTEN"
                /\ SnSR'[s] = "CLOSE_WAIT" => SnSR[s] = "ESTABLISHED"
                /\ SnSR'[s] \in HalfClosed => SnSR[s] \in HalfClosed
<1>1. PICK s \in Sock :
        \/ ChipHandshake(s) \/ ChipSyn(s) \/ ChipFin(s)
        \/ ChipCloseHandshake(s) \/ ChipAbort(s) \/ ChipData(s)
  BY DEF Environment, Chip
<1>2. CASE ChipData(s)
  BY <1>2 DEF ChipData
<1>3. CASE ~ChipData(s)
  BY <1>1, <1>3
  DEF ChipHandshake, ChipSyn, ChipFin, ChipCloseHandshake, ChipAbort,
      ChipMoves, SetStatus, TypeOK, ChipTypeOK, HalfClosed, Handshaking
<1>4. QED
  BY <1>2, <1>3

(* What the control-flow operators do to the thread. *)

LEMMA GotoStep ==
  ASSUME TypeOK, NEW label, Goto(label)
  PROVE  /\ cpu'.pc = label /\ cpu'.i = cpu.i /\ cpu'.obj = cpu.obj
         /\ cpu'.port = cpu.port /\ cpu'.caller = cpu.caller
         /\ cpu'.listening = cpu.listening
  BY DEF Goto, TypeOK, CpuStates

LEMMA LoopStep ==
  ASSUME TypeOK, NEW label, NEW k, Loop(label, k)
  PROVE  /\ cpu'.pc = label /\ cpu'.i = k /\ cpu'.obj = cpu.obj
         /\ cpu'.port = cpu.port /\ cpu'.caller = cpu.caller
         /\ cpu'.listening = cpu.listening
  BY DEF Loop, TypeOK, CpuStates

LEMMA ReturnStep ==
  ASSUME Return
  PROVE  cpu' = Idle /\ cpu'.pc = "idle" /\ cpu'.obj = NoObj
  BY DEF Return, Idle

LEMMA AcceptReturnStep ==
  ASSUME TypeOK, AcceptReturn
  PROVE  \/ cpu' = Idle /\ cpu'.pc = "idle"
         \/ cpu'.pc \in {"available.scan", "write.scan"}
  BY ReturnStep, LoopStep DEF AcceptReturn

\* accept() goes on behind a socket, is over, or has to begin().
Continues(heard) ==
  \/ /\ More /\ cpu'.pc = "accept.scan" /\ cpu'.i = cpu.i + 1
     /\ cpu'.listening = heard
     /\ cpu'.obj = cpu.obj /\ cpu'.port = cpu.port
     /\ cpu'.caller = cpu.caller
  \/ /\ ~More /\ ~heard /\ cpu'.pc = "begin.scan"
     /\ cpu'.obj = cpu.obj /\ cpu'.port = cpu.port
     /\ cpu'.caller = cpu.caller
  \/ cpu' = Idle /\ cpu'.pc = "idle"
  \/ cpu'.pc \in {"available.scan", "write.scan"}

LEMMA AcceptNextStep ==
  ASSUME TypeOK, NEW heard \in BOOLEAN, AcceptNext(heard)
  PROVE  Continues(heard)
<1> USE DEF Continues
<1>1. CASE More
  <2>1. PICK k : k = cpu.i + 1
    OBVIOUS
  <2>2. cpu' = [cpu EXCEPT !.pc = "accept.scan", !.i = k,
                           !.listening = heard, !.polls = 0]
    BY <1>1, <2>1 DEF AcceptNext
  <2>3. QED
    BY <1>1, <2>1, <2>2 DEF TypeOK, CpuStates
<1>2. CASE ~More /\ heard
  BY <1>2, AcceptReturnStep DEF AcceptNext
<1>3. CASE ~More /\ ~heard
  BY <1>3, LoopStep DEF AcceptNext
<1>4. QED
  BY <1>1, <1>2, <1>3

\* The label behind it.
LEMMA AcceptNextLabel ==
  ASSUME TypeOK, NEW heard \in BOOLEAN, AcceptNext(heard)
  PROVE  \/ cpu' = Idle /\ cpu'.pc = "idle"
         \/ cpu'.pc \in {"accept.scan", "begin.scan", "available.scan",
                        "write.scan"}
<1>1. Continues(heard)
  BY AcceptNextStep
<1>2. QED
  BY <1>1 DEF Continues

LEMMA AcceptLabel ==
  ASSUME TypeOK, \/ AcceptScan \/ AcceptStatus \/ AcceptRx
                 \/ StopDone /\ cpu.obj = NoObj
  PROVE  \/ cpu' = Idle /\ cpu'.pc = "idle"
         \/ cpu'.pc \in {"accept.scan", "begin.scan", "available.scan",
                        "write.scan", "accept.status", "accept.rx",
                        "stop.disconnect"}
<1>1. cpu.listening \in BOOLEAN /\ TRUE \in BOOLEAN
  BY DEF TypeOK, CpuStates
<1>2. QED
  BY <1>1, AcceptNextLabel, GotoStep
  DEF AcceptScan, AcceptStatus, AcceptRx, StopDone

LEMMA AcceptNextSteps ==
  ASSUME TypeOK
  PROVE  /\ AcceptNext(TRUE) => Continues(TRUE)
         /\ AcceptNext(cpu.listening) => Continues(cpu.listening)
<1>1. cpu.listening \in BOOLEAN
  BY DEF TypeOK, CpuStates
<1>2. AcceptNext(TRUE) => Continues(TRUE)
  BY AcceptNextStep, Zenon
<1>3. AcceptNext(cpu.listening) => Continues(cpu.listening)
  BY <1>1, AcceptNextStep, Zenon
<1>4. QED
  BY <1>2, <1>3

----------------------------------------------------------------------------
(* What a step that ends a send, or starts an operation, does. *)

USE DEF At, chipVars

LEMMA SendReturnStep ==
  ASSUME TypeOK, SendReturn
  PROVE  (cpu' = Idle /\ cpu'.pc = "idle") \/ cpu'.pc = "write.scan"
  BY ReturnStep, LoopStep DEF SendReturn, WriteNext

\* Sockets keep their port, and their status unless it becomes CLOSED.
OnlyCloses ==
  /\ SnPORT' = SnPORT
  /\ \A s \in Sock : SnSR'[s] \in {SnSR[s], "CLOSED"}

LEMMA OnlyClosesUnchanged ==
  ASSUME TypeOK, UNCHANGED <<SnSR, SnPORT>>
  PROVE  OnlyCloses
  BY DEF OnlyCloses

LEMMA OnlyClosesCommand ==
  ASSUME TypeOK, NEW s, CmdCLOSE(s) \/ CmdRECV(s)
  PROVE  OnlyCloses
  BY DEF OnlyCloses, CmdCLOSE, CmdRECV, SetStatus, TypeOK, ChipTypeOK

Starts(p, label, o, k) ==
  /\ cpu'.pc = label /\ cpu'.port = p /\ cpu'.obj = o /\ cpu'.i = k
  /\ cpu'.listening = FALSE
  /\ UNCHANGED <<chipVars, server_port, sock>>

LEMMA SketchStep ==
  ASSUME TypeOK, IdleClean, Sketch
  PROVE  /\ At("idle")
         /\ \/ cpu' = cpu /\ OnlyCloses
            \/ \E c \in OutClients : Starts(0, "connect.scan", c, 0)
            \/ \E c \in Clients : \E label \in {"stop.disconnect", "send.wait"} :
                  Starts(0, label, c, sock[c])
            \/ \E u \in Udps : Starts(0, "udp.scan", u, 0)
            \/ \E p \in ServerPorts : /\ Starts(p, "begin.scan", NoObj, 0)
                                     /\ cpu'.caller = "sketch"
            \/ \E p \in ServerPorts : /\ Starts(p, "accept.scan", NoObj, 0)
                                     /\ cpu'.caller # "sketch"
<1> USE DEF IdleClean, Idle, Starts
<1>1. CASE \E c \in OutClients : Connect(c)
  BY <1>1 DEF Connect
<1>2. CASE \E c \in Clients : Stop(c)
  BY <1>2 DEF Stop
<1>3. CASE \E c \in Clients : Read(c)
  BY <1>3, OnlyClosesCommand DEF Read
<1>9. CASE \E c \in Clients : Write(c)
  BY <1>9 DEF Write
<1>4. CASE \E u \in Udps : UdpBegin(u)
  BY <1>4 DEF UdpBegin
<1>5. CASE \E u \in Udps : UdpStop(u)
  BY <1>5, OnlyClosesCommand DEF UdpStop
<1>6. CASE \E p \in ServerPorts : ServerBegin(p)
  BY <1>6 DEF ServerBegin
<1>7. CASE \E p \in ServerPorts : ServerAvailable(p) \/ ServerWrite(p)
  <2>1. PICK p \in ServerPorts, op \in {"available", "write"} :
          ServerCall(p, op)
    BY <1>7 DEF ServerAvailable, ServerWrite
  <2>2. Starts(p, "accept.scan", NoObj, 0) /\ cpu'.caller # "sketch"
    BY <2>1 DEF ServerCall
  <2>3. QED
    BY <2>1, <2>2 DEF ServerCall
<1>8. QED
  BY <1>1, <1>2, <1>3, <1>4, <1>5, <1>6, <1>7, <1>9 DEF Sketch

----------------------------------------------------------------------------
(* One lemma per part of PoolInv: the part is preserved by every step from  *)
(* a state in which the parts it depends on hold.                           *)

LEMMA IdleStep ==
  ASSUME TypeOK, IdleClean, [Next]_vars
  PROVE  IdleClean'
<1> USE GotoStep, LoopStep, ReturnStep DEF IdleClean
<1>1. CASE Environment
  BY <1>1 DEF Environment
<1>2. CASE Sketch
  BY <1>2
  DEF Sketch, Connect, Stop, Read, Write, UdpBegin, UdpStop, ServerBegin,
      ServerAvailable, ServerWrite, ServerCall, TypeOK, CpuStates
<1>3. CASE \/ ConnectScan \/ ConnectOpen \/ ConnectRefused \/ ConnectCommand
           \/ ConnectPoll \/ ConnectRepoll \/ UdpScan \/ UdpOpen
  BY <1>3
  DEF ConnectScan, ConnectOpen, ConnectRefused, ConnectCommand, ConnectPoll,
      ConnectRepoll, UdpScan, UdpOpen
<1>4. CASE \/ StopDisconnect \/ StopPoll \/ StopForce
           \/ BeginScan \/ BeginOpen \/ BeginListen \/ BeginPort
  BY <1>4, AcceptReturnStep
  DEF StopDisconnect, StopPoll, StopForce, BeginScan, BeginOpen, BeginListen,
      BeginPort, TypeOK, CpuStates
<1>5. CASE StopDone \/ AcceptScan \/ AcceptStatus \/ AcceptRx
  BY <1>5, AcceptLabel DEF StopDone
<1>6. CASE \/ AvailableScan \/ AvailableRx \/ WriteScan
           \/ SendTaken \/ SendPoll \/ SendClose
  BY <1>6, SendReturnStep
  DEF AvailableScan, AvailableRx, AvailableNext, WriteScan, WriteNext,
      SendTaken, SendPoll, SendClose
<1>7. CASE UNCHANGED vars
  BY <1>7 DEF vars, Idle
<1>8. QED
  BY <1>1, <1>2, <1>3, <1>4, <1>5, <1>6, <1>7 DEF Next, Running, Driver

LEMMA TakerStep ==
  ASSUME TypeOK, IdleClean, TakerHasSocket, [Next]_vars
  PROVE  TakerHasSocket'
<1> USE GotoStep, LoopStep, ReturnStep DEF TakerHasSocket, ConnectHolds
<1>1. CASE Environment
  BY <1>1 DEF Environment
<1>2. CASE Sketch
  BY <1>2, SketchStep DEF Starts
<1>3. CASE ConnectScan
  <2>1. cpu.obj \in OutClients /\ cpu.i \in Sock
    BY <1>3 DEF ConnectScan, TypeOK, CpuStates
  <2>2. sock' = [sock EXCEPT ![cpu.obj] = cpu.i] => sock'[cpu.obj] = cpu.i
    BY <2>1 DEF TypeOK, Objects, Clients
  <2>3. QED
    BY <1>3, <2>1, <2>2 DEF ConnectScan
<1>4. CASE UdpScan
  <2>1. cpu.obj \in Udps /\ cpu.i \in Sock
    BY <1>4 DEF UdpScan, TypeOK, CpuStates
  <2>2. sock' = [sock EXCEPT ![cpu.obj] = cpu.i] => sock'[cpu.obj] = cpu.i
    BY <2>1 DEF TypeOK, Objects
  <2>3. QED
    BY <1>4, <2>1, <2>2 DEF UdpScan
<1>5. CASE ConnectOpen \/ ConnectRefused \/ ConnectCommand \/ ConnectPoll
           \/ ConnectRepoll \/ UdpOpen
  BY <1>5
  DEF ConnectOpen, ConnectRefused, ConnectCommand, ConnectPoll, ConnectRepoll,
      UdpOpen
<1>6. CASE \/ StopDisconnect \/ StopPoll \/ StopForce
           \/ BeginScan \/ BeginOpen \/ BeginListen \/ BeginPort
  BY <1>6, AcceptReturnStep
  DEF StopDisconnect, StopPoll, StopForce, BeginScan, BeginOpen, BeginListen,
      BeginPort, TypeOK, CpuStates
<1>7. CASE StopDone \/ AcceptScan \/ AcceptStatus \/ AcceptRx
  BY <1>7, AcceptLabel DEF StopDone
<1>8. CASE \/ AvailableScan \/ AvailableRx \/ WriteScan
           \/ SendTaken \/ SendPoll \/ SendClose
  BY <1>8, SendReturnStep
  DEF AvailableScan, AvailableRx, AvailableNext, WriteScan, WriteNext,
      SendTaken, SendPoll, SendClose
<1>9. CASE UNCHANGED vars
  BY <1>9 DEF vars
<1>10. QED
  BY <1>1, <1>2, <1>3, <1>4, <1>5, <1>6, <1>7, <1>8, <1>9 DEF Next, Running, Driver

LEMMA HalfClosedStep ==
  ASSUME TypeOK, IdleClean, HalfClosedOnlyInStop, [Next]_vars
  PROVE  HalfClosedOnlyInStop'
<1> USE DEF HalfClosedOnlyInStop, Idle, HalfClosed
<1>1. CASE Environment
  BY <1>1, EnvironmentStep DEF Environment
<1>2. CASE Sketch
  BY <1>2, SketchStep DEF OnlyCloses, Starts
<1>3. CASE StopDisconnect
  <2>1. cpu.i \in Sock
    BY DEF TypeOK, CpuStates
  <2>2. cpu'.pc = "stop.poll" /\ cpu'.i = cpu.i
    BY <1>3, GotoStep DEF StopDisconnect
  <2>3. \A s \in Sock : s # cpu.i => SnSR'[s] = SnSR[s]
    BY <1>3 DEF StopDisconnect, CmdDISCON, SetStatus, TypeOK, ChipTypeOK
  <2>4. QED
    BY <1>3, <2>1, <2>2, <2>3 DEF StopDisconnect
<1>8. CASE StopPoll \/ StopForce \/ StopDone
  <2>1. cpu.i \in Sock
    BY DEF TypeOK, CpuStates
  <2>2. CASE StopPoll
    <3>1. cpu'.i = cpu.i /\ cpu'.pc \in {"stop.poll", "stop.force", "stop.done"}
          /\ SnSR' = SnSR /\ (SnSR[cpu.i] # "CLOSED" => cpu'.pc # "stop.done")
      BY <2>2, GotoStep DEF StopPoll, TypeOK, CpuStates
    <3>2. QED
      BY <2>1, <2>2, <3>1 DEF StopPoll
  <2>3. CASE StopForce
    BY <2>1, <2>3
    DEF StopForce, CmdCLOSE, SetStatus, TypeOK, ChipTypeOK
  <2>4. CASE StopDone
    BY <2>4 DEF StopDone
  <2>5. QED
    BY <1>8, <2>2, <2>3, <2>4
<1>4. CASE \/ ConnectScan \/ ConnectRefused \/ ConnectPoll \/ ConnectRepoll
           \/ UdpScan \/ BeginScan \/ BeginPort
           \/ AcceptScan \/ AcceptStatus \/ AcceptRx
           \/ AvailableScan \/ AvailableRx \/ WriteScan
           \/ SendTaken \/ SendPoll
  BY <1>4
  DEF ConnectScan, ConnectRefused, ConnectPoll, ConnectRepoll, UdpScan,
      BeginScan, BeginPort, AcceptScan, AcceptStatus, AcceptRx,
      AvailableScan, AvailableRx, WriteScan, SendTaken, SendPoll
<1>5. CASE \/ ConnectOpen \/ ConnectCommand \/ UdpOpen \/ BeginOpen
           \/ BeginListen \/ SendClose
  BY <1>5
  DEF ConnectOpen, ConnectCommand, UdpOpen, BeginOpen, BeginListen, SendClose,
      CmdOPEN, CmdCONNECT, CmdLISTEN, CmdCLOSE, SetStatus,
      TypeOK, ChipTypeOK
<1>6. CASE UNCHANGED vars
  BY <1>6 DEF vars
<1>7. QED
  BY <1>1, <1>2, <1>3, <1>4, <1>5, <1>6, <1>8 DEF Next, Running, Driver

----------------------------------------------------------------------------
(* Where a label is reached from, and what changes a status register. *)

LEMMA LabelOrigin ==
  ASSUME TypeOK, Running
  PROVE  /\ cpu'.pc \in {"connect.scan", "connect.open"} => ConnectScan
         /\ cpu'.pc = "connect.command" => ConnectOpen
         /\ cpu'.pc \in {"udp.scan", "udp.open"} => UdpScan
         /\ cpu'.pc = "begin.open" => BeginScan
         /\ cpu'.pc = "begin.listen" => BeginOpen
         /\ cpu'.pc = "begin.port" => BeginListen
         /\ cpu'.pc = "accept.status" => AcceptScan
         /\ cpu'.pc = "accept.rx" => AcceptStatus
         /\ cpu'.pc = "stop.disconnect" => AcceptRx
         /\ cpu'.pc = "stop.poll" => StopDisconnect \/ StopPoll
         /\ cpu'.pc = "stop.force" => StopPoll
         /\ cpu'.pc = "stop.done" => StopPoll \/ StopForce
         /\ cpu'.pc = "accept.scan" =>
              \/ AcceptScan \/ AcceptStatus \/ AcceptRx
              \/ StopDone /\ cpu.obj = NoObj
         /\ cpu'.pc = "begin.scan" =>
              \/ BeginScan \/ AcceptScan \/ AcceptStatus \/ AcceptRx
              \/ StopDone /\ cpu.obj = NoObj
<1> USE GotoStep, LoopStep, ReturnStep
<1>1. CASE \/ ConnectScan \/ ConnectOpen \/ ConnectRefused \/ ConnectCommand
           \/ ConnectPoll \/ ConnectRepoll \/ UdpScan \/ UdpOpen
  <2>1. CASE ConnectScan \/ UdpScan
    BY <2>1 DEF ConnectScan, UdpScan
  <2>2. CASE \/ ConnectOpen \/ ConnectRefused \/ ConnectCommand
             \/ ConnectPoll \/ ConnectRepoll \/ UdpOpen
    BY <2>2
    DEF ConnectOpen, ConnectRefused, ConnectCommand, ConnectPoll,
        ConnectRepoll, UdpOpen
  <2>3. QED
    BY <1>1, <2>1, <2>2
<1>2. CASE StopDisconnect \/ StopPoll \/ StopForce
  BY <1>2 DEF StopDisconnect, StopPoll, StopForce, TypeOK, CpuStates
<1>3. CASE BeginScan \/ BeginOpen \/ BeginListen \/ BeginPort
  BY <1>3, AcceptReturnStep DEF BeginScan, BeginOpen, BeginListen, BeginPort
<1>4. ASSUME AcceptNext(TRUE) \/ AcceptNext(cpu.listening)
      PROVE  cpu'.pc \in {"accept.scan", "begin.scan", "available.scan",
                          "write.scan", "idle"}
  <2>1. cpu.listening \in BOOLEAN /\ TRUE \in BOOLEAN
    BY DEF TypeOK, CpuStates
  <2>2. QED
    BY <1>4, <2>1, AcceptNextLabel
<1>5. CASE StopDone \/ AcceptScan \/ AcceptStatus \/ AcceptRx
  <2>1. CASE StopDone
    BY <1>4, <2>1 DEF StopDone
  <2>2. CASE AcceptScan
    <3>1. CASE AcceptNext(TRUE) \/ AcceptNext(cpu.listening)
      BY <1>4, <2>2, <3>1
    <3>2. CASE Goto("accept.status")
      BY <2>2, <3>2
    <3>3. QED
      BY <2>2, <3>1, <3>2 DEF AcceptScan
  <2>3. CASE AcceptStatus
    <3>1. CASE AcceptNext(TRUE) \/ AcceptNext(cpu.listening)
      BY <1>4, <2>3, <3>1
    <3>2. CASE Goto("accept.rx")
      BY <2>3, <3>2
    <3>3. QED
      BY <2>3, <3>1, <3>2 DEF AcceptStatus
  <2>4. CASE AcceptRx
    <3>1. CASE AcceptNext(TRUE) \/ AcceptNext(cpu.listening)
      BY <1>4, <2>4, <3>1
    <3>2. CASE Goto("stop.disconnect")
      BY <2>4, <3>2
    <3>3. QED
      BY <2>4, <3>1, <3>2 DEF AcceptRx
  <2>5. QED
    BY <1>5, <2>1, <2>2, <2>3, <2>4
<1>6. CASE \/ AvailableScan \/ AvailableRx \/ WriteScan
           \/ SendTaken \/ SendPoll \/ SendClose
  BY <1>6, SendReturnStep
  DEF AvailableScan, AvailableRx, AvailableNext, WriteScan, WriteNext,
      SendTaken, SendPoll, SendClose
<1>7. QED
  BY <1>1, <1>2, <1>3, <1>5, <1>6 DEF Running, Driver

Becomes(s, status, p) == SnSR'[s] = status /\ SnPORT'[s] = p

LEMMA StatusOrigin ==
  ASSUME TypeOK, Running, NEW s \in Sock
  PROVE  \/ Becomes(s, SnSR[s], SnPORT[s])
         \/ Becomes(s, "CLOSED", SnPORT[s])
         \/ /\ ConnectOpen /\ s = sock[cpu.obj]
            /\ Becomes(s, "INIT", OtherPort)
         \/ UdpOpen /\ s = sock[cpu.obj] /\ Becomes(s, "UDP", OtherPort)
         \/ BeginOpen /\ s = cpu.i /\ Becomes(s, "INIT", cpu.port)
         \/ /\ BeginListen /\ s = cpu.i /\ SnSR[s] = "INIT"
            /\ Becomes(s, "LISTEN", SnPORT[s])
         \/ /\ ConnectCommand /\ s = sock[cpu.obj]
            /\ Becomes(s, "SYNSENT", SnPORT[s])
         \/ /\ StopDisconnect /\ s = cpu.i
            /\ \/ SnSR[s] = "ESTABLISHED" /\ Becomes(s, "FIN_WAIT", SnPORT[s])
               \/ SnSR[s] = "CLOSE_WAIT" /\ Becomes(s, "LAST_ACK", SnPORT[s])
<1> USE DEF Becomes
<1>1. CASE OnlyCloses
  BY <1>1 DEF OnlyCloses
<1>2. CASE StopForce \/ SendClose
  BY <1>2, OnlyClosesCommand, <1>1 DEF StopForce, SendClose
<1>3. CASE ConnectOpen \/ UdpOpen \/ BeginOpen
  BY <1>3 DEF ConnectOpen, UdpOpen, BeginOpen, CmdOPEN, TypeOK, ChipTypeOK
<1>4. CASE BeginListen \/ ConnectCommand
  BY <1>4
  DEF BeginListen, ConnectCommand, CmdLISTEN, CmdCONNECT, SetStatus, TypeOK,
      ChipTypeOK
<1>5. CASE StopDisconnect
  BY <1>5
  DEF StopDisconnect, CmdDISCON, SetStatus, TypeOK, ChipTypeOK, Connected
<1>6. CASE \/ ConnectScan \/ ConnectRefused \/ ConnectPoll \/ ConnectRepoll
           \/ StopPoll \/ StopDone \/ UdpScan \/ BeginScan \/ BeginPort
           \/ AcceptScan \/ AcceptStatus \/ AcceptRx
           \/ AvailableScan \/ AvailableRx \/ WriteScan
           \/ SendTaken \/ SendPoll
  BY <1>6
  DEF ConnectScan, ConnectRefused, ConnectPoll, ConnectRepoll, StopPoll,
      StopDone, UdpScan, BeginScan, BeginPort, AcceptScan, AcceptStatus,
      AcceptRx, AvailableScan, AvailableRx, WriteScan, SendTaken, SendPoll
<1>7. QED
  BY <1>2, <1>3, <1>4, <1>5, <1>6 DEF Running, Driver

\* Only begin() and the end of a stop() write server_port.
LEMMA ServerPortOrigin ==
  ASSUME TypeOK, Running, NEW s \in Sock, server_port'[s] # server_port[s]
  PROVE  /\ s = cpu.i
         /\ \/ StopDone /\ server_port'[s] = 0
            \/ BeginPort /\ server_port'[s] = cpu.port
         /\ UNCHANGED chipVars
<1>1. CASE StopDone \/ BeginPort
  BY <1>1 DEF StopDone, BeginPort, TypeOK
<1>2. CASE ~(StopDone \/ BeginPort)
  BY <1>2
  DEF Running, Driver, ConnectScan, ConnectOpen, ConnectRefused, ConnectCommand,
      ConnectPoll, ConnectRepoll, StopDisconnect, StopPoll, StopForce,
      UdpScan, UdpOpen, BeginScan, BeginOpen, BeginListen, AcceptScan,
      AcceptStatus, AcceptRx, AvailableScan, AvailableRx, WriteScan,
      SendTaken, SendPoll, SendClose
<1>3. QED
  BY <1>1, <1>2

----------------------------------------------------------------------------
(* A socket found reusable by a scan is still so when it is opened. *)

LEMMA ScanStep ==
  ASSUME TypeOK, IdleClean, TakerHasSocket, HalfClosedOnlyInStop,
         ScanStillTrue, [Next]_vars
  PROVE  ScanStillTrue'
<1> USE DEF ScanStillTrue
<1>1. CASE Environment
  <2>1. UNCHANGED <<cpu, sock>> /\ cpu.i \in Sock
    BY <1>1 DEF Environment, TypeOK, CpuStates
  <2>2. \A s \in Sock :
          /\ SnSR[s] = "CLOSED" => SnSR'[s] = "CLOSED"
          /\ SnSR[s] = "CLOSE_WAIT" => SnSR'[s] \in {"CLOSE_WAIT", "CLOSED"}
    BY <1>1, EnvironmentStep DEF HalfClosed, Handshaking
  <2>3. QED
    BY <2>1, <2>2 DEF TakerHasSocket, ConnectHolds
<1>2. CASE Sketch
  BY <1>2, SketchStep DEF Starts
<1>3. CASE Running
  <2>1. CASE ConnectScan /\ cpu'.pc = "connect.open"
    <3>1. /\ SnSR[cpu.i] \in ConnectFree /\ SnSR' = SnSR /\ cpu'.obj = cpu.obj
          /\ sock' = [sock EXCEPT ![cpu.obj] = cpu.i]
      BY <2>1, GotoStep, LoopStep, ReturnStep DEF ConnectScan
    <3>2. cpu.obj \in Objects /\ cpu.i \in Sock
      BY <2>1
      DEF ConnectScan, TakerHasSocket, Objects, Clients, TypeOK, CpuStates
    <3>3. sock'[cpu'.obj] = cpu.i
      BY <3>1, <3>2 DEF TypeOK
    <3>4. SnSR[cpu.i] # "FIN_WAIT"
      BY <2>1, <3>2 DEF ConnectScan, HalfClosedOnlyInStop, HalfClosed
    <3>5. QED
      BY <2>1, <3>1, <3>3, <3>4 DEF ConnectFree
  <2>2. CASE UdpScan /\ cpu'.pc = "udp.open"
    <3>1. /\ SnSR[cpu.i] \in UdpFree /\ SnSR' = SnSR /\ cpu'.obj = cpu.obj
          /\ sock' = [sock EXCEPT ![cpu.obj] = cpu.i]
      BY <2>2, GotoStep, LoopStep, ReturnStep DEF UdpScan
    <3>2. cpu.obj \in Objects /\ cpu.i \in Sock
      BY <2>2 DEF UdpScan, TakerHasSocket, Objects, TypeOK, CpuStates
    <3>3. sock'[cpu'.obj] = cpu.i
      BY <3>1, <3>2 DEF TypeOK
    <3>4. SnSR[cpu.i] # "FIN_WAIT"
      BY <2>2, <3>2 DEF UdpScan, HalfClosedOnlyInStop, HalfClosed
    <3>5. QED
      BY <2>2, <3>1, <3>3, <3>4 DEF UdpFree
  <2>3. CASE BeginScan /\ cpu'.pc = "begin.open"
    BY <2>3, GotoStep, LoopStep, AcceptReturnStep DEF BeginScan, Idle
  <2>4. QED
    BY <1>3, <2>1, <2>2, <2>3, LabelOrigin
<1>4. CASE UNCHANGED vars
  BY <1>4 DEF vars
<1>5. QED
  BY <1>1, <1>2, <1>3, <1>4 DEF Next, Running

\* Outgoing connections keep the port they were opened with.
LEMMA ActivePortStep ==
  ASSUME TypeOK, IdleClean, TakerHasSocket, ActivePort, [Next]_vars
  PROVE  ActivePort'
<1> USE DEF ActivePort
<1>1. CASE Environment
  BY <1>1, EnvironmentStep
  DEF Environment, TakerHasSocket, ConnectHolds, HalfClosed, Handshaking
<1>2. CASE Sketch
  BY <1>2, SketchStep DEF Starts, OnlyCloses
<1>3. CASE Running
  <2>1. ASSUME NEW s \in Sock, SnSR'[s] = "SYNSENT"
        PROVE  SnPORT'[s] = OtherPort
    BY <1>3, <2>1, StatusOrigin DEF Becomes, ConnectCommand
  <2>2. ASSUME ConnectOpen
        PROVE  SnPORT'[sock'[cpu'.obj]] = OtherPort
    <3>1. sock' = sock /\ cpu'.obj = cpu.obj /\ sock[cpu.obj] \in Sock
      BY <2>2, GotoStep DEF ConnectOpen, TakerHasSocket, ConnectHolds
    <3>2. QED
      BY <2>2, <3>1 DEF ConnectOpen, CmdOPEN, TypeOK, ChipTypeOK
  <2>3. QED
    BY <1>3, <2>1, <2>2, LabelOrigin
<1>4. CASE UNCHANGED vars
  BY <1>4 DEF vars
<1>5. QED
  BY <1>1, <1>2, <1>3, <1>4 DEF Next, Running

LEMMA StopClosedStep ==
  ASSUME TypeOK, IdleClean, StopClosed, [Next]_vars
  PROVE  StopClosed'
<1> USE DEF StopClosed
<1>1. CASE Environment
  <2>1. cpu.i \in Sock /\ cpu' = cpu
    BY <1>1 DEF Environment, TypeOK, CpuStates
  <2>2. QED
    BY <1>1, <2>1, EnvironmentStep DEF HalfClosed, Handshaking
<1>2. CASE Sketch
  BY <1>2, SketchStep DEF Starts
<1>3. CASE Running
  <2>1. CASE StopPoll /\ cpu'.pc = "stop.done"
    BY <2>1, GotoStep DEF StopPoll, TypeOK, CpuStates
  <2>2. CASE StopForce
    BY <2>2, GotoStep
    DEF StopForce, CmdCLOSE, SetStatus, TypeOK, ChipTypeOK, CpuStates
  <2>3. QED
    BY <1>3, <2>1, <2>2, LabelOrigin
<1>4. CASE UNCHANGED vars
  BY <1>4 DEF vars
<1>5. QED
  BY <1>1, <1>2, <1>3, <1>4 DEF Next, Running

LEMMA BeginPortStep ==
  ASSUME TypeOK, IdleClean, BeginPortSet, [Next]_vars
  PROVE  BeginPortSet'
<1> USE DEF BeginPortSet
<1>1. CASE Environment
  BY <1>1, EnvironmentStep DEF Environment
<1>2. CASE Sketch
  BY <1>2, SketchStep DEF Starts
<1>3. CASE Running
  <2>1. CASE BeginOpen
    BY <2>1, GotoStep
    DEF BeginOpen, CmdOPEN, TypeOK, ChipTypeOK, CpuStates
  <2>2. CASE BeginListen
    BY <2>2, GotoStep DEF BeginListen, CmdLISTEN, SetStatus
  <2>3. QED
    BY <1>3, <2>1, <2>2, LabelOrigin
<1>4. CASE UNCHANGED vars
  BY <1>4 DEF vars
<1>5. QED
  BY <1>1, <1>2, <1>3, <1>4 DEF Next, Running

----------------------------------------------------------------------------
(* accept() and begin() keep to their port and their temporary client. *)

ServerLabels == AcceptLabels \union BeginLabels \union StopLabels

LEMMA ServerKeeps ==
  ASSUME TypeOK, Running, cpu'.pc \in ServerLabels
  PROVE  /\ cpu'.port = cpu.port /\ cpu'.obj = cpu.obj
         /\ cpu'.caller = cpu.caller
<1> DEFINE Keeps == /\ cpu'.port = cpu.port /\ cpu'.obj = cpu.obj
                    /\ cpu'.caller = cpu.caller
<1> USE GotoStep, LoopStep, ReturnStep
    DEF ServerLabels, AcceptLabels, BeginLabels, StopLabels
<1>1. ASSUME NEW heard \in BOOLEAN, AcceptNext(heard)
      PROVE  Keeps
  <2>1. Continues(heard)
    BY <1>1, AcceptNextStep
  <2>2. QED
    BY <2>1 DEF Continues
<1>2. AcceptNext(TRUE) => Keeps
  BY <1>1, Zenon
<1>3. AcceptNext(cpu.listening) => Keeps
  <2>1. cpu.listening \in BOOLEAN
    BY DEF TypeOK, CpuStates
  <2>2. QED
    BY <1>1, <2>1, Zenon
<1>4. CASE AcceptScan
  BY <1>2, <1>3, <1>4 DEF AcceptScan
<1>5. CASE AcceptStatus
  BY <1>3, <1>5 DEF AcceptStatus
<1>6. CASE AcceptRx
  BY <1>3, <1>6 DEF AcceptRx
<1>7. CASE StopDone
  BY <1>3, <1>7 DEF StopDone
<1>8. CASE StopDisconnect \/ StopPoll \/ StopForce
  BY <1>8 DEF StopDisconnect, StopPoll, StopForce, TypeOK, CpuStates
<1>9. CASE BeginScan \/ BeginOpen \/ BeginListen
  BY <1>9, AcceptReturnStep DEF BeginScan, BeginOpen, BeginListen
<1>10. QED
  <2>1. \/ AcceptScan \/ AcceptStatus \/ AcceptRx \/ StopDone
        \/ StopDisconnect \/ StopPoll \/ StopForce
        \/ BeginScan \/ BeginOpen \/ BeginListen
    BY LabelOrigin
  <2>2. QED
    BY <2>1, <1>4, <1>5, <1>6, <1>7, <1>8, <1>9

LEMMA ServerOpStep ==
  ASSUME TypeOK, IdleClean, ServerOp, [Next]_vars
  PROVE  ServerOp'
<1> USE DEF ServerOp, Accepting, AcceptLabels, BeginLabels, StopLabels
<1>1. CASE Environment
  BY <1>1 DEF Environment
<1>2. CASE Sketch
  BY <1>2, SketchStep, ObjectAssumption DEF Starts, Clients, Idle, IdleClean
<1>3. CASE Running
  <2>1. CASE cpu'.pc \in AcceptLabels \union BeginLabels \union StopLabels
    <3>1. cpu'.port = cpu.port /\ cpu'.obj = cpu.obj
      BY <1>3, <2>1, ServerKeeps DEF ServerLabels
    <3>2. CASE cpu'.pc \in AcceptLabels \union BeginLabels
      <4>1. \/ AcceptScan \/ AcceptStatus \/ AcceptRx
            \/ StopDone /\ cpu.obj = NoObj
            \/ BeginScan \/ BeginOpen \/ BeginListen
        BY <1>3, <3>2, LabelOrigin
      <4>2. /\ Accepting \/ cpu.pc \in BeginLabels
            /\ cpu.pc \in AcceptLabels \union BeginLabels \/ cpu.obj = NoObj
        BY <4>1
        DEF AcceptScan, AcceptStatus, AcceptRx, StopDone, BeginScan, BeginOpen,
            BeginListen
      <4>3. QED
        BY <3>1, <3>2, <4>2
    <3>3. CASE cpu'.pc \in StopLabels
      <4>1. AcceptRx \/ StopDisconnect \/ StopPoll \/ StopForce
        BY <1>3, <3>3, LabelOrigin
      <4>2. cpu.pc \in AcceptLabels \union StopLabels
        BY <4>1 DEF AcceptRx, StopDisconnect, StopPoll, StopForce
      <4>3. QED
        BY <3>1, <3>3, <4>2
    <3>4. QED
      BY <2>1, <3>2, <3>3
  <2>2. QED
    BY <2>1
<1>4. CASE UNCHANGED vars
  BY <1>4 DEF vars
<1>5. QED
  BY <1>1, <1>2, <1>3, <1>4 DEF Next, Running

LEMMA PassiveStep ==
  ASSUME TypeOK, IdleClean, TakerHasSocket, ActivePort, StopClosed,
         BeginPortSet, PassiveKnown, [Next]_vars
  PROVE  PassiveKnown'
<1> USE DEF PassiveKnown, Connected
<1>1. CASE Environment
  <2>1. OtherPort \notin ServerPorts
    BY SocketAssumption
  <2>2. UNCHANGED <<server_port, cpu>>
    BY <1>1 DEF Environment
  <2>3. QED
    BY <1>1, <2>1, <2>2, EnvironmentStep DEF ActivePort, Handshaking
<1>2. CASE Sketch
  <2>1. CASE \E u \in Udps : UdpStop(u)
    <3>1. PICK u \in Udps : UdpStop(u)
      BY <2>1
    <3>2. \A s \in Sock : s # sock[u] =>
            /\ SnSR'[s] = SnSR[s] /\ SnPORT'[s] = SnPORT[s]
            /\ server_port'[s] = server_port[s]
      BY <3>1 DEF UdpStop, CmdCLOSE, SetStatus, TypeOK, ChipTypeOK
    <3>3. sock[u] \in Sock => SnSR'[sock[u]] = "CLOSED"
      BY <3>1 DEF UdpStop, CmdCLOSE, SetStatus, TypeOK, ChipTypeOK
    <3>4. cpu' = cpu /\ cpu.pc = "idle"
      BY <3>1 DEF UdpStop
    <3>5. QED
      BY <3>2, <3>3, <3>4
  <2>2. CASE ~ \E u \in Udps : UdpStop(u)
    <3>1. server_port' = server_port
      BY <1>2, <2>2
      DEF Sketch, Connect, Stop, Read, Write, UdpBegin, ServerBegin,
          ServerAvailable, ServerWrite, ServerCall
    <3>2. QED
      BY <1>2, <3>1, SketchStep DEF Starts, OnlyCloses
  <2>3. QED
    BY <2>1, <2>2
<1>3. CASE Running
  <2> SUFFICES ASSUME NEW s \in Sock, SnPORT'[s] \in ServerPorts,
                      SnSR'[s] \in {"LISTEN", "SYNRECV"} \union Connected
               PROVE  \/ server_port'[s] = SnPORT'[s]
                      \/ cpu'.pc = "begin.port" /\ s = cpu'.i
    OBVIOUS
  <2>1. CASE BeginListen /\ s = cpu.i
    BY <2>1, GotoStep DEF BeginListen
  <2>2. CASE ~(BeginListen /\ s = cpu.i)
    <3>1. SnSR'[s] = SnSR[s] /\ SnPORT'[s] = SnPORT[s]
      BY <1>3, <2>2, StatusOrigin DEF Becomes
    <3>2. server_port[s] = SnPORT[s] \/ (cpu.pc = "begin.port" /\ s = cpu.i)
      BY <3>1
    <3>3. CASE server_port'[s] = server_port[s]
      <4>1. CASE cpu.pc = "begin.port" /\ s = cpu.i
        <5>1. BeginPort
          BY <1>3, <4>1
          DEF Running, Driver, ConnectScan, ConnectOpen, ConnectRefused,
              ConnectCommand, ConnectPoll, ConnectRepoll, StopDisconnect,
              StopPoll, StopForce, StopDone, UdpScan, UdpOpen, BeginScan,
              BeginOpen, BeginListen, AcceptScan, AcceptStatus, AcceptRx,
              AvailableScan, AvailableRx, WriteScan, SendTaken, SendPoll, SendClose
        <5>2. server_port'[s] = cpu.port
          BY <4>1, <5>1 DEF BeginPort, TypeOK
        <5>3. QED
          BY <3>1, <4>1, <5>2 DEF BeginPortSet
      <4>2. QED
        BY <3>1, <3>2, <3>3, <4>1
    <3>4. CASE server_port'[s] # server_port[s]
      <4>1. s = cpu.i /\ UNCHANGED chipVars
        BY <1>3, <3>4, ServerPortOrigin
      <4>2. ~StopDone
        BY <3>1, <4>1 DEF StopDone, StopClosed
      <4>3. BeginPort /\ server_port'[s] = cpu.port
        BY <1>3, <3>4, <4>2, ServerPortOrigin
      <4>4. QED
        BY <3>1, <4>1, <4>3 DEF BeginPort, BeginPortSet
    <3>5. QED
      BY <3>3, <3>4
  <2>3. QED
    BY <2>1, <2>2
<1>4. CASE UNCHANGED vars
  BY <1>4 DEF vars
<1>5. QED
  BY <1>1, <1>2, <1>3, <1>4 DEF Next, Running

----------------------------------------------------------------------------
(* The two reads of accept() belong together. *)

LEMMA AcceptCheckedStep ==
  ASSUME TypeOK, IdleClean, AcceptChecked, ServerOp, [Next]_vars
  PROVE  AcceptChecked'
<1> USE DEF AcceptChecked
<1>1. CASE Environment
  <2>1. UNCHANGED cpu /\ cpu.i \in Sock
    BY <1>1 DEF Environment, TypeOK, CpuStates
  <2>2. \A s \in Sock :
          /\ SnSR[s] = "CLOSED" => SnSR'[s] = "CLOSED"
          /\ SnSR[s] = "CLOSE_WAIT" => SnSR'[s] \in {"CLOSE_WAIT", "CLOSED"}
    BY <1>1, EnvironmentStep DEF HalfClosed, Handshaking
  <2>3. \A s \in Sock :
          SnSR[s] = "CLOSE_WAIT" => SnRX_RSR'[s] = SnRX_RSR[s]
    <3>1. PICK t \in Sock :
            \/ ChipHandshake(t) \/ ChipSyn(t) \/ ChipFin(t)
            \/ ChipCloseHandshake(t) \/ ChipAbort(t) \/ ChipData(t)
      BY <1>1 DEF Environment, Chip
    <3>2. CASE ChipData(t)
      BY <3>2 DEF ChipData, TypeOK, ChipTypeOK
    <3>3. CASE ~ChipData(t)
      BY <3>1, <3>3
      DEF ChipHandshake, ChipSyn, ChipFin, ChipCloseHandshake, ChipAbort,
          ChipMoves, SetStatus
    <3>4. QED
      BY <3>2, <3>3
  <2>4. QED
    BY <2>1, <2>2, <2>3
<1>2. CASE Sketch
  BY <1>2, SketchStep, ObjectAssumption DEF Starts, Clients
<1>3. CASE Running
  <2>1. CASE AcceptStatus /\ cpu'.pc = "accept.rx"
    <3>1. Goto("accept.rx") => cpu'.i = cpu.i
      BY GotoStep
    <3>2. ASSUME SnSR[cpu.i] # "CLOSE_WAIT"
          PROVE  FALSE
      <4>1. AcceptNext(cpu.listening)
        BY <2>1, <3>2 DEF AcceptStatus
      <4>2. cpu.listening \in BOOLEAN
        BY DEF TypeOK, CpuStates
      <4>3. QED
        BY <2>1, <4>1, <4>2, AcceptNextLabel
    <3>3. QED
      BY <2>1, <3>1, <3>2 DEF AcceptStatus
  <2>2. CASE AcceptRx /\ cpu'.pc = "stop.disconnect"
    <3>1. Goto("stop.disconnect") => cpu'.i = cpu.i
      BY GotoStep
    <3>2. ASSUME SnRX_RSR[cpu.i] # 0
          PROVE  FALSE
      <4>1. AcceptNext(cpu.listening)
        BY <2>2, <3>2 DEF AcceptRx
      <4>2. cpu.listening \in BOOLEAN
        BY DEF TypeOK, CpuStates
      <4>3. QED
        BY <2>2, <4>1, <4>2, AcceptNextLabel
    <3>3. QED
      BY <2>2, <3>1, <3>2 DEF AcceptRx
  <2>3. QED
    BY <1>3, <2>1, <2>2, LabelOrigin
<1>4. CASE UNCHANGED vars
  BY <1>4 DEF vars
<1>5. QED
  BY <1>1, <1>2, <1>3, <1>4 DEF Next, Running

----------------------------------------------------------------------------
(* No second listening socket for a port. *)

\* Only begin() makes a socket listen.
LEMMA ListenOrigin ==
  ASSUME TypeOK, IdleClean, [Next]_vars, NEW s \in Sock, SnSR'[s] = "LISTEN"
  PROVE  /\ SnPORT'[s] = SnPORT[s]
         /\ SnSR[s] = "LISTEN" \/ (BeginListen /\ s = cpu.i)
<1>1. CASE Environment
  BY <1>1, EnvironmentStep
<1>2. CASE Sketch
  BY <1>2, SketchStep DEF Starts, OnlyCloses
<1>3. CASE Running
  BY <1>3, StatusOrigin DEF Becomes
<1>4. CASE UNCHANGED vars
  BY <1>4 DEF vars
<1>5. QED
  BY <1>1, <1>2, <1>3, <1>4 DEF Next, Running

\* When accept() leaves socket i without having heard of a listening socket,
\* socket i is none either.
LEMMA AcceptAdvance ==
  ASSUME TypeOK, ServerOp, PassiveKnown, ScanSoFar,
         \/ AcceptScan \/ AcceptStatus \/ AcceptRx
         \/ StopDone /\ cpu.obj = NoObj
  PROVE  /\ cpu'.pc = "accept.scan" /\ ~cpu'.listening =>
              /\ cpu'.i = cpu.i + 1 /\ ~cpu.listening
              /\ ~ListensFor(cpu.i, cpu.port)
         /\ cpu'.pc = "begin.scan" =>
              /\ ~More /\ ~cpu.listening
              /\ ~ListensFor(cpu.i, cpu.port)
         /\ cpu'.pc \in {"accept.status", "accept.rx", "stop.disconnect"} =>
              /\ cpu'.i = cpu.i /\ cpu'.listening = cpu.listening
              /\ ~cpu.listening => ~ListensFor(cpu.i, cpu.port)
<1>1. /\ cpu.i \in Sock /\ cpu.listening \in BOOLEAN
      /\ cpu.port \in ServerPorts
  BY DEF TypeOK, CpuStates, ServerOp, Accepting, AcceptLabels, StopLabels,
     AcceptScan, AcceptStatus, AcceptRx, StopDone
<1>2. AcceptNext(TRUE) => Continues(TRUE)
  BY AcceptNextSteps
<1>3. AcceptNext(cpu.listening) => Continues(cpu.listening)
  BY AcceptNextSteps
<1>4. AcceptNext(TRUE) =>
        /\ cpu'.pc = "accept.scan" => cpu'.listening
        /\ cpu'.pc \notin {"begin.scan", "accept.status", "accept.rx",
                           "stop.disconnect"}
  BY <1>2 DEF Continues, Idle
<1>5. AcceptNext(cpu.listening) =>
        /\ cpu'.pc = "accept.scan" =>
             cpu'.i = cpu.i + 1 /\ cpu'.listening = cpu.listening
        /\ cpu'.pc = "begin.scan" => ~More /\ ~cpu.listening
        /\ cpu'.pc \notin {"accept.status", "accept.rx", "stop.disconnect"}
  BY <1>3 DEF Continues, Idle
<1>6. CASE AcceptScan
  <2>1. SnSR[cpu.i] = "LISTEN" /\ server_port[cpu.i] = cpu.port
        => AcceptNext(TRUE)
    BY <1>6 DEF AcceptScan
  <2>2. server_port[cpu.i] # cpu.port
        => AcceptNext(cpu.listening) /\ ~ListensFor(cpu.i, cpu.port)
    BY <1>1, <1>6 DEF AcceptScan, PassiveKnown, ListensFor
  <2>3. server_port[cpu.i] = cpu.port /\ SnSR[cpu.i] # "LISTEN"
        => Goto("accept.status") /\ ~ListensFor(cpu.i, cpu.port)
    BY <1>6 DEF AcceptScan, ListensFor
  <2>4. Goto("accept.status") => /\ cpu'.pc = "accept.status" /\ cpu'.i = cpu.i
                                 /\ cpu'.listening = cpu.listening
    BY GotoStep
  <2>5. CASE AcceptNext(TRUE)
    BY <1>4, <2>5
  <2>6. CASE AcceptNext(cpu.listening) /\ ~ListensFor(cpu.i, cpu.port)
    BY <1>5, <2>6
  <2>7. CASE Goto("accept.status") /\ ~ListensFor(cpu.i, cpu.port)
    BY <2>4, <2>7
  <2>8. QED
    BY <2>1, <2>2, <2>3, <2>5, <2>6, <2>7
<1>7. CASE AcceptStatus \/ AcceptRx \/ (StopDone /\ cpu.obj = NoObj)
  <2>1. ~cpu.listening => ~ListensFor(cpu.i, cpu.port)
    BY <1>7
    DEF ScanSoFar, Accepting, AcceptLabels, StopLabels, AcceptStatus, AcceptRx,
        StopDone
  <2>2. CASE AcceptNext(cpu.listening)
    BY <1>5, <2>1, <2>2
  <2>3. CASE Goto("accept.rx") \/ Goto("stop.disconnect")
    <3>1. /\ cpu'.pc \in {"accept.rx", "stop.disconnect"} /\ cpu'.i = cpu.i
          /\ cpu'.listening = cpu.listening
      BY <2>3, GotoStep
    <3>2. QED
      BY <2>1, <3>1
  <2>4. QED
    BY <1>7, <2>2, <2>3 DEF AcceptStatus, AcceptRx, StopDone
<1>8. QED
  BY <1>6, <1>7

LEMMA ScanSoFarStep ==
  ASSUME TypeOK, IdleClean, ServerOp, PassiveKnown, ScanSoFar, [Next]_vars
  PROVE  ScanSoFar'
<1>1. CASE BeginListen
  BY <1>1, GotoStep
  DEF BeginListen, ScanSoFar, Accepting, AcceptLabels, StopLabels
<1> SUFFICES ASSUME ~BeginListen
             PROVE  ScanSoFar'
  BY <1>1
<1>2. \A s \in Sock : \A p : SnSR'[s] = "LISTEN" /\ SnPORT'[s] = p
                             => ListensFor(s, p)
  BY ListenOrigin DEF ListensFor
<1>3. CASE Environment
  BY <1>2, <1>3
  DEF Environment, ScanSoFar, Accepting, AcceptLabels, StopLabels, ListensFor,
      TypeOK, CpuStates
<1>4. CASE UNCHANGED vars
  BY <1>4
  DEF vars, ScanSoFar, Accepting, AcceptLabels, StopLabels, ListensFor
<1>5. CASE Sketch
  <2>1. \A s \in Sock : ~(s < 0)
    BY SocketAssumption DEF Sock
  <2>3. CASE cpu'.caller = "sketch" /\ cpu'.pc = "begin.scan"
    BY <2>3 DEF ScanSoFar, Accepting, AcceptLabels, StopLabels
  <2>4. CASE \E p \in ServerPorts : Starts(p, "accept.scan", NoObj, 0)
    BY <2>1, <2>4
    DEF Starts, ScanSoFar, Accepting, AcceptLabels, StopLabels
  <2>5. CASE cpu'.pc \in {"idle", "connect.scan", "udp.scan", "send.wait"}
    BY <2>5 DEF ScanSoFar, Accepting, AcceptLabels, StopLabels
  <2>6. CASE cpu'.pc = "stop.disconnect" /\ cpu'.obj \in Clients
    BY <2>6, ObjectAssumption
    DEF ScanSoFar, Accepting, AcceptLabels, StopLabels, Clients
  <2>7. QED
    BY <1>5, <2>3, <2>4, <2>5, <2>6, SketchStep DEF Starts
<1>6. CASE Running
  <2>1. ASSUME cpu'.pc \in AcceptLabels \union StopLabels, ~cpu'.listening,
               cpu'.pc \in AcceptLabels \/ cpu'.obj = NoObj
        PROVE  /\ \A s \in Sock : s < cpu'.i => ~ListensFor(s, cpu'.port)
               /\ cpu'.pc # "accept.scan" => ~ListensFor(cpu'.i, cpu'.port)
    <3>1. cpu'.port = cpu.port /\ cpu'.obj = cpu.obj
      BY <1>6, <2>1, ServerKeeps DEF ServerLabels
    <3>2. CASE \/ AcceptScan \/ AcceptStatus \/ AcceptRx
               \/ (StopDone /\ cpu.obj = NoObj)
      <4>1. Accepting
        BY <3>2
        DEF Accepting, AcceptLabels, StopLabels, AcceptScan, AcceptStatus,
            AcceptRx, StopDone
      <4>2. CASE cpu'.pc = "accept.scan"
        <5>1. /\ cpu'.i = cpu.i + 1 /\ ~cpu.listening
              /\ ~ListensFor(cpu.i, cpu.port)
          BY <2>1, <3>2, <4>2, AcceptAdvance
        <5>2. \A s \in Sock : s < cpu.i + 1 => s < cpu.i \/ s = cpu.i
          BY SocketAssumption DEF Sock, TypeOK, CpuStates
        <5>3. QED
          BY <3>1, <4>1, <4>2, <5>1, <5>2 DEF ScanSoFar
      <4>3. CASE cpu'.pc \in {"accept.status", "accept.rx", "stop.disconnect"}
        BY <2>1, <3>1, <3>2, <4>1, <4>3, AcceptAdvance DEF ScanSoFar
      <4>4. QED
        BY <1>6, <2>1, <3>2, <4>2, <4>3, LabelOrigin
        DEF AcceptLabels, StopLabels, AcceptScan, AcceptStatus, AcceptRx,
            StopDone, StopDisconnect, StopPoll, StopForce
    <3>3. CASE StopDisconnect \/ StopPoll \/ StopForce
      <4>1. cpu'.i = cpu.i /\ cpu'.listening = cpu.listening
        BY <3>3, GotoStep
        DEF StopDisconnect, StopPoll, StopForce, TypeOK, CpuStates
      <4>2. cpu.pc \in StopLabels /\ cpu.obj = NoObj
        BY <2>1, <3>1, <3>3, LabelOrigin, <1>6
        DEF StopDisconnect, StopPoll, StopForce, StopLabels, AcceptLabels,
            AcceptScan, AcceptStatus, AcceptRx, StopDone
      <4>3. QED
        BY <2>1, <3>1, <4>1, <4>2
        DEF ScanSoFar, Accepting, StopLabels
    <3>4. QED
      BY <1>6, <2>1, <3>2, <3>3, LabelOrigin DEF AcceptLabels, StopLabels
  <2>2. ASSUME cpu'.pc \in {"begin.scan", "begin.open", "begin.listen"},
               cpu'.caller # "sketch"
        PROVE  \A s \in Sock : ~ListensFor(s, cpu'.port)
    <3>1. cpu'.port = cpu.port /\ cpu.caller # "sketch"
      BY <1>6, <2>2, ServerKeeps DEF ServerLabels, BeginLabels
    <3>2. CASE BeginScan \/ BeginOpen
      BY <3>1, <3>2 DEF BeginScan, BeginOpen, ScanSoFar
    <3>3. CASE /\ cpu'.pc = "begin.scan"
               /\ \/ AcceptScan \/ AcceptStatus \/ AcceptRx
                  \/ (StopDone /\ cpu.obj = NoObj)
      <4>1. ~More /\ ~cpu.listening /\ ~ListensFor(cpu.i, cpu.port)
        BY <3>3, AcceptAdvance
      <4>2. \A s \in Sock : s < cpu.i \/ s = cpu.i
        BY <4>1, SocketAssumption DEF More, Sock, TypeOK, CpuStates
      <4>3. Accepting
        BY <3>3
        DEF Accepting, AcceptLabels, StopLabels, AcceptScan, AcceptStatus,
            AcceptRx, StopDone
      <4>4. QED
        BY <3>1, <4>1, <4>2, <4>3 DEF ScanSoFar
    <3>4. QED
      BY <1>6, <2>2, <3>2, <3>3, LabelOrigin
  <2>3. cpu'.i \in Sock
    BY NextType DEF TypeOK, CpuStates
  <2>4. \A s \in Sock : ListensFor(s, cpu.port)' => ListensFor(s, cpu'.port)
    BY <1>2 DEF ListensFor
  <2>5. Accepting' => \/ cpu'.pc \in AcceptLabels
                      \/ cpu'.pc \in StopLabels /\ cpu'.obj = NoObj
    BY DEF Accepting
  <2>6. QED
    BY <2>1, <2>2, <2>3, <2>4, <2>5 DEF ScanSoFar
<1>7. QED
  BY <1>3, <1>4, <1>5, <1>6 DEF Next, Running

----------------------------------------------------------------------------
(* The invariant of the pool and what follows from it. *)

LEMMA PoolInit == Init => PoolInv
<1> SUFFICES ASSUME Init
             PROVE  PoolInv
  OBVIOUS
<1>1. TypeOK
  BY InitType
<1>2. cpu = Idle /\ \A s \in Sock : SnSR[s] = "CLOSED"
  BY DEF Init, ChipInit
<1>3. QED
  BY <1>1, <1>2
  DEF PoolInv, IdleClean, TakerHasSocket, ConnectHolds, HalfClosedOnlyInStop,
      HalfClosed, ScanStillTrue, ActivePort, StopClosed, BeginPortSet,
      ServerOp, PassiveKnown, Connected, AcceptChecked, ScanSoFar, Accepting, AcceptLabels,
      BeginLabels, StopLabels, Idle

LEMMA PoolStep ==
  ASSUME PoolInv, [Next]_vars
  PROVE  PoolInv'
  BY NextType, IdleStep, TakerStep, HalfClosedStep, ScanStep, ActivePortStep,
     StopClosedStep, BeginPortStep, ServerOpStep, PassiveStep,
     AcceptCheckedStep, ScanSoFarStep
  DEF PoolInv

\* The labels, the registers and the objects fit together in every state.
THEOREM PoolInvariant == Spec => []PoolInv
  BY PoolInit, PoolStep, PTL DEF Spec

\* No socket is in a closing handshake outside the stop() that started it: the
\* FIN_WAIT cases of connect() and EthernetUDP::begin are dead code.
THEOREM NoHalfClosedAtRest == Spec => []HalfClosedOnlyInStop
<1>1. PoolInv => HalfClosedOnlyInStop
  BY DEF PoolInv
<1>2. QED
  BY <1>1, PoolInvariant, PTL

\* A server never loses sight of a socket it listens on or of a connection
\* that came in, whatever stale client variables the sketch stops.
THEOREM ServersKnowTheirSockets == Spec => []PassiveKnown
<1>1. PoolInv => PassiveKnown
  BY DEF PoolInv
<1>2. QED
  BY <1>1, PoolInvariant, PTL

LEMMA ListenStep ==
  ASSUME PoolInv, [Next]_vars, NEW s \in Sock, NEW t \in Sock,
         SnSR[s] # "LISTEN", SnSR'[s] = "LISTEN",
         cpu.caller \in {"available", "write"}
  PROVE  ~ListensFor(t, cpu.port)
<1>1. BeginListen
  BY ListenOrigin DEF PoolInv
<1>2. QED
  BY <1>1 DEF BeginListen, PoolInv, ScanSoFar

\* available() and write() never make a second socket listen beside one that
\* does, whatever connections come in while accept() looks for it and however
\* often the sketch calls them or begin().
THEOREM AcceptKeepsOneListener == Spec => AcceptAddsNoListener
<1>1. PoolInv /\ [Next]_vars =>
        [\A s, t \in Sock :
           /\ SnSR[s] # "LISTEN" /\ SnSR'[s] = "LISTEN"
           /\ cpu.caller \in {"available", "write"}
           => ~ListensFor(t, cpu.port)]_vars
  BY ListenStep
<1>2. QED
  BY <1>1, PoolInvariant, PTL DEF Spec, AcceptAddsNoListener

LEMMA OpenStep ==
  ASSUME PoolInv, [Next]_vars, NEW s \in Sock, SnSR[s] # SnSR'[s],
         SnSR'[s] \in {"INIT", "UDP"}
  PROVE  \/ SnSR[s] = "CLOSED"
         \/ SnSR[s] = "CLOSE_WAIT" /\ At("connect.open")
<1> USE DEF PoolInv
<1>1. CASE Environment
  BY <1>1, EnvironmentStep
<1>2. CASE Sketch
  BY <1>2, SketchStep DEF Starts, OnlyCloses
<1>3. CASE Running
  BY <1>3, StatusOrigin
  DEF Becomes, ScanStillTrue, ConnectOpen, UdpOpen, BeginOpen
<1>4. CASE UNCHANGED vars
  BY <1>4 DEF vars
<1>5. QED
  BY <1>1, <1>2, <1>3, <1>4 DEF Next, Running

\* Opening a socket ends nothing but connections the peer is done with: what a
\* scan has seen still holds when OPEN is executed, however the chip moves.
THEOREM OpenIsSafe == Spec => OpenTakesDeadSocket
<1>1. PoolInv /\ [Next]_vars =>
        [\A s \in Sock :
           SnSR[s] # SnSR'[s] /\ SnSR'[s] \in {"INIT", "UDP"} =>
             \/ SnSR[s] = "CLOSED"
             \/ SnSR[s] = "CLOSE_WAIT" /\ At("connect.open")]_vars
  BY OpenStep
<1>2. QED
  BY <1>1, PoolInvariant, PTL DEF Spec, OpenTakesDeadSocket

LEMMA DropStep ==
  ASSUME PoolInv, [Next]_vars, NEW s \in Sock, SnSR[s] \in Connected,
         SnSR'[s] \in HalfClosed, cpu.obj = NoObj
  PROVE  SnSR[s] = "CLOSE_WAIT" /\ SnRX_RSR[s] = 0
<1> USE DEF PoolInv, Connected, HalfClosed
<1>1. CASE Environment
  BY <1>1, EnvironmentStep
<1>2. CASE Sketch
  BY <1>2, SketchStep DEF Starts, OnlyCloses
<1>3. CASE Running
  BY <1>3, StatusOrigin
  DEF Becomes, AcceptChecked, StopDisconnect
<1>4. CASE UNCHANGED vars
  BY <1>4 DEF vars
<1>5. QED
  BY <1>1, <1>2, <1>3, <1>4 DEF Next, Running

\* A server ends only connections that are finished and read to the end.
THEOREM AcceptIsSafe == Spec => AcceptDropsNoData
<1>1. PoolInv /\ [Next]_vars =>
        [\A s \in Sock :
           SnSR[s] \in Connected /\ SnSR'[s] \in HalfClosed /\ cpu.obj = NoObj =>
             SnSR[s] = "CLOSE_WAIT" /\ SnRX_RSR[s] = 0]_vars
  BY DropStep
<1>2. QED
  BY <1>1, PoolInvariant, PTL DEF Spec, AcceptDropsNoData

----------------------------------------------------------------------------
(* No socket is lost. *)

\* A socket that is not in use stays so until the driver opens it.
LEMMA DeadStaysDead ==
  ASSUME TypeOK, Environment, NEW s \in Sock, SnSR[s] \in {"CLOSED", "INIT"}
  PROVE  SnSR'[s] = SnSR[s]
<1>1. PICK t \in Sock :
        \/ ChipHandshake(t) \/ ChipSyn(t) \/ ChipFin(t)
        \/ ChipCloseHandshake(t) \/ ChipAbort(t) \/ ChipData(t)
  BY DEF Environment, Chip
<1>2. CASE ChipData(t)
  BY <1>2 DEF ChipData
<1>3. CASE ~ChipData(t)
  BY <1>1, <1>3
  DEF ChipHandshake, ChipSyn, ChipFin, ChipCloseHandshake, ChipAbort,
      ChipMoves, SetStatus, TypeOK, ChipTypeOK, Abortable, HalfClosed,
      Handshaking, Connected
<1>4. QED
  BY <1>2, <1>3

LEMMA TakerInOrderStep ==
  ASSUME PoolInv, TakerInOrder, [Next]_vars
  PROVE  TakerInOrder'
<1> USE DEF PoolInv, StopLabels
<1>1. CASE Environment
  <2>1. UNCHANGED <<server_port, sock, cpu>>
    BY <1>1 DEF Environment
  <2>2. At("connect.command") => sock[cpu.obj] \in Sock
    BY DEF TakerHasSocket, ConnectHolds
  <2>3. QED
    BY <1>1, <2>1, <2>2, DeadStaysDead DEF TakerInOrder
<1>2. CASE Sketch
  <2>1. CASE \E c \in OutClients : Connect(c)
    BY <2>1 DEF Connect, TypeOK, CpuStates, TakerInOrder
  <2>2. CASE \E c \in Clients : Stop(c)
    BY <2>2 DEF Stop, TypeOK, CpuStates, TakerInOrder
  <2>3. CASE \E u \in Udps : UdpBegin(u)
    BY <2>3 DEF UdpBegin, TypeOK, CpuStates, TakerInOrder
  <2>7. CASE \E c \in Clients : Write(c)
    BY <2>7 DEF Write, TypeOK, CpuStates, TakerInOrder
  <2>4. CASE cpu' = cpu
    <3>1. cpu.pc = "idle"
      BY <1>2, SketchStep
    <3>2. QED
      BY <2>4, <3>1 DEF TakerInOrder
  <2>5. CASE \E p \in ServerPorts : ServerBegin(p) \/ ServerAvailable(p) \/ ServerWrite(p)
    BY <2>5
    DEF ServerBegin, ServerAvailable, ServerWrite, ServerCall, TypeOK, CpuStates,
        TakerInOrder
  <2>6. QED
    BY <1>2, <2>1, <2>2, <2>3, <2>4, <2>5, <2>7 DEF Sketch, Read, UdpStop
<1>3. CASE Running
  <2>1. CASE cpu'.pc \in {"connect.scan", "udp.scan"}
    <3>1. ConnectScan \/ UdpScan
      BY <1>3, <2>1, LabelOrigin
    <3>2. sock' = sock /\ cpu'.obj = cpu.obj /\ cpu.pc \in {"connect.scan", "udp.scan"}
      BY <2>1, <3>1, GotoStep, LoopStep, ReturnStep DEF ConnectScan, UdpScan
    <3>3. QED
      BY <2>1, <3>2 DEF TakerInOrder
  <2>2. CASE cpu'.pc = "connect.command"
    <3>1. ConnectOpen
      BY <1>3, <2>2, LabelOrigin
    <3>2. cpu'.obj = cpu.obj /\ sock' = sock /\ sock[cpu.obj] \in Sock
      BY <3>1, GotoStep DEF ConnectOpen, TakerHasSocket, ConnectHolds
    <3>3. SnSR'[sock[cpu.obj]] = "INIT"
      BY <3>1, <3>2 DEF ConnectOpen, CmdOPEN, TypeOK, ChipTypeOK
    <3>4. QED
      BY <2>2, <3>2, <3>3 DEF TakerInOrder
  <2>3. CASE cpu'.pc \in StopLabels
    <3>1. CASE AcceptRx
      <4>1. cpu.obj = NoObj /\ cpu'.obj = NoObj
        <5>1. cpu.obj = NoObj
          BY <3>1 DEF AcceptRx, ServerOp, AcceptLabels
        <5>2. cpu'.pc # "idle" /\ cpu'.pc \notin {"available.scan", "write.scan"}
          BY <2>3
        <5>3. Goto("stop.disconnect")
          <6>1. CASE AcceptNext(cpu.listening)
            <7>1. Continues(cpu.listening)
              BY <6>1, AcceptNextSteps
            <7>2. QED
              BY <2>3, <7>1 DEF Continues
          <6>2. QED
            BY <3>1, <6>1 DEF AcceptRx
        <5>4. QED
          BY <5>1, <5>3, GotoStep
      <4>2. QED
        BY <2>3, <4>1 DEF TakerInOrder
    <3>2. CASE StopDisconnect \/ StopPoll \/ StopForce
      <4>1. cpu'.i = cpu.i /\ cpu'.obj = cpu.obj /\ sock' = sock /\ cpu.pc \in StopLabels
        BY <3>2, GotoStep DEF StopDisconnect, StopPoll, StopForce, TypeOK, CpuStates
      <4>2. QED
        BY <2>3, <4>1 DEF TakerInOrder
    <3>3. QED
      BY <1>3, <2>3, <3>1, <3>2, LabelOrigin
  <2>4. QED
    BY <2>1, <2>2, <2>3 DEF TakerInOrder
<1>4. CASE UNCHANGED vars
  BY <1>4 DEF vars, TakerInOrder
<1>5. QED
  BY <1>1, <1>2, <1>3, <1>4 DEF Next, Running

\* What takes a socket from a client or a UDP object.
LEMMA SockOrigin ==
  ASSUME PoolInv, TakerInOrder, Running, NEW o \in OutClients \union Udps,
         sock[o] \in Sock, sock'[o] # sock[o]
  PROVE  SnSR[sock[o]] \in {"CLOSED", "INIT"}
<1> USE DEF PoolInv
<1>1. o \in Objects /\ o # NoObj /\ o \notin InClients
  BY ObjectAssumption DEF Objects, Clients
<1>2. MAX_SOCK_NUM \notin Sock
  BY SocketAssumption
<1>3. CASE ConnectScan \/ UdpScan
  <2>1. o = cpu.obj
    BY <1>1, <1>3 DEF ConnectScan, UdpScan, TypeOK
  <2>2. sock[o] = MAX_SOCK_NUM
    BY <1>3, <2>1 DEF ConnectScan, UdpScan, TakerInOrder
  <2>3. QED
    BY <1>2, <2>2
<1>4. CASE ConnectRefused \/ ConnectRepoll
  <2>1. o = cpu.obj
    BY <1>1, <1>4 DEF ConnectRefused, ConnectRepoll, TypeOK
  <2>2. QED
    BY <1>4, <2>1 DEF ConnectRefused, ConnectRepoll, TakerInOrder
<1>5. CASE StopDone
  <2>1. o = cpu.obj
    BY <1>1, <1>5 DEF StopDone, TypeOK
  <2>2. sock[o] = cpu.i
    BY <1>1, <1>5, <2>1 DEF StopDone, TakerInOrder, StopLabels
  <2>3. QED
    BY <1>5, <2>2 DEF StopDone, StopClosed
<1>6. CASE AvailableScan \/ AvailableRx
  BY <1>1, <1>6 DEF AvailableScan, AvailableRx, AvailableNext, TypeOK
<1>7. CASE \/ ConnectOpen \/ ConnectCommand \/ ConnectPoll
           \/ StopDisconnect \/ StopPoll \/ StopForce \/ UdpOpen
           \/ BeginScan \/ BeginOpen \/ BeginListen \/ BeginPort
           \/ AcceptScan \/ AcceptStatus \/ AcceptRx \/ WriteScan
           \/ SendTaken \/ SendPoll \/ SendClose
  BY <1>7
  DEF ConnectOpen, ConnectCommand, ConnectPoll, StopDisconnect, StopPoll,
      StopForce, UdpOpen, BeginScan, BeginOpen, BeginListen, BeginPort,
      AcceptScan, AcceptStatus, AcceptRx, WriteScan, SendTaken, SendPoll, SendClose
<1>8. QED
  BY <1>3, <1>4, <1>5, <1>6, <1>7 DEF Running, Driver

\* A socket in use that an object can reach stays in reach.
LEMMA ReachableStays ==
  ASSUME PoolInv, TakerInOrder, Running, NEW s \in Sock, Reachable(s),
         SnSR[s] \notin {"CLOSED", "INIT"}, SnPORT'[s] = SnPORT[s]
  PROVE  Reachable(s)'
<1> USE DEF PoolInv
<1>1. CASE SnPORT[s] \in ServerPorts /\ server_port[s] = SnPORT[s]
  <2>1. CASE server_port'[s] = server_port[s]
    BY <1>1, <2>1 DEF Reachable
  <2>2. CASE server_port'[s] # server_port[s]
    <3>1. s = cpu.i /\ \/ StopDone /\ server_port'[s] = 0
                       \/ BeginPort /\ server_port'[s] = cpu.port
      BY <2>2, ServerPortOrigin
    <3>2. ~StopDone
      BY <3>1 DEF StopDone, StopClosed
    <3>3. SnPORT[s] = cpu.port
      BY <3>1, <3>2 DEF BeginPort, BeginPortSet
    <3>4. QED
      BY <1>1, <3>1, <3>2, <3>3 DEF Reachable
  <2>3. QED
    BY <2>1, <2>2
<1>2. CASE \E o \in OutClients \union Udps : sock[o] = s
  <2>1. PICK o \in OutClients \union Udps : sock[o] = s
    BY <1>2
  <2>2. sock'[o] = s
    BY <2>1, SockOrigin
  <2>3. QED
    BY <2>1, <2>2 DEF Reachable
<1>3. QED
  BY <1>1, <1>2 DEF Reachable

LEMMA NoneLostStep ==
  ASSUME PoolInv, TakerInOrder, NoneLost, [Next]_vars
  PROVE  NoneLost'
<1> USE DEF PoolInv
<1>1. CASE Environment
  <2> SUFFICES ASSUME NEW s \in Sock, SnSR'[s] \notin {"CLOSED", "INIT"}
               PROVE  Reachable(s)' \/ (At("begin.port") /\ s = cpu.i)'
    BY DEF NoneLost
  <2>1. SnPORT' = SnPORT /\ UNCHANGED <<server_port, sock, cpu>>
    BY <1>1, EnvironmentStep DEF Environment
  <2>2. SnSR[s] \notin {"CLOSED", "INIT"}
    BY <1>1, DeadStaysDead
  <2>3. QED
    BY <2>1, <2>2 DEF NoneLost, Reachable
<1>2. CASE Sketch
  <2> SUFFICES ASSUME NEW s \in Sock, SnSR'[s] \notin {"CLOSED", "INIT"}
               PROVE  Reachable(s)'
    BY DEF NoneLost
  <2>1. cpu.pc = "idle" /\ SnPORT' = SnPORT /\ SnSR'[s] = SnSR[s]
    BY <1>2, SketchStep DEF OnlyCloses, Starts
  <2>2. Reachable(s)
    BY <2>1 DEF NoneLost
  <2>3. CASE \E u \in Udps : UdpStop(u)
    <3>1. PICK u \in Udps : UdpStop(u)
      BY <2>3
    <3>2. sock[u] # s
      BY <2>1, <3>1 DEF UdpStop, CmdCLOSE, SetStatus, TypeOK, ChipTypeOK
    <3>3. server_port'[s] = server_port[s]
      BY <3>1, <3>2 DEF UdpStop, TypeOK
    <3>4. \A o \in OutClients \union Udps : sock[o] = s => sock'[o] = s
      BY <3>1, <3>2 DEF UdpStop, TypeOK, Objects, Clients
    <3>5. QED
      BY <2>1, <2>2, <3>3, <3>4 DEF Reachable
  <2>4. CASE ~ \E u \in Udps : UdpStop(u)
    <3>1. UNCHANGED <<server_port, sock>>
      BY <1>2, <2>4
      DEF Sketch, Connect, Stop, Read, Write, UdpBegin, ServerBegin,
          ServerAvailable, ServerWrite, ServerCall
    <3>2. QED
      BY <2>1, <2>2, <3>1 DEF Reachable
  <2>5. QED
    BY <2>3, <2>4
<1>3. CASE Running
  <2> SUFFICES ASSUME NEW s \in Sock, SnSR'[s] \notin {"CLOSED", "INIT"}
               PROVE  Reachable(s)' \/ (At("begin.port") /\ s = cpu.i)'
    BY DEF NoneLost
  <2>1. CASE SnSR[s] \notin {"CLOSED", "INIT"} /\ SnPORT'[s] = SnPORT[s]
    <3>1. CASE Reachable(s)
      BY <1>3, <2>1, <3>1, ReachableStays
    <3>2. CASE At("begin.port") /\ s = cpu.i
      <4>1. BeginPort
        BY <1>3, <3>2
        DEF Running, Driver, ConnectScan, ConnectOpen, ConnectRefused, ConnectCommand,
            ConnectPoll, ConnectRepoll, StopDisconnect, StopPoll, StopForce,
            StopDone, UdpScan, UdpOpen, BeginScan, BeginOpen, BeginListen,
            AcceptScan, AcceptStatus, AcceptRx, AvailableScan, AvailableRx,
            WriteScan, SendTaken, SendPoll, SendClose
      <4>2. server_port'[s] = cpu.port /\ SnPORT[s] = cpu.port /\ cpu.port \in ServerPorts
        BY <3>2, <4>1 DEF BeginPort, BeginPortSet, ServerOp, BeginLabels, TypeOK
      <4>3. QED
        BY <2>1, <4>2 DEF Reachable
    <3>3. QED
      BY <2>1, <3>1, <3>2 DEF NoneLost
  <2>2. CASE UdpOpen /\ s = sock[cpu.obj]
    BY <2>2 DEF UdpOpen, TakerHasSocket, Reachable
  <2>3. CASE ConnectCommand /\ s = sock[cpu.obj]
    BY <2>3 DEF ConnectCommand, TakerHasSocket, ConnectHolds, Reachable
  <2>4. CASE BeginListen /\ s = cpu.i
    BY <2>4, GotoStep DEF BeginListen
  <2>5. QED
    BY <1>3, <2>1, <2>2, <2>3, <2>4, StatusOrigin DEF Becomes
<1>4. CASE UNCHANGED vars
  BY <1>4 DEF vars, NoneLost, Reachable
<1>5. QED
  BY <1>1, <1>2, <1>3, <1>4 DEF Next, Running

\* Between two calls every socket in use can be stopped by its server, or by
\* the client or UDP object that took it: the pool does not run dry.
THEOREM NoSocketLost == Spec => []NoOrphanSocket
<1>1. Init => TakerInOrder /\ NoneLost
  BY DEF Init, ChipInit, Idle, TakerInOrder, NoneLost, StopLabels
<1>2. PoolInv /\ TakerInOrder /\ NoneLost /\ [Next]_vars => (TakerInOrder /\ NoneLost)'
  BY TakerInOrderStep, NoneLostStep
<1>3. NoneLost => NoOrphanSocket
  BY DEF NoneLost, NoOrphanSocket
<1>4. QED
  BY <1>1, <1>2, <1>3, PoolInvariant, PTL DEF Spec
=============================================================================
