-------------------------- MODULE EthernetSockets --------------------------
(* The socket pool of the library: EthernetClient, EthernetServer and       *)
(* EthernetUDP objects of one sketch share the W5500's hardware sockets.    *)
(* No allocator object exists: every operation scans the chip's status      *)
(* registers, which the chip and the remote peers change in between.        *)
(*                                                                          *)
(* The sketch is one thread.  Each label of cpu.pc is a place of the code   *)
(* right before it touches a register, so a step of Chip may happen between *)
(* any two register accesses that can see a difference.                     *)
(*                                                                          *)
(* A definition whose comment begins with "Fault" is not part of the model: *)
(* it is a plausible mistake in the code, kept beside the definition it     *)
(* would replace, to see that a property notices it.                        *)
EXTENDS W5500Socket

CONSTANTS
    OutClients,     \* EthernetClient variables the sketch calls connect() on
    InClients,      \* EthernetClient variables that hold available()'s result
    Udps,           \* EthernetUDP objects
    NoObj,          \* the temporary EthernetClient inside EthernetServer
    StopPolls       \* bound: polls of stop() before its second is over

ASSUME ObjectAssumption ==
    /\ NoObj \notin OutClients \union InClients \union Udps
    /\ OutClients \intersect InClients = {}
    /\ Udps \intersect (OutClients \union InClients) = {}
    /\ StopPolls \in Nat

VARIABLES
    server_port,    \* EthernetClass::server_port: port served by each socket
    sock,           \* the _sock of every object; MAX_SOCK_NUM means "none"
    cpu             \* the sketch's thread: where it is and its locals

vars == <<chipVars, server_port, sock, cpu>>

Clients == OutClients \union InClients
Objects == Clients \union Udps

\* Statuses that make a socket reusable for connect() and for UDP begin().
ConnectFree == {"CLOSED", "FIN_WAIT", "CLOSE_WAIT"}
\* Fault: the statuses of connect() copied to EthernetUDP::begin.
UdpFreeAsConnect == ConnectFree

UdpFree == {"CLOSED", "FIN_WAIT"}

\* The control byte of an access carries sock << 5 in eight bits: an object
\* without a socket reaches socket 0.
Chan(k) == k % MAX_SOCK_NUM

\* pc: the label; caller: the operation accept() runs in; obj: the object;
\* port: _port of the server; i: loop index, or the socket of stop();
\* listening: the local of accept(); polls: loop count of stop().
Idle == [pc |-> "idle", caller |-> "sketch", obj |-> NoObj, port |-> 0,
         i |-> 0, listening |-> FALSE, polls |-> 0]

Init ==
    /\ ChipInit
    /\ server_port = [s \in Sock |-> 0]
    /\ sock = [o \in Objects |-> MAX_SOCK_NUM]
    /\ cpu = Idle

----------------------------------------------------------------------------
(* Control flow. *)

At(label) == cpu.pc = label

Goto(label) == cpu' = [cpu EXCEPT !.pc = label]

Loop(label, k) == cpu' = [cpu EXCEPT !.pc = label, !.i = k]

Return == cpu' = Idle

\* Fault: the scans run to i <= MAX_SOCK_NUM.
MoreByOne == cpu.i < MAX_SOCK_NUM

More == cpu.i + 1 < MAX_SOCK_NUM

\* accept() is over: on to the loop of the operation that called it.
AcceptReturn ==
    \/ cpu.caller = "sketch" /\ Return
    \/ cpu.caller = "available" /\ Loop("available.scan", 0)
    \/ cpu.caller = "write" /\ Loop("write.scan", 0)

----------------------------------------------------------------------------
(* EthernetClient::connect *)

Connect(c) ==
    /\ At("idle") /\ sock[c] = MAX_SOCK_NUM
    /\ cpu' = [cpu EXCEPT !.pc = "connect.scan", !.obj = c]
    /\ UNCHANGED <<chipVars, server_port, sock>>

ConnectScan ==
    /\ At("connect.scan")
    /\ \/ /\ SnSR[cpu.i] \in ConnectFree
          /\ sock' = [sock EXCEPT ![cpu.obj] = cpu.i]
          /\ Goto("connect.open")
       \/ /\ SnSR[cpu.i] \notin ConnectFree
          /\ IF More THEN Loop("connect.scan", cpu.i + 1) ELSE Return
          /\ UNCHANGED sock
    /\ UNCHANGED <<chipVars, server_port>>

ConnectOpen ==
    /\ At("connect.open")
    /\ CmdOPEN(sock[cpu.obj], "INIT", OtherPort)
    /\ Goto("connect.command")
    /\ UNCHANGED <<server_port, sock>>

\* SOCKETClass::connect refuses address 0, the broadcast address and port 0.
ConnectRefused ==
    /\ At("connect.command")
    /\ sock' = [sock EXCEPT ![cpu.obj] = MAX_SOCK_NUM]
    /\ Return
    /\ UNCHANGED <<chipVars, server_port>>

ConnectCommand ==
    /\ At("connect.command")
    /\ CmdCONNECT(sock[cpu.obj])
    /\ Goto("connect.poll")
    /\ UNCHANGED <<server_port, sock>>

ConnectPoll ==
    /\ At("connect.poll")
    /\ IF SnSR[sock[cpu.obj]] = "ESTABLISHED" THEN Return
                                              ELSE Goto("connect.repoll")
    /\ UNCHANGED <<chipVars, server_port, sock>>

\* Fault: connect() also gives up on a connection that is already closing.
ConnectRepollGivesUp ==
    /\ At("connect.repoll")
    /\ \/ /\ SnSR[sock[cpu.obj]] \in {"CLOSED", "CLOSE_WAIT"}
          /\ sock' = [sock EXCEPT ![cpu.obj] = MAX_SOCK_NUM]
          /\ Return
       \/ /\ SnSR[sock[cpu.obj]] \notin {"CLOSED", "CLOSE_WAIT"}
          /\ Goto("connect.poll")
          /\ UNCHANGED sock
    /\ UNCHANGED <<chipVars, server_port>>

\* After delay(1).
ConnectRepoll ==
    /\ At("connect.repoll")
    /\ \/ /\ SnSR[sock[cpu.obj]] = "CLOSED"
          /\ sock' = [sock EXCEPT ![cpu.obj] = MAX_SOCK_NUM]
          /\ Return
       \/ /\ SnSR[sock[cpu.obj]] # "CLOSED"
          /\ Goto("connect.poll")
          /\ UNCHANGED sock
    /\ UNCHANGED <<chipVars, server_port>>

----------------------------------------------------------------------------
(* EthernetClient::stop, on a variable of the sketch or inside accept(). *)

Stop(c) ==
    /\ At("idle") /\ sock[c] # MAX_SOCK_NUM
    /\ cpu' = [cpu EXCEPT !.pc = "stop.disconnect", !.obj = c, !.i = sock[c]]
    /\ UNCHANGED <<chipVars, server_port, sock>>

StopDisconnect ==
    /\ At("stop.disconnect")
    /\ CmdDISCON(cpu.i)
    /\ Goto("stop.poll")
    /\ UNCHANGED <<server_port, sock>>

\* Fault: stop() leaves its loop only when the socket is closed.
StopPollForever ==
    /\ At("stop.poll")
    /\ IF SnSR[cpu.i] = "CLOSED" THEN Goto("stop.done") ELSE UNCHANGED cpu
    /\ UNCHANGED <<chipVars, server_port, sock>>

\* Fault: when its second is over, stop() does not close by force.
StopPollNoForce ==
    /\ At("stop.poll")
    /\ IF SnSR[cpu.i] = "CLOSED" \/ cpu.polls >= StopPolls
       THEN Goto("stop.done")
       ELSE cpu' = [cpu EXCEPT !.polls = @ + 1]
    /\ UNCHANGED <<chipVars, server_port, sock>>

StopPoll ==
    /\ At("stop.poll")
    /\ IF SnSR[cpu.i] = "CLOSED" THEN Goto("stop.done")
       ELSE IF cpu.polls < StopPolls THEN cpu' = [cpu EXCEPT !.polls = @ + 1]
       ELSE Goto("stop.force")
    /\ UNCHANGED <<chipVars, server_port, sock>>

StopForce ==
    /\ At("stop.force")
    /\ CmdCLOSE(cpu.i)
    /\ Goto("stop.done")
    /\ UNCHANGED <<server_port, sock>>

\* Behind socket i the loop of accept() goes on, or ends and may begin().
AcceptNext(heard) ==
    IF More THEN cpu' = [cpu EXCEPT !.pc = "accept.scan", !.i = @ + 1,
                                    !.listening = heard, !.polls = 0]
    ELSE IF heard THEN AcceptReturn
    ELSE Loop("begin.scan", 0)

StopDone ==
    /\ At("stop.done")
    /\ server_port' = [server_port EXCEPT ![cpu.i] = 0]
    /\ IF cpu.obj = NoObj
       THEN AcceptNext(cpu.listening) /\ UNCHANGED sock
       ELSE Return /\ sock' = [sock EXCEPT ![cpu.obj] = MAX_SOCK_NUM]
    /\ UNCHANGED <<chipVars>>

----------------------------------------------------------------------------
(* EthernetClient::read of one byte. *)

Read(c) ==
    /\ At("idle") /\ SnRX_RSR[Chan(sock[c])] > 0
    /\ CmdRECV(Chan(sock[c]))
    /\ UNCHANGED <<server_port, sock, cpu>>

----------------------------------------------------------------------------
(* EthernetUDP::begin, which beginMulticast differs from only in registers  *)
(* of no concern here, and stop. *)

UdpBegin(u) ==
    /\ At("idle") /\ sock[u] = MAX_SOCK_NUM
    /\ cpu' = [cpu EXCEPT !.pc = "udp.scan", !.obj = u]
    /\ UNCHANGED <<chipVars, server_port, sock>>

UdpScan ==
    /\ At("udp.scan")
    /\ \/ /\ SnSR[cpu.i] \in UdpFree
          /\ sock' = [sock EXCEPT ![cpu.obj] = cpu.i]
          /\ Goto("udp.open")
       \/ /\ SnSR[cpu.i] \notin UdpFree
          /\ IF More THEN Loop("udp.scan", cpu.i + 1) ELSE Return
          /\ UNCHANGED sock
    /\ UNCHANGED <<chipVars, server_port>>

UdpOpen ==
    /\ At("udp.open")
    /\ CmdOPEN(sock[cpu.obj], "UDP", OtherPort)
    /\ Return
    /\ UNCHANGED <<server_port, sock>>

UdpStop(u) ==
    /\ At("idle") /\ sock[u] # MAX_SOCK_NUM
    /\ CmdCLOSE(sock[u])
    /\ server_port' = [server_port EXCEPT ![sock[u]] = 0]
    /\ sock' = [sock EXCEPT ![u] = MAX_SOCK_NUM]
    /\ UNCHANGED cpu

----------------------------------------------------------------------------
(* EthernetServer::begin, from the sketch's setup() or inside accept(). *)

ServerBegin(p) ==
    /\ At("idle")
    /\ cpu' = [cpu EXCEPT !.pc = "begin.scan", !.port = p]
    /\ UNCHANGED <<chipVars, server_port, sock>>

BeginScan ==
    /\ At("begin.scan")
    /\ IF SnSR[cpu.i] = "CLOSED" THEN Goto("begin.open")
       ELSE IF More THEN Loop("begin.scan", cpu.i + 1)
       ELSE AcceptReturn
    /\ UNCHANGED <<chipVars, server_port, sock>>

BeginOpen ==
    /\ At("begin.open")
    /\ CmdOPEN(cpu.i, "INIT", cpu.port)
    /\ Goto("begin.listen")
    /\ UNCHANGED <<server_port, sock>>

\* SOCKETClass::listen; its result is ignored.
BeginListen ==
    /\ At("begin.listen")
    /\ IF SnSR[cpu.i] = "INIT" THEN CmdLISTEN(cpu.i) ELSE UNCHANGED chipVars
    /\ Goto("begin.port")
    /\ UNCHANGED <<server_port, sock>>

BeginPort ==
    /\ At("begin.port")
    /\ server_port' = [server_port EXCEPT ![cpu.i] = cpu.port]
    /\ AcceptReturn
    /\ UNCHANGED <<chipVars, sock>>

----------------------------------------------------------------------------
(* EthernetServer::accept, the first half of available() and write(): the   *)
(* sketch may call them, and begin() above, as often and in any order.      *)

ServerCall(p, op) ==
    /\ At("idle")
    /\ cpu' = [cpu EXCEPT !.pc = "accept.scan", !.caller = op, !.port = p]
    /\ UNCHANGED <<chipVars, server_port, sock>>

ServerAvailable(p) == ServerCall(p, "available")

ServerWrite(p) == ServerCall(p, "write")

\* Fault: a later socket clears what an earlier one has set in listening.
AcceptScanForgets ==
    /\ At("accept.scan")
    /\ IF server_port[cpu.i] # cpu.port THEN AcceptNext(FALSE)
       ELSE IF SnSR[cpu.i] = "LISTEN" THEN AcceptNext(TRUE)
       ELSE Goto("accept.status")
    /\ UNCHANGED <<chipVars, server_port, sock>>

\* Fault: any socket of the port counts as a listening one.
AcceptScanAnySocket ==
    /\ At("accept.scan")
    /\ IF server_port[cpu.i] = cpu.port THEN AcceptNext(TRUE)
                                       ELSE AcceptNext(cpu.listening)
    /\ UNCHANGED <<chipVars, server_port, sock>>

AcceptScan ==
    /\ At("accept.scan")
    /\ IF server_port[cpu.i] # cpu.port THEN AcceptNext(cpu.listening)
       ELSE IF SnSR[cpu.i] = "LISTEN" THEN AcceptNext(TRUE)
       ELSE Goto("accept.status")
    /\ UNCHANGED <<chipVars, server_port, sock>>

\* Fault: accept() does not look for unread data.
AcceptStatusOnly ==
    /\ At("accept.status")
    /\ IF SnSR[cpu.i] = "CLOSE_WAIT" THEN Goto("stop.disconnect")
                                     ELSE AcceptNext(cpu.listening)
    /\ UNCHANGED <<chipVars, server_port, sock>>

\* The status is read again for the second test.
AcceptStatus ==
    /\ At("accept.status")
    /\ IF SnSR[cpu.i] = "CLOSE_WAIT" THEN Goto("accept.rx")
                                     ELSE AcceptNext(cpu.listening)
    /\ UNCHANGED <<chipVars, server_port, sock>>

AcceptRx ==
    /\ At("accept.rx")
    /\ IF SnRX_RSR[cpu.i] = 0 THEN Goto("stop.disconnect")
                              ELSE AcceptNext(cpu.listening)
    /\ UNCHANGED <<chipVars, server_port, sock>>

----------------------------------------------------------------------------
(* EthernetServer::available: its result goes to a variable of the sketch. *)

AvailableNext ==
    IF More THEN Loop("available.scan", cpu.i + 1) /\ UNCHANGED sock
    ELSE /\ \E c \in InClients : sock' = [sock EXCEPT ![c] = MAX_SOCK_NUM]
         /\ Return

AvailableScan ==
    /\ At("available.scan")
    /\ IF server_port[cpu.i] = cpu.port /\ SnSR[cpu.i] \in Connected
       THEN Goto("available.rx") /\ UNCHANGED sock
       ELSE AvailableNext
    /\ UNCHANGED <<chipVars, server_port>>

AvailableRx ==
    /\ At("available.rx")
    /\ \/ /\ SnRX_RSR[cpu.i] > 0
          /\ \E c \in InClients : sock' = [sock EXCEPT ![c] = cpu.i]
          /\ Return
       \/ SnRX_RSR[cpu.i] = 0 /\ AvailableNext
    /\ UNCHANGED <<chipVars, server_port>>

----------------------------------------------------------------------------
(* EthernetServer::write: the buffer goes to every established client. *)

WriteNext == IF More THEN Loop("write.scan", cpu.i + 1) ELSE Return

WriteScan ==
    /\ At("write.scan")
    /\ IF server_port[cpu.i] = cpu.port /\ SnSR[cpu.i] = "ESTABLISHED"
       THEN Goto("send.wait") ELSE WriteNext
    /\ UNCHANGED <<chipVars, server_port, sock>>

----------------------------------------------------------------------------
(* SOCKETClass::send, for EthernetClient::write or the loop above.  What it *)
(* sends is the subject of TcpSend; here it waits, and may close the socket.*)

Write(c) ==
    /\ At("idle") /\ sock[c] # MAX_SOCK_NUM
    /\ cpu' = [cpu EXCEPT !.pc = "send.wait", !.obj = c, !.i = sock[c]]
    /\ UNCHANGED <<chipVars, server_port, sock>>

SendReturn == IF cpu.caller = "write" THEN WriteNext ELSE Return

\* The last SEND is confirmed and there is room for the buffer.  While the
\* peer is connected that is its doing: it may never take what is sent to it.
SendTaken ==
    /\ At("send.wait") /\ SnSR[cpu.i] \in Connected
    /\ SendReturn
    /\ UNCHANGED <<chipVars, server_port, sock>>

\* On a socket that is not connected the wait ends: either there is nothing to
\* wait for, or the status is read and send() gives up.
SendPoll ==
    /\ At("send.wait") /\ SnSR[cpu.i] \notin Connected
    /\ SendReturn \/ Goto("send.close")
    /\ UNCHANGED <<chipVars, server_port, sock>>

SendClose ==
    /\ At("send.close")
    /\ CmdCLOSE(cpu.i)
    /\ SendReturn
    /\ UNCHANGED <<server_port, sock>>

----------------------------------------------------------------------------

\* The sketch starts an operation.
Sketch ==
    \/ \E c \in OutClients : Connect(c)
    \/ \E c \in Clients : Stop(c) \/ Read(c) \/ Write(c)
    \/ \E u \in Udps : UdpBegin(u) \/ UdpStop(u)
    \/ \E p \in ServerPorts : \/ ServerBegin(p)
                              \/ ServerAvailable(p)
                              \/ ServerWrite(p)

\* The operation under way takes its next step.
Driver ==
    \/ ConnectScan \/ ConnectOpen \/ ConnectRefused \/ ConnectCommand
    \/ ConnectPoll \/ ConnectRepoll
    \/ StopDisconnect \/ StopPoll \/ StopForce \/ StopDone
    \/ UdpScan \/ UdpOpen
    \/ BeginScan \/ BeginOpen \/ BeginListen \/ BeginPort
    \/ AcceptScan \/ AcceptStatus \/ AcceptRx
    \/ AvailableScan \/ AvailableRx
    \/ WriteScan \/ SendPoll \/ SendClose

Environment == Chip /\ UNCHANGED <<server_port, sock, cpu>>

Next == Sketch \/ Driver \/ SendTaken \/ Environment

Spec == Init /\ [][Next]_vars

\* Code that is running keeps running.  Nothing makes the sketch call, the
\* peer answer or take what is sent to it, or the chip time out.
FairSpec == Spec /\ WF_vars(Driver)

----------------------------------------------------------------------------
(* Properties *)

Labels == {"idle", "connect.scan", "connect.open", "connect.command",
           "connect.poll", "connect.repoll", "stop.disconnect", "stop.poll",
           "stop.force", "stop.done", "udp.scan", "udp.open", "begin.scan",
           "begin.open", "begin.listen", "begin.port", "accept.scan",
           "accept.status", "accept.rx", "available.scan", "available.rx",
           "write.scan", "send.wait", "send.close"}

CpuStates == [pc : Labels, caller : {"sketch", "available", "write"},
              obj : Objects \union {NoObj}, port : ServerPorts \union {0},
              i : Sock, listening : BOOLEAN, polls : 0 .. StopPolls]

\* Every variable has its type; an object names a socket or none.
TypeOK ==
    /\ ChipTypeOK
    /\ server_port \in [Sock -> ServerPorts \union {0}]
    /\ sock \in [Objects -> 0 .. MAX_SOCK_NUM]
    /\ cpu \in CpuStates

\* A FIN this side has sent is only ever pending inside the stop() that sent
\* it: EthernetClient::stop waits and then closes by force, so the FIN_WAIT
\* case of the scans in connect() and EthernetUDP::begin finds nothing.
HalfClosedOnlyInStop ==
    \A s \in Sock : SnSR[s] \in HalfClosed =>
        cpu.pc \in {"stop.poll", "stop.force"} /\ s = cpu.i

\* The server that opened a listening socket finds it, and the connections
\* that came in on it, by server_port for as long as they live, whatever
\* stale client variables are stopped in between.
PassiveKnown ==
    \A s \in Sock :
        /\ SnPORT[s] \in ServerPorts
        /\ SnSR[s] \in {"LISTEN", "SYNRECV"} \union Connected
        => \/ server_port[s] = SnPORT[s]
           \/ At("begin.port") /\ s = cpu.i

ListensFor(s, p) == SnSR[s] = "LISTEN" /\ SnPORT[s] = p

\* accept() looks for a listening socket one status register at a time while
\* connections come in; calling available() or write() again and again never
\* makes a second socket listen beside one that does.  (A sketch that calls
\* begin() twice gets two.)
AcceptAddsNoListener ==
    [][\A s, t \in Sock :
        /\ SnSR[s] # "LISTEN" /\ SnSR'[s] = "LISTEN"
        /\ cpu.caller \in {"available", "write"}
        => ~ListensFor(t, cpu.port)]_vars

\* A server, or the client or UDP object that took it, can still stop s.
Reachable(s) ==
    \/ SnPORT[s] \in ServerPorts /\ server_port[s] = SnPORT[s]
    \/ \E o \in OutClients \union Udps : sock[o] = s

\* Between two operations every socket that is not CLOSED is within reach of
\* an object that can stop it: its server, or the client or UDP object that
\* took it.  Otherwise the pool runs dry, as nothing else frees a socket.  The
\* one way a socket is lost is a connect() that is refused its address, which
\* leaves it in INIT (see UdpBeginFailsOnlyIfTaken).
NoOrphanSocket ==
    At("idle") =>
        \A s \in Sock : SnSR[s] \in {"CLOSED", "INIT"} \/ Reachable(s)

\* An object that opens a socket tears no live one down: the status a scan has
\* seen is still good enough when OPEN is executed.  Only connect() may end a
\* connection, one the peer has finished sending on.
OpenTakesDeadSocket ==
    [][\A s \in Sock :
        SnSR[s] # SnSR'[s] /\ SnSR'[s] \in {"INIT", "UDP"} =>
            \/ SnSR[s] = "CLOSED"
            \/ SnSR[s] = "CLOSE_WAIT" /\ At("connect.open")]_vars

\* accept() ends only connections whose peer has finished and whose data has
\* all been read: the two registers it reads one after the other belong
\* together although the peer keeps sending.
AcceptDropsNoData ==
    [][\A s \in Sock :
        SnSR[s] \in Connected /\ SnSR'[s] \in HalfClosed /\ cpu.obj = NoObj =>
            SnSR[s] = "CLOSE_WAIT" /\ SnRX_RSR[s] = 0]_vars

\* The two waits the peer can draw out for ever: connect() for its answer, and
\* send() for room in the buffer as long as it is connected.
WaitsForPeer ==
    \/ cpu.pc \in {"connect.poll", "connect.repoll"}
    \/ At("send.wait") /\ SnSR[cpu.i] \in Connected

\* Every operation comes back to the sketch, however long the peer of a socket
\* being stopped keeps silent, unless it is in one of these two waits: a write
\* comes back when the connection has ended, whatever ended it.
CallsReturn ==
    ~At("idle") ~> At("idle") \/ WaitsForPeer

\* A sketch whose loop() calls available() on p again and again.
PollingSpec == FairSpec /\ \A p \in ServerPorts : SF_vars(ServerAvailable(p))

Listens(p) == \E s \in Sock : ListensFor(s, p)

\* A server that is polled does not go deaf: again and again it listens, unless
\* no socket is free, or the sketch is waiting for a peer.  (A write to a peer
\* that takes nothing does make every server deaf.)
KeepsListening ==
    \A p \in ServerPorts :
        []<>(\/ Listens(p)
             \/ \A s \in Sock : SnSR[s] # "CLOSED"
             \/ WaitsForPeer)

----------------------------------------------------------------------------
(* What is true at each label: with the invariants above it is preserved by *)
(* every step.                                                              *)

AcceptLabels == {"accept.scan", "accept.status", "accept.rx"}
BeginLabels == {"begin.scan", "begin.open", "begin.listen", "begin.port"}
StopLabels == {"stop.disconnect", "stop.poll", "stop.force", "stop.done"}

\* accept() is running, or the stop() it calls on its temporary client.
Accepting ==
    \/ cpu.pc \in AcceptLabels
    \/ cpu.pc \in StopLabels /\ cpu.obj = NoObj

\* The locals of an operation are dead when it has returned.
IdleClean == At("idle") => cpu = Idle

\* connect() and EthernetUDP::begin work on a socket they have noted.
ConnectHolds == {"connect.open", "connect.command", "connect.poll",
                 "connect.repoll"}

TakerHasSocket ==
    /\ cpu.pc \in ConnectHolds \union {"connect.scan"} => cpu.obj \in OutClients
    /\ cpu.pc \in {"udp.scan", "udp.open"} => cpu.obj \in Udps
    /\ cpu.pc \in ConnectHolds \union {"udp.open"} => sock[cpu.obj] \in Sock

\* What a scan has read of a socket is still true when the socket is opened.
ScanStillTrue ==
    /\ At("connect.open") => SnSR[sock[cpu.obj]] \in {"CLOSED", "CLOSE_WAIT"}
    /\ At("udp.open") => SnSR[sock[cpu.obj]] = "CLOSED"
    /\ At("begin.open") => SnSR[cpu.i] = "CLOSED"

\* Outgoing connections have the local port connect() has chosen.
ActivePort ==
    /\ \A s \in Sock : SnSR[s] = "SYNSENT" => SnPORT[s] = OtherPort
    /\ At("connect.command") => SnPORT[sock[cpu.obj]] = OtherPort

\* server_port is cleared when the socket has closed, not before.
StopClosed == At("stop.done") => SnSR[cpu.i] = "CLOSED"

BeginPortSet ==
    cpu.pc \in {"begin.listen", "begin.port"} => SnPORT[cpu.i] = cpu.port

\* accept() and begin() work for the port of a server, on a temporary client.
ServerOp ==
    /\ Accepting \/ cpu.pc \in BeginLabels => cpu.port \in ServerPorts
    /\ cpu.pc \in AcceptLabels \union BeginLabels => cpu.obj = NoObj

\* accept() stops a connection its two reads have shown to be finished.
AcceptChecked ==
    /\ At("accept.rx") => SnSR[cpu.i] \in {"CLOSE_WAIT", "CLOSED"}
    /\ At("stop.disconnect") /\ cpu.obj = NoObj =>
          \/ SnSR[cpu.i] = "CLOSED"
          \/ SnSR[cpu.i] = "CLOSE_WAIT" /\ SnRX_RSR[cpu.i] = 0

\* As long as accept() has not heard of a listening socket of its port, none
\* is behind it; it calls begin() when there is none at all.
ScanSoFar ==
    /\ Accepting /\ ~cpu.listening =>
          /\ \A s \in Sock : s < cpu.i => ~ListensFor(s, cpu.port)
          /\ ~At("accept.scan") => ~ListensFor(cpu.i, cpu.port)
    /\ /\ cpu.pc \in {"begin.scan", "begin.open", "begin.listen"}
       /\ cpu.caller # "sketch"
       => \A s \in Sock : ~ListensFor(s, cpu.port)

\* The inductive invariant of the pool.
PoolInv ==
    /\ TypeOK
    /\ IdleClean
    /\ TakerHasSocket
    /\ HalfClosedOnlyInStop
    /\ ScanStillTrue
    /\ ActivePort
    /\ StopClosed
    /\ BeginPortSet
    /\ ServerOp
    /\ PassiveKnown
    /\ AcceptChecked
    /\ ScanSoFar

\* An object has no socket while it looks for one, connect() may still be
\* refused, and stop() works on the socket of its object.
TakerInOrder ==
    /\ cpu.pc \in {"connect.scan", "udp.scan"} => sock[cpu.obj] = MAX_SOCK_NUM
    /\ At("connect.command") => SnSR[sock[cpu.obj]] = "INIT"
    /\ cpu.pc \in StopLabels /\ cpu.obj # NoObj => sock[cpu.obj] = cpu.i

\* NoOrphanSocket inside the operations: a new listening socket is out of reach
\* until its port has been noted.
NoneLost ==
    \A s \in Sock :
        \/ SnSR[s] \in {"CLOSED", "INIT"}
        \/ Reachable(s)
        \/ At("begin.port") /\ s = cpu.i

----------------------------------------------------------------------------
(* What is said of the code and does not hold of it. *)

\* What the sketches are told of available(): it returns incoming clients.
\* (It does not hold: nothing clears server_port when a peer's RST frees the
\* socket of a served connection and connect() takes it over.)
AvailableIsIncoming ==
    At("available.rx") => SnPORT[cpu.i] = cpu.port

\* The chip's handshake of an outgoing connection ends one way or the other.
ConnectSpec ==
    /\ FairSpec
    /\ WF_vars(/\ \E s \in Sock : ChipHandshake(s)
               /\ UNCHANGED <<server_port, sock, cpu>>)

\* connect() comes back, with a connection or without.  (It does not hold: a
\* connection the peer opens and closes between two polls leaves the socket in
\* CLOSE_WAIT, for which the loop waits forever.)
ConnectReturns == At("connect.poll") ~> At("idle")

\* EthernetUDP::begin fails only when the sockets are in use.  (It does not
\* hold: a connect() to address 0 leaves its socket in INIT for good.)
UdpBeginFailsOnlyIfTaken ==
    [][At("udp.scan") /\ cpu' = Idle =>
          \A s \in Sock : SnSR[s] = "CLOSED" \/ Reachable(s)]_vars
=============================================================================
