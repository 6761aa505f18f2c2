------------------------------ MODULE UdpRecv ------------------------------
(* The receiving half of an EthernetUDP object and its hardware socket: the *)
(* chip puts each datagram into a ring behind a header, and parsePacket,    *)
(* read and flush take it out again through SOCKETClass::recv.  UDP begin's *)
(* search for a socket is the subject of EthernetSockets; here there is     *)
(* one.  _sock is not kept: a stopped object has no socket, and its         *)
(* accesses reach socket 0, taken to be the one it had, which is closed.    *)
(*                                                                          *)
(* Addresses are numbers, and 0 is no address.  A header is two cells, the  *)
(* sender and the length.  Byte k of the j-th datagram to arrive is Byte(j, *)
(* k).  The 16-bit reads of Sn_RX_RSR are the subject of RegRead.           *)
(*                                                                          *)
(* A definition whose comment begins with "Fault" is a plausible mistake in *)
(* the code, kept beside the definition it would replace.                   *)
EXTENDS Integers, Sequences

CONSTANTS
    RSIZE,      \* size of the receive ring (2048)
    PTR,        \* values of a buffer pointer (65536)
    Peers,      \* addresses datagrams come from
    MaxData,    \* bound: data of a datagram that arrives
    MaxIn,      \* bound: datagrams that arrive while the socket is open
    MaxLen      \* bound: the largest buffer of read()

ASSUME UdpRecvAssumption ==
    /\ RSIZE \in Nat \ {0}
    /\ PTR \in Nat /\ PTR > RSIZE /\ PTR % RSIZE = 0
    /\ Peers \subseteq Nat \ {0}
    /\ MaxData \in Nat /\ MaxIn \in Nat /\ MaxLen \in Nat \ {0}

HEADER == 2     \* 8 bytes in the chip

VARIABLES
    \* the socket in the chip
    SnSR,
    RX_RD,          \* read pointer
    rxbuf,          \* the receive ring
    received,       \* cells received since the socket was opened
    freed,          \* cells given back by RECV
    \* the object
    _remaining, _remoteIP,
    cpu,            \* the operation, where it is and its locals
    \* history
    inbox,          \* datagrams that have arrived since the socket was opened,
                    \* each with the cell its header begins at
    taken,          \* how many of them parsePacket has taken
    got             \* what the last read() or peek() returned

ring == <<RX_RD, rxbuf, received, freed, inbox>>
history == <<taken, got>>
receiving == <<SnSR, ring, _remaining, _remoteIP, history>>
vars == <<receiving, cpu>>

Byte(j, k) == j * RSIZE + k

RX_RSR == received - freed

Idle == [pc |-> "idle", caller |-> "sketch", len |-> 0, ret |-> 0]

Init ==
    /\ SnSR = "CLOSED"
    /\ RX_RD = 0 /\ received = 0 /\ freed = 0
    /\ rxbuf = [i \in 0 .. RSIZE - 1 |-> 0]
    /\ _remaining = 0 /\ _remoteIP = 0
    /\ cpu = Idle
    /\ inbox = <<>> /\ taken = 0 /\ got = <<>>

----------------------------------------------------------------------------
(* The chip and the network. *)

\* A datagram as the chip puts it into the ring.
Cells(datagram) == <<datagram.from, Len(datagram.data)>> \o datagram.data

\* A datagram that has no room is lost, as it may be on its way.
ChipDatagram(from, n) ==
    /\ SnSR = "UDP" /\ Len(inbox) < MaxIn
    /\ RX_RSR + HEADER + n <= RSIZE
    /\ LET datagram == [from |-> from, at |-> received,
                         data |-> [k \in 1 .. n |-> Byte(Len(inbox) + 1, k)]]
       IN  /\ inbox' = Append(inbox, datagram)
           /\ rxbuf' = [i \in DOMAIN rxbuf |->
                  LET k == (i - received) % RSIZE
                  IN  IF k < HEADER + n THEN Cells(datagram)[k + 1] ELSE rxbuf[i]]
    /\ received' = received + HEADER + n
    /\ UNCHANGED <<SnSR, RX_RD, freed, _remaining, _remoteIP, history, cpu>>

Environment == \E from \in Peers, n \in 0 .. MaxData : ChipDatagram(from, n)

----------------------------------------------------------------------------
(* begin() and stop() *)

At(label) == cpu.pc = label

\* OPEN and CLOSE empty the ring.
Restart(status) ==
    /\ SnSR' = status
    /\ RX_RD' = 0 /\ received' = 0 /\ freed' = 0 /\ inbox' = <<>> /\ taken' = 0
    /\ UNCHANGED <<rxbuf, _remoteIP, got, cpu>>

\* Fault: begin() leaves _remaining as the last socket left it.
BeginKeepsRest ==
    /\ At("idle") /\ SnSR = "CLOSED"
    /\ Restart("UDP")
    /\ UNCHANGED _remaining

Begin ==
    /\ At("idle") /\ SnSR = "CLOSED"
    /\ Restart("UDP")
    /\ _remaining' = 0

Stop ==
    /\ At("idle") /\ SnSR = "UDP"
    /\ Restart("CLOSED")
    /\ UNCHANGED _remaining

----------------------------------------------------------------------------
(* Receiving: every read goes through SOCKETClass::recv. *)

Call(label, caller, len) ==
    cpu' = [pc |-> label, caller |-> caller, len |-> len, ret |-> 0]

\* A read of Sn_RX_RSR gives 0: there is nothing, or the register is moving.
ReadsZero == RX_RSR = 0 \/ (SnSR = "UDP" /\ received > 0)

\* The loop of flush(), which parsePacket() starts with: one byte at a time.
FlushLoop(left, caller) ==
    IF left > 0 THEN Call("size", caller, 1)
    ELSE IF caller = "parse" THEN Call("available", "parse", 0)
    ELSE cpu' = Idle

\* Fault: parsePacket() forgets what is left instead of reading it.
ParsePacketForgets ==
    /\ At("idle")
    /\ Call("available", "parse", 0)
    /\ _remaining' = 0
    /\ UNCHANGED <<SnSR, ring, _remoteIP, history>>

ParsePacket ==
    /\ At("idle")
    /\ FlushLoop(_remaining, "parse")
    /\ UNCHANGED receiving

Flush ==
    /\ At("idle") /\ _remaining > 0
    /\ FlushLoop(_remaining, "flush")
    /\ UNCHANGED receiving

\* parsePacket() looks for a datagram and asks recv() for its header.
Available ==
    /\ At("available") /\ RX_RSR > 0
    /\ Call("size", "header", HEADER)
    /\ UNCHANGED receiving

AvailableNone ==
    /\ At("available") /\ ReadsZero
    /\ cpu' = Idle
    /\ UNCHANGED receiving

\* Fault: read(buffer, len) asks recv() for len bytes.
ReadWholeBuffer(len) ==
    /\ At("idle") /\ _remaining > 0
    /\ Call("size", "read", len)
    /\ UNCHANGED receiving

\* read() is read(buffer, 1).
Read(len) ==
    /\ At("idle") /\ _remaining > 0
    /\ Call("size", "read", IF _remaining <= len THEN _remaining ELSE len)
    /\ UNCHANGED receiving

\* peek() looks at the next byte and leaves it.  (A sketch that peeks at a
\* stopped object gets what is left in the ring of socket 0.)
Peek ==
    /\ At("idle") /\ SnSR = "UDP" /\ _remaining > 0
    /\ got' = <<rxbuf[RX_RD % RSIZE]>>
    /\ UNCHANGED <<SnSR, ring, _remaining, _remoteIP, taken, cpu>>

RecvSize ==
    /\ At("size") /\ RX_RSR > 0
    /\ cpu' = [cpu EXCEPT !.pc = "copy",
                          !.ret = IF RX_RSR > cpu.len THEN cpu.len ELSE RX_RSR]
    /\ UNCHANGED receiving

\* recv() returns 0 or -1: the callers give up, but for the loop of flush().
RecvNone ==
    /\ At("size") /\ ReadsZero
    /\ IF cpu.caller \in {"flush", "parse"} THEN UNCHANGED cpu ELSE cpu' = Idle
    /\ UNCHANGED receiving

Ring(n) == [k \in 1 .. n |-> rxbuf[(RX_RD + k - 1) % RSIZE]]

\* recv() copies, moves the pointer and gives RECV, and the caller goes on.
\* (A datagram that arrives between the last two finds less room: it is lost,
\* as any datagram may be.)
RecvCopy ==
    /\ At("copy")
    /\ RX_RD' = (RX_RD + cpu.ret) % PTR
    /\ freed' = freed + ((RX_RD' - freed) % PTR)
    /\ \/ /\ cpu.caller = "header"
          /\ _remoteIP' = Ring(HEADER)[1] /\ _remaining' = Ring(HEADER)[2]
          /\ taken' = taken + 1
          /\ cpu' = Idle
          /\ UNCHANGED got
       \/ /\ cpu.caller = "read"
          /\ got' = Ring(cpu.ret)
          /\ _remaining' = _remaining - cpu.ret
          /\ cpu' = Idle
          /\ UNCHANGED <<_remoteIP, taken>>
       \/ /\ cpu.caller \in {"flush", "parse"}
          /\ _remaining' = _remaining - 1
          /\ FlushLoop(_remaining - 1, cpu.caller)
          /\ UNCHANGED <<_remoteIP, history>>
    /\ UNCHANGED <<SnSR, rxbuf, received, inbox>>

----------------------------------------------------------------------------

Driver == Available \/ AvailableNone \/ RecvSize \/ RecvNone \/ RecvCopy

Sketch ==
    \/ Begin \/ Stop \/ ParsePacket \/ Flush \/ Peek
    \/ \E len \in 1 .. MaxLen : Read(len)

Next == Sketch \/ Driver \/ Environment

Spec == Init /\ [][Next]_vars

\* A sketch that polls for datagrams.  A read of the size is torn only while a
\* datagram arrives, and a full ring takes no more.
PollingSpec ==
    /\ Spec
    /\ WF_vars(Driver) /\ SF_vars(RecvSize)
    /\ SF_vars(Available) /\ SF_vars(ParsePacket)

----------------------------------------------------------------------------
(* Properties *)

Labels == {"idle", "available", "size", "copy"}

\* Every variable has its type; what the chip counts fits into the ring.
TypeOK ==
    /\ SnSR \in {"CLOSED", "UDP"}
    /\ RX_RD \in 0 .. PTR - 1 /\ rxbuf \in [0 .. RSIZE - 1 -> Nat]
    /\ freed \in Nat /\ received \in freed .. freed + RSIZE
    /\ _remaining \in Nat /\ _remoteIP \in Nat
    /\ cpu \in [pc : Labels, caller : {"sketch", "parse", "header", "read", "flush"},
                len : Nat, ret : Nat]
    /\ inbox \in Seq([from : Peers, data : Seq(Nat), at : Nat]) /\ taken \in 0 .. Len(inbox)
    /\ got \in Seq(Nat)

\* The sketch reads the datagrams that have arrived, each with its sender, in
\* their order, no byte of one as part of another and none of a header as data,
\* whatever it leaves unread and wherever the ring wraps around: the cells the
\* object takes for the rest of a datagram are the rest of it.
Received == INSTANCE Datagrams WITH
    Nobody <- 0,
    queue <- SubSeq(inbox, taken + 1, Len(inbox)),
    remote <- _remoteIP,
    rest <- IF SnSR = "UDP" THEN Ring(_remaining) ELSE <<>>

DatagramSpec == Received!Spec

\* Every call on an open socket returns.
CallsReturn == ~At("idle") /\ SnSR = "UDP" ~> At("idle")

\* A sketch that polls takes every datagram that has arrived.
ArrivedIsTaken ==
    \A n \in 1 .. MaxIn : Len(inbox) >= n ~> taken >= n \/ Len(inbox) < n

\* While the socket is open no call hangs and no datagram is left behind.
PollingServes == CallsReturn /\ ArrivedIsTaken

----------------------------------------------------------------------------
(* What each label of the code may rely on: with TypeOK it is preserved by  *)
(* every step.                                                              *)

\* The cell behind a datagram, and behind the last one that was taken.
EndOf(datagram) == datagram.at + Len(Cells(datagram))

Taken == IF taken = 0 THEN 0 ELSE EndOf(inbox[taken])

\* The datagrams lie one behind the other.
InboxInOrder ==
    /\ received = IF inbox = <<>> THEN 0 ELSE EndOf(inbox[Len(inbox)])
    /\ \A j \in DOMAIN inbox :
        /\ inbox[j].at = IF j = 1 THEN 0 ELSE EndOf(inbox[j - 1])
        /\ EndOf(inbox[j]) <= received

\* What was taken and not read is what the object expects to be there, and the
\* pointer follows.
PointerRight ==
    /\ RX_RD = freed % PTR
    /\ SnSR = "UDP" => freed + _remaining = Taken
    /\ SnSR = "CLOSED" => inbox = <<>>

\* What was received and not given back is in its place in the ring.
DataRight ==
    \A j \in DOMAIN inbox : \A k \in DOMAIN Cells(inbox[j]) :
        LET cell == inbox[j].at + k - 1
        IN  cell >= freed => rxbuf[cell % RSIZE] = Cells(inbox[j])[k]

\* recv() is asked for a header where one begins, and otherwise for no more
\* than is left; it copies all it was asked for.
CallRight ==
    /\ cpu.caller = "sketch" <=> At("idle")
    /\ At("available") => cpu.caller = "parse" /\ _remaining = 0
    /\ cpu.caller = "header" => cpu.len = HEADER /\ _remaining = 0
    /\ cpu.caller \in {"flush", "parse"} /\ ~At("available") => cpu.len = 1
    /\ cpu.caller \in {"flush", "parse", "read"} /\ ~At("available") =>
          cpu.len \in 1 .. _remaining
    /\ At("copy") => SnSR = "UDP" /\ cpu.ret = cpu.len /\ cpu.ret <= RX_RSR

RecvInv == TypeOK /\ InboxInOrder /\ PointerRight /\ DataRight /\ CallRight

----------------------------------------------------------------------------
(* What is said of the code and does not hold of it. *)

\* Every call returns.  (It does not hold: flush() on an object that was
\* stopped in the middle of a datagram waits for the rest of it.)
StoppedCallsReturn == ~At("idle") ~> At("idle")
=============================================================================
