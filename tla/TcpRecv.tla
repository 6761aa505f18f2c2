------------------------------ MODULE TcpRecv ------------------------------
(* SOCKETClass::recv and peek, as EthernetClient::read, peek, available and *)
(* connected call them on one socket: the receive buffer is a ring that the *)
(* chip fills and the driver empties.                                       *)
(*                                                                          *)
(* The k-th byte the peer sends on a connection is k.  The 16-bit reads of  *)
(* Sn_RX_RSR are the subject of RegRead: a value other than 0 is one the    *)
(* register had, and 0 may be read while it is moving.                      *)
(*                                                                          *)
(* A definition whose comment begins with "Fault" is a plausible mistake in *)
(* the code, kept beside the definition it would replace.                   *)
EXTENDS Integers, Sequences

CONSTANTS
    RSIZE,      \* size of the receive buffer (2048)
    PTR,        \* values of a buffer pointer (65536)
    LENGTHS,    \* values of recv()'s length (65536), half of them negative
    MaxLen,     \* bound: the largest buffer the sketch reads into
    MaxBytes    \* bound: the most bytes the peer sends on one connection

ASSUME RecvAssumption ==
    /\ RSIZE \in Nat \ {0}
    /\ PTR \in Nat \ {0} /\ PTR > RSIZE /\ PTR % RSIZE = 0
    /\ LENGTHS \in Nat \ {0} /\ LENGTHS % 2 = 0 /\ MaxLen \in Nat \ {0}
    /\ MaxBytes \in Nat

VARIABLES
    \* the socket in the chip
    SnSR,       \* status: the three that matter here
    RX_RD,      \* read pointer
    rxbuf,      \* the ring
    received,   \* bytes received on this connection
    freed,      \* bytes given back by RECV
    \* the driver
    cpu,        \* the operation, where it is and its locals
    got,        \* history: the bytes the sketch has read
    over        \* history: the status connected() has found the end by, or "no"

chip == <<SnSR, RX_RD, rxbuf, received, freed>>
vars == <<chip, cpu, got, over>>

Slots == 0 .. RSIZE - 1

RX_RSR == received - freed

\* len: parameter of recv(); ret: its local; result: what the last call of
\* read() returned.
Start(label, n, result) == [pc |-> label, len |-> n, ret |-> 0, result |-> result]

Init ==
    /\ SnSR = "CLOSED" /\ RX_RD = 0 /\ rxbuf = [i \in Slots |-> 0]
    /\ received = 0 /\ freed = 0
    /\ cpu = Start("idle", 0, -1)
    /\ got = <<>>
    /\ over = "no"

----------------------------------------------------------------------------
(* The chip and the peer. *)

ChipData ==
    /\ SnSR = "ESTABLISHED" /\ RX_RSR < RSIZE /\ received < MaxBytes
    /\ rxbuf' = [rxbuf EXCEPT ![received % RSIZE] = received + 1]
    /\ received' = received + 1
    /\ UNCHANGED <<SnSR, RX_RD, freed>>

ChipFin ==
    /\ SnSR = "ESTABLISHED"
    /\ SnSR' = "CLOSE_WAIT"
    /\ UNCHANGED <<RX_RD, rxbuf, received, freed>>

ChipAbort ==
    /\ SnSR # "CLOSED"
    /\ SnSR' = "CLOSED"
    /\ UNCHANGED <<RX_RD, rxbuf, received, freed>>

Chip == ChipData \/ ChipFin \/ ChipAbort

Environment == Chip /\ UNCHANGED <<cpu, got, over>>

----------------------------------------------------------------------------
(* The driver. *)

At(label) == cpu.pc = label

Goto(label) == cpu' = [cpu EXCEPT !.pc = label]

\* A read of Sn_RX_RSR gives 0.
ReadsZero == RX_RSR = 0 \/ (SnSR = "ESTABLISHED" /\ received > 0)

\* The socket is opened for another connection, which comes about.
Open ==
    /\ At("idle")
    /\ SnSR' = "ESTABLISHED" /\ RX_RD' = 0 /\ received' = 0 /\ freed' = 0
    /\ got' = <<>> /\ over' = "no"
    /\ UNCHANGED <<rxbuf, cpu>>

\* A size_t as an int16_t.
Int16(size) == ((size + LENGTHS \div 2) % LENGTHS) - LENGTHS \div 2

Recv(size) ==
    /\ At("idle")
    /\ cpu' = Start("size", Int16(size), cpu.result)
    /\ UNCHANGED <<chip, got, over>>

\* Fault: recv() waits for as much as the sketch wants.
RecvSizeAll ==
    /\ At("size") /\ RX_RSR > 0
    /\ IF RX_RSR < cpu.len THEN UNCHANGED cpu
       ELSE cpu' = [cpu EXCEPT !.pc = "copy", !.ret = cpu.len]
    /\ UNCHANGED <<chip, got, over>>

RecvSize ==
    /\ At("size") /\ RX_RSR > 0
    /\ LET ret == IF RX_RSR > cpu.len THEN cpu.len ELSE RX_RSR
       IN  IF ret > 0 THEN cpu' = [cpu EXCEPT !.pc = "copy", !.ret = ret]
           ELSE cpu' = Start("idle", 0, ret)
    /\ UNCHANGED <<chip, got, over>>

RecvNone ==
    /\ At("size") /\ ReadsZero
    /\ Goto("status")
    /\ UNCHANGED <<chip, got, over>>

\* 0 is the end of the connection, -1 is no data.
RecvStatus ==
    /\ At("status")
    /\ cpu' = Start("idle", 0, IF SnSR \in {"CLOSED", "CLOSE_WAIT"} THEN 0 ELSE -1)
    /\ UNCHANGED <<chip, got, over>>

\* Fault: the pointer moves by the size of the sketch's buffer.
RecvCopyLen ==
    /\ At("copy")
    /\ got' = got \o [k \in 1 .. cpu.ret |-> rxbuf[(RX_RD + k - 1) % RSIZE]]
    /\ RX_RD' = (RX_RD + cpu.len) % PTR
    /\ Goto("command")
    /\ UNCHANGED <<SnSR, rxbuf, received, freed, over>>

\* recv_data_processing: the ring's addresses wrap around as the pointer does.
RecvCopy ==
    /\ At("copy")
    /\ got' = got \o [k \in 1 .. cpu.ret |-> rxbuf[(RX_RD + k - 1) % RSIZE]]
    /\ RX_RD' = (RX_RD + cpu.ret) % PTR
    /\ Goto("command")
    /\ UNCHANGED <<SnSR, rxbuf, received, freed, over>>

\* Fault: the pointer is written, but no RECV is given.
RecvCommandForgotten ==
    /\ At("command")
    /\ cpu' = Start("idle", 0, cpu.ret)
    /\ UNCHANGED <<chip, got, over>>

\* RECV gives back what the pointer has passed.
RecvCommand ==
    /\ At("command")
    /\ freed' = freed + ((RX_RD - freed) % PTR)
    /\ cpu' = Start("idle", 0, cpu.ret)
    /\ UNCHANGED <<SnSR, RX_RD, rxbuf, received, got, over>>

Peek ==
    /\ At("idle")
    /\ cpu' = Start("peek.size", 1, cpu.result)
    /\ UNCHANGED <<chip, got, over>>

\* Fault: peek() does not look whether there is any data.
PeekSizeUnseen ==
    /\ At("peek.size")
    /\ Goto("peek.copy")
    /\ UNCHANGED <<chip, got, over>>

PeekSize ==
    /\ At("peek.size")
    /\ \/ RX_RSR > 0 /\ Goto("peek.copy")
       \/ ReadsZero /\ cpu' = Start("idle", 0, cpu.result)
    /\ UNCHANGED <<chip, got, over>>

\* recv_data_processing with peek set: the pointer stays.
PeekCopy ==
    /\ At("peek.copy")
    /\ cpu' = Start("idle", 0, cpu.result)
    /\ UNCHANGED <<chip, got, over>>

\* EthernetClient::connected: a CLOSED socket is at its end whatever has not
\* been read; in CLOSE_WAIT it looks for unread data.  (LISTEN and FIN_WAIT,
\* which are like CLOSED to it, are no statuses of a socket that has its
\* connection: see HalfClosedOnlyInStop in EthernetSockets for FIN_WAIT.)
ConnectedStatus ==
    /\ At("idle")
    /\ \/ SnSR = "CLOSED" /\ over' = SnSR /\ UNCHANGED cpu
       \/ /\ SnSR = "CLOSE_WAIT"
          /\ cpu' = Start("connected.size", 0, cpu.result)
          /\ UNCHANGED over
    /\ UNCHANGED <<chip, got>>

ConnectedSize ==
    /\ At("connected.size")
    /\ cpu' = Start("idle", 0, cpu.result)
    /\ over' = IF RX_RSR = 0 THEN "CLOSE_WAIT" ELSE "no"
    /\ UNCHANGED <<chip, got>>

\* Fault: connected() reads the size first, the status afterwards.
ConnectedSizeFirst ==
    /\ \/ /\ At("idle") /\ ReadsZero
          /\ cpu' = Start("connected.size", 0, cpu.result)
          /\ UNCHANGED over
       \/ /\ At("connected.size")
          /\ cpu' = Start("idle", 0, cpu.result)
          /\ over' = IF SnSR = "ESTABLISHED" THEN "no" ELSE SnSR
    /\ UNCHANGED <<chip, got>>

Connected == ConnectedStatus \/ ConnectedSize

Sketch == Open \/ (\E size \in 1 .. MaxLen : Recv(size)) \/ Peek

Driver ==
    \/ RecvSize \/ RecvNone \/ RecvStatus \/ RecvCopy \/ RecvCommand
    \/ PeekSize \/ PeekCopy

Next == Sketch \/ Driver \/ Connected \/ Environment

Spec == Init /\ [][Next]_vars

\* A sketch that reads again and again, also into buffers whose size is no
\* int16_t, but not only.  A read of Sn_RX_RSR is torn only while the register
\* moves, and it moves RSIZE times at most without a RECV.
PollingSpec ==
    /\ Spec
    /\ WF_vars(Driver) /\ WF_vars(ConnectedSize) /\ SF_vars(cpu.len > 0 /\ RecvSize)
    /\ SF_vars(\E size \in 1 .. MaxLen : Int16(size) > 0 /\ Recv(size))

----------------------------------------------------------------------------
(* Properties *)

Labels == {"idle", "size", "status", "copy", "command", "peek.size",
           "peek.copy", "connected.size"}

\* Every variable has its type; what the chip counts fits into the ring.
TypeOK ==
    /\ SnSR \in {"CLOSED", "ESTABLISHED", "CLOSE_WAIT"}
    /\ RX_RD \in 0 .. PTR - 1
    /\ rxbuf \in [Slots -> Nat]
    /\ freed \in Nat /\ received \in freed .. freed + RSIZE
    /\ cpu \in [pc : Labels, len : -LENGTHS .. MaxLen, ret : 0 .. MaxLen,
                result : -LENGTHS .. MaxLen]
    /\ got \in Seq(Nat)
    /\ over \in {"no", "CLOSED", "CLOSE_WAIT"}

\* The bytes the sketch reads are the ones the peer sent, in their order,
\* whatever sizes it reads in and wherever ring and pointer wrap around.
Stream == INSTANCE ByteStream WITH
              up <- SnSR = "ESTABLISHED", put <- received, got <- got

StreamSpec == Stream!Spec

\* peek() returns the byte the next read() will return.
PeekIsNext ==
    At("peek.copy") => /\ Len(got) < received
                       /\ rxbuf[RX_RD % RSIZE] = Len(got) + 1

\* Where connected() has answered 0, the sketch has read every byte and none
\* will arrive, unless it found the socket CLOSED: only an abort (a RST, or a
\* timeout) can end a connection for the sketch with bytes unread, a FIN can
\* not, wherever it falls among the reads of the registers.
OverMeansRead == over # "no" => over = "CLOSED" \/ Len(got) = received

\* Whatever has arrived can be read by a sketch that keeps reading.
ArrivedIsRead ==
    \A n \in 1 .. MaxBytes : received >= n ~> Len(got) >= n \/ received < n

----------------------------------------------------------------------------
(* What each label of the code may rely on: with the invariants above it is *)
(* preserved by every step.                                                 *)

\* Bytes that have been copied and not yet given back.
taken == IF At("command") THEN cpu.ret ELSE 0

\* The sketch has read what has been given back and what is about to be, and
\* the pointer follows.
PointerRight ==
    /\ Len(got) = freed + taken
    /\ RX_RD = Len(got) % PTR

\* No more is copied than is there, which only grows until RECV is given.
DataSeen ==
    /\ cpu.pc \in {"copy", "command"} => cpu.ret \in 1 .. RX_RSR
    /\ At("peek.copy") => RX_RSR > 0

\* What has arrived and not been given back is in its place in the ring, and
\* the sketch has read what came before the pointer.
DataRight ==
    /\ \A k \in freed + 1 .. received : rxbuf[(k - 1) % RSIZE] = k
    /\ got = [k \in 1 .. Len(got) |-> k]

\* Nothing arrives once the connection has been found to be ending.
EndRight ==
    /\ At("connected.size") => SnSR # "ESTABLISHED"
    /\ over = "CLOSE_WAIT" => SnSR # "ESTABLISHED" /\ RX_RSR = 0

RecvInv == TypeOK /\ PointerRight /\ DataSeen /\ DataRight /\ EndRight

----------------------------------------------------------------------------
(* What is said of the code and does not hold of it. *)

\* recv() returns 0 at the end of the connection: all bytes have been read.
\* (It does not hold: data and FIN may come between the read of the size and
\* the read of the status.)
EofIsReal ==
    [][At("status") /\ cpu'.result = 0 => Len(got) = received]_vars

\* What a sketch that reads while connected() relies on: 0 means that all bytes
\* have been read.  (It does not hold: when a RST follows the data the status
\* is CLOSED, and connected() does not look for unread bytes.)
ConnectedUntilRead == over # "no" => Len(got) = received
=============================================================================
