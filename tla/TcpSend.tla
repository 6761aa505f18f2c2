------------------------------ MODULE TcpSend ------------------------------
(* SOCKETClass::send, as EthernetClient::write calls it on one socket: the  *)
(* transmit buffer is a ring the driver fills and the chip empties, and one *)
(* SEND command may be under way at a time.  The driver does not wait for   *)
(* the end of a SEND when it has given it, but before it gives the next.    *)
(*                                                                          *)
(* The k-th byte the sketch writes to a connection is k.  The 16-bit reads  *)
(* of Sn_TX_FSR are the subject of RegRead: a value other than 0 is one the *)
(* register had, and 0 may be read while it is moving.                      *)
(*                                                                          *)
(* A definition whose comment begins with "Fault" is a plausible mistake in *)
(* the code, kept beside the definition it would replace.                   *)
EXTENDS Integers, Sequences

CONSTANTS
    SSIZE,      \* size of the transmit buffer (2048)
    PTR,        \* values of a buffer pointer (65536)
    LENGTHS,    \* values of send()'s length (65536)
    MaxLen,     \* bound: the largest buffer the sketch writes
    MaxBytes    \* bound: the most bytes written to one connection

ASSUME SendAssumption ==
    /\ SSIZE \in Nat \ {0}
    /\ PTR \in Nat \ {0} /\ PTR > SSIZE /\ PTR % SSIZE = 0
    /\ LENGTHS \in Nat \ {0} /\ MaxLen \in Nat \ {0}
    /\ MaxBytes \in Nat

VARIABLES
    \* the socket in the chip
    SnSR,       \* status: the three that matter here
    SnIR,       \* interrupt flags that are set
    TX_WR,      \* write pointer
    txbuf,      \* the ring
    busy,       \* a SEND is under way
    latched,    \* bytes handed over by SEND on this connection
    acked,      \* bytes the peer has acknowledged
    got,        \* the bytes the peer has received
    \* the driver
    sock_is_sending,
    cpu,        \* send(): where it is and its locals
    given       \* history: bytes write() has reported as written

chip == <<SnSR, SnIR, TX_WR, txbuf, busy, latched, acked, got>>
vars == <<chip, sock_is_sending, cpu, given>>

Connected == {"ESTABLISHED", "CLOSE_WAIT"}

Up == SnSR \in Connected

\* size: parameter of write(); len: parameter of send(); ret: its local;
\* live: history: whether the socket was connected when the call began.
Idle == [pc |-> "idle", size |-> 0, len |-> 0, ret |-> 0, live |-> TRUE]

TX_FSR == SSIZE - (latched - acked)

Init ==
    /\ SnSR = "CLOSED" /\ SnIR = {} /\ TX_WR = 0 /\ txbuf = [i \in 0 .. SSIZE - 1 |-> 0]
    /\ busy = FALSE /\ latched = 0 /\ acked = 0 /\ got = <<>>
    /\ sock_is_sending = FALSE
    /\ cpu = Idle
    /\ given = 0

----------------------------------------------------------------------------
(* The chip and the peer. *)

\* SEND hands over what lies between the old pointer and the new one.  A
\* socket without a connection ignores it.
CmdSEND ==
    /\ IF Up THEN /\ latched' = latched + ((TX_WR - latched) % PTR)
                  /\ busy' = TRUE
             ELSE UNCHANGED <<latched, busy>>
    /\ UNCHANGED <<SnSR, SnIR, TX_WR, txbuf, acked, got>>

ChipSendOk ==
    /\ Up /\ busy
    /\ busy' = FALSE
    /\ SnIR' = SnIR \union {"SEND_OK"}
    /\ UNCHANGED <<SnSR, TX_WR, txbuf, latched, acked, got>>

\* The peer receives the next byte: it is read from the ring.
ChipDeliver ==
    /\ Up /\ Len(got) < latched
    /\ got' = Append(got, txbuf[Len(got) % SSIZE])
    /\ UNCHANGED <<SnSR, SnIR, TX_WR, txbuf, busy, latched, acked>>

ChipAck ==
    /\ Up /\ acked < Len(got)
    /\ acked' = acked + 1
    /\ UNCHANGED <<SnSR, SnIR, TX_WR, txbuf, busy, latched, got>>

ChipFin ==
    /\ SnSR = "ESTABLISHED"
    /\ SnSR' = "CLOSE_WAIT"
    /\ UNCHANGED <<SnIR, TX_WR, txbuf, busy, latched, acked, got>>

\* A RST closes the socket; so do retransmissions without an answer.
ChipAbort ==
    /\ Up
    /\ SnSR' = "CLOSED" /\ busy' = FALSE
    /\ \/ UNCHANGED SnIR
       \/ acked < latched /\ SnIR' = SnIR \union {"TIMEOUT"}
    /\ UNCHANGED <<TX_WR, txbuf, latched, acked, got>>

Chip == ChipSendOk \/ ChipDeliver \/ ChipAck \/ ChipFin \/ ChipAbort

Environment == Chip /\ UNCHANGED <<sock_is_sending, cpu, given>>

----------------------------------------------------------------------------
(* Helpers of the driver. *)

At(label) == cpu.pc = label

Goto(label) ==
    /\ cpu' = [cpu EXCEPT !.pc = label]
    /\ UNCHANGED <<sock_is_sending, given>>

trx == IF cpu.len - cpu.ret > SSIZE THEN SSIZE ELSE cpu.len - cpu.ret

\* SOCKETClass::close, then return 0.
CloseAndFail ==
    /\ SnSR' = "CLOSED" /\ busy' = FALSE
    /\ SnIR' = {}
    /\ sock_is_sending' = FALSE
    /\ cpu' = Idle
    /\ UNCHANGED <<TX_WR, txbuf, latched, acked, got, given>>

\* The connection is stopped or lost, and the socket opened for another one,
\* which comes about.  open() and close() clear the flags.
Open ==
    /\ At("idle")
    /\ SnSR' = "ESTABLISHED" /\ SnIR' = {} /\ TX_WR' = 0 /\ busy' = FALSE
    /\ latched' = 0 /\ acked' = 0 /\ got' = <<>> /\ given' = 0
    /\ sock_is_sending' = FALSE
    /\ UNCHANGED <<txbuf, cpu>>

----------------------------------------------------------------------------
(* SOCKETClass::send *)

\* The top of the loop: the flag is taken down before the wait it calls for.
LoopTop(state, flag) ==
    /\ cpu' = [state EXCEPT !.pc = IF flag THEN "wait.ok" ELSE "size"]
    /\ sock_is_sending' = FALSE

\* The size becomes a uint16_t on its way; with 0 of it write() fails at once.
Write(size) ==
    /\ At("idle") /\ given + size <= MaxBytes
    /\ size % LENGTHS > 0
    /\ LoopTop([Idle EXCEPT !.size = size, !.len = size % LENGTHS, !.live = Up],
               sock_is_sending)
    /\ UNCHANGED <<chip, given>>

WaitOk ==
    /\ At("wait.ok")
    /\ IF "SEND_OK" \in SnIR THEN Goto("clear") ELSE Goto("wait.status")
    /\ UNCHANGED chip

\* Fault: the wait ends only with one of the two flags.
WaitStatusIgnored ==
    /\ At("wait.status")
    /\ Goto("wait.timeout")
    /\ UNCHANGED chip

WaitStatus ==
    /\ At("wait.status")
    /\ \/ Up /\ Goto("wait.timeout") /\ UNCHANGED chip
       \/ ~Up /\ CloseAndFail

\* The flags are cleared and the socket closed.
WaitTimeout ==
    /\ At("wait.timeout")
    /\ \/ "TIMEOUT" \notin SnIR /\ Goto("wait.ok") /\ UNCHANGED chip
       \/ "TIMEOUT" \in SnIR /\ CloseAndFail

\* Fault: SEND_OK of the last SEND is left for the next one.
ClearOkForgotten ==
    /\ At("clear")
    /\ Goto("size")
    /\ UNCHANGED chip

ClearOk ==
    /\ At("clear")
    /\ SnIR' = SnIR \ {"SEND_OK"}
    /\ Goto("size")
    /\ UNCHANGED <<SnSR, TX_WR, txbuf, busy, latched, acked, got>>

\* Fault: room for one byte is taken for room for all of them.
SizeAnyRoom ==
    /\ At("size") /\ TX_FSR > 0
    /\ Goto("copy")
    /\ UNCHANGED chip

SizeRoom ==
    /\ At("size") /\ TX_FSR >= trx
    /\ Goto("copy")
    /\ UNCHANGED chip

\* Too small, or a 0 read while the register was moving.
SizeNoRoom ==
    /\ At("size") /\ (TX_FSR < trx \/ acked > 0)
    /\ Goto("size.status")
    /\ UNCHANGED chip

SizeStatus ==
    /\ At("size.status")
    /\ \/ Up /\ Goto("size") /\ UNCHANGED chip
       \/ ~Up /\ CloseAndFail

\* Fault: every chunk is taken from the start of the buffer.
CopyFromStart ==
    /\ At("copy")
    /\ txbuf' = [i \in 0 .. SSIZE - 1 |->
           LET k == (i - TX_WR) % SSIZE
           IN  IF k < trx THEN given + k + 1 ELSE txbuf[i]]
    /\ TX_WR' = (TX_WR + trx) % PTR
    /\ Goto("command")
    /\ UNCHANGED <<SnSR, SnIR, busy, latched, acked, got>>

\* send_data_processing: buf+ret goes to the ring, whose addresses wrap around
\* as the 16-bit pointer does.
Copy ==
    /\ At("copy")
    /\ txbuf' = [i \in 0 .. SSIZE - 1 |->
           LET k == (i - TX_WR) % SSIZE
           IN  IF k < trx THEN given + cpu.ret + k + 1 ELSE txbuf[i]]
    /\ TX_WR' = (TX_WR + trx) % PTR
    /\ Goto("command")
    /\ UNCHANGED <<SnSR, SnIR, busy, latched, acked, got>>

\* Fault: the flag goes up only for a buffer that needs another chunk.
CommandFlagLate ==
    /\ At("command")
    /\ CmdSEND
    /\ IF cpu.ret + trx < cpu.len
       THEN LoopTop([cpu EXCEPT !.ret = @ + trx], TRUE) /\ UNCHANGED given
       ELSE cpu' = Idle /\ given' = given + cpu.size /\ UNCHANGED sock_is_sending

\* Fault: the last chunk waits in the ring for the SEND of the next call.
CommandNotLast ==
    /\ At("command")
    /\ IF cpu.ret + trx < cpu.len
       THEN CmdSEND /\ LoopTop([cpu EXCEPT !.ret = @ + trx], TRUE) /\ UNCHANGED given
       ELSE /\ cpu' = Idle /\ given' = given + cpu.size
            /\ UNCHANGED <<chip, sock_is_sending>>

\* SEND, and the flag goes up: for the next chunk or for the next call.
Command ==
    /\ At("command")
    /\ CmdSEND
    /\ IF cpu.ret + trx < cpu.len
       THEN LoopTop([cpu EXCEPT !.ret = @ + trx], TRUE) /\ UNCHANGED given
       ELSE cpu' = Idle /\ sock_is_sending' = TRUE /\ given' = given + cpu.size

Driver ==
    \/ WaitOk \/ WaitStatus \/ WaitTimeout \/ ClearOk
    \/ SizeRoom \/ SizeNoRoom \/ SizeStatus \/ Copy \/ Command

Next == Open \/ (\E size \in 1 .. MaxLen : Write(size)) \/ Driver \/ Environment

Spec == Init /\ [][Next]_vars

\* The driver runs; a read of the size is torn only while the register moves,
\* and it moves SSIZE times at most without a SEND.  The chip ends a SEND and
\* the peer takes and acknowledges what it is sent, or the connection breaks.
FairSpec ==
    /\ Spec
    /\ WF_vars(Driver) /\ SF_vars(SizeRoom)
    /\ WF_vars(ChipSendOk /\ UNCHANGED <<sock_is_sending, cpu, given>>)
    /\ WF_vars(ChipDeliver /\ UNCHANGED <<sock_is_sending, cpu, given>>)
    /\ WF_vars(ChipAck /\ UNCHANGED <<sock_is_sending, cpu, given>>)

----------------------------------------------------------------------------
(* Properties *)

Labels == {"idle", "wait.ok", "wait.status", "wait.timeout", "clear", "size",
           "size.status", "copy", "command"}

\* Every variable has its type, and the ring never holds more than fits in.
TypeOK ==
    /\ SnSR \in Connected \union {"CLOSED"}
    /\ SnIR \subseteq {"SEND_OK", "TIMEOUT"}
    /\ TX_WR \in 0 .. PTR - 1
    /\ txbuf \in [0 .. SSIZE - 1 -> Nat]
    /\ busy \in BOOLEAN
    /\ acked \in Nat /\ latched \in acked .. acked + SSIZE
    /\ got \in Seq(Nat) /\ Len(got) \in acked .. latched
    /\ sock_is_sending \in BOOLEAN
    /\ cpu \in [pc : Labels, size : 0 .. MaxLen, len : 0 .. MaxLen, ret : 0 .. MaxLen,
                live : BOOLEAN]
    /\ given \in Nat

\* The bytes the peer receives are the ones the sketch wrote, in their order:
\* no byte is overwritten in the ring before the peer has it, across chunks,
\* calls and the wrap-around of ring and pointer.
Stream == INSTANCE ByteStream WITH up <- Up, put <- latched, got <- got

StreamSpec == Stream!Spec

\* A SEND is given only when the one before is over: the flag is remembered
\* from one call to the next, and lost with the connection only.
OneSendAtATime ==
    [][At("command") /\ cpu'.pc # "command" => ~busy]_vars

\* The flag and the socket agree between two calls: with the flag down nothing
\* is under way, with the flag up either a SEND is, or its SEND_OK is waiting,
\* or the connection is gone.
FlagIsRight ==
    At("idle") =>
        /\ ~sock_is_sending => ~busy /\ "SEND_OK" \notin SnIR
        /\ sock_is_sending /\ Up => busy # ("SEND_OK" \in SnIR)

\* Every write comes back: with all bytes taken, or because the connection is
\* gone.
WriteReturns == ~At("idle") ~> At("idle")

\* What write() reports as written reaches the peer, if the connection lives.
\* (Of a buffer larger than a uint16_t says, the rest is reported and not sent.)
WrittenArrives ==
    \A n \in 1 .. MaxBytes : given >= n ~> Len(got) >= n \/ ~Up \/ given < n

----------------------------------------------------------------------------
(* What each label of the code may rely on: with the invariants above it is *)
(* preserved by every step.                                                 *)

\* Inside send() there is something left to send, and the flag is down.
InSend == ~At("idle") => cpu.ret < cpu.len /\ ~sock_is_sending

\* What is known of the last SEND, from the waits on.
LastSend ==
    /\ busy => Up
    /\ At("wait.ok") \/ At("wait.status") \/ At("wait.timeout") =>
           (Up => busy # ("SEND_OK" \in SnIR))
    /\ At("clear") => ~busy
    /\ cpu.pc \in {"size", "size.status", "copy", "command"} =>
           ~busy /\ "SEND_OK" \notin SnIR

\* Bytes that are in the ring and not yet handed over.
pending == IF At("command") THEN trx ELSE 0

\* The pointer follows the bytes, and a chunk is only copied where there is room.
PointerRight == Up => TX_WR = (latched + pending) % PTR

RoomFound == Up /\ cpu.pc \in {"copy", "command"} => trx <= TX_FSR

SendInv ==
    TypeOK /\ FlagIsRight /\ InSend /\ LastSend /\ PointerRight /\ RoomFound

\* The bytes the peer has not acknowledged are in their places in the ring, and
\* it has received those before them.
DataInv ==
    /\ cpu.len = cpu.size
    /\ At("idle") => cpu.ret = 0
    /\ Up => latched = given + cpu.ret
    /\ Up => \A k \in acked + 1 .. latched + pending : txbuf[(k - 1) % SSIZE] = k
    /\ got = [k \in 1 .. Len(got) |-> k]

----------------------------------------------------------------------------
(* What is said of the code and does not hold of it. *)

\* send() returns 0 on a socket that is not connected.  (It does not hold: the
\* status is looked at only in the two waits.)
FailsWhenClosed ==
    [][At("command") /\ cpu'.pc = "idle" => cpu.live]_vars
=============================================================================
