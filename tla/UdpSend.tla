------------------------------ MODULE UdpSend ------------------------------
(* The sending half of an EthernetUDP object and its hardware socket:       *)
(* beginPacket, write and endPacket with SOCKETClass::startUDP, bufferData  *)
(* and sendUDP.  The datagram is built in the chip's transmit ring.         *)
(*                                                                          *)
(* Byte k of a datagram being built is k.  As in UdpRecv there is one       *)
(* socket, and an object that was stopped reaches it although it is closed. *)
(* The 16-bit reads of Sn_TX_FSR are the subject of RegRead.                *)
(*                                                                          *)
(* A definition whose comment begins with "Fault" is a plausible mistake in *)
(* the code, kept beside the definition it would replace.                   *)
EXTENDS Integers, Sequences

CONSTANTS
    SSIZE,      \* size of the transmit ring (2048)
    PTR,        \* values of a buffer pointer (65536)
    MaxLen,     \* bound: the largest buffer of write()
    MaxDraft    \* bound: bytes written to one datagram

ASSUME UdpSendAssumption ==
    /\ SSIZE \in Nat \ {0}
    /\ PTR \in Nat /\ PTR > SSIZE /\ PTR % SSIZE = 0
    /\ MaxLen \in Nat \ {0} /\ MaxDraft \in 1 .. PTR - 1

VARIABLES
    \* the socket in the chip
    SnSR, SnIR,
    TX_RD, TX_WR,   \* where the next datagram to send begins and ends
    txbuf,          \* the transmit ring
    busy,           \* a SEND is under way
    \* the object
    _offset,
    pc,             \* where the driver is
    \* history
    drafting,       \* the sketch is building a datagram
    draft           \* how many bytes write() has accepted for it

chip == <<SnSR, SnIR, TX_RD, TX_WR, txbuf, busy>>
vars == <<chip, _offset, pc, drafting, draft>>

Init ==
    /\ SnSR = "CLOSED" /\ SnIR = {}
    /\ TX_RD = 0 /\ TX_WR = 0 /\ busy = FALSE
    /\ txbuf = [i \in 0 .. SSIZE - 1 |-> 0]
    /\ _offset = 0
    /\ pc = "idle"
    /\ drafting = FALSE /\ draft = 0

----------------------------------------------------------------------------
(* The chip. *)

\* The datagram is sent, or nobody answers for its address.
ChipSendEnds(flag) ==
    /\ busy
    /\ SnIR' = SnIR \union {flag}
    /\ busy' = FALSE /\ TX_RD' = TX_WR
    /\ UNCHANGED <<SnSR, TX_WR, txbuf, _offset, pc, drafting, draft>>

ChipSend == ChipSendEnds("SEND_OK") \/ ChipSendEnds("TIMEOUT")

----------------------------------------------------------------------------
(* begin() and stop() *)

At(label) == pc = label

\* OPEN and CLOSE empty the ring; close() clears the flags.
Restart(status) ==
    /\ SnSR' = status /\ SnIR' = {} /\ busy' = FALSE
    /\ TX_RD' = 0 /\ TX_WR' = 0
    /\ drafting' = FALSE
    /\ UNCHANGED <<txbuf, _offset, pc, draft>>

Begin == At("idle") /\ SnSR = "CLOSED" /\ Restart("UDP")

Stop == At("idle") /\ SnSR = "UDP" /\ Restart("CLOSED")

----------------------------------------------------------------------------
(* beginPacket(), write() and endPacket() *)

\* Room in the transmit ring.  What the driver has written is not counted
\* before SEND.
TX_FSR == SSIZE - (IF busy THEN (TX_WR - TX_RD) % PTR ELSE 0)

\* Sn_TX_WR reads as it was at the last SEND.
readSnTX_WR == IF busy THEN TX_WR ELSE TX_RD

\* Fault: beginPacket() does not start at the beginning.
BeginPacketKeepsOffset ==
    /\ At("idle")
    /\ drafting' = TRUE /\ draft' = 0
    /\ UNCHANGED <<chip, _offset, pc>>

\* With address 0 or port 0 startUDP() leaves the old ones in the chip.
BeginPacket ==
    /\ At("idle")
    /\ _offset' = 0
    /\ drafting' = TRUE /\ draft' = 0
    /\ UNCHANGED <<chip, pc>>

\* bufferData() takes as much as there is room for.
Buffered(len) == IF len > TX_FSR THEN TX_FSR ELSE len

\* write(): it goes to the place behind what the datagram already has.
Write(len) ==
    /\ At("idle") /\ drafting /\ draft + len <= MaxDraft
    /\ LET ret == Buffered(len)
           ptr == (readSnTX_WR + _offset) % PTR
       IN  /\ txbuf' = [i \in DOMAIN txbuf |->
                  LET k == (i - ptr) % SSIZE
                  IN  IF k < ret THEN draft + k + 1 ELSE txbuf[i]]
           /\ TX_WR' = (ptr + ret) % PTR
           /\ _offset' = _offset + ret
           /\ draft' = draft + ret
    /\ UNCHANGED <<SnSR, SnIR, busy, TX_RD, pc, drafting>>

\* SEND; a socket that is not open ignores it.
EndPacket ==
    /\ At("idle") /\ drafting
    /\ busy' = (SnSR = "UDP")
    /\ drafting' = FALSE
    /\ pc' = "send.ok"
    /\ UNCHANGED <<SnSR, SnIR, TX_RD, TX_WR, txbuf, _offset, draft>>

\* Fault: SEND_OK is left for the next datagram.
SendOkKept ==
    /\ At("send.ok")
    /\ \/ "SEND_OK" \in SnIR /\ pc' = "idle"
       \/ "SEND_OK" \notin SnIR /\ pc' = "send.timeout"
    /\ UNCHANGED <<chip, _offset, drafting, draft>>

SendOk ==
    /\ At("send.ok")
    /\ \/ "SEND_OK" \in SnIR /\ SnIR' = SnIR \ {"SEND_OK"} /\ pc' = "idle"
       \/ /\ "SEND_OK" \notin SnIR /\ pc' = "send.timeout"
          /\ UNCHANGED SnIR
    /\ UNCHANGED <<SnSR, TX_RD, TX_WR, txbuf, busy, _offset, drafting, draft>>

\* Fault: sendUDP() waits for SEND_OK alone.
SendTimeoutIgnored ==
    /\ At("send.timeout")
    /\ pc' = "send.ok"
    /\ UNCHANGED <<chip, _offset, drafting, draft>>

SendTimeout ==
    /\ At("send.timeout")
    /\ \/ "TIMEOUT" \in SnIR /\ SnIR' = {} /\ pc' = "idle"
       \/ /\ "TIMEOUT" \notin SnIR /\ pc' = "send.ok"
          /\ UNCHANGED SnIR
    /\ UNCHANGED <<SnSR, TX_RD, TX_WR, txbuf, busy, _offset, drafting, draft>>

----------------------------------------------------------------------------

Sketch ==
    \/ Begin \/ Stop \/ BeginPacket \/ EndPacket
    \/ \E len \in 1 .. MaxLen : Write(len)

Driver == SendOk \/ SendTimeout

Next == Sketch \/ Driver \/ ChipSend

Spec == Init /\ [][Next]_vars

\* A call that was made goes on, and a SEND comes to an end.
ReturningSpec == Spec /\ WF_vars(Driver) /\ WF_vars(ChipSend)

----------------------------------------------------------------------------
(* Properties *)

Labels == {"idle", "send.ok", "send.timeout"}

\* Every variable has its type; a datagram being built starts at its beginning.
TypeOK ==
    /\ SnSR \in {"CLOSED", "UDP"} /\ SnIR \subseteq {"SEND_OK", "TIMEOUT"}
    /\ TX_RD \in 0 .. PTR - 1 /\ TX_WR \in 0 .. PTR - 1 /\ busy \in BOOLEAN
    /\ txbuf \in [0 .. SSIZE - 1 -> Nat]
    /\ _offset \in 0 .. MaxDraft /\ pc \in Labels
    /\ drafting \in BOOLEAN /\ draft \in Nat

Outgoing ==
    [k \in 1 .. (TX_WR - TX_RD) % PTR |-> txbuf[(TX_RD + k - 1) % SSIZE]]

\* What the chip sends is the datagram endPacket() is waiting for, and the
\* driver never writes to it; one that has data and fits into the ring is sent
\* as it was written, whatever was written for datagrams that were never ended.
\* (The other two kinds are not: see SentIsDraft.)
SentIsWritten ==
    busy => /\ At("send.ok") \/ At("send.timeout")
            /\ draft \in 1 .. SSIZE => Outgoing = [k \in 1 .. draft |-> k]

\* endPacket() on an open socket returns, whatever becomes of the datagram.
EndPacketReturns == ~At("idle") /\ SnSR = "UDP" ~> At("idle")

----------------------------------------------------------------------------
(* What each point of the code may rely on: with the invariants above it is *)
(* preserved by every step.                                                 *)

\* A datagram ends where write() has left the pointer, and its bytes lie in the
\* ring from the pointer of the last SEND on.
Drafted ==
    /\ draft <= MaxDraft /\ TX_WR = (TX_RD + draft) % PTR
    /\ draft <= SSIZE => \A k \in 1 .. draft : txbuf[(TX_RD + k - 1) % SSIZE] = k

SendInv ==
    /\ TypeOK
    /\ drafting => At("idle") /\ _offset = draft
    /\ At("idle") => ~busy /\ SnIR = {}
    /\ busy => SnIR = {}
    /\ SnIR # {"SEND_OK", "TIMEOUT"}
    /\ (drafting \/ busy) /\ draft >= 1 => Drafted

----------------------------------------------------------------------------
(* What is said of the code and does not hold of it. *)

\* endPacket() sends what write() has accepted since beginPacket().  (It does
\* not hold: bufferData() does not count what the datagram already has, so one
\* that is larger than the ring overwrites its own start; and a datagram
\* without data sends what was written for the one before, if that was never
\* ended.)
SentIsDraft == busy => Outgoing = [k \in 1 .. draft |-> k]

\* endPacket() returns.  (It does not hold: sendUDP() on an object that was
\* stopped waits for a flag that a closed socket never raises.)
EndPacketEnds == ~At("idle") ~> At("idle")
=============================================================================
