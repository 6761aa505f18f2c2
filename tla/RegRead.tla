------------------------------ MODULE RegRead ------------------------------
(* W5500Class::getTXFreeSize and getRXReceivedSize: how the driver reads a  *)
(* 16-bit size register that the chip changes between the transfer of its   *)
(* two bytes.  The high byte is transferred first.                          *)
(*                                                                          *)
(* While a call is under way the register only grows: data arrives, or the  *)
(* peer acknowledges data.  Only the driver's own RECV and SEND make it     *)
(* smaller, between two calls.                                              *)
(*                                                                          *)
(* The names are such that a module on the data behind the register can     *)
(* extend this one beside its own (TcpRecvProofs does).                     *)
(*                                                                          *)
(* A definition whose comment begins with "Fault" is a plausible mistake in *)
(* the code, kept to see that a property notices it.                        *)
EXTENDS Integers

CONSTANT BYTE   \* values of one byte: 256

ASSUME ByteAssumption == BYTE \in Nat \ {0}

VARIABLES
    reg,        \* the register
    pc,         \* next byte to transfer, or "done"
    hi,         \* high byte of the transfer under way
    val, val1,  \* the locals of the code
    start,      \* history: the register when the call began
    once        \* history: the register at the last low byte of val1

readVars == <<reg, pc, hi, val, val1, start, once>>

\* A register value is kept as its two bytes.
Words == [hi : 0 .. BYTE - 1, lo : 0 .. BYTE - 1]

Zero == [hi |-> 0, lo |-> 0]

\* a is at most b.
LE(a, b) == a.hi < b.hi \/ (a.hi = b.hi /\ a.lo <= b.lo)

ReadInit ==
    /\ reg \in Words
    /\ pc = "hi1" /\ hi = 0 /\ val = Zero /\ val1 = Zero
    /\ start = reg /\ once = reg

\* The chip moves the register on.
Grow ==
    /\ \E w \in Words : LE(reg, w) /\ reg' = w
    /\ UNCHANGED <<pc, hi, val, val1, start, once>>

\* Fault: the transfer starts at the address of the low byte.
ReadHighAtLow ==
    /\ \/ pc = "hi1" /\ pc' = "lo1"
       \/ pc = "hi2" /\ pc' = "lo2"
    /\ hi' = reg.lo
    /\ UNCHANGED <<reg, val, val1, start, once>>

ReadHigh ==
    /\ \/ pc = "hi1" /\ pc' = "lo1"
       \/ pc = "hi2" /\ pc' = "lo2"
    /\ hi' = reg.hi
    /\ UNCHANGED <<reg, val, val1, start, once>>

\* Fault: a zero is read again instead of being returned.
ReadLow1NotZero ==
    /\ pc = "lo1"
    /\ val1' = [hi |-> hi, lo |-> reg.lo]
    /\ once' = reg
    /\ pc' = IF val1' # Zero THEN "hi2" ELSE "hi1"
    /\ UNCHANGED <<reg, hi, val, start>>

\* val1 = readSn...; a zero is compared with val without a second read.
ReadLow1 ==
    /\ pc = "lo1"
    /\ val1' = [hi |-> hi, lo |-> reg.lo]
    /\ once' = reg
    /\ pc' = IF val1' # Zero THEN "hi2" ELSE IF val = Zero THEN "done" ELSE "hi1"
    /\ UNCHANGED <<reg, hi, val, start>>

\* Fault: the loop ends when the two reads agree in their low bytes.
ReadLow2LowByte ==
    /\ pc = "lo2"
    /\ val' = [hi |-> hi, lo |-> reg.lo]
    /\ pc' = IF val'.lo = val1.lo THEN "done" ELSE "hi1"
    /\ UNCHANGED <<reg, hi, val1, start, once>>

\* val = readSn...; the loop ends when both reads agree.
ReadLow2 ==
    /\ pc = "lo2"
    /\ val' = [hi |-> hi, lo |-> reg.lo]
    /\ pc' = IF val' = val1 THEN "done" ELSE "hi1"
    /\ UNCHANGED <<reg, hi, val1, start, once>>

\* The caller uses the value, takes or adds data, and calls again later.
CallAgain ==
    /\ pc = "done"
    /\ pc' = "hi1"
    /\ reg' \in Words
    /\ start' = reg' /\ once' = reg'
    /\ hi' = 0 /\ val' = Zero /\ val1' = Zero

ReadByte == ReadHigh \/ ReadLow1 \/ ReadLow2

ReadNext == Grow \/ ReadByte \/ CallAgain

ReadSpec == ReadInit /\ [][ReadNext]_readVars

FairReads == ReadSpec /\ WF_readVars(ReadByte)

----------------------------------------------------------------------------
(* Properties *)

ReadTypeOK ==
    /\ reg \in Words /\ val \in Words /\ val1 \in Words
    /\ start \in Words /\ once \in Words
    /\ hi \in 0 .. BYTE - 1
    /\ pc \in {"hi1", "lo1", "hi2", "lo2", "done"}

\* A size that is returned is no more than there really is, even if its bytes
\* are of two values: the driver neither reads bytes that have not arrived nor
\* overwrites bytes that are not sent.
NeverTooMuch == pc = "done" => LE(val, reg)

\* A size other than 0 is one the register had during the call, although every
\* single read may mix the bytes of two values.
RealValue == pc = "done" /\ val # Zero => val = once /\ LE(start, val)

\* Every call returns: the register cannot grow for ever.
ReadEnds == pc # "done" ~> pc = "done"

\* What each program point knows of the bytes read so far.
ReadInv ==
    /\ ReadTypeOK
    /\ LE(start, once) /\ LE(once, reg)
    /\ pc \in {"lo1", "lo2"} => hi <= reg.hi
    /\ pc = "lo1" => start.hi <= hi
    /\ pc \in {"hi2", "lo2"} =>
          val1.lo = once.lo /\ start.hi <= val1.hi /\ val1.hi <= once.hi
    /\ pc = "lo2" => once.hi <= hi
    /\ NeverTooMuch
    /\ RealValue
=============================================================================
