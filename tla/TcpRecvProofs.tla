--------------------------- MODULE TcpRecvProofs ---------------------------
(* What the driver is told of the received data and what it takes of it,    *)
(* proved with TLAPS.  RegRead: the size is never more than there is, for   *)
(* bytes of any width.  TcpRecv, for rings, pointers and buffers of every   *)
(* size: its types, that peek() shows the next byte, that the end of the    *)
(* connection is the end of the data, and that it implements ByteStream.    *)
EXTENDS TcpRecv, RegRead, Rings

(* The two-byte read of a size.  (TcpRecv takes it for one step, which the  *)
(* theorems of this section justify; getTXFreeSize is the same code.)       *)

LEMMA ZeroIsWord == Zero \in Words
  BY ByteAssumption DEF Zero, Words

\* LE is a reflexive and transitive order.
LEMMA LEReflexive == \A a \in Words : LE(a, a)
  BY ByteAssumption DEF Words, LE

LEMMA LETransitive ==
  ASSUME NEW a \in Words, NEW b \in Words, NEW c \in Words, LE(a, b), LE(b, c)
  PROVE  LE(a, c)
  BY ByteAssumption DEF Words, LE

\* Two words with equal bytes are one word.
LEMMA SameWord ==
  ASSUME NEW a \in Words, NEW b \in Words, a.hi = b.hi, a.lo = b.lo
  PROVE  a = b
  BY DEF Words

LEMMA InitReadInv == ReadInit => ReadInv
<1> SUFFICES ASSUME ReadInit PROVE ReadInv
  OBVIOUS
<1>1. Zero \in Words /\ LE(reg, reg)
  BY ZeroIsWord, LEReflexive DEF ReadInit
<1>2. 0 \in 0 .. BYTE - 1
  BY ByteAssumption
<1>3. QED
  BY <1>1, <1>2 DEF ReadInit, ReadInv, ReadTypeOK, NeverTooMuch, RealValue

\* A larger register keeps every bound on what has been read of it.
LEMMA GrowKeepsReadInv ==
  ASSUME ReadInv, Grow
  PROVE  ReadInv'
<1>1. reg \in Words /\ once \in Words /\ val \in Words
  BY DEF ReadInv, ReadTypeOK
<1>2. PICK w \in Words : LE(reg, w) /\ reg' = w
  BY DEF Grow
<1>3. LE(once, w)
  BY <1>1, <1>2, LETransitive DEF ReadInv
<1>4. pc = "done" => LE(val, w)
  BY <1>1, <1>2, LETransitive DEF ReadInv, NeverTooMuch
<1>5. reg.hi <= w.hi
  BY <1>1, <1>2, ByteAssumption DEF LE, Words
<1>6. hi <= reg.hi => hi <= w.hi
  BY <1>1, <1>2, <1>5, ByteAssumption DEF Words, ReadInv, ReadTypeOK
<1>7. QED
  BY <1>2, <1>3, <1>4, <1>6
  DEF Grow, ReadInv, ReadTypeOK, NeverTooMuch, RealValue

LEMMA ReadHighKeepsReadInv ==
  ASSUME ReadInv, ReadHigh
  PROVE  ReadInv'
<1>1. reg \in Words /\ once \in Words /\ start \in Words
  BY DEF ReadInv, ReadTypeOK
<1>2. reg.hi \in 0 .. BYTE - 1
  BY <1>1 DEF Words
<1>3. LE(start, reg)
  BY <1>1, LETransitive DEF ReadInv
<1>4. once.hi <= reg.hi /\ start.hi <= reg.hi
  BY <1>1, <1>3, ByteAssumption DEF ReadInv, LE, Words
<1>5. reg.hi <= reg.hi
  BY <1>2, ByteAssumption
<1>6. QED
  BY <1>2, <1>4, <1>5
  DEF ReadHigh, ReadInv, ReadTypeOK, NeverTooMuch, RealValue

LEMMA ReadLow1KeepsReadInv ==
  ASSUME ReadInv, ReadLow1
  PROVE  ReadInv'
<1>1. reg \in Words /\ start \in Words /\ once \in Words /\ hi \in 0 .. BYTE - 1
  BY DEF ReadInv, ReadTypeOK
<1>2. hi <= reg.hi /\ start.hi <= hi
  BY DEF ReadInv, ReadLow1
<1>3. val1' \in Words /\ val1'.hi = hi /\ val1'.lo = reg.lo
  BY <1>1 DEF ReadLow1, Words
<1>4. LE(start, reg) /\ LE(reg, reg)
  BY <1>1, LETransitive, LEReflexive DEF ReadInv
<1>5. pc' = "done" => val = Zero
  BY DEF ReadLow1
<1>6. LE(Zero, reg)
  BY <1>1, ByteAssumption DEF LE, Zero, Words
<1>7. ReadTypeOK'
  BY <1>1, <1>3 DEF ReadLow1, ReadInv, ReadTypeOK
<1>8. (NeverTooMuch /\ RealValue)'
  BY <1>5, <1>6 DEF ReadLow1, NeverTooMuch, RealValue
<1>9. pc' # "lo1" /\ pc' # "lo2"
  BY DEF ReadLow1
<1>10. QED
  BY <1>2, <1>3, <1>4, <1>7, <1>8, <1>9 DEF ReadLow1, ReadInv

LEMMA ReadLow2KeepsReadInv ==
  ASSUME ReadInv, ReadLow2
  PROVE  ReadInv'
<1>1. /\ reg \in Words /\ start \in Words /\ once \in Words
      /\ val1 \in Words /\ hi \in 0 .. BYTE - 1
  BY DEF ReadInv, ReadTypeOK
<1>2. /\ val1.lo = once.lo /\ val1.hi <= once.hi /\ once.hi <= hi
      /\ LE(start, once) /\ LE(once, reg)
  BY DEF ReadInv, ReadLow2
<1>3. val' \in Words /\ val'.hi = hi
  BY <1>1 DEF ReadLow2, Words
<1>4. pc' = "done" => val' = val1
  BY DEF ReadLow2
<1>5. pc' = "done" => val' = once
  <2> SUFFICES ASSUME pc' = "done" PROVE val' = once
    OBVIOUS
  <2>1. val1.hi = hi
    BY <1>3, <1>4
  <2>2. val1.hi = once.hi
    BY <2>1, <1>1, <1>2, ByteAssumption DEF Words
  <2>3. QED
    BY <2>2, <1>1, <1>2, <1>4, SameWord
<1>6. ReadTypeOK'
  BY <1>1, <1>3 DEF ReadLow2, ReadInv, ReadTypeOK
<1>7. (NeverTooMuch /\ RealValue)'
  BY <1>2, <1>5 DEF ReadLow2, NeverTooMuch, RealValue
<1>8. pc' \in {"done", "hi1"}
  BY DEF ReadLow2
<1>9. QED
  BY <1>2, <1>6, <1>7, <1>8 DEF ReadLow2, ReadInv

LEMMA CallAgainKeepsReadInv ==
  ASSUME ReadInv, CallAgain
  PROVE  ReadInv'
<1>1. reg' \in Words /\ Zero \in Words /\ 0 \in 0 .. BYTE - 1
  BY ZeroIsWord, ByteAssumption DEF CallAgain
<1>2. LE(reg', reg')
  BY <1>1, LEReflexive
<1>3. QED
  BY <1>1, <1>2 DEF CallAgain, ReadInv, ReadTypeOK, NeverTooMuch, RealValue

LEMMA ReadInvStep == ReadInv /\ [ReadNext]_readVars => ReadInv'
<1> SUFFICES ASSUME ReadInv, [ReadNext]_readVars PROVE ReadInv'
  OBVIOUS
<1>1. CASE UNCHANGED readVars
  BY <1>1 DEF readVars, ReadInv, ReadTypeOK, NeverTooMuch, RealValue
<1>2. CASE Grow
  BY <1>2, GrowKeepsReadInv
<1>3. CASE ReadHigh
  BY <1>3, ReadHighKeepsReadInv
<1>4. CASE ReadLow1
  BY <1>4, ReadLow1KeepsReadInv
<1>5. CASE ReadLow2
  BY <1>5, ReadLow2KeepsReadInv
<1>6. CASE CallAgain
  BY <1>6, CallAgainKeepsReadInv
<1>7. QED
  BY <1>1, <1>2, <1>3, <1>4, <1>5, <1>6 DEF ReadNext, ReadByte

\* What is known at each byte of the transfer holds throughout.
THEOREM ReadInvariant == ReadSpec => []ReadInv
  BY InitReadInv, ReadInvStep, PTL DEF ReadSpec

\* getTXFreeSize and getRXReceivedSize never report more than there is.
THEOREM ReadIsSafe == ReadSpec => []NeverTooMuch
<1>1. ReadInv => NeverTooMuch
  BY DEF ReadInv
<1>2. QED
  BY <1>1, ReadInvariant, PTL

\* A size other than 0 that they report is one the register had meanwhile.
THEOREM ReadIsReal == ReadSpec => []RealValue
<1>1. ReadInv => RealValue
  BY DEF ReadInv
<1>2. QED
  BY <1>1, ReadInvariant, PTL

----------------------------------------------------------------------------
(* recv() and peek(). *)

\* The facts of arithmetic every step needs.
LEMMA Sizes ==
  /\ RSIZE \in Nat \ {0} /\ PTR \in Nat \ {0} /\ LENGTHS \in Nat \ {0}
  /\ MaxLen \in Nat \ {0} /\ RSIZE < PTR /\ PTR % RSIZE = 0 /\ MaxBytes \in Nat
  BY RecvAssumption

\* The cell of a byte, from the pointer or from the count of all bytes.
LEMMA CellOf ==
  ASSUME NEW b \in Int, NEW x \in Int
  PROVE  ((b % PTR) + x) % RSIZE = (b + x) % RSIZE
<1>1. RSIZE \in Nat \ {0} /\ PTR \in Nat \ {0} /\ PTR % RSIZE = 0
  BY Sizes
<1>2. QED
  BY <1>1, CellBehind

Cpus == [pc : Labels, len : -LENGTHS .. MaxLen, ret : 0 .. MaxLen,
         result : -LENGTHS .. MaxLen]

LEMMA Counts ==
  ASSUME TypeOK
  PROVE  /\ received \in Nat /\ freed \in Nat /\ freed <= received
         /\ received <= freed + RSIZE /\ RX_RSR = received - freed /\ RX_RSR \in Nat
         /\ cpu \in Cpus /\ cpu.len \in Int /\ cpu.ret \in Nat /\ cpu.result \in Int
         /\ got \in Seq(Nat) /\ Len(got) \in Nat
  BY Sizes DEF TypeOK, RX_RSR, Cpus

LEMMA PendingRange ==
  ASSUME TypeOK, DataSeen
  PROVE  taken \in Nat /\ freed + taken <= received
  BY Counts DEF DataSeen, taken, At

\* A size as recv() sees it.
LEMMA Truncated ==
  ASSUME NEW size \in 1 .. MaxLen
  PROVE  Int16(size) \in -LENGTHS .. MaxLen
<1> DEFINE h == LENGTHS \div 2   a == size + h   r == a % LENGTHS
<1>1. h \in Nat /\ h <= LENGTHS
  <2>1. 2 \in Nat \ {0} /\ LENGTHS \in Int
    BY Sizes
  <2>2. LENGTHS = 2 * h + (LENGTHS % 2) /\ h \in Int /\ LENGTHS % 2 \in 0 .. 1
    BY <2>1, ModDef
  <2> HIDE DEF h
  <2>3. QED
    BY <2>2, Sizes
<1> HIDE DEF h
<1>2. a \in Nat /\ a \in Int
  BY <1>1
<1>3. r <= a
  <2> DEFINE d == a \div LENGTHS
  <2>1. r \in 0 .. LENGTHS - 1 /\ d \in Int /\ a = LENGTHS * d + r
    BY <1>2, Sizes, ModDef
  <2> HIDE DEF d, r, a
  <2>2. d >= 0
    BY <1>2, <2>1, Sizes
  <2>3. LENGTHS * d \in Nat
    BY <2>1, <2>2, Sizes
  <2>4. QED
    BY <1>2, <2>1, <2>3
<1>4. r \in 0 .. LENGTHS - 1
  BY <1>2, Sizes, ModDef
<1> HIDE DEF r
<1>5. r - h \in -LENGTHS .. MaxLen
  BY <1>1, <1>3, <1>4, Sizes DEF a
<1>6. QED
  BY <1>5 DEF Int16, r, a, h

\* A new operation, or none.
LEMMA StartRight ==
  ASSUME NEW label \in Labels, NEW n \in -LENGTHS .. MaxLen,
         NEW result \in -LENGTHS .. MaxLen, cpu' = Start(label, n, result)
  PROVE  cpu' \in Cpus /\ cpu'.pc = label /\ cpu'.len = n /\ cpu'.ret = 0
  BY Sizes DEF Start, Cpus

LEMMA GotoRight ==
  ASSUME TypeOK, NEW label \in Labels, Goto(label)
  PROVE  cpu' \in Cpus /\ cpu'.pc = label /\ cpu'.ret = cpu.ret
  BY DEF TypeOK, Goto, Cpus

LEMMA InitRecvInv == Init => RecvInv
<1> SUFFICES ASSUME Init PROVE RecvInv
  OBVIOUS
<1>1. /\ SnSR = "CLOSED" /\ RX_RD = 0 /\ received = 0 /\ freed = 0 /\ got = << >>
      /\ over = "no" /\ rxbuf = [i \in Slots |-> 0] /\ cpu = Start("idle", 0, -1)
  BY DEF Init
<1>2. cpu \in Cpus /\ cpu.pc = "idle"
  BY <1>1, Sizes DEF Start, Cpus, Labels
<1>3. got \in Seq(Nat) /\ Len(got) = 0 /\ << >> = [k \in 1 .. 0 |-> k]
  BY <1>1
<1>4. 0 \in 0 .. PTR - 1 /\ 0 % PTR = 0 /\ received \in freed .. freed + RSIZE
  BY <1>1, Sizes, ModSmall
<1>5. TypeOK
  BY <1>1, <1>2, <1>3, <1>4 DEF TypeOK, Cpus
<1>6. PointerRight /\ DataSeen
  BY <1>1, <1>2, <1>3, <1>4 DEF PointerRight, DataSeen, taken, At
<1>7. DataRight
  BY <1>1, <1>3 DEF DataRight
<1>8. EndRight
  BY <1>1, <1>2 DEF EndRight, At
<1>9. QED
  BY <1>5, <1>6, <1>7, <1>8 DEF RecvInv

----------------------------------------------------------------------------
(* The chip and the peer. *)

\* A byte that arrives takes a cell that nobody needs.
LEMMA DataKeeps ==
  ASSUME RecvInv, ChipData, UNCHANGED <<cpu, got, over>>
  PROVE  RecvInv'
<1> DEFINE c == received % RSIZE
<1>1. /\ SnSR = "ESTABLISHED" /\ received - freed < RSIZE
      /\ rxbuf' = [rxbuf EXCEPT ![c] = received + 1] /\ received' = received + 1
      /\ UNCHANGED <<SnSR, RX_RD, freed, cpu, got, over>>
  BY DEF ChipData, RX_RSR
<1>2. /\ received \in Nat /\ freed \in Nat /\ freed <= received /\ c \in Slots
      /\ rxbuf \in [Slots -> Nat]
  <2>1. received \in Nat /\ freed \in Nat /\ freed <= received
    BY Counts DEF RecvInv
  <2>2. received \in Int
    BY <2>1
  <2>3. c \in 0 .. RSIZE - 1
    BY <2>2, Sizes, ModDef
  <2>4. QED
    BY <2>1, <2>3 DEF Slots, RecvInv, TypeOK
<1> HIDE DEF c
<1>3. TypeOK'
  <2>1. rxbuf' \in [Slots -> Nat]
    BY <1>1, <1>2
  <2>2. received' \in freed' .. freed' + RSIZE
    BY <1>1, <1>2, Sizes
  <2>3. QED
    BY <1>1, <2>1, <2>2 DEF RecvInv, TypeOK
<1>4. DataRight'
  <2>1. ASSUME NEW k \in freed + 1 .. received + 1
        PROVE  rxbuf'[(k - 1) % RSIZE] = k
    <3> DEFINE i == (k - 1) % RSIZE
    <3>1. i \in Slots /\ k \in Nat
      <4>1. k - 1 \in Int
        BY <1>2
      <4>2. QED
        BY <1>2, <4>1, Sizes, ModDef DEF Slots
    <3>2. CASE k = received + 1
      <4>1. k - 1 = received
        BY <1>2, <3>2
      <4>2. QED
        BY <1>1, <1>2, <3>2, <4>1 DEF c
    <3>3. CASE k # received + 1
      <4> DEFINE a == k - 1
      <4>1. a \in Int /\ received \in Int /\ a < received /\ received - a < RSIZE
            /\ k \in freed + 1 .. received
        BY <1>1, <1>2, <3>3, Sizes
      <4> HIDE DEF a
      <4>2. a % RSIZE # received % RSIZE
        BY <4>1, Sizes, CellsDiffer
      <4>3. i # c
        BY <4>2 DEF a, c
      <4>4. rxbuf[i] = k
        BY <4>1 DEF RecvInv, DataRight
      <4> HIDE DEF i
      <4>5. rxbuf'[i] = rxbuf[i]
        BY <1>1, <1>2, <3>1, <4>3
      <4>6. QED
        BY <4>4, <4>5 DEF i
    <3>4. QED
      BY <3>2, <3>3
  <2>2. QED
    BY <1>1, <2>1 DEF RecvInv, DataRight
<1>5. PointerRight'
  BY <1>1 DEF RecvInv, PointerRight, taken, At
<1>6. DataSeen'
  <2>1. RX_RSR' = RX_RSR + 1 /\ RX_RSR \in Nat /\ cpu' = cpu
    BY <1>1, <1>2 DEF RX_RSR
  <2>2. cpu.ret \in Nat
    BY Counts DEF RecvInv
  <2>3. QED
    BY <2>1, <2>2 DEF RecvInv, DataSeen, At
<1>7. EndRight'
  BY <1>1 DEF RecvInv, EndRight, At
<1>8. QED
  BY <1>3, <1>4, <1>5, <1>6, <1>7 DEF RecvInv

LEMMA EndKeeps ==
  ASSUME RecvInv, ChipFin \/ ChipAbort, UNCHANGED <<cpu, got, over>>
  PROVE  RecvInv'
<1>1. /\ UNCHANGED <<RX_RD, rxbuf, received, freed, cpu, got, over>>
      /\ SnSR' \in {"CLOSED", "CLOSE_WAIT"}
  BY DEF ChipFin, ChipAbort
<1>2. TypeOK'
  BY <1>1 DEF RecvInv, TypeOK
<1>3. PointerRight' /\ DataSeen' /\ DataRight' /\ EndRight'
  BY <1>1
  DEF RecvInv, PointerRight, DataSeen, DataRight, EndRight, taken, At, RX_RSR
<1>4. QED
  BY <1>2, <1>3 DEF RecvInv

----------------------------------------------------------------------------
(* The sketch and the driver. *)

LEMMA OpenKeeps ==
  ASSUME RecvInv, Open
  PROVE  RecvInv'
<1>1. /\ cpu.pc = "idle" /\ SnSR' = "ESTABLISHED" /\ RX_RD' = 0 /\ received' = 0
      /\ freed' = 0 /\ got' = << >> /\ over' = "no" /\ UNCHANGED <<rxbuf, cpu>>
  BY DEF Open, At
<1>2. got' \in Seq(Nat) /\ Len(got') = 0 /\ << >> = [k \in 1 .. 0 |-> k]
  BY <1>1
<1>3. 0 \in 0 .. PTR - 1 /\ 0 % PTR = 0 /\ received' \in freed' .. freed' + RSIZE
  BY <1>1, Sizes, ModSmall
<1>4. TypeOK'
  BY <1>1, <1>2, <1>3 DEF RecvInv, TypeOK
<1>5. PointerRight' /\ DataSeen'
  BY <1>1, <1>2, <1>3 DEF PointerRight, DataSeen, taken, At
<1>6. DataRight'
  BY <1>1, <1>2 DEF DataRight
<1>7. EndRight'
  BY <1>1 DEF EndRight, At
<1>8. QED
  BY <1>4, <1>5, <1>6, <1>7 DEF RecvInv

\* Steps that read registers and go on to a place where nothing is copied yet.
LEMMA LookKeeps ==
  ASSUME RecvInv, UNCHANGED <<chip, got>>, cpu' \in Cpus,
         cpu.pc # "command", cpu'.pc \notin {"copy", "command"},
         cpu'.pc = "peek.copy" => RX_RSR > 0,
         cpu'.pc = "connected.size" => SnSR # "ESTABLISHED",
         over' \in {"no", "CLOSED", "CLOSE_WAIT"},
         over' = "CLOSE_WAIT" => SnSR # "ESTABLISHED" /\ RX_RSR = 0
  PROVE  RecvInv'
<1>1. UNCHANGED <<SnSR, RX_RD, rxbuf, received, freed, got>>
  BY DEF chip
<1>2. TypeOK'
  BY <1>1 DEF RecvInv, TypeOK, Cpus
<1>3. PointerRight' /\ DataRight'
  BY <1>1 DEF RecvInv, PointerRight, DataRight, taken, At
<1>4. RX_RSR' = RX_RSR
  BY <1>1 DEF RX_RSR
<1>5. DataSeen' /\ EndRight'
  BY <1>1, <1>4 DEF DataSeen, EndRight, At
<1>6. QED
  BY <1>2, <1>3, <1>5 DEF RecvInv

\* Where a call begins, and where one returns without data.
LEMMA CallKeeps ==
  ASSUME RecvInv,
         \/ \E size \in 1 .. MaxLen : Recv(size)
         \/ RecvNone \/ RecvStatus \/ Peek \/ PeekSize \/ PeekCopy
  PROVE  RecvInv'
<1>1. UNCHANGED <<chip, got, over>> /\ cpu.pc # "command"
  BY DEF Recv, RecvNone, RecvStatus, Peek, PeekSize, PeekCopy, At
<1>2. /\ over' \in {"no", "CLOSED", "CLOSE_WAIT"}
      /\ over' = "CLOSE_WAIT" => SnSR # "ESTABLISHED" /\ RX_RSR = 0
  BY <1>1 DEF RecvInv, TypeOK, EndRight
<1>3. /\ 0 \in -LENGTHS .. MaxLen /\ 1 \in -LENGTHS .. MaxLen /\ -1 \in -LENGTHS .. MaxLen
      /\ cpu.result \in -LENGTHS .. MaxLen
  BY Sizes DEF RecvInv, TypeOK
<1>4. ASSUME NEW label \in Labels, NEW n \in -LENGTHS .. MaxLen,
             NEW result \in -LENGTHS .. MaxLen,
             \/ cpu' = Start(label, n, result)
             \/ Goto(label),
             label \notin {"copy", "command"},
             label = "peek.copy" => RX_RSR > 0,
             label = "connected.size" => SnSR # "ESTABLISHED"
      PROVE  RecvInv'
  BY <1>1, <1>2, <1>4, StartRight, GotoRight, LookKeeps DEF RecvInv
<1>5. CASE \E size \in 1 .. MaxLen : Recv(size)
  <2>1. PICK size \in 1 .. MaxLen : cpu' = Start("size", Int16(size), cpu.result)
    BY <1>5 DEF Recv
  <2>2. "size" \in Labels
    BY DEF Labels
  <2>3. QED
    BY <1>3, <1>4, <2>1, <2>2, Truncated
<1>6. CASE RecvNone
  BY <1>3, <1>4, <1>6 DEF RecvNone, Labels
<1>7. CASE RecvStatus
  BY <1>3, <1>4, <1>7 DEF RecvStatus, Labels
<1>8. CASE Peek
  BY <1>3, <1>4, <1>8 DEF Peek, Labels
<1>9. CASE PeekSize
  BY <1>3, <1>4, <1>9 DEF PeekSize, Labels
<1>10. CASE PeekCopy
  BY <1>3, <1>4, <1>10 DEF PeekCopy, Labels
<1>11. QED
  BY <1>5, <1>6, <1>7, <1>8, <1>9, <1>10

LEMMA ConnectedStatusKeeps ==
  ASSUME RecvInv, ConnectedStatus
  PROVE  RecvInv'
<1>1. cpu.pc = "idle" /\ UNCHANGED <<chip, got>> /\ cpu \in Cpus
  BY DEF ConnectedStatus, At, RecvInv, TypeOK, Cpus
<1>2. CASE SnSR = "CLOSED" /\ over' = SnSR /\ UNCHANGED cpu
  BY <1>1, <1>2, LookKeeps
<1>3. CASE /\ SnSR = "CLOSE_WAIT" /\ UNCHANGED over
           /\ cpu' = Start("connected.size", 0, cpu.result)
  <2>1. cpu' \in Cpus /\ cpu'.pc = "connected.size"
    BY <1>3, Sizes, StartRight DEF RecvInv, TypeOK, Labels
  <2>2. /\ over' \in {"no", "CLOSED", "CLOSE_WAIT"}
        /\ over' = "CLOSE_WAIT" => SnSR # "ESTABLISHED" /\ RX_RSR = 0
    BY <1>3 DEF RecvInv, TypeOK, EndRight
  <2>3. QED
    BY <1>1, <1>3, <2>1, <2>2, LookKeeps
<1>4. QED
  BY <1>2, <1>3 DEF ConnectedStatus

LEMMA ConnectedSizeKeeps ==
  ASSUME RecvInv, ConnectedSize
  PROVE  RecvInv'
<1>1. /\ cpu.pc = "connected.size" /\ cpu' = Start("idle", 0, cpu.result)
      /\ over' = IF RX_RSR = 0 THEN "CLOSE_WAIT" ELSE "no"
      /\ UNCHANGED <<chip, got>>
  BY DEF ConnectedSize, At
<1>2. SnSR # "ESTABLISHED"
  BY <1>1 DEF RecvInv, EndRight, At
<1>3. /\ over' \in {"no", "CLOSED", "CLOSE_WAIT"}
      /\ over' = "CLOSE_WAIT" => RX_RSR = 0
  BY <1>1
<1>4. cpu' \in Cpus /\ cpu'.pc = "idle"
  BY <1>1, Sizes, StartRight DEF RecvInv, TypeOK, Labels
<1>5. QED
  BY <1>1, <1>2, <1>3, <1>4, LookKeeps

\* recv() finds data, or is called with a size that is no int16_t.
LEMMA SizeKeeps ==
  ASSUME RecvInv, RecvSize
  PROVE  RecvInv'
<1> DEFINE r == IF RX_RSR > cpu.len THEN cpu.len ELSE RX_RSR
<1>1. /\ cpu.pc = "size" /\ RX_RSR > 0 /\ UNCHANGED <<chip, got, over>>
      /\ IF r > 0 THEN cpu' = [cpu EXCEPT !.pc = "copy", !.ret = r]
                  ELSE cpu' = Start("idle", 0, r)
  BY DEF RecvSize, At
<1>2. /\ cpu.len \in -LENGTHS .. MaxLen /\ RX_RSR \in Nat
      /\ r \in -LENGTHS .. MaxLen /\ (r > 0 => r \in 0 .. MaxLen /\ r <= RX_RSR)
  <2>1. cpu.len \in -LENGTHS .. MaxLen /\ cpu.len \in Int /\ RX_RSR \in Nat
    BY Counts DEF RecvInv, TypeOK
  <2>2. QED
    BY <1>1, <2>1, Sizes
<1> HIDE DEF r
<1>3. CASE r > 0
  <2>1. cpu' = [cpu EXCEPT !.pc = "copy", !.ret = r]
    BY <1>1, <1>3
  <2>2. cpu' \in Cpus /\ cpu'.pc = "copy" /\ cpu'.ret = r
    BY <1>2, <1>3, <2>1 DEF RecvInv, TypeOK, Cpus, Labels
  <2>3. UNCHANGED <<SnSR, RX_RD, rxbuf, received, freed, got, over>>
    BY <1>1 DEF chip
  <2>4. TypeOK'
    BY <2>2, <2>3 DEF RecvInv, TypeOK, Cpus
  <2>5. PointerRight' /\ DataRight'
    BY <1>1, <2>2, <2>3 DEF RecvInv, PointerRight, DataRight, taken, At
  <2>6. RX_RSR' = RX_RSR
    BY <2>3 DEF RX_RSR
  <2>7. DataSeen' /\ EndRight'
    BY <1>2, <1>3, <2>2, <2>3, <2>6 DEF RecvInv, DataSeen, EndRight, At
  <2>8. QED
    BY <2>4, <2>5, <2>7 DEF RecvInv
<1>4. CASE ~(r > 0)
  <2>1. cpu' = Start("idle", 0, r) /\ 0 \in -LENGTHS .. MaxLen
    BY <1>1, <1>4, Sizes
  <2>2. cpu' \in Cpus /\ cpu'.pc = "idle"
    BY <1>2, <2>1, StartRight DEF Labels
  <2>3. /\ over' \in {"no", "CLOSED", "CLOSE_WAIT"}
        /\ over' = "CLOSE_WAIT" => SnSR # "ESTABLISHED" /\ RX_RSR = 0
    BY <1>1 DEF RecvInv, TypeOK, EndRight
  <2>4. QED
    BY <1>1, <2>2, <2>3, LookKeeps
<1>5. QED
  BY <1>3, <1>4

\* What is copied are the next bytes.
LEMMA CopyNext ==
  ASSUME RecvInv, RecvCopy
  PROVE  /\ got' = [k \in 1 .. Len(got) + cpu.ret |-> k]
         /\ got' \in Seq(Nat) /\ Len(got') = Len(got) + cpu.ret
         /\ cpu.ret \in 1 .. received - Len(got) /\ Len(got) = freed
<1> DEFINE n == Len(got)   r == cpu.ret
           chunk == [k \in 1 .. r |-> rxbuf[(RX_RD + k - 1) % RSIZE]]
<1>1. /\ cpu.pc = "copy" /\ n \in Nat /\ r \in 1 .. received - n /\ n = freed /\ r \in Nat
      /\ received \in Nat
  BY Counts DEF RecvCopy, RecvInv, PointerRight, DataSeen, taken, At
<1>2. RX_RD = n % PTR /\ got' = got \o chunk
  BY DEF RecvCopy, RecvInv, PointerRight
<1> HIDE DEF n, r
<1>3. ASSUME NEW k \in 1 .. r
      PROVE  rxbuf[(RX_RD + k - 1) % RSIZE] = n + k
  <2> DEFINE x == k - 1
  <2>1. x \in Int /\ n \in Int
    BY <1>1
  <2> HIDE DEF x
  <2>0. n % PTR \in Int
    BY <2>1, Sizes, ModDef
  <2>2. ((n % PTR) + x) % RSIZE = (n + x) % RSIZE
    BY <2>1, CellOf
  <2>3. RX_RD + k - 1 = (n % PTR) + x
    BY <1>2, <2>0, <2>1 DEF x
  <2>4. n + k \in freed + 1 .. received /\ (n + k) - 1 = n + x
    BY <1>1 DEF x
  <2>5. rxbuf[((n + k) - 1) % RSIZE] = n + k
    BY <2>4 DEF RecvInv, DataRight
  <2>6. QED
    BY <2>2, <2>3, <2>4, <2>5
<1>4. chunk = [k \in 1 .. r |-> n + k]
  BY <1>3
<1> HIDE DEF chunk
<1>5. got = [k \in 1 .. n |-> k] /\ got \in Seq(Nat) /\ Len(got) = n
  BY DEF RecvInv, DataRight, TypeOK, n
<1>6. chunk \in Seq(Nat) /\ Len(chunk) = r
  BY <1>1, <1>4
<1>7. /\ got' \in Seq(Nat) /\ Len(got') = n + r
      /\ \A k \in 1 .. n + r : got'[k] = k
  BY <1>1, <1>2, <1>4, <1>5, <1>6
<1>8. got' = [k \in 1 .. n + r |-> k]
  BY <1>1, <1>7
<1>9. QED
  BY <1>1, <1>7, <1>8 DEF n, r

LEMMA CopyKeeps ==
  ASSUME RecvInv, RecvCopy
  PROVE  RecvInv'
<1> DEFINE n == Len(got)   r == cpu.ret
<1>1. /\ cpu.pc = "copy" /\ Goto("command") /\ RX_RD' = (RX_RD + r) % PTR
      /\ UNCHANGED <<SnSR, rxbuf, received, freed, over>>
  BY DEF RecvCopy, At
<1>2. cpu' \in Cpus /\ cpu'.pc = "command" /\ cpu'.ret = r
  BY <1>1, GotoRight DEF RecvInv, Labels
<1>3. /\ got' = [k \in 1 .. n + r |-> k] /\ got' \in Seq(Nat) /\ Len(got') = n + r
      /\ n = freed /\ n \in Nat /\ r \in Nat
  BY CopyNext, Counts DEF RecvInv
<1>4. RX_RD = n % PTR
  BY DEF RecvInv, PointerRight
<1> HIDE DEF n, r
<1>5. RX_RD' = (n + r) % PTR /\ RX_RD' \in 0 .. PTR - 1
  <2>1. n \in Int /\ r \in Int /\ n + r \in Int
    BY <1>3
  <2>2. ((n % PTR) + r) % PTR = (n + r) % PTR
    BY <2>1, Sizes, PointerMove
  <2>3. QED
    BY <1>1, <1>4, <2>1, <2>2, Sizes, ModDef
<1>6. TypeOK'
  BY <1>1, <1>2, <1>3, <1>5 DEF RecvInv, TypeOK, Cpus
<1>7. PointerRight'
  BY <1>1, <1>2, <1>3, <1>5 DEF PointerRight, taken, At
<1>8. DataSeen'
  <2>1. RX_RSR' = RX_RSR
    BY <1>1 DEF RX_RSR
  <2>2. r \in 1 .. RX_RSR
    BY <1>1 DEF RecvInv, DataSeen, r
  <2>3. QED
    BY <1>2, <2>1, <2>2 DEF DataSeen, At
<1>9. DataRight'
  BY <1>1, <1>3 DEF RecvInv, DataRight
<1>10. EndRight'
  BY <1>1, <1>2 DEF RecvInv, EndRight, At, RX_RSR
<1>11. QED
  BY <1>6, <1>7, <1>8, <1>9, <1>10 DEF RecvInv

\* RECV gives back the bytes that have been copied, and no others.
LEMMA CommandKeeps ==
  ASSUME RecvInv, RecvCommand
  PROVE  RecvInv'
<1> DEFINE r == cpu.ret
<1>1. /\ cpu.pc = "command" /\ freed' = freed + ((RX_RD - freed) % PTR)
      /\ cpu' = Start("idle", 0, r)
      /\ UNCHANGED <<SnSR, RX_RD, rxbuf, received, got, over>>
  BY DEF RecvCommand, At
<1>2. /\ r \in 1 .. received - freed /\ r \in Nat /\ r \in 0 .. MaxLen
      /\ freed \in Nat /\ received \in Nat /\ received <= freed + RSIZE
  BY <1>1, Counts DEF RecvInv, DataSeen, TypeOK, RX_RSR
<1>3. Len(got) = freed + r /\ RX_RD = (freed + r) % PTR
  BY <1>1 DEF RecvInv, PointerRight, taken, At
<1> HIDE DEF r
<1>4. freed' = freed + r
  <2>1. r \in 0 .. PTR - 1
    BY <1>2, Sizes
  <2>2. (RX_RD - freed) % PTR = r
    BY <1>2, <1>3, <2>1, Sizes, PointerDiff
  <2>3. QED
    BY <1>1, <2>2
<1>5. cpu' \in Cpus /\ cpu'.pc = "idle"
  <2>1. 0 \in -LENGTHS .. MaxLen /\ r \in -LENGTHS .. MaxLen
    BY <1>2, Sizes
  <2>2. QED
    BY <1>1, <2>1, StartRight DEF Labels
<1>6. received \in freed' .. freed' + RSIZE /\ freed' \in Nat
  BY <1>2, <1>4, Sizes
<1>7. TypeOK'
  BY <1>1, <1>5, <1>6 DEF RecvInv, TypeOK, Cpus
<1>8. PointerRight'
  BY <1>1, <1>2, <1>3, <1>4, <1>5 DEF PointerRight, taken, At
<1>9. DataSeen'
  BY <1>5 DEF DataSeen, At
<1>10. DataRight'
  <2>1. \A k \in freed' + 1 .. received : k \in freed + 1 .. received
    BY <1>2, <1>4
  <2>2. QED
    BY <1>1, <2>1 DEF RecvInv, DataRight
<1>11. EndRight'
  <2>1. RX_RSR > 0
    BY <1>2 DEF RX_RSR
  <2>2. over # "CLOSE_WAIT"
    BY <2>1 DEF RecvInv, EndRight
  <2>3. QED
    BY <1>1, <1>5, <2>2 DEF EndRight, At
<1>12. QED
  BY <1>7, <1>8, <1>9, <1>10, <1>11 DEF RecvInv

LEMMA StutterKeeps ==
  ASSUME RecvInv, UNCHANGED vars
  PROVE  RecvInv'
  BY DEF vars, chip, RecvInv, TypeOK, PointerRight, DataSeen, DataRight, EndRight,
         taken, At, RX_RSR

LEMMA NextKeepsRecvInv == RecvInv /\ [Next]_vars => RecvInv'
<1> SUFFICES ASSUME RecvInv, [Next]_vars PROVE RecvInv'
  OBVIOUS
<1>1. CASE Sketch
  BY <1>1, OpenKeeps, CallKeeps DEF Sketch
<1>2. CASE Driver
  BY <1>2, CallKeeps, SizeKeeps, CopyKeeps, CommandKeeps DEF Driver
<1>3. CASE Connected
  BY <1>3, ConnectedStatusKeeps, ConnectedSizeKeeps DEF Connected
<1>4. CASE Environment
  BY <1>4, DataKeeps, EndKeeps DEF Environment, Chip
<1>5. CASE UNCHANGED vars
  BY <1>5, StutterKeeps
<1>6. QED
  BY <1>1, <1>2, <1>3, <1>4, <1>5 DEF Next

\* The receive path keeps its invariant: what the ring holds, what the sketch
\* has read and where the pointer stands, at every place in the code.
THEOREM RecvInvariant == Spec => []RecvInv
<1>1. QED
  BY InitRecvInv, NextKeepsRecvInv, PTL DEF Spec

\* Every variable has its type; what the chip counts fits into the ring.
THEOREM RecvTyped == Spec => []TypeOK
<1>1. RecvInv => TypeOK
  BY DEF RecvInv
<1>2. QED
  BY <1>1, RecvInvariant, PTL

\* peek() shows the byte that the next read() returns.
THEOREM PeekShowsNext == Spec => []PeekIsNext
<1>1. ASSUME RecvInv
      PROVE  PeekIsNext
  <2> SUFFICES ASSUME cpu.pc = "peek.copy"
               PROVE  Len(got) < received /\ rxbuf[RX_RD % RSIZE] = Len(got) + 1
    BY DEF PeekIsNext, At
  <2> DEFINE n == Len(got)
  <2>1. n \in Nat /\ received \in Nat /\ n = freed /\ n < received /\ RX_RD = n % PTR
    BY <1>1, Counts DEF RecvInv, DataSeen, PointerRight, taken, At
  <2> HIDE DEF n
  <2>2. RX_RD % RSIZE = n % RSIZE
    <3> DEFINE z == 0
    <3>1. n \in Int /\ z \in Int
      BY <2>1
    <3> HIDE DEF z
    <3>2. ((n % PTR) + z) % RSIZE = (n + z) % RSIZE
      BY <3>1, CellOf
    <3>3. n % PTR \in Int
      BY <3>1, Sizes, ModDef
    <3>4. (n % PTR) + z = n % PTR /\ n + z = n
      BY <3>1, <3>3 DEF z
    <3>5. QED
      BY <2>1, <3>2, <3>4
  <2>3. rxbuf[n % RSIZE] = n + 1
    <3>1. n + 1 \in freed + 1 .. received /\ (n + 1) - 1 = n
      BY <2>1
    <3>2. QED
      BY <1>1, <3>1 DEF RecvInv, DataRight
  <2>4. QED
    BY <2>1, <2>2, <2>3 DEF n
<1>2. QED
  BY <1>1, RecvInvariant, PTL

\* Where connected() has answered 0, every byte has been read and none will
\* arrive, unless it found the socket CLOSED: a FIN never costs the sketch data.
THEOREM EndAfterData == Spec => []OverMeansRead
<1>1. ASSUME RecvInv
      PROVE  OverMeansRead
  <2> SUFFICES ASSUME over # "no", over # "CLOSED" PROVE Len(got) = received
    BY DEF OverMeansRead
  <2>4. over = "CLOSE_WAIT"
    BY <1>1 DEF RecvInv, TypeOK
  <2>1. received = freed /\ received \in Nat /\ freed \in Nat
    BY <1>1, <2>4, Counts DEF RecvInv, EndRight
  <2>2. cpu.pc # "command"
    BY <1>1, <2>1 DEF RecvInv, DataSeen, RX_RSR
  <2>3. QED
    BY <1>1, <2>1, <2>2 DEF RecvInv, PointerRight, taken, At
<1>2. QED
  BY <1>1, RecvInvariant, PTL

----------------------------------------------------------------------------
(* The refinement. *)

LEMMA InitStream == Init => Stream!Init
<1> SUFFICES ASSUME Init PROVE Stream!Init
  OBVIOUS
<1>1. SnSR = "CLOSED" /\ received = 0 /\ got = << >>
  BY DEF Init
<1>2. (SnSR = "ESTABLISHED") = FALSE
  BY <1>1
<1>3. QED
  BY <1>1, <1>2 DEF Stream!Init

LEMMA DataPuts ==
  ASSUME RecvInv, ChipData, UNCHANGED <<cpu, got, over>>
  PROVE  Stream!Put
<1>1. /\ SnSR = "ESTABLISHED" /\ SnSR' = SnSR /\ got' = got
      /\ received' = received + 1 /\ received \in Nat
  BY Counts DEF ChipData, RecvInv
<1>2. received' \in Nat /\ received' > received
  BY <1>1
<1>3. QED
  BY <1>1, <1>2 DEF Stream!Put

LEMMA CopyGets ==
  ASSUME RecvInv, RecvCopy
  PROVE  Stream!Get
<1> DEFINE n == Len(got) + cpu.ret
<1>1. /\ got' = [k \in 1 .. n |-> k] /\ cpu.ret \in 1 .. received - Len(got)
      /\ Len(got) \in Nat /\ received \in Nat
  BY CopyNext, Counts DEF RecvInv
<1>2. n \in Len(got) + 1 .. received /\ Len(got) < received
  BY <1>1
<1>3. SnSR' = SnSR /\ received' = received
  BY DEF RecvCopy
<1>4. QED
  BY <1>1, <1>2, <1>3 DEF Stream!Get

LEMMA StepRefines ==
  RecvInv /\ [Next]_vars => [Stream!Next]_<<SnSR = "ESTABLISHED", received, got>>
<1> SUFFICES ASSUME RecvInv, [Next]_vars
             PROVE  Stream!Next \/ UNCHANGED <<SnSR = "ESTABLISHED", received, got>>
  OBVIOUS
<1>1. CASE Open
  BY <1>1 DEF Open, Stream!Open, Stream!Next
<1>2. CASE Environment /\ ChipData
  BY <1>2, DataPuts DEF Environment, Stream!Next
<1>3. CASE Environment /\ ~ChipData
  <2>1. SnSR' # "ESTABLISHED" /\ received' = received /\ got' = got
    BY <1>3 DEF Environment, Chip, ChipFin, ChipAbort
  <2>2. (SnSR = "ESTABLISHED")' = FALSE
    BY <2>1
  <2>3. QED
    BY <2>1, <2>2 DEF Stream!End, Stream!Next
<1>4. CASE RecvCopy
  BY <1>4, CopyGets DEF Stream!Next
<1>5. CASE \/ \E size \in 1 .. MaxLen : Recv(size)
           \/ Peek \/ Connected \/ UNCHANGED vars
           \/ RecvSize \/ RecvNone \/ RecvStatus \/ RecvCommand \/ PeekSize \/ PeekCopy
  BY <1>5
  DEF Recv, Peek, Connected, ConnectedStatus, ConnectedSize, RecvSize, RecvNone,
      RecvStatus, RecvCommand, PeekSize, PeekCopy, vars, chip
<1>6. QED
  BY <1>1, <1>2, <1>3, <1>4, <1>5 DEF Next, Sketch, Driver

\* What is read from a connection is a stream of bytes: every byte once and in
\* order, whatever the sizes of ring, pointer and buffers.
THEOREM ReceivesByteStream == Spec => StreamSpec
<1>1. QED
  BY InitStream, StepRefines, RecvInvariant, PTL DEF Spec, StreamSpec, Stream!Spec
=============================================================================
