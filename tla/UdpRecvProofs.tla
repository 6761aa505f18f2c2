--------------------------- MODULE UdpRecvProofs ---------------------------
(* What UdpRecv promises, proved with TLAPS for every size of ring and      *)
(* pointer, any peers and any datagrams: its types, and that it implements  *)
(* Datagrams.                                                               *)
EXTENDS UdpRecv, Rings, SequenceTheorems

\* The facts of arithmetic every step needs.
LEMMA Sizes ==
  /\ RSIZE \in Nat \ {0} /\ PTR \in Nat \ {0} /\ RSIZE < PTR /\ PTR % RSIZE = 0
  /\ Peers \subseteq Nat /\ MaxLen \in Nat /\ MaxData \in Nat /\ HEADER = 2
  BY UdpRecvAssumption DEF HEADER

Datagram == [from : Peers, data : Seq(Nat), at : Nat]

Callers == {"sketch", "parse", "header", "read", "flush"}

Cpus == [pc : Labels, caller : Callers, len : Nat, ret : Nat]

LEMMA Counts ==
  ASSUME TypeOK
  PROVE  /\ received \in Nat /\ freed \in Nat /\ freed <= received
         /\ received <= freed + RSIZE /\ RX_RSR = received - freed /\ RX_RSR \in Nat
         /\ cpu \in Cpus /\ inbox \in Seq(Datagram) /\ Len(inbox) \in Nat
         /\ DOMAIN inbox = 1 .. Len(inbox) /\ taken \in 0 .. Len(inbox)
         /\ _remaining \in Nat /\ RX_RD \in Int /\ rxbuf \in [0 .. RSIZE - 1 -> Nat]
  BY Sizes DEF TypeOK, RX_RSR, Cpus, Callers, Datagram

\* The cells of a datagram: sender, length, data.
LEMMA CellsAre ==
  ASSUME NEW d \in Datagram
  PROVE  /\ Cells(d) \in Seq(Nat) /\ Len(d.data) \in Nat
         /\ Len(Cells(d)) = HEADER + Len(d.data)
         /\ DOMAIN Cells(d) = 1 .. HEADER + Len(d.data)
         /\ Cells(d)[1] = d.from /\ Cells(d)[2] = Len(d.data)
         /\ \A k \in 1 .. Len(d.data) : Cells(d)[HEADER + k] = d.data[k]
<1> DEFINE h == <<d.from, Len(d.data)>>   s == d.data
<1>1. s \in Seq(Nat) /\ Len(s) \in Nat /\ d.from \in Nat
  <2>1. s \in Seq(Nat) /\ d.from \in Nat
    BY Sizes DEF Datagram
  <2> HIDE DEF s
  <2>2. QED
    BY <2>1, LenProperties
<1>2. h \in Seq(Nat) /\ Len(h) = 2 /\ h[1] = d.from /\ h[2] = Len(s)
  BY <1>1
<1> HIDE DEF h, s
<1>3. /\ h \o s \in Seq(Nat) /\ Len(h \o s) = 2 + Len(s)
      /\ \A i \in 1 .. 2 + Len(s) : (h \o s)[i] = IF i <= 2 THEN h[i] ELSE s[i - 2]
  <2>1. /\ h \o s \in Seq(Nat) /\ Len(h \o s) = Len(h) + Len(s)
        /\ \A i \in 1 .. Len(h) + Len(s) :
               (h \o s)[i] = IF i <= Len(h) THEN h[i] ELSE s[i - Len(h)]
    BY <1>1, <1>2, ConcatProperties
  <2>2. QED
    BY <1>2, <2>1
<1>4. DOMAIN (h \o s) = 1 .. 2 + Len(s)
  BY <1>3, LenProperties
<1>5. (h \o s)[1] = h[1] /\ (h \o s)[2] = h[2]
  BY <1>1, <1>3
<1>6. ASSUME NEW k \in 1 .. Len(s) PROVE (h \o s)[2 + k] = s[k]
  <2>1. 2 + k \in 1 .. 2 + Len(s) /\ ~(2 + k <= 2) /\ (2 + k) - 2 = k
    BY <1>1
  <2>2. QED
    BY <1>3, <2>1
<1>7. Cells(d) = h \o s
  BY DEF Cells, h, s
<1>8. QED
  BY <1>1, <1>2, <1>3, <1>4, <1>5, <1>6, <1>7, Sizes DEF s

LEMMA EndOfNat ==
  ASSUME TypeOK, NEW j \in DOMAIN inbox
  PROVE  /\ inbox[j] \in Datagram /\ inbox[j].at \in Nat /\ Len(inbox[j].data) \in Nat
         /\ EndOf(inbox[j]) = inbox[j].at + HEADER + Len(inbox[j].data)
         /\ EndOf(inbox[j]) \in Nat
<1>1. inbox[j] \in Datagram
  BY Counts
<1>2. inbox[j].at \in Nat
  BY <1>1 DEF Datagram
<1>3. Len(Cells(inbox[j])) = HEADER + Len(inbox[j].data) /\ Len(inbox[j].data) \in Nat
  BY <1>1, CellsAre
<1>4. QED
  BY <1>1, <1>2, <1>3, Sizes DEF EndOf

\* What is left of a datagram has been received.
LEMMA RestReceived ==
  ASSUME RecvInv, SnSR = "UDP"
  PROVE  freed + _remaining = Taken /\ Taken <= received
<1>1. freed + _remaining = Taken
  BY DEF RecvInv, PointerRight
<1>2. CASE taken = 0
  BY <1>1, <1>2, Counts DEF Taken, RecvInv
<1>3. CASE taken # 0
  <2>1. taken \in DOMAIN inbox
    BY <1>3, Counts DEF RecvInv
  <2>2. EndOf(inbox[taken]) <= received
    BY <2>1 DEF RecvInv, InboxInOrder
  <2>3. QED
    BY <1>1, <1>3, <2>2 DEF Taken
<1>4. QED
  BY <1>2, <1>3

\* Where the rest of a datagram has been read, the next one begins.
LEMMA NextDatagram ==
  ASSUME RecvInv, SnSR = "UDP", _remaining = 0, received > freed
  PROVE  /\ taken + 1 \in DOMAIN inbox
         /\ inbox[taken + 1].at = freed
         /\ EndOf(inbox[taken + 1]) <= received
<1>1. freed = Taken /\ taken \in 0 .. Len(inbox) /\ Len(inbox) \in Nat
  <2>1. freed + _remaining = Taken /\ freed \in Nat
    BY RestReceived, Counts DEF RecvInv
  <2>2. QED
    BY <2>1, Counts DEF RecvInv
<1>2. received = IF inbox = <<>> THEN 0 ELSE EndOf(inbox[Len(inbox)])
  BY DEF RecvInv, InboxInOrder
<1>3. taken # Len(inbox)
  <2>1. SUFFICES ASSUME taken = Len(inbox) PROVE FALSE
    OBVIOUS
  <2>2. CASE inbox = <<>>
    <3>1. taken = 0 /\ received = 0
      BY <1>2, <2>1, <2>2
    <3>2. QED
      BY <1>1, <3>1 DEF Taken
  <2>3. CASE inbox # <<>>
    <3>1. Len(inbox) # 0
      BY <2>3, Counts, EmptySeq DEF RecvInv
    <3>2. QED
      BY <1>1, <1>2, <2>1, <2>3, <3>1, Counts DEF Taken, RecvInv
  <2>4. QED
    BY <2>2, <2>3
<1>4. taken + 1 \in DOMAIN inbox /\ (taken + 1) - 1 = taken /\ (taken + 1 = 1 <=> taken = 0)
  <2>1. DOMAIN inbox = 1 .. Len(inbox)
    BY Counts DEF RecvInv
  <2>2. taken \in Nat /\ taken < Len(inbox)
    BY <1>1, <1>3
  <2>3. taken + 1 \in 1 .. Len(inbox)
    BY <1>1, <2>2
  <2>4. QED
    BY <2>1, <2>2, <2>3
<1>5. inbox[taken + 1].at = Taken /\ EndOf(inbox[taken + 1]) <= received
  BY <1>4 DEF RecvInv, InboxInOrder, Taken
<1>6. QED
  BY <1>1, <1>4, <1>5

----------------------------------------------------------------------------
(* The beginning, and steps that only move the thread. *)

LEMMA IdleRight == Idle \in Cpus /\ Idle.pc = "idle" /\ Idle.caller = "sketch"
  BY DEF Idle, Cpus, Callers, Labels

LEMMA CalledRight ==
  ASSUME NEW label \in Labels, NEW caller \in Callers, NEW n \in Nat,
         Call(label, caller, n)
  PROVE  /\ cpu' \in Cpus /\ cpu'.pc = label /\ cpu'.caller = caller
         /\ cpu'.len = n /\ cpu'.ret = 0
  BY DEF Call, Cpus

\* An idle thread needs nothing.
LEMMA IdleCallRight ==
  ASSUME cpu' = Idle
  PROVE  cpu' \in Cpus /\ CallRight'
  BY IdleRight DEF CallRight, At

LEMMA InitRecvInv == Init => RecvInv
<1> SUFFICES ASSUME Init PROVE RecvInv
  OBVIOUS
<1>1. /\ SnSR = "CLOSED" /\ RX_RD = 0 /\ received = 0 /\ freed = 0
      /\ rxbuf = [i \in 0 .. RSIZE - 1 |-> 0]
      /\ _remaining = 0 /\ _remoteIP = 0 /\ cpu = Idle
      /\ inbox = <<>> /\ taken = 0 /\ got = <<>>
  BY DEF Init
<1>2. 0 \in 0 .. PTR - 1 /\ 0 % PTR = 0
  BY Sizes, ModSmall
<1>3. inbox \in Seq(Datagram) /\ Len(inbox) = 0 /\ got \in Seq(Nat) /\ DOMAIN inbox = {}
  BY <1>1
<1>4. received \in freed .. freed + RSIZE
  BY <1>1, Sizes
<1>5. TypeOK
  BY <1>1, <1>2, <1>3, <1>4, IdleRight DEF TypeOK, Cpus, Callers, Datagram
<1>6. InboxInOrder /\ PointerRight /\ DataRight
  BY <1>1, <1>2, <1>3 DEF InboxInOrder, PointerRight, DataRight
<1>7. CallRight
  BY <1>1, IdleRight DEF CallRight, At
<1>8. QED
  BY <1>5, <1>6, <1>7 DEF RecvInv

LEMMA CpuKeeps ==
  ASSUME RecvInv, UNCHANGED receiving, cpu' \in Cpus, CallRight'
  PROVE  RecvInv'
<1>1. /\ UNCHANGED <<SnSR, RX_RD, rxbuf, received, freed, inbox>>
      /\ UNCHANGED <<_remaining, _remoteIP, taken, got>>
  BY DEF receiving, ring, history
<1>2. TypeOK'
  BY <1>1 DEF RecvInv, TypeOK, Cpus, Callers
<1>3. Taken' = Taken
  BY <1>1 DEF Taken
<1>4. InboxInOrder' /\ PointerRight' /\ DataRight'
  BY <1>1, <1>3 DEF RecvInv, InboxInOrder, PointerRight, DataRight
<1>5. QED
  BY <1>2, <1>4 DEF RecvInv

\* The loop of flush() asks for a byte of what is left, or ends.
LEMMA FlushLoopRight ==
  ASSUME NEW left \in Nat, NEW caller \in {"flush", "parse"},
         FlushLoop(left, caller), _remaining' = left
  PROVE  cpu' \in Cpus /\ CallRight'
<1>1. CASE left > 0
  <2>1. Call("size", caller, 1)
    BY <1>1 DEF FlushLoop
  <2>2. /\ cpu' \in Cpus /\ cpu'.pc = "size" /\ cpu'.caller = caller /\ cpu'.len = 1
    BY <2>1, CalledRight DEF Labels, Callers
  <2>3. 1 \in 1 .. left
    BY <1>1
  <2>4. QED
    BY <2>2, <2>3 DEF CallRight, At
<1>2. CASE ~(left > 0) /\ caller = "parse"
  <2>1. Call("available", "parse", 0)
    BY <1>2 DEF FlushLoop
  <2>2. cpu' \in Cpus /\ cpu'.pc = "available" /\ cpu'.caller = "parse"
    BY <2>1, CalledRight DEF Labels, Callers
  <2>3. left = 0
    BY <1>2
  <2>4. QED
    BY <2>2, <2>3 DEF CallRight, At
<1>3. CASE ~(left > 0) /\ caller # "parse"
  <2>1. cpu' = Idle
    BY <1>3 DEF FlushLoop
  <2>2. QED
    BY <2>1, IdleCallRight
<1>4. QED
  BY <1>1, <1>2, <1>3

LEMMA CallsKeep ==
  ASSUME RecvInv, ParsePacket \/ Flush \/ AvailableNone \/ RecvNone
  PROVE  RecvInv'
<1>1. UNCHANGED receiving /\ _remaining \in Nat /\ _remaining' = _remaining /\ cpu \in Cpus
  BY Counts DEF ParsePacket, Flush, AvailableNone, RecvNone, receiving, RecvInv
<1>2. CASE ParsePacket
  BY <1>1, <1>2, FlushLoopRight, CpuKeeps DEF ParsePacket
<1>3. CASE Flush
  BY <1>1, <1>3, FlushLoopRight, CpuKeeps DEF Flush
<1>4. CASE cpu' = Idle
  BY <1>1, <1>4, IdleCallRight, CpuKeeps
<1>5. CASE UNCHANGED cpu
  <2>1. CallRight'
    BY <1>1, <1>5 DEF RecvInv, CallRight, At, RX_RSR, receiving, ring
  <2>2. QED
    BY <1>1, <1>5, <2>1, CpuKeeps
<1>6. QED
  BY <1>2, <1>3, <1>4, <1>5 DEF AvailableNone, RecvNone

LEMMA AvailableKeeps ==
  ASSUME RecvInv, Available
  PROVE  RecvInv'
<1>1. UNCHANGED receiving /\ _remaining = 0 /\ _remaining' = _remaining
  BY DEF Available, receiving, RecvInv, CallRight
<1>2. cpu' \in Cpus /\ cpu'.pc = "size" /\ cpu'.caller = "header" /\ cpu'.len = HEADER
  BY CalledRight, Sizes DEF Available, Labels, Callers
<1>3. CallRight'
  BY <1>1, <1>2 DEF CallRight, At
<1>4. QED
  BY <1>1, <1>2, <1>3, CpuKeeps

LEMMA ReadKeeps ==
  ASSUME RecvInv, NEW len \in 1 .. MaxLen, Read(len)
  PROVE  RecvInv'
<1> DEFINE n == IF _remaining <= len THEN _remaining ELSE len
<1>1. UNCHANGED receiving /\ _remaining' = _remaining
  BY DEF Read, receiving
<1>2. n \in 1 .. _remaining /\ n \in Nat
  <2>1. _remaining \in Nat /\ _remaining > 0
    BY Counts DEF Read, RecvInv
  <2>2. QED
    BY <2>1, Sizes
<1>3. Call("size", "read", n)
  BY DEF Read
<1> HIDE DEF n
<1>4. cpu' \in Cpus /\ cpu'.pc = "size" /\ cpu'.caller = "read" /\ cpu'.len = n
  BY <1>2, <1>3, CalledRight DEF Labels, Callers
<1>5. CallRight'
  BY <1>1, <1>2, <1>4 DEF CallRight, At
<1>6. QED
  BY <1>1, <1>4, <1>5, CpuKeeps

\* recv() gets all it asks for: a header that is there is there as a whole, and
\* so is the rest of a datagram.
LEMMA RecvSizeKeeps ==
  ASSUME RecvInv, RecvSize
  PROVE  RecvInv'
<1> DEFINE n == IF RX_RSR > cpu.len THEN cpu.len ELSE RX_RSR
<1>1. /\ UNCHANGED receiving /\ cpu.pc = "size" /\ RX_RSR > 0
      /\ cpu' = [cpu EXCEPT !.pc = "copy", !.ret = n]
      /\ _remaining' = _remaining /\ SnSR' = SnSR /\ RX_RSR' = RX_RSR
  BY DEF RecvSize, receiving, ring, RX_RSR, At
<1>2. /\ cpu \in Cpus /\ cpu.len \in Nat /\ RX_RSR = received - freed
      /\ received \in Nat /\ freed \in Nat /\ _remaining \in Nat /\ TypeOK
      /\ cpu.caller \in Callers
  BY Counts DEF RecvInv, Cpus
<1>3. SnSR = "UDP"
  <2>1. inbox # <<>>
    BY <1>1, <1>2 DEF RecvInv, InboxInOrder
  <2>2. QED
    BY <2>1 DEF RecvInv, PointerRight, TypeOK
<1>4. cpu.len <= RX_RSR
  <2>1. CASE cpu.caller = "header"
    <3>1. cpu.len = HEADER /\ _remaining = 0
      BY <2>1 DEF RecvInv, CallRight
    <3>2. /\ taken + 1 \in DOMAIN inbox /\ inbox[taken + 1].at = freed
          /\ EndOf(inbox[taken + 1]) <= received
      BY <1>1, <1>2, <1>3, <3>1, NextDatagram
    <3>3. /\ EndOf(inbox[taken + 1]) = freed + HEADER + Len(inbox[taken + 1].data)
          /\ Len(inbox[taken + 1].data) \in Nat
      BY <1>2, <3>2, EndOfNat
    <3> DEFINE end == EndOf(inbox[taken + 1])   m == Len(inbox[taken + 1].data)
    <3>4. end = freed + 2 + m /\ m \in Nat /\ end <= received /\ cpu.len = 2
      BY <3>1, <3>2, <3>3, Sizes
    <3> HIDE DEF end, m
    <3>5. QED
      BY <1>2, <3>4
  <2>2. CASE cpu.caller # "header"
    <3>1. cpu.len \in 1 .. _remaining
      BY <1>1, <1>2, <2>2 DEF RecvInv, CallRight, At, Callers
    <3>2. freed + _remaining <= received
      BY <1>3, RestReceived
    <3>3. QED
      BY <1>2, <3>1, <3>2
  <2>3. QED
    BY <2>1, <2>2
<1>5. n = cpu.len /\ n \in Nat
  BY <1>2, <1>4
<1> HIDE DEF n
<1>6. /\ cpu' \in Cpus /\ cpu'.pc = "copy" /\ cpu'.caller = cpu.caller
      /\ cpu'.len = cpu.len /\ cpu'.ret = cpu.len
  BY <1>1, <1>2, <1>5 DEF Cpus, Labels
<1>7. CallRight'
  BY <1>1, <1>3, <1>4, <1>6 DEF RecvInv, CallRight, At
<1>8. QED
  BY <1>1, <1>6, <1>7, CpuKeeps

LEMMA PeekKeeps ==
  ASSUME RecvInv, Peek
  PROVE  RecvInv'
<1> DEFINE c == RX_RD % RSIZE
<1>1. /\ got' = <<rxbuf[c]>>
      /\ UNCHANGED <<SnSR, RX_RD, rxbuf, received, freed, inbox>>
      /\ UNCHANGED <<_remaining, _remoteIP, taken, cpu>>
  BY DEF Peek, ring
<1>2. c \in 0 .. RSIZE - 1 /\ rxbuf \in [0 .. RSIZE - 1 -> Nat]
  BY Counts, Sizes, ModDef DEF RecvInv
<1> HIDE DEF c
<1>3. got' \in Seq(Nat)
  BY <1>1, <1>2
<1>4. TypeOK'
  BY <1>1, <1>3 DEF RecvInv, TypeOK
<1>5. Taken' = Taken
  BY <1>1 DEF Taken
<1>6. InboxInOrder' /\ PointerRight' /\ DataRight' /\ CallRight'
  BY <1>1, <1>5 DEF RecvInv, InboxInOrder, PointerRight, DataRight, CallRight, At, RX_RSR
<1>7. QED
  BY <1>4, <1>6 DEF RecvInv

\* OPEN and CLOSE.
LEMMA RestartKeeps ==
  ASSUME RecvInv, Begin \/ Stop
  PROVE  RecvInv'
<1>1. /\ cpu.pc = "idle" /\ RX_RD' = 0 /\ received' = 0 /\ freed' = 0
      /\ inbox' = <<>> /\ taken' = 0
      /\ UNCHANGED <<rxbuf, _remoteIP, got, cpu>>
      /\ SnSR' \in {"UDP", "CLOSED"} /\ _remaining' \in {0, _remaining}
      /\ SnSR' = "UDP" => _remaining' = 0
  BY DEF Begin, Stop, Restart, At
<1>2. 0 \in 0 .. PTR - 1 /\ 0 % PTR = 0
  BY Sizes, ModSmall
<1>3. inbox' \in Seq(Datagram) /\ Len(inbox') = 0 /\ DOMAIN inbox' = {}
  BY <1>1
<1>4. received' \in freed' .. freed' + RSIZE
  BY <1>1, Sizes
<1>5. TypeOK'
  BY <1>1, <1>2, <1>3, <1>4 DEF RecvInv, TypeOK, Datagram
<1>6. InboxInOrder' /\ PointerRight' /\ DataRight'
  <2>1. Taken' = 0
    BY <1>1 DEF Taken
  <2>2. RX_RD' = freed' % PTR
    BY <1>1, <1>2
  <2>3. SnSR' = "UDP" => freed' + _remaining' = Taken'
    BY <1>1, <2>1
  <2>4. PointerRight'
    BY <1>1, <2>2, <2>3 DEF PointerRight
  <2>5. InboxInOrder' /\ DataRight'
    BY <1>1, <1>3 DEF InboxInOrder, DataRight
  <2>6. QED
    BY <2>4, <2>5
<1>7. CallRight'
  BY <1>1 DEF RecvInv, CallRight, At
<1>8. QED
  BY <1>5, <1>6, <1>7 DEF RecvInv

----------------------------------------------------------------------------
(* A datagram arrives. *)

New(from, n) ==
  [from |-> from, at |-> received, data |-> [k \in 1 .. n |-> Byte(Len(inbox) + 1, k)]]

LEMMA NewIsDatagram ==
  ASSUME TypeOK, NEW from \in Peers, NEW n \in Nat
  PROVE  /\ New(from, n) \in Datagram /\ New(from, n).at = received
         /\ Len(New(from, n).data) = n
<1> DEFINE data == [k \in 1 .. n |-> Byte(Len(inbox) + 1, k)]
<1>1. ASSUME NEW k \in 1 .. n PROVE Byte(Len(inbox) + 1, k) \in Nat
  <2> DEFINE j == Len(inbox) + 1
  <2>1. j \in Nat /\ k \in Nat /\ RSIZE \in Nat
    BY Counts, Sizes
  <2> HIDE DEF j
  <2>2. j * RSIZE \in Nat
    BY <2>1
  <2>3. QED
    BY <2>1, <2>2 DEF Byte, j
<1>2. data \in Seq(Nat) /\ Len(data) = n
  BY <1>1
<1> HIDE DEF data
<1>3. New(from, n) = [from |-> from, at |-> received, data |-> data]
  BY DEF New, data
<1>4. QED
  BY <1>2, <1>3, Counts DEF Datagram

\* What is in the cell of a position from the ring's oldest cell on.
LEMMA ArrivalCell ==
  ASSUME TypeOK, NEW from \in Peers, NEW n \in Nat, RX_RSR + HEADER + n <= RSIZE,
         rxbuf' = [i \in DOMAIN rxbuf |->
             LET k == (i - received) % RSIZE
             IN  IF k < HEADER + n THEN Cells(New(from, n))[k + 1] ELSE rxbuf[i]],
         NEW p \in freed .. received + HEADER + n - 1
  PROVE  rxbuf'[p % RSIZE] =
             IF p < received THEN rxbuf[p % RSIZE] ELSE Cells(New(from, n))[p - received + 1]
<1> DEFINE c == p % RSIZE   k == (c - received) % RSIZE   d == p - received
<1>1. /\ received \in Int /\ received \in Nat /\ freed \in Nat /\ freed <= received
      /\ RX_RSR = received - freed /\ p \in Int /\ p \in Nat /\ d \in Int
      /\ DOMAIN rxbuf = 0 .. RSIZE - 1
  <2>1. /\ received \in Nat /\ freed \in Nat /\ freed <= received
        /\ RX_RSR = received - freed /\ rxbuf \in [0 .. RSIZE - 1 -> Nat]
    BY Counts
  <2>2. p \in Nat
    BY <2>1, Sizes
  <2>3. QED
    BY <2>1, <2>2
<1>2. c \in 0 .. RSIZE - 1
  BY <1>1, Sizes, ModDef
<1>3. k = d % RSIZE
  BY <1>1, Sizes, ModLeft
<1>4. rxbuf'[c] = IF k < HEADER + n THEN Cells(New(from, n))[k + 1] ELSE rxbuf[c]
  BY <1>1, <1>2
<1> HIDE DEF c, k
<1>5. CASE p < received
  <2> DEFINE r == d + RSIZE
  <2>1. r \in 0 .. RSIZE - 1 /\ r >= HEADER + n /\ d = r - RSIZE
    BY <1>1, <1>5, Sizes
  <2> HIDE DEF r, d
  <2>2. (r - RSIZE) % RSIZE = r
    BY <2>1, Sizes, ModSmall
  <2>3. k = r
    BY <1>3, <2>1, <2>2
  <2>4. ~(k < HEADER + n)
    BY <2>1, <2>3, Sizes
  <2>5. QED
    BY <1>4, <1>5, <2>4 DEF c
<1>6. CASE ~(p < received)
  <2>1. d \in 0 .. RSIZE - 1 /\ d < HEADER + n
    BY <1>1, <1>6, Sizes
  <2> HIDE DEF d
  <2>2. k = d
    BY <1>3, <2>1, Sizes, ModSmall
  <2>3. rxbuf'[c] = Cells(New(from, n))[d + 1]
    BY <1>4, <2>1, <2>2
  <2>4. QED
    BY <1>6, <2>3 DEF c, d
<1>7. QED
  BY <1>5, <1>6

LEMMA DatagramKeeps ==
  ASSUME RecvInv, NEW from \in Peers, NEW n \in 0 .. MaxData, ChipDatagram(from, n)
  PROVE  RecvInv'
<1> DEFINE d == New(from, n)   L == Len(inbox)
<1>1. /\ SnSR = "UDP" /\ RX_RSR + HEADER + n <= RSIZE /\ n \in Nat
      /\ inbox' = Append(inbox, d) /\ received' = received + HEADER + n
      /\ rxbuf' = [i \in DOMAIN rxbuf |->
             LET k == (i - received) % RSIZE
             IN  IF k < HEADER + n THEN Cells(d)[k + 1] ELSE rxbuf[i]]
      /\ UNCHANGED <<SnSR, RX_RD, freed, _remaining, _remoteIP, taken, got, cpu>>
  BY Sizes DEF ChipDatagram, history, New
<1>2. /\ TypeOK /\ received \in Nat /\ freed \in Nat /\ freed <= received
      /\ received <= freed + RSIZE /\ RX_RSR = received - freed
      /\ inbox \in Seq(Datagram) /\ L \in Nat /\ DOMAIN inbox = 1 .. L
      /\ taken \in 0 .. L /\ rxbuf \in [0 .. RSIZE - 1 -> Nat]
  BY Counts DEF RecvInv
<1>3. d \in Datagram /\ d.at = received /\ Len(d.data) = n
  BY <1>1, <1>2, NewIsDatagram
<1>4. /\ Cells(d) \in Seq(Nat) /\ DOMAIN Cells(d) = 1 .. HEADER + n
      /\ Len(Cells(d)) = HEADER + n
  BY <1>3, CellsAre
<1>5. ASSUME NEW p \in freed .. received + HEADER + n - 1
      PROVE  rxbuf'[p % RSIZE] =
                 IF p < received THEN rxbuf[p % RSIZE] ELSE Cells(d)[p - received + 1]
  BY <1>1, <1>2, <1>5, ArrivalCell
<1> HIDE DEF d
<1>6. /\ inbox' \in Seq(Datagram) /\ Len(inbox') = L + 1 /\ DOMAIN inbox' = 1 .. L + 1
      /\ inbox'[L + 1] = d /\ \A j \in 1 .. L : inbox'[j] = inbox[j]
  <2>1. /\ inbox' \in Seq(Datagram) /\ Len(inbox') = L + 1
        /\ inbox'[L + 1] = d /\ \A j \in 1 .. L : inbox'[j] = inbox[j]
    BY <1>1, <1>2, <1>3, AppendProperties
  <2>2. QED
    BY <2>1, LenProperties
<1> HIDE DEF L
<1>7. EndOf(d) = received' /\ received' \in Nat /\ received <= received'
  BY <1>1, <1>2, <1>3, <1>4, Sizes DEF EndOf
<1>8. TypeOK'
  <2>1. rxbuf' \in [0 .. RSIZE - 1 -> Nat]
    <3>1. ASSUME NEW i \in 0 .. RSIZE - 1
          PROVE  (LET k == (i - received) % RSIZE
                  IN  IF k < HEADER + n THEN Cells(d)[k + 1] ELSE rxbuf[i]) \in Nat
      <4> DEFINE k == (i - received) % RSIZE
      <4>1. k \in 0 .. RSIZE - 1
        <5>1. i - received \in Int
          BY <1>2
        <5>2. QED
          BY <5>1, Sizes, ModDef
      <4> HIDE DEF k
      <4>2. k < HEADER + n => k + 1 \in 1 .. HEADER + n
        BY <1>1, <4>1, Sizes
      <4>3. k < HEADER + n => Cells(d)[k + 1] \in Nat
        BY <1>4, <4>2, ElementOfSeq
      <4>4. rxbuf[i] \in Nat
        BY <1>2
      <4>5. QED
        BY <4>3, <4>4 DEF k
    <3>2. QED
      BY <1>1, <1>2, <3>1
  <2>2. received' \in freed' .. freed' + RSIZE
    BY <1>1, <1>2, Sizes
  <2>3. taken' \in 0 .. Len(inbox')
    BY <1>1, <1>2, <1>6
  <2>4. QED
    BY <1>1, <1>2, <1>6, <2>1, <2>2, <2>3 DEF TypeOK, Datagram
<1>9. InboxInOrder'
  <2>1. received' = IF inbox' = <<>> THEN 0 ELSE EndOf(inbox'[Len(inbox')])
    <3>1. inbox' # <<>> /\ inbox'[Len(inbox')] = d
      BY <1>2, <1>6, EmptySeq
    <3>2. QED
      BY <1>7, <3>1
  <2>2. ASSUME NEW j \in 1 .. L
        PROVE  /\ inbox'[j].at = IF j = 1 THEN 0 ELSE EndOf(inbox'[j - 1])
               /\ EndOf(inbox'[j]) <= received'
    <3>1. inbox[j].at = IF j = 1 THEN 0 ELSE EndOf(inbox[j - 1])
      BY <1>2, <2>2 DEF RecvInv, InboxInOrder
    <3>2. EndOf(inbox[j]) <= received /\ EndOf(inbox[j]) \in Nat
      BY <1>2, <2>2, EndOfNat DEF RecvInv, InboxInOrder
    <3>3. j # 1 => j - 1 \in 1 .. L
      BY <1>2, <2>2
    <3>4. inbox'[j] = inbox[j] /\ (j # 1 => inbox'[j - 1] = inbox[j - 1])
      BY <1>6, <2>2, <3>3
    <3>5. EndOf(inbox[j]) <= received'
      BY <1>2, <1>7, <3>2
    <3>6. QED
      BY <3>1, <3>4, <3>5
  <2>3. received = IF L = 0 THEN 0 ELSE EndOf(inbox[L])
    BY <1>2, EmptySeq DEF RecvInv, InboxInOrder, L
  <2>4. inbox'[L + 1].at = IF L + 1 = 1 THEN 0 ELSE EndOf(inbox'[(L + 1) - 1])
    <3>1. inbox'[L + 1].at = received /\ (L + 1) - 1 = L /\ (L + 1 = 1 <=> L = 0)
      BY <1>2, <1>3, <1>6
    <3>2. L # 0 => inbox'[L] = inbox[L]
      BY <1>2, <1>6
    <3>3. QED
      BY <2>3, <3>1, <3>2
  <2>5. EndOf(inbox'[L + 1]) <= received'
    BY <1>6, <1>7
  <2>6. ASSUME NEW j \in DOMAIN inbox'
        PROVE  /\ inbox'[j].at = IF j = 1 THEN 0 ELSE EndOf(inbox'[j - 1])
               /\ EndOf(inbox'[j]) <= received'
    <3>1. j \in 1 .. L \/ j = L + 1
      BY <1>2, <1>6, <2>6
    <3>2. QED
      BY <2>2, <2>4, <2>5, <3>1
  <2>7. QED
    BY <2>1, <2>6 DEF InboxInOrder
<1>10. Taken' = Taken
  <2>1. taken' = taken /\ (taken = 0 \/ taken \in 1 .. L)
    BY <1>1, <1>2
  <2>2. QED
    BY <1>6, <2>1 DEF Taken
<1>11. PointerRight'
  BY <1>1, <1>10 DEF RecvInv, PointerRight
<1>12. DataRight'
  <2>1. ASSUME NEW j \in 1 .. L, NEW k \in DOMAIN Cells(inbox[j]),
               inbox[j].at + k - 1 >= freed
        PROVE  rxbuf'[(inbox[j].at + k - 1) % RSIZE] = Cells(inbox[j])[k]
    <3> DEFINE p == inbox[j].at + k - 1
    <3>1. /\ inbox[j] \in Datagram /\ inbox[j].at \in Nat
          /\ EndOf(inbox[j]) = inbox[j].at + HEADER + Len(inbox[j].data)
      BY <1>2, <2>1, EndOfNat
    <3>2. k \in 1 .. HEADER + Len(inbox[j].data) /\ Len(inbox[j].data) \in Nat
      BY <2>1, <3>1, CellsAre
    <3>3. EndOf(inbox[j]) <= received
      BY <1>2, <2>1 DEF RecvInv, InboxInOrder
    <3>4. p \in freed .. received + HEADER + n - 1 /\ p < received
      <4> DEFINE a == inbox[j].at   m == Len(inbox[j].data)   end == EndOf(inbox[j])
      <4>1. /\ a \in Nat /\ m \in Nat /\ k \in 1 .. 2 + m /\ end = a + 2 + m
            /\ end <= received /\ p = a + k - 1 /\ p >= freed
        BY <2>1, <3>1, <3>2, <3>3, Sizes
      <4> HIDE DEF a, m, end, p
      <4>2. p \in Int /\ p < received
        BY <1>2, <4>1
      <4>3. QED
        BY <1>1, <1>2, <4>1, <4>2, Sizes
    <3> HIDE DEF p
    <3>5. rxbuf'[p % RSIZE] = rxbuf[p % RSIZE]
      BY <1>5, <3>4
    <3>6. rxbuf[p % RSIZE] = Cells(inbox[j])[k]
      BY <1>2, <2>1 DEF RecvInv, DataRight, p
    <3>7. QED
      BY <3>5, <3>6 DEF p
  <2>2. ASSUME NEW k \in DOMAIN Cells(d)
        PROVE  rxbuf'[(d.at + k - 1) % RSIZE] = Cells(d)[k]
    <3> DEFINE p == received + k - 1
    <3>1. k \in Nat /\ k >= 1 /\ k <= HEADER + n
      BY <1>1, <1>4, <2>2, Sizes
    <3>2. /\ p \in freed .. received + HEADER + n - 1 /\ ~(p < received)
          /\ p - received + 1 = k
      BY <1>1, <1>2, <3>1, Sizes
    <3>3. d.at + k - 1 = p
      BY <1>3
    <3> HIDE DEF p
    <3>4. QED
      BY <1>5, <3>2, <3>3
  <2>3. SUFFICES ASSUME NEW j \in DOMAIN inbox', NEW k \in DOMAIN Cells(inbox'[j]),
                        inbox'[j].at + k - 1 >= freed'
                 PROVE  rxbuf'[(inbox'[j].at + k - 1) % RSIZE] = Cells(inbox'[j])[k]
    BY DEF DataRight
  <2>4. CASE j = L + 1
    BY <1>6, <2>2, <2>3, <2>4
  <2>5. CASE j # L + 1
    <3>1. j \in 1 .. L /\ inbox'[j] = inbox[j] /\ freed' = freed
      BY <1>1, <1>2, <1>6, <2>3, <2>5
    <3>2. QED
      BY <2>1, <2>3, <3>1
  <2>6. QED
    BY <2>4, <2>5
<1>13. CallRight'
  <2>1. RX_RSR' \in Nat /\ RX_RSR \in Nat /\ RX_RSR <= RX_RSR'
    BY <1>1, <1>2, <1>7 DEF RX_RSR
  <2>2. cpu' = cpu /\ SnSR' = SnSR /\ _remaining' = _remaining /\ cpu.ret \in Nat
    BY <1>1, <1>2, Counts DEF Cpus
  <2>3. QED
    BY <2>1, <2>2 DEF RecvInv, CallRight, At
<1>14. QED
  BY <1>8, <1>9, <1>11, <1>12, <1>13 DEF RecvInv

----------------------------------------------------------------------------
(* recv() takes cells out of the ring. *)

\* n cells from position p on.
Cut(buf, p, n) == [k \in 1 .. n |-> buf[(p + k - 1) % RSIZE]]

\* The pointer stands for the number of cells given back.
LEMMA PlaceOfPointer ==
  ASSUME NEW p \in Nat, NEW k \in Nat \ {0}
  PROVE  ((p % PTR) + k - 1) % RSIZE = (p + k - 1) % RSIZE
<1> DEFINE x == k - 1
<1>1. x \in Int /\ p \in Int
  OBVIOUS
<1> HIDE DEF x
<1>2. ((p % PTR) + x) % RSIZE = (p + x) % RSIZE
  BY <1>1, Sizes, CellBehind
<1>3. p % PTR \in Int
  BY <1>1, Sizes, ModDef
<1>4. (p % PTR) + k - 1 = (p % PTR) + x /\ p + k - 1 = p + x
  BY <1>3 DEF x
<1>5. QED
  BY <1>2, <1>4

LEMMA RingCut ==
  ASSUME freed \in Nat, RX_RD = freed % PTR, NEW n \in Nat
  PROVE  Ring(n) = Cut(rxbuf, freed, n)
<1>1. ASSUME NEW k \in 1 .. n
      PROVE  (RX_RD + k - 1) % RSIZE = (freed + k - 1) % RSIZE
  BY PlaceOfPointer
<1>2. QED
  BY <1>1 DEF Ring, Cut

LEMMA CutTyped ==
  ASSUME NEW buf \in [0 .. RSIZE - 1 -> Nat], NEW p \in Nat, NEW n \in Nat
  PROVE  Cut(buf, p, n) \in Seq(Nat) /\ Len(Cut(buf, p, n)) = n
<1>1. ASSUME NEW k \in 1 .. n
      PROVE  buf[(p + k - 1) % RSIZE] \in Nat
  <2>1. p + k - 1 \in Int
    OBVIOUS
  <2>2. (p + k - 1) % RSIZE \in 0 .. RSIZE - 1
    BY <2>1, Sizes, ModDef
  <2>3. QED
    BY <2>2
<1>2. QED
  BY <1>1 DEF Cut

\* A cut in two parts.
LEMMA CutParts ==
  ASSUME NEW buf \in [0 .. RSIZE - 1 -> Nat], NEW p \in Nat, NEW m \in Nat,
         NEW n \in 0 .. m
  PROVE  /\ SubSeq(Cut(buf, p, m), 1, n) = Cut(buf, p, n)
         /\ SubSeq(Cut(buf, p, m), n + 1, m) = Cut(buf, p + n, m - n)
<1> DEFINE c == Cut(buf, p, m)
<1>1. c \in Seq(Nat) /\ Len(c) = m /\ \A i \in 1 .. m : c[i] = buf[(p + i - 1) % RSIZE]
  BY CutTyped DEF Cut
<1>2. \A i \in 1 .. m : c[i] \in Nat
  BY <1>1, ElementOfSeq
<1> HIDE DEF c
<1>3. SubSeq(c, 1, n) = Cut(buf, p, n)
  <2> DEFINE s == SubSeq(c, 1, n)   t == Cut(buf, p, n)
  <2>1. s \in Seq(Nat) /\ Len(s) = n /\ \A i \in 1 .. n : s[i] = c[i]
    <3>1. \A i \in 1 .. n : c[i] \in Nat
      BY <1>2
    <3>2. /\ s \in Seq(Nat) /\ Len(s) = IF 1 <= n THEN n - 1 + 1 ELSE 0
          /\ \A i \in 1 .. n - 1 + 1 : s[i] = c[1 + i - 1]
      BY <3>1, SubSeqProperties
    <3>3. \A i \in 1 .. n : i \in 1 .. n - 1 + 1 /\ 1 + i - 1 = i
      OBVIOUS
    <3> HIDE DEF s
    <3>4. QED
      BY <3>2, <3>3
  <2>2. t \in Seq(Nat) /\ Len(t) = n
    <3>1. n \in Nat
      OBVIOUS
    <3>2. QED
      BY <3>1, CutTyped
  <2>3. \A i \in 1 .. n : t[i] = buf[(p + i - 1) % RSIZE]
    BY DEF Cut
  <2> HIDE DEF s, t
  <2>6. ASSUME NEW i \in 1 .. n PROVE s[i] = t[i]
    <3>1. i \in 1 .. m
      OBVIOUS
    <3>2. c[i] = buf[(p + i - 1) % RSIZE]
      BY <1>1, <3>1
    <3>3. s[i] = c[i] /\ t[i] = buf[(p + i - 1) % RSIZE]
      BY <2>1, <2>3
    <3>4. QED
      BY <3>2, <3>3
  <2>4. s = t
    BY <2>1, <2>2, <2>6, SeqEqual
  <2>5. QED
    BY <2>4 DEF s, t
<1>4. SubSeq(c, n + 1, m) = Cut(buf, p + n, m - n)
  <2> DEFINE s == SubSeq(c, n + 1, m)   t == Cut(buf, p + n, m - n)
  <2>1. s \in Seq(Nat) /\ Len(s) = m - n /\ \A i \in 1 .. m - n : s[i] = c[n + i]
    <3>1. \A i \in n + 1 .. m : c[i] \in Nat
      BY <1>2
    <3> DEFINE f == n + 1
    <3>2. f \in Int /\ m \in Int
      OBVIOUS
    <3> HIDE DEF f
    <3>3. /\ SubSeq(c, f, m) \in Seq(Nat)
          /\ Len(SubSeq(c, f, m)) = IF f <= m THEN m - f + 1 ELSE 0
          /\ \A i \in 1 .. m - f + 1 : SubSeq(c, f, m)[i] = c[f + i - 1]
      BY <3>1, <3>2, SubSeqProperties DEF f
    <3>4. Len(s) = IF n + 1 <= m THEN m - (n + 1) + 1 ELSE 0
      BY <3>3 DEF f
    <3>5. \A i \in 1 .. m - n : i \in 1 .. m - f + 1 /\ f + i - 1 = n + i
      BY DEF f
    <3>6. \A i \in 1 .. m - n : s[i] = c[n + i]
      BY <3>3, <3>5 DEF f
    <3>7. QED
      BY <3>3, <3>4, <3>6 DEF f
  <2>2. /\ t \in Seq(Nat) /\ Len(t) = m - n
        /\ \A i \in 1 .. m - n : t[i] = buf[(p + n + i - 1) % RSIZE]
    <3>1. p + n \in Nat /\ m - n \in Nat
      OBVIOUS
    <3>2. t \in Seq(Nat) /\ Len(t) = m - n
      BY <3>1, CutTyped
    <3>3. \A i \in 1 .. m - n : t[i] = buf[(p + n + i - 1) % RSIZE]
      BY DEF Cut
    <3>4. QED
      BY <3>2, <3>3
  <2> HIDE DEF s, t
  <2>3. \A i \in 1 .. m - n : s[i] = t[i]
    <3>1. \A i \in 1 .. m - n : n + i \in 1 .. m /\ p + (n + i) - 1 = p + n + i - 1
      OBVIOUS
    <3>2. QED
      BY <1>1, <2>1, <2>2, <3>1
  <2>4. s = t
    BY <2>1, <2>2, <2>3, SeqEqual
  <2>5. QED
    BY <2>4 DEF s, t
<1>5. QED
  BY <1>3, <1>4 DEF c

LEMMA CopyMoves ==
  ASSUME RecvInv, RecvCopy
  PROVE  /\ cpu.ret \in Nat /\ cpu.ret = cpu.len /\ SnSR = "UDP" /\ SnSR' = "UDP"
         /\ freed \in Nat /\ freed' = freed + cpu.ret /\ freed' <= received
         /\ RX_RD = freed % PTR /\ RX_RD' = freed' % PTR /\ RX_RD' \in 0 .. PTR - 1
         /\ UNCHANGED <<SnSR, rxbuf, received, inbox>>
<1> DEFINE r == cpu.ret
<1>1. /\ cpu.pc = "copy" /\ RX_RD' = (RX_RD + r) % PTR
      /\ freed' = freed + ((RX_RD' - freed) % PTR)
      /\ UNCHANGED <<SnSR, rxbuf, received, inbox>>
  BY DEF RecvCopy, At
<1>2. /\ SnSR = "UDP" /\ r = cpu.len /\ r <= RX_RSR /\ RX_RD = freed % PTR
  BY <1>1 DEF RecvInv, CallRight, PointerRight, At
<1>3. /\ r \in Nat /\ freed \in Nat /\ received \in Nat /\ RX_RSR = received - freed
      /\ received <= freed + RSIZE /\ freed \in Int /\ r \in Int
  BY Counts DEF RecvInv, Cpus
<1> HIDE DEF r
<1>4. r \in 0 .. PTR - 1 /\ freed + r <= received
  BY <1>2, <1>3, Sizes
<1>5. RX_RD' = (freed + r) % PTR
  BY <1>1, <1>2, <1>3, Sizes, PointerMove
<1>6. (RX_RD' - freed) % PTR = r
  BY <1>3, <1>4, <1>5, Sizes, PointerDiff
<1>7. RX_RD' \in 0 .. PTR - 1
  <2>1. freed + r \in Int
    BY <1>3
  <2>2. QED
    BY <1>5, <2>1, Sizes, ModDef
<1>8. freed' = freed + r
  BY <1>1, <1>6
<1>9. QED
  BY <1>1, <1>2, <1>3, <1>4, <1>5, <1>7, <1>8 DEF r

\* A header is the one of the next datagram.
LEMMA HeaderRight ==
  ASSUME RecvInv, RecvCopy, cpu.caller = "header"
  PROVE  /\ taken + 1 \in DOMAIN inbox /\ inbox[taken + 1] \in Datagram
         /\ inbox[taken + 1].at = freed /\ cpu.ret = HEADER
         /\ Ring(HEADER)[1] = inbox[taken + 1].from
         /\ Ring(HEADER)[2] = Len(inbox[taken + 1].data)
         /\ EndOf(inbox[taken + 1]) = freed + HEADER + Len(inbox[taken + 1].data)
<1> DEFINE d == inbox[taken + 1]
<1>1. /\ cpu.ret = HEADER /\ _remaining = 0 /\ SnSR = "UDP" /\ received > freed /\ TypeOK
      /\ freed \in Nat /\ received \in Nat /\ RX_RD = freed % PTR
  <2>1. cpu.len = HEADER /\ _remaining = 0
    BY DEF RecvInv, CallRight
  <2>2. cpu.ret = HEADER /\ freed \in Nat /\ freed + HEADER <= received /\ SnSR = "UDP"
        /\ RX_RD = freed % PTR
    BY <2>1, CopyMoves
  <2>3. QED
    BY <2>1, <2>2, Counts, Sizes DEF RecvInv
<1>2. taken + 1 \in DOMAIN inbox /\ d.at = freed
  BY <1>1, NextDatagram
<1>3. d \in Datagram /\ EndOf(d) = freed + HEADER + Len(d.data)
  BY <1>1, <1>2, EndOfNat
<1> HIDE DEF d
<1>4. /\ DOMAIN Cells(d) = 1 .. HEADER + Len(d.data) /\ Len(d.data) \in Nat
      /\ Cells(d)[1] = d.from /\ Cells(d)[2] = Len(d.data)
  BY <1>3, CellsAre
<1>5. ASSUME NEW k \in 1 .. 2
      PROVE  Ring(HEADER)[k] = Cells(d)[k]
  <2>1. Ring(HEADER) = Cut(rxbuf, freed, HEADER)
    BY <1>1, Sizes, RingCut
  <2>2. Ring(HEADER)[k] = rxbuf[(freed + k - 1) % RSIZE]
    BY <2>1, Sizes DEF Cut
  <2>3. k \in DOMAIN Cells(d) /\ freed + k - 1 >= freed
    BY <1>1, <1>4, Sizes
  <2>4. \A i \in DOMAIN Cells(d) :
            d.at + i - 1 >= freed => rxbuf[(d.at + i - 1) % RSIZE] = Cells(d)[i]
    BY <1>2 DEF RecvInv, DataRight, d
  <2>5. QED
    BY <1>2, <2>2, <2>3, <2>4
<1>6. QED
  BY <1>1, <1>2, <1>3, <1>4, <1>5 DEF d

\* What has not been given back stays in its place, and the next call begins.
LEMMA CopyKeepsRest ==
  ASSUME RecvInv, RecvCopy, cpu' \in Cpus, CallRight',
         _remaining' \in Nat, _remoteIP' \in Nat, got' \in Seq(Nat),
         taken' \in 0 .. Len(inbox), freed' + _remaining' = Taken'
  PROVE  RecvInv'
<1>1. /\ cpu.ret \in Nat /\ freed \in Nat /\ freed' = freed + cpu.ret
      /\ freed' <= received /\ RX_RD' = freed' % PTR /\ RX_RD' \in 0 .. PTR - 1
      /\ SnSR = "UDP" /\ UNCHANGED <<SnSR, rxbuf, received, inbox>>
  BY CopyMoves
<1>2. received \in Nat /\ received <= freed + RSIZE /\ inbox \in Seq(Datagram)
  BY Counts DEF RecvInv
<1>3. received' \in freed' .. freed' + RSIZE /\ freed' \in Nat
  <2> DEFINE r == cpu.ret
  <2>1. r \in Nat /\ freed' = freed + r
    BY <1>1
  <2> HIDE DEF r
  <2>2. freed' \in Nat /\ freed <= freed'
    BY <1>1, <2>1
  <2>3. received' = received /\ freed' <= received /\ freed \in Nat
    BY <1>1
  <2>4. RSIZE \in Nat
    BY Sizes
  <2> DEFINE a == freed'   b == received'
  <2>5. a \in Nat /\ b \in Nat /\ a <= b /\ b <= a + RSIZE
    <3> DEFINE f == freed
    <3>1. f \in Nat /\ f <= a /\ a \in Nat /\ b \in Nat /\ b <= f + RSIZE /\ a <= b
      BY <1>2, <2>2, <2>3
    <3> HIDE DEF a, b, f
    <3>2. QED
      BY <2>4, <3>1
  <2> HIDE DEF a, b
  <2>6. b \in a .. a + RSIZE
    BY <2>4, <2>5
  <2>7. QED
    BY <2>2, <2>6 DEF a, b
<1>4. TypeOK'
  BY <1>1, <1>3 DEF RecvInv, TypeOK, Cpus, Callers
<1>5. InboxInOrder'
  BY <1>1 DEF RecvInv, InboxInOrder
<1>6. PointerRight'
  BY <1>1 DEF PointerRight
<1>7. DataRight'
  <2> SUFFICES ASSUME NEW j \in DOMAIN inbox, NEW k \in DOMAIN Cells(inbox[j]),
                      inbox[j].at + k - 1 >= freed'
               PROVE  rxbuf[(inbox[j].at + k - 1) % RSIZE] = Cells(inbox[j])[k]
    BY <1>1 DEF DataRight
  <2>1. inbox[j].at \in Nat /\ inbox[j] \in Datagram
    BY EndOfNat DEF RecvInv
  <2>2. k \in 1 .. HEADER + Len(inbox[j].data) /\ Len(inbox[j].data) \in Nat
    BY <2>1, CellsAre
  <2> DEFINE cell == inbox[j].at + k - 1
  <2>3. cell \in Int /\ cell >= freed'
    BY <2>1, <2>2, Sizes
  <2> HIDE DEF cell
  <2>4. cell >= freed
    BY <1>1, <2>3
  <2>5. QED
    BY <2>4 DEF RecvInv, DataRight, cell
<1>8. QED
  BY <1>4, <1>5, <1>6, <1>7 DEF RecvInv

LEMMA HeaderKeeps ==
  ASSUME RecvInv, RecvCopy, cpu.caller = "header"
  PROVE  RecvInv'
<1> DEFINE d == inbox[taken + 1]   m == Len(d.data)
<1>1. /\ _remoteIP' = d.from /\ _remaining' = m /\ taken' = taken + 1
      /\ cpu' = Idle /\ got' = got
  BY HeaderRight DEF RecvCopy
<1>2. /\ taken + 1 \in DOMAIN inbox /\ d \in Datagram /\ cpu.ret = 2
      /\ EndOf(d) = freed + 2 + m
  BY HeaderRight, Sizes
<1>3. freed \in Nat /\ freed' = freed + cpu.ret /\ inbox' = inbox
  BY CopyMoves
<1>4. DOMAIN inbox = 1 .. Len(inbox) /\ taken \in Nat /\ Len(inbox) \in Nat /\ TypeOK
  BY Counts DEF RecvInv
<1>5. taken' \in 0 .. Len(inbox)
  BY <1>1, <1>2, <1>4
<1>6. m \in Nat /\ d.from \in Nat
  BY <1>2, CellsAre, Sizes DEF Datagram
<1>7. got' \in Seq(Nat)
  BY <1>1 DEF RecvInv, TypeOK
<1>8. Taken' = EndOf(d)
  <2>1. taken' # 0
    BY <1>1, <1>4
  <2>2. QED
    BY <1>1, <1>3, <2>1 DEF Taken
<1> HIDE DEF d, m
<1>9. freed' + _remaining' = Taken'
  BY <1>1, <1>2, <1>3, <1>6, <1>8
<1>10. cpu' \in Cpus /\ CallRight'
  BY <1>1, IdleCallRight
<1>11. QED
  BY <1>1, <1>5, <1>6, <1>7, <1>9, <1>10, CopyKeepsRest

\* What read() or flush() takes is taken off what is left.
LEMMA CopyOfRest ==
  ASSUME RecvInv, RecvCopy, cpu.caller # "header"
  PROVE  /\ cpu.caller \in {"read", "flush", "parse"}
         /\ cpu.ret \in 1 .. _remaining /\ _remaining \in Nat
         /\ _remaining' = _remaining - cpu.ret /\ _remaining' \in Nat
         /\ UNCHANGED <<_remoteIP, taken>>
         /\ freed' + _remaining' = Taken'
<1>1. /\ cpu.pc = "copy" /\ cpu.caller \in {"read", "flush", "parse"}
      /\ UNCHANGED <<_remoteIP, taken>>
  BY DEF RecvCopy, At, history
<1>2. /\ cpu.len \in 1 .. _remaining /\ cpu.ret = cpu.len
      /\ cpu.caller \in {"flush", "parse"} => cpu.len = 1
  BY <1>1 DEF RecvInv, CallRight, At
<1>3. _remaining \in Nat
  BY Counts DEF RecvInv
<1>4. _remaining' = _remaining - cpu.ret
  BY <1>1, <1>2 DEF RecvCopy
<1>5. freed \in Nat /\ freed' = freed + cpu.ret /\ inbox' = inbox /\ SnSR = "UDP"
  BY CopyMoves
<1>6. freed + _remaining = Taken
  BY <1>5, RestReceived
<1>7. Taken' = Taken
  BY <1>1, <1>5 DEF Taken
<1> DEFINE r == cpu.ret
<1>8. r \in 1 .. _remaining /\ _remaining' = _remaining - r /\ freed' = freed + r
  BY <1>2, <1>4, <1>5
<1> HIDE DEF r
<1>9. _remaining' \in Nat /\ freed' + _remaining' = freed + _remaining
  BY <1>3, <1>5, <1>8
<1>10. QED
  BY <1>1, <1>3, <1>6, <1>7, <1>8, <1>9 DEF r

LEMMA CopyKeeps ==
  ASSUME RecvInv, RecvCopy
  PROVE  RecvInv'
<1>1. CASE cpu.caller = "header"
  BY <1>1, HeaderKeeps
<1>2. CASE cpu.caller # "header"
  <2>1. /\ _remaining \in Nat /\ _remaining' \in Nat /\ UNCHANGED <<_remoteIP, taken>>
        /\ cpu.caller \in {"read", "flush", "parse"}
        /\ freed' + _remaining' = Taken'
    BY <1>2, CopyOfRest
  <2>2. _remoteIP' \in Nat /\ taken' \in 0 .. Len(inbox)
    BY <2>1 DEF RecvInv, TypeOK
  <2>3. CASE cpu.caller = "read"
    <3>1. got' = Ring(cpu.ret) /\ cpu' = Idle
      BY <2>3 DEF RecvCopy
    <3>2. cpu.ret \in Nat /\ freed \in Nat /\ RX_RD = freed % PTR
      BY CopyMoves
    <3>3. rxbuf \in [0 .. RSIZE - 1 -> Nat]
      BY Counts DEF RecvInv
    <3>4. Cut(rxbuf, freed, cpu.ret) \in Seq(Nat)
      BY <3>2, <3>3, CutTyped
    <3>5. got' \in Seq(Nat)
      BY <3>1, <3>2, <3>4, RingCut
    <3>6. cpu' \in Cpus /\ CallRight'
      BY <3>1, IdleCallRight
    <3>7. QED
      BY <2>1, <2>2, <3>5, <3>6, CopyKeepsRest
  <2>4. CASE cpu.caller \in {"flush", "parse"}
    <3>1. /\ _remaining' = _remaining - 1 /\ FlushLoop(_remaining - 1, cpu.caller)
          /\ got' = got
      BY <2>4 DEF RecvCopy, history
    <3>2. _remaining - 1 \in Nat
      BY <2>1, <3>1
    <3>3. cpu' \in Cpus /\ CallRight'
      BY <2>4, <3>1, <3>2, FlushLoopRight
    <3>4. got' \in Seq(Nat)
      BY <3>1 DEF RecvInv, TypeOK
    <3>5. QED
      BY <2>1, <2>2, <3>3, <3>4, CopyKeepsRest
  <2>5. QED
    BY <2>1, <2>3, <2>4
<1>3. QED
  BY <1>1, <1>2

----------------------------------------------------------------------------
(* The invariant *)

LEMMA RecvInvStep ==
  ASSUME RecvInv, [Next]_vars
  PROVE  RecvInv'
<1>1. CASE Begin \/ Stop
  BY <1>1, RestartKeeps
<1>2. CASE ParsePacket \/ Flush \/ AvailableNone \/ RecvNone
  BY <1>2, CallsKeep
<1>3. CASE Peek
  BY <1>3, PeekKeeps
<1>4. ASSUME NEW len \in 1 .. MaxLen, Read(len)
      PROVE  RecvInv'
  BY <1>4, ReadKeeps
<1>5. CASE Available
  BY <1>5, AvailableKeeps
<1>6. CASE RecvSize
  BY <1>6, RecvSizeKeeps
<1>7. CASE RecvCopy
  BY <1>7, CopyKeeps
<1>8. CASE Environment
  BY <1>8, DatagramKeeps DEF Environment
<1>9. CASE UNCHANGED vars
  <2>1. UNCHANGED receiving /\ cpu' = cpu
    BY <1>9 DEF vars
  <2>2. cpu' \in Cpus /\ CallRight'
    BY <2>1, Counts DEF RecvInv, CallRight, At, RX_RSR, receiving, ring
  <2>3. QED
    BY <2>1, <2>2, CpuKeeps
<1>10. QED
  BY <1>1, <1>2, <1>3, <1>4, <1>5, <1>6, <1>7, <1>8, <1>9 DEF Next, Sketch, Driver

\* Datagrams lie in the ring one behind the other, the pointer and _remaining
\* say exactly where in them the object is, and recv() is never asked for a
\* byte that has not arrived.
THEOREM RecvInvariant == Spec => []RecvInv
<1>1. Init => RecvInv
  BY InitRecvInv
<1>2. RecvInv /\ [Next]_vars => RecvInv'
  BY RecvInvStep
<1>3. QED
  BY <1>1, <1>2, PTL DEF Spec

\* Every variable has its type; what the chip counts fits into the ring.
THEOREM RecvTyped == Spec => []TypeOK
<1>1. RecvInv => TypeOK
  BY DEF RecvInv
<1>2. QED
  BY <1>1, RecvInvariant, PTL

----------------------------------------------------------------------------
(* The receiving half implements Datagrams. *)

Queue == SubSeq(inbox, taken + 1, Len(inbox))

Rest == IF SnSR = "UDP" THEN Ring(_remaining) ELSE <<>>

LEMMA SubSeqAppend ==
  ASSUME NEW S, NEW s \in Seq(S), NEW e \in S, NEW n \in 0 .. Len(s)
  PROVE  SubSeq(Append(s, e), n + 1, Len(s) + 1) = Append(SubSeq(s, n + 1, Len(s)), e)
<1> DEFINE t == Append(s, e)   L == Len(s)   q == SubSeq(s, n + 1, L)
<1>1. L \in Nat /\ n \in Nat /\ n <= L
  BY LenProperties
<1>2. t \in Seq(S) /\ Len(t) = L + 1 /\ t[L + 1] = e /\ t = s \o <<e>>
  BY AppendProperties, AppendIsConcat
<1> HIDE DEF t, L
<1>3. SubSeq(t, n + 1, L + 1) = SubSeq(t, n + 1, L) \o <<e>>
  <2>1. n + 1 \in 1 .. Len(t) /\ L + 1 \in (n + 1) .. Len(t) /\ (L + 1) - 1 = L
    BY <1>1, <1>2
  <2> DEFINE a == n + 1   b == L + 1
  <2>2. a \in 1 .. Len(t) /\ b \in a .. Len(t)
    BY <2>1
  <2> HIDE DEF a, b
  <2>3. SubSeq(t, a, b) = SubSeq(t, a, b - 1) \o <<t[b]>>
    BY <1>2, <2>2, SubSeqRecursiveSecond
  <2>4. QED
    BY <1>2, <2>1, <2>3 DEF a, b
<1>4. SubSeq(t, n + 1, L) = q
  <2>1. CASE n = L
    <3>1. n + 1 \in Int /\ L \in Int /\ L < n + 1
      BY <1>1, <2>1
    <3>2. QED
      BY <3>1, SubSeqEmpty
  <2>2. CASE n # L
    <3>1. n + 1 \in 1 .. L /\ L \in 1 .. L
      BY <1>1, <2>2
    <3>2. <<e>> \in Seq(S)
      OBVIOUS
    <3> DEFINE a == n + 1   z == <<e>>
    <3>3. a \in 1 .. Len(s) /\ L \in 1 .. Len(s) /\ z \in Seq(S)
      BY <3>1, <3>2 DEF L
    <3> HIDE DEF a, z
    <3>4. SubSeq(s \o z, a, L) = SubSeq(s, a, L)
      BY <3>3, SubSeqOfConcat1
    <3>5. QED
      BY <1>2, <3>4 DEF a, z
  <2>3. QED
    BY <2>1, <2>2
<1>5. q \in Seq(S)
  <2>1. n + 1 \in Int /\ L \in Int /\ \A i \in n + 1 .. L : i \in 1 .. L
    BY <1>1
  <2>2. \A i \in n + 1 .. L : s[i] \in S
    BY <2>1, ElementOfSeq DEF L
  <2> DEFINE a == n + 1
  <2>3. a \in Int /\ \A i \in a .. L : s[i] \in S
    BY <2>1, <2>2
  <2> HIDE DEF a
  <2>4. SubSeq(s, a, L) \in Seq(S)
    BY <2>1, <2>3, SubSeqProperties
  <2>5. QED
    BY <2>4 DEF a
<1> HIDE DEF q
<1>6. Append(q, e) = q \o <<e>>
  BY <1>5, AppendIsConcat
<1>7. QED
  BY <1>3, <1>4, <1>6 DEF t, L, q

\* The abstract rest is the next _remaining cells, ...
LEMMA RestIsCut ==
  ASSUME RecvInv, SnSR = "UDP"
  PROVE  /\ Rest = Cut(rxbuf, freed, _remaining) /\ Rest \in Seq(Nat)
         /\ Len(Rest) = _remaining /\ _remaining \in Nat /\ freed \in Nat
         /\ rxbuf \in [0 .. RSIZE - 1 -> Nat]
<1>1. /\ _remaining \in Nat /\ freed \in Nat /\ rxbuf \in [0 .. RSIZE - 1 -> Nat]
      /\ RX_RD = freed % PTR
  BY Counts DEF RecvInv, PointerRight
<1>2. Ring(_remaining) = Cut(rxbuf, freed, _remaining)
  BY <1>1, RingCut
<1>3. Cut(rxbuf, freed, _remaining) \in Seq(Nat) /\ Len(Cut(rxbuf, freed, _remaining)) = _remaining
  BY <1>1, CutTyped
<1>4. Rest = Cut(rxbuf, freed, _remaining)
  BY <1>2 DEF Rest
<1>5. QED
  BY <1>1, <1>3, <1>4

\* ... after recv() has moved the pointer, too.
LEMMA RestAfterCopy ==
  ASSUME RecvInv, RecvCopy
  PROVE  Rest' = Cut(rxbuf, freed + cpu.ret, _remaining')
<1>1. /\ cpu.ret \in Nat /\ freed \in Nat /\ freed' = freed + cpu.ret
      /\ RX_RD' = freed' % PTR /\ SnSR' = "UDP" /\ rxbuf' = rxbuf
  BY CopyMoves
<1> DEFINE f == freed + cpu.ret
<1>2. f \in Nat /\ RX_RD' = f % PTR
  BY <1>1
<1> HIDE DEF f
<1>3. ASSUME NEW k \in 1 .. _remaining'
      PROVE  (RX_RD' + k - 1) % RSIZE = (f + k - 1) % RSIZE
  BY <1>2, PlaceOfPointer
<1>4. Rest' = [k \in 1 .. _remaining' |-> rxbuf[(RX_RD' + k - 1) % RSIZE]]
  BY <1>1 DEF Rest, Ring
<1>5. Rest' = Cut(rxbuf, f, _remaining')
  BY <1>3, <1>4 DEF Cut
<1>6. QED
  BY <1>5 DEF f

LEMMA InitDatagrams == Init => Received!Init
<1> SUFFICES ASSUME Init PROVE Received!Init
  OBVIOUS
<1>1. inbox = <<>> /\ taken = 0 /\ _remoteIP = 0 /\ got = <<>> /\ SnSR = "CLOSED"
  BY DEF Init
<1>2. SubSeq(inbox, taken + 1, Len(inbox)) = <<>>
  <2>1. SubSeq(<<>>, 1, 0) = <<>>
    BY SubSeqEmpty
  <2>2. QED
    BY <1>1, <2>1
<1>3. QED
  BY <1>1, <1>2 DEF Received!Init

LEMMA RestartResets ==
  ASSUME Begin \/ Stop
  PROVE  Received!Reset
<1>1. /\ inbox' = <<>> /\ taken' = 0 /\ _remoteIP' = _remoteIP /\ got' = got
      /\ SnSR' = "UDP" => _remaining' = 0
  BY DEF Begin, Stop, Restart
<1>2. Queue' = <<>>
  <2>1. SubSeq(<<>>, 1, 0) = <<>>
    BY SubSeqEmpty
  <2>2. QED
    BY <1>1, <2>1 DEF Queue
<1>3. Rest' = <<>>
  BY <1>1 DEF Rest, Ring
<1>4. QED
  BY <1>1, <1>2, <1>3 DEF Received!Reset, Queue, Rest

\* A datagram that arrives is behind the others, and writes over none of what
\* is left of the one before.
LEMMA DatagramArrives ==
  ASSUME RecvInv, NEW from \in Peers, NEW n \in 0 .. MaxData, ChipDatagram(from, n)
  PROVE  /\ Queue' = Append(Queue, New(from, n)) /\ Rest' = Rest
         /\ Queue' # <<>> /\ Queue'[Len(Queue')] = New(from, n)
         /\ UNCHANGED <<_remoteIP, got>>
<1> DEFINE d == New(from, n)   L == Len(inbox)
<1>1. /\ SnSR = "UDP" /\ RX_RSR + HEADER + n <= RSIZE /\ n \in Nat
      /\ inbox' = Append(inbox, d)
      /\ rxbuf' = [i \in DOMAIN rxbuf |->
             LET k == (i - received) % RSIZE
             IN  IF k < HEADER + n THEN Cells(d)[k + 1] ELSE rxbuf[i]]
      /\ UNCHANGED <<SnSR, RX_RD, freed, _remaining, _remoteIP, taken, got>>
  BY Sizes DEF ChipDatagram, history, New
<1>2. /\ TypeOK /\ inbox \in Seq(Datagram) /\ L \in Nat /\ taken \in 0 .. L
      /\ received \in Nat /\ freed \in Nat /\ _remaining \in Nat
  BY Counts DEF RecvInv
<1>3. d \in Datagram
  BY <1>1, <1>2, NewIsDatagram
<1>4. Rest' = Rest
  <2>1. RX_RD = freed % PTR /\ freed + _remaining <= received
    BY <1>1, RestReceived DEF RecvInv, PointerRight
  <2>2. ASSUME NEW k \in 1 .. _remaining
        PROVE  rxbuf'[(RX_RD + k - 1) % RSIZE] = rxbuf[(RX_RD + k - 1) % RSIZE]
    <3> DEFINE p == freed + k - 1
    <3>1. p \in freed .. received + HEADER + n - 1 /\ p < received
      <4>1. p \in Int /\ freed <= p /\ p < received
        BY <1>2, <2>1, <2>2
      <4> HIDE DEF p
      <4>2. QED
        BY <1>1, <1>2, <4>1, Sizes
    <3>2. (RX_RD + k - 1) % RSIZE = p % RSIZE
      BY <1>2, <2>1, <2>2, PlaceOfPointer
    <3> HIDE DEF p
    <3>3. rxbuf'[p % RSIZE] = rxbuf[p % RSIZE]
      BY <1>1, <1>2, <3>1, ArrivalCell
    <3>4. QED
      BY <3>2, <3>3
  <2>3. QED
    BY <1>1, <2>2 DEF Rest, Ring
<1> HIDE DEF d
<1>5. Queue' = Append(Queue, d) /\ Queue \in Seq(Datagram)
  <2>1. Len(Append(inbox, d)) = L + 1
    BY <1>2, <1>3, AppendProperties
  <2>2. SubSeq(Append(inbox, d), taken + 1, L + 1) = Append(SubSeq(inbox, taken + 1, L), d)
    BY <1>2, <1>3, SubSeqAppend
  <2>3. SubSeq(inbox, taken + 1, L) \in Seq(Datagram)
    <3> DEFINE a == taken + 1
    <3>1. a \in Int /\ L \in Int /\ \A i \in a .. L : i \in 1 .. L
      BY <1>2
    <3>2. \A i \in a .. L : inbox[i] \in Datagram
      BY <1>2, <3>1, ElementOfSeq
    <3> HIDE DEF a
    <3>3. SubSeq(inbox, a, L) \in Seq(Datagram)
      BY <3>1, <3>2, SubSeqProperties
    <3>4. QED
      BY <3>3 DEF a
  <2>4. QED
    BY <1>1, <2>1, <2>2, <2>3 DEF Queue
<1>6. Queue' # <<>> /\ Queue'[Len(Queue')] = d
  BY <1>3, <1>5, AppendProperties
<1>7. QED
  BY <1>1, <1>4, <1>5, <1>6 DEF d

\* A header is followed by the data of its datagram.
LEMMA DataBehindHeader ==
  ASSUME RecvInv, NEW j \in DOMAIN inbox, inbox[j].at = freed
  PROVE  Cut(rxbuf, freed + HEADER, Len(inbox[j].data)) = inbox[j].data
<1> DEFINE d == inbox[j]   data == d.data   m == Len(data)   f == freed + HEADER
           c == Cut(rxbuf, f, m)
<1>1. d \in Datagram /\ d.at = freed /\ freed \in Nat /\ f \in Nat
      /\ rxbuf \in [0 .. RSIZE - 1 -> Nat]
  <2>1. d \in Datagram
    BY EndOfNat DEF RecvInv
  <2>2. freed \in Nat /\ rxbuf \in [0 .. RSIZE - 1 -> Nat]
    BY Counts DEF RecvInv
  <2>3. f \in Nat
    BY <2>2, Sizes
  <2>4. QED
    BY <2>1, <2>2, <2>3
<1>2. /\ m \in Nat /\ DOMAIN Cells(d) = 1 .. HEADER + m
      /\ \A k \in 1 .. m : Cells(d)[HEADER + k] = data[k]
  BY <1>1, CellsAre
<1>3. data \in Seq(Nat)
  BY <1>1 DEF Datagram
<1>4. \A i \in DOMAIN Cells(d) :
          d.at + i - 1 >= freed => rxbuf[(d.at + i - 1) % RSIZE] = Cells(d)[i]
  BY DEF RecvInv, DataRight
<1> HIDE DEF d, m, data
<1>5. c \in Seq(Nat) /\ Len(c) = m
  <2> HIDE DEF f
  <2>1. QED
    BY <1>1, <1>2, CutTyped
<1>6. ASSUME NEW k \in 1 .. m
      PROVE  c[k] = data[k]
  <2>1. /\ HEADER + k \in DOMAIN Cells(d) /\ d.at + (HEADER + k) - 1 >= freed
        /\ d.at + (HEADER + k) - 1 = f + k - 1
    BY <1>1, <1>2, Sizes
  <2>2. rxbuf[(f + k - 1) % RSIZE] = Cells(d)[HEADER + k]
    BY <1>4, <2>1
  <2>3. c[k] = rxbuf[(f + k - 1) % RSIZE]
    BY DEF Cut
  <2>4. QED
    BY <1>2, <2>2, <2>3
<1> HIDE DEF c
<1>7. c = data
  BY <1>2, <1>3, <1>5, <1>6, SeqEqual DEF m
<1>8. QED
  BY <1>7 DEF c, f, m, data, d

LEMMA HeaderTakes ==
  ASSUME RecvInv, RecvCopy, cpu.caller = "header"
  PROVE  Received!Take
<1> DEFINE d == inbox[taken + 1]   L == Len(inbox)
<1>1. /\ taken + 1 \in DOMAIN inbox /\ d.at = freed /\ cpu.ret = HEADER
      /\ _remoteIP' = d.from /\ _remaining' = Len(d.data) /\ taken' = taken + 1
      /\ got' = got
  BY HeaderRight DEF RecvCopy
<1>2. inbox \in Seq(Datagram) /\ L \in Nat /\ taken \in 0 .. L /\ DOMAIN inbox = 1 .. L
  BY Counts DEF RecvInv
<1>3. inbox' = inbox
  BY CopyMoves
<1>4. Rest' = d.data
  <2>1. Rest' = Cut(rxbuf, freed + HEADER, Len(d.data))
    BY <1>1, RestAfterCopy
  <2>2. Cut(rxbuf, freed + HEADER, Len(d.data)) = d.data
    BY <1>1, DataBehindHeader
  <2>3. QED
    BY <2>1, <2>2
<1> HIDE DEF d
<1>5. Queue # <<>> /\ Head(Queue) = d /\ Tail(Queue) = Queue'
  <2> DEFINE a == taken + 1
  <2>1. a \in 1 .. L /\ L \in a .. L /\ a \in Int /\ L \in Int /\ a <= L
    BY <1>1, <1>2
  <2>2. \A i \in a .. L : inbox[i] \in Datagram
    BY <1>2, <2>1, ElementOfSeq
  <2> HIDE DEF a
  <2>3. Len(SubSeq(inbox, a, L)) = L - a + 1
    BY <2>1, <2>2, SubSeqProperties
  <2>4. Head(SubSeq(inbox, a, L)) = inbox[a] /\ Tail(SubSeq(inbox, a, L)) = SubSeq(inbox, a + 1, L)
    BY <1>2, <2>1, HeadTailOfSubSeq
  <2>5. SubSeq(inbox, a, L) # <<>>
    <3> HIDE DEF L
    <3>1. L - a + 1 # 0 /\ Len(<<>>) = 0
      BY <2>1, EmptySeq
    <3>2. QED
      BY <2>3, <3>1
  <2>6. Queue = SubSeq(inbox, a, L) /\ Queue' = SubSeq(inbox, a + 1, L)
    BY <1>1, <1>3 DEF Queue, a
  <2>7. QED
    BY <2>4, <2>5, <2>6 DEF a, d
<1>6. QED
  BY <1>1, <1>4, <1>5 DEF Received!Take, Queue, Rest

\* read() and flush() take the first bytes of the rest.
LEMMA CopyAdvances ==
  ASSUME RecvInv, RecvCopy, cpu.caller # "header"
  PROVE  /\ cpu.ret \in 1 .. Len(Rest)
         /\ Rest' = SubSeq(Rest, cpu.ret + 1, Len(Rest))
         /\ Ring(cpu.ret) = SubSeq(Rest, 1, cpu.ret)
         /\ Queue' = Queue /\ _remoteIP' = _remoteIP
<1> DEFINE r == cpu.ret   c == Cut(rxbuf, freed, _remaining)
<1>1. /\ r \in 1 .. _remaining /\ _remaining' = _remaining - r
      /\ UNCHANGED <<_remoteIP, taken>>
  BY CopyOfRest
<1>2. /\ SnSR = "UDP" /\ RX_RD = freed % PTR /\ inbox' = inbox
  BY CopyMoves
<1>3. /\ Rest = c /\ Len(Rest) = _remaining /\ _remaining \in Nat /\ freed \in Nat
      /\ rxbuf \in [0 .. RSIZE - 1 -> Nat]
  BY <1>2, RestIsCut
<1>4. Rest' = Cut(rxbuf, freed + r, _remaining')
  BY RestAfterCopy
<1> HIDE DEF r
<1>5. r \in 0 .. _remaining /\ r \in Nat
  BY <1>1, <1>3
<1>6. /\ SubSeq(c, 1, r) = Cut(rxbuf, freed, r)
      /\ SubSeq(c, r + 1, _remaining) = Cut(rxbuf, freed + r, _remaining - r)
  BY <1>3, <1>5, CutParts
<1>7. Ring(r) = Cut(rxbuf, freed, r)
  BY <1>2, <1>3, <1>5, RingCut
<1> HIDE DEF c
<1>8. Queue' = Queue
  BY <1>1, <1>2 DEF Queue
<1>9. Rest' = SubSeq(Rest, r + 1, Len(Rest)) /\ Ring(r) = SubSeq(Rest, 1, r)
  BY <1>1, <1>3, <1>4, <1>6, <1>7
<1>10. QED
  BY <1>1, <1>3, <1>8, <1>9 DEF r

LEMMA CopyReads ==
  ASSUME RecvInv, RecvCopy, cpu.caller # "header"
  PROVE  \E n \in 1 .. Len(Rest) : Received!Read(n) \/ Received!Skip(n)
<1> DEFINE n == cpu.ret
<1>1. /\ n \in 1 .. Len(Rest) /\ Rest' = SubSeq(Rest, n + 1, Len(Rest))
      /\ Ring(n) = SubSeq(Rest, 1, n) /\ Queue' = Queue /\ _remoteIP' = _remoteIP
  BY CopyAdvances
<1>2. got' = Ring(n) \/ got' = got
  BY DEF RecvCopy, history
<1>3. Len(Rest) \in Nat
  <2>1. SnSR = "UDP"
    BY CopyMoves
  <2>2. QED
    BY <2>1, RestIsCut
<1> HIDE DEF n
<1>4. n <= Len(Rest)
  BY <1>1, <1>3
<1>5. CASE got' = Ring(n)
  BY <1>1, <1>4, <1>5 DEF Received!Read, Received!Advance, Queue, Rest
<1>6. CASE got' = got
  BY <1>1, <1>4, <1>6 DEF Received!Skip, Received!Advance, Queue, Rest
<1>7. QED
  BY <1>1, <1>2, <1>5, <1>6

LEMMA PeekPeeks ==
  ASSUME RecvInv, Peek
  PROVE  Received!Peek
<1>1. /\ SnSR = "UDP" /\ _remaining > 0 /\ got' = <<rxbuf[RX_RD % RSIZE]>>
      /\ UNCHANGED <<SnSR, RX_RD, rxbuf, inbox, _remaining, _remoteIP, taken>>
  BY DEF Peek, ring
<1>2. /\ Rest \in Seq(Nat) /\ Len(Rest) = _remaining /\ _remaining \in Nat
      /\ Rest = Cut(rxbuf, freed, _remaining) /\ freed \in Nat /\ RX_RD = freed % PTR
  BY <1>1, RestIsCut DEF RecvInv, PointerRight
<1>3. Rest # <<>> /\ Head(Rest) = Rest[1]
  BY <1>1, <1>2, EmptySeq
<1>4. Rest[1] = rxbuf[RX_RD % RSIZE]
  <2>1. 1 \in 1 .. _remaining
    BY <1>1, <1>2
  <2>2. Rest[1] = rxbuf[(freed + 1 - 1) % RSIZE]
    BY <1>2, <2>1 DEF Cut
  <2>3. (RX_RD + 1 - 1) % RSIZE = (freed + 1 - 1) % RSIZE
    BY <1>2, PlaceOfPointer
  <2>4. RX_RD + 1 - 1 = RX_RD
    BY Counts DEF RecvInv
  <2>5. QED
    BY <2>2, <2>3, <2>4
<1>5. Queue' = Queue /\ Rest' = Rest
  BY <1>1 DEF Queue, Rest, Ring
<1>6. QED
  BY <1>1, <1>3, <1>4, <1>5 DEF Received!Peek, Queue, Rest

LEMMA StepRefines ==
  ASSUME RecvInv, [Next]_vars
  PROVE  Received!Next \/ UNCHANGED <<Queue, _remoteIP, Rest, got>>
<1>1. CASE Begin \/ Stop
  BY <1>1, RestartResets DEF Received!Next
<1>2. CASE UNCHANGED receiving
  BY <1>2 DEF receiving, ring, history, Queue, Rest, Ring
<1>3. CASE Peek
  BY <1>3, PeekPeeks DEF Received!Next
<1>4. CASE RecvCopy
  <2>1. CASE cpu.caller = "header"
    BY <1>4, <2>1, HeaderTakes DEF Received!Next
  <2>2. CASE cpu.caller # "header"
    <3>1. \E n \in 1 .. Len(Rest) : Received!Read(n) \/ Received!Skip(n)
      BY <1>4, <2>2, CopyReads
    <3>2. QED
      BY <3>1 DEF Received!Next, Rest
  <2>3. QED
    BY <2>1, <2>2
<1>5. ASSUME NEW from \in Peers, NEW n \in 0 .. MaxData, ChipDatagram(from, n)
      PROVE  Received!Next
  <2>1. /\ Queue' = Append(Queue, Queue'[Len(Queue')]) /\ Queue' # <<>>
        /\ UNCHANGED <<Rest, _remoteIP, got>>
    BY <1>5, DatagramArrives
  <2>2. QED
    BY <2>1 DEF Received!Next, Received!Arrive, Queue, Rest
<1>6. CASE Next
  <2>1. CASE ParsePacket \/ Flush \/ \E len \in 1 .. MaxLen : Read(len)
    BY <1>2, <2>1 DEF ParsePacket, Flush, Read
  <2>2. CASE Available \/ AvailableNone \/ RecvSize \/ RecvNone
    BY <1>2, <2>2 DEF Available, AvailableNone, RecvSize, RecvNone
  <2>3. CASE Environment
    BY <1>5, <2>3 DEF Environment
  <2>4. QED
    BY <1>1, <1>3, <1>4, <1>6, <2>1, <2>2, <2>3 DEF Next, Sketch, Driver
<1>7. QED
  BY <1>2, <1>6 DEF vars

\* The receiving half implements Datagrams: the sketch reads the datagrams that
\* have arrived, each with its sender, in their order, no byte of one as part
\* of another and none of a header as data, whatever it leaves unread and
\* wherever the ring and the pointer wrap around.
THEOREM ReadsDatagrams == Spec => DatagramSpec
<1>1. Init => Received!Init
  BY InitDatagrams
<1>2. RecvInv /\ [Next]_vars =>
          [Received!Next]_<<SubSeq(inbox, taken + 1, Len(inbox)), _remoteIP,
                            IF SnSR = "UDP" THEN Ring(_remaining) ELSE <<>>, got>>
  BY StepRefines DEF Queue, Rest
<1>3. QED
  BY <1>1, <1>2, RecvInvariant, PTL DEF Spec, DatagramSpec, Received!Spec
=============================================================================
