--------------------------- MODULE TcpSendProofs ---------------------------
(* What TcpSend promises, proved with TLAPS for rings, pointers and buffers *)
(* of every size: its types, the flag sock_is_sending, one SEND at a time,  *)
(* and that it implements ByteStream.                                       *)
EXTENDS TcpSend, Rings

\* The facts of arithmetic every step needs.
LEMMA Sizes ==
  /\ SSIZE \in Nat \ {0} /\ PTR \in Nat \ {0} /\ LENGTHS \in Nat \ {0}
  /\ MaxLen \in Nat /\ SSIZE < PTR /\ PTR % SSIZE = 0
  BY SendAssumption

LEMMA Locals ==
  ASSUME TypeOK
  PROVE  /\ cpu.pc \in Labels /\ cpu.len \in 0 .. MaxLen /\ cpu.ret \in 0 .. MaxLen
         /\ cpu.size \in 0 .. MaxLen /\ cpu.live \in BOOLEAN
         /\ cpu.len \in Nat /\ cpu.ret \in Nat /\ cpu.size \in Nat
         /\ acked \in Nat /\ latched \in Nat /\ Len(got) \in Nat
         /\ DOMAIN txbuf = 0 .. SSIZE - 1
  BY Sizes DEF TypeOK

\* A chunk is not empty and fits into the ring.
LEMMA ChunkRange ==
  ASSUME TypeOK, InSend, ~At("idle")
  PROVE  trx \in 1 .. SSIZE /\ trx \in Nat /\ cpu.ret + trx <= cpu.len
  BY Locals, Sizes DEF trx, InSend

LEMMA PendingRange ==
  ASSUME TypeOK, InSend
  PROVE  pending \in Nat /\ pending <= SSIZE
  BY ChunkRange, Sizes DEF pending, At

\* What a size becomes as the length of send().
LEMMA Truncated ==
  ASSUME NEW size \in 1 .. MaxLen
  PROVE  size % LENGTHS \in 0 .. size
<1> DEFINE r == size % LENGTHS   d == size \div LENGTHS
<1>1. r \in 0 .. LENGTHS - 1 /\ d \in Int /\ size = LENGTHS * d + r
  BY Sizes, ModDef
<1> HIDE DEF r, d
<1>2. d >= 0
  BY <1>1, Sizes
<1>3. LENGTHS * d \in Nat
  BY <1>1, <1>2, Sizes
<1>4. QED
  BY <1>1, <1>3 DEF r

LEMMA InitSendInv == Init => SendInv
<1> SUFFICES ASSUME Init PROVE SendInv
  OBVIOUS
<1>1. 0 \in 0 .. PTR - 1 /\ 0 \in 0 .. MaxLen /\ 0 \in 0 .. SSIZE
  BY Sizes
<1>2. [i \in 0 .. SSIZE - 1 |-> 0] \in [0 .. SSIZE - 1 -> Nat]
  OBVIOUS
<1>3. << >> \in Seq(Nat) /\ Len(<< >>) = 0
  OBVIOUS
<1>4. TypeOK
  BY <1>1, <1>2, <1>3, Sizes DEF Init, Idle, TypeOK, Labels
<1>5. ~Up /\ cpu.pc = "idle" /\ ~busy /\ SnIR = {}
  BY DEF Init, Idle, Up, Connected
<1>6. QED
  BY <1>4, <1>5
  DEF SendInv, FlagIsRight, InSend, LastSend, PointerRight, RoomFound, At

----------------------------------------------------------------------------
(* The chip and the peer. *)

LEMMA SendOkKeeps ==
  ASSUME SendInv, ChipSendOk, UNCHANGED <<sock_is_sending, cpu, given>>
  PROVE  SendInv'
<1>1. /\ Up /\ busy /\ busy' = FALSE /\ SnIR' = SnIR \union {"SEND_OK"}
      /\ UNCHANGED <<SnSR, TX_WR, txbuf, latched, acked, got, sock_is_sending, cpu, given>>
  BY DEF ChipSendOk
<1>2. TypeOK'
  BY <1>1 DEF SendInv, TypeOK
<1>3. ~busy' /\ "SEND_OK" \in SnIR'
  BY <1>1
<1>4. FlagIsRight'
  <2>1. At("idle") => sock_is_sending
    BY <1>1 DEF SendInv, FlagIsRight
  <2>2. At("idle")' <=> At("idle")
    BY <1>1 DEF At
  <2>3. sock_is_sending' = sock_is_sending
    BY <1>1
  <2>4. (At("idle") => sock_is_sending)'
    BY <2>1, <2>2, <2>3
  <2>5. (busy # ("SEND_OK" \in SnIR))'
    BY <1>3
  <2>6. QED
    BY <2>4, <2>5, Zenon DEF FlagIsRight
<1>5. LastSend'
  <2>1. cpu.pc \notin {"clear", "size", "size.status", "copy", "command"}
    BY <1>1 DEF SendInv, LastSend, At
  <2>2. cpu' = cpu
    BY <1>1
  <2>3. QED
    BY <1>3, <2>1, <2>2 DEF LastSend, At
<1>6. InSend' /\ PointerRight' /\ RoomFound'
  BY <1>1 DEF SendInv, InSend, PointerRight, RoomFound, At, Up, pending, trx, TX_FSR
<1>7. QED
  BY <1>2, <1>4, <1>5, <1>6 DEF SendInv

\* Data on its way and its acknowledgement make room and touch no flag.
LEMMA TransitKeeps ==
  ASSUME SendInv, ChipDeliver \/ ChipAck, UNCHANGED <<sock_is_sending, cpu, given>>
  PROVE  SendInv'
<1>1. UNCHANGED <<SnSR, SnIR, TX_WR, txbuf, busy, latched, sock_is_sending, cpu, given>>
  BY DEF ChipDeliver, ChipAck
<1>2. TypeOK' /\ acked <= acked'
  <2>1. CASE ChipDeliver
    <3> DEFINE i == Len(got) % SSIZE
    <3>1. Len(got) \in Nat
      BY Locals DEF SendInv
    <3>2. i \in 0 .. SSIZE - 1
      BY <3>1, Sizes, ModDef
    <3>3. txbuf[i] \in Nat /\ got \in Seq(Nat)
      BY <3>2 DEF SendInv, TypeOK
    <3> HIDE DEF i
    <3>4. Append(got, txbuf[i]) \in Seq(Nat) /\ Len(Append(got, txbuf[i])) = Len(got) + 1
      BY <3>3
    <3>5. acked' = acked /\ got' = Append(got, txbuf[i]) /\ Len(got) < latched
      BY <2>1 DEF ChipDeliver, i
    <3>6. Len(got') \in acked' .. latched'
      BY <1>1, <3>1, <3>4, <3>5, Locals DEF SendInv, TypeOK
    <3>7. QED
      BY <1>1, <3>4, <3>5, <3>6, Locals DEF SendInv, TypeOK
  <2>2. CASE ChipAck
    <3>1. acked' = acked + 1 /\ got' = got /\ acked < Len(got)
      BY <2>2 DEF ChipAck
    <3>2. /\ acked' \in Nat /\ latched \in acked' .. acked' + SSIZE
          /\ Len(got) \in acked' .. latched
      BY <3>1, Locals, Sizes DEF SendInv, TypeOK
    <3>3. QED
      BY <1>1, <3>1, <3>2, Locals DEF SendInv, TypeOK
  <2>3. QED
    BY <2>1, <2>2
<1>3. FlagIsRight' /\ InSend' /\ LastSend' /\ PointerRight'
  BY <1>1
  DEF SendInv, FlagIsRight, InSend, LastSend, PointerRight, At, Up, pending, trx
<1>4. RoomFound'
  <2> SUFFICES ASSUME Up, cpu.pc \in {"copy", "command"} PROVE trx' <= TX_FSR'
    BY <1>1 DEF RoomFound, Up
  <2>1. trx' = trx /\ trx <= TX_FSR /\ trx \in Nat
    BY <1>1, ChunkRange DEF SendInv, RoomFound, trx, At
  <2>2. TX_FSR' = SSIZE - (latched - acked')
    BY <1>1, Sizes DEF TX_FSR
  <2>3. acked' \in Nat
    BY <1>2 DEF TypeOK
  <2>4. QED
    BY <1>2, <2>1, <2>2, <2>3, Locals, Sizes DEF SendInv, TX_FSR
<1>5. QED
  BY <1>2, <1>3, <1>4 DEF SendInv

\* The end of the connection: nothing is under way any more.
LEMMA EndKeeps ==
  ASSUME SendInv, ChipFin \/ ChipAbort, UNCHANGED <<sock_is_sending, cpu, given>>
  PROVE  SendInv'
<1>1. /\ Up /\ UNCHANGED <<TX_WR, txbuf, latched, acked, got, sock_is_sending, cpu, given>>
      /\ SnSR' \in Connected \union {"CLOSED"}
      /\ SnIR' = SnIR \/ SnIR' = SnIR \union {"TIMEOUT"}
      /\ busy' = busy \/ busy' = FALSE
      /\ Up' => busy' = busy /\ SnIR' = SnIR
      /\ ~Up' => busy' = FALSE
  BY DEF ChipFin, ChipAbort, Up, Connected
<1>2. TypeOK'
  BY <1>1 DEF SendInv, TypeOK
<1>3. "SEND_OK" \in SnIR' <=> "SEND_OK" \in SnIR
  BY <1>1
<1>4. cpu' = cpu /\ sock_is_sending' = sock_is_sending
  BY <1>1
<1>5. FlagIsRight' /\ LastSend'
  <2>1. CASE Up'
    BY <1>1, <1>4, <2>1 DEF SendInv, FlagIsRight, LastSend, At
  <2>2. CASE ~Up'
    BY <1>1, <1>3, <1>4, <2>2 DEF SendInv, FlagIsRight, LastSend, At
  <2>3. QED
    BY <2>1, <2>2
<1>6. InSend' /\ PointerRight' /\ RoomFound'
  BY <1>1 DEF SendInv, InSend, PointerRight, RoomFound, At, pending, trx, TX_FSR
<1>7. QED
  BY <1>2, <1>5, <1>6 DEF SendInv

----------------------------------------------------------------------------
(* The driver. *)

LEMMA CloseKeeps ==
  ASSUME SendInv, CloseAndFail
  PROVE  SendInv'
<1>1. /\ SnSR' = "CLOSED" /\ busy' = FALSE /\ SnIR' = {} /\ sock_is_sending' = FALSE
      /\ cpu' = Idle /\ UNCHANGED <<TX_WR, txbuf, latched, acked, got, given>>
  BY DEF CloseAndFail
<1>a. Idle \in [pc : Labels, size : 0 .. MaxLen, len : 0 .. MaxLen,
                ret : 0 .. MaxLen, live : BOOLEAN]
  BY Sizes DEF Idle, Labels
<1>2. TypeOK'
  BY <1>1, <1>a DEF SendInv, TypeOK
<1>3. ~Up' /\ cpu'.pc = "idle"
  BY <1>1 DEF Up, Connected, Idle
<1>4. QED
  BY <1>1, <1>2, <1>3
  DEF SendInv, FlagIsRight, InSend, LastSend, PointerRight, RoomFound, At

LEMMA OpenKeeps ==
  ASSUME SendInv, Open
  PROVE  SendInv'
<1>1. /\ SnSR' = "ESTABLISHED" /\ SnIR' = {} /\ TX_WR' = 0 /\ busy' = FALSE
      /\ latched' = 0 /\ acked' = 0 /\ got' = << >> /\ given' = 0
      /\ sock_is_sending' = FALSE /\ cpu.pc = "idle" /\ UNCHANGED <<txbuf, cpu>>
  BY DEF Open, At
<1>2. 0 \in 0 .. PTR - 1 /\ 0 \in 0 .. SSIZE /\ 0 % PTR = 0
  BY Sizes, ModSmall
<1>3. << >> \in Seq(Nat) /\ Len(<< >>) = 0
  OBVIOUS
<1>a. "ESTABLISHED" \in Connected /\ {} \subseteq {"SEND_OK", "TIMEOUT"}
  BY DEF Connected
<1>b. Len(got') \in acked' .. latched' /\ latched' \in acked' .. acked' + SSIZE
  BY <1>1, <1>3, Sizes
<1>4. TypeOK'
  BY <1>1, <1>2, <1>3, <1>a, <1>b DEF SendInv, TypeOK
<1>5. PointerRight'
  BY <1>1, <1>2 DEF PointerRight, pending, At
<1>6. QED
  BY <1>1, <1>4, <1>5
  DEF SendInv, FlagIsRight, InSend, LastSend, RoomFound, At

\* The top of the loop, with the flag as it is found and something left to send.
LEMMA LoopTopRight ==
  ASSUME NEW state, NEW flag \in BOOLEAN, LoopTop(state, flag),
         state \in [pc : Labels, size : 0 .. MaxLen, len : 0 .. MaxLen,
                    ret : 0 .. MaxLen, live : BOOLEAN]
  PROVE  /\ cpu' \in [pc : Labels, size : 0 .. MaxLen, len : 0 .. MaxLen,
                      ret : 0 .. MaxLen, live : BOOLEAN]
         /\ cpu'.pc = IF flag THEN "wait.ok" ELSE "size"
         /\ cpu'.len = state.len /\ cpu'.ret = state.ret /\ cpu'.size = state.size
         /\ sock_is_sending' = FALSE
<1>1. (IF flag THEN "wait.ok" ELSE "size") \in Labels
  BY DEF Labels
<1>2. QED
  BY <1>1 DEF LoopTop

LEMMA WriteKeeps ==
  ASSUME SendInv, NEW size \in 1 .. MaxLen, Write(size)
  PROVE  /\ SendInv'
         /\ cpu'.pc \in {"wait.ok", "size"} /\ cpu'.ret = 0
         /\ cpu'.size = size /\ cpu'.len = size % LENGTHS
<1> DEFINE up == Up   len == size % LENGTHS
           state == [Idle EXCEPT !.size = size, !.len = len, !.live = up]
<1>1. /\ At("idle") /\ size % LENGTHS > 0 /\ LoopTop(state, sock_is_sending)
      /\ UNCHANGED <<SnSR, SnIR, TX_WR, txbuf, busy, latched, acked, got, given>>
  BY DEF Write, chip
<1>2. size \in 0 .. MaxLen /\ 0 \in 0 .. MaxLen /\ size % LENGTHS \in 0 .. MaxLen
  BY Sizes, Truncated
<1>3. Up \in BOOLEAN /\ sock_is_sending \in BOOLEAN
  BY DEF Up, SendInv, TypeOK
<1>4. len \in 0 .. MaxLen /\ up \in BOOLEAN
  BY <1>2, <1>3
<1> HIDE DEF up, len
<1>5. state \in [pc : Labels, size : 0 .. MaxLen, len : 0 .. MaxLen,
                 ret : 0 .. MaxLen, live : BOOLEAN]
  BY <1>2, <1>4 DEF Idle, Labels
<1>6. state.len = size % LENGTHS /\ state.ret = 0 /\ state.size = size
  BY DEF Idle, len
<1> HIDE DEF state
<1>7. /\ cpu' \in [pc : Labels, size : 0 .. MaxLen, len : 0 .. MaxLen,
                   ret : 0 .. MaxLen, live : BOOLEAN]
      /\ cpu'.pc = IF sock_is_sending THEN "wait.ok" ELSE "size"
      /\ cpu'.len = size % LENGTHS /\ cpu'.ret = 0 /\ cpu'.size = size
      /\ sock_is_sending' = FALSE
  BY <1>1, <1>3, <1>5, <1>6, LoopTopRight
<1>8. TypeOK'
  BY <1>1, <1>7 DEF SendInv, TypeOK
<1>9. FlagIsRight' /\ RoomFound'
  BY <1>7 DEF FlagIsRight, RoomFound, At
<1>10. InSend'
  BY <1>1, <1>7 DEF InSend
<1>11. LastSend'
  <2>1. CASE sock_is_sending
    BY <1>1, <1>7, <2>1 DEF SendInv, LastSend, FlagIsRight, At, Up
  <2>2. CASE ~sock_is_sending
    BY <1>1, <1>7, <2>2 DEF SendInv, LastSend, FlagIsRight, At, Up
  <2>3. QED
    BY <2>1, <2>2
<1>12. PointerRight'
  BY <1>1, <1>7 DEF SendInv, PointerRight, pending, At, Up
<1>13. QED
  BY <1>7, <1>8, <1>9, <1>10, <1>11, <1>12 DEF SendInv

\* A step that changes the place in the code and nothing else.
LEMMA GotoRight ==
  ASSUME TypeOK, NEW label \in Labels, Goto(label)
  PROVE  /\ cpu' \in [pc : Labels, size : 0 .. MaxLen, len : 0 .. MaxLen,
                      ret : 0 .. MaxLen, live : BOOLEAN]
         /\ cpu'.pc = label
         /\ cpu'.len = cpu.len /\ cpu'.ret = cpu.ret /\ cpu'.size = cpu.size
         /\ UNCHANGED <<sock_is_sending, given>> /\ trx' = trx
  BY Sizes DEF TypeOK, Goto, trx

LEMMA WaitKeeps ==
  ASSUME SendInv, WaitOk \/ WaitStatus \/ WaitTimeout
  PROVE  SendInv'
<1>1. CASE CloseAndFail
  BY <1>1, CloseKeeps
<1>2. CASE ~CloseAndFail
  <2>1. PICK label \in {"clear", "wait.ok", "wait.status", "wait.timeout"} :
            /\ Goto(label) /\ UNCHANGED chip
            /\ cpu.pc \in {"wait.ok", "wait.status", "wait.timeout"}
            /\ label = "clear" => "SEND_OK" \in SnIR
    BY <1>2 DEF WaitOk, WaitStatus, WaitTimeout, At
  <2>2. label \in Labels
    BY DEF Labels
  <2>3. /\ cpu' \in [pc : Labels, size : 0 .. MaxLen, len : 0 .. MaxLen,
                     ret : 0 .. MaxLen, live : BOOLEAN]
        /\ cpu'.pc = label
        /\ cpu'.len = cpu.len /\ cpu'.ret = cpu.ret
        /\ UNCHANGED <<sock_is_sending, given>>
    BY <2>1, <2>2, GotoRight DEF SendInv
  <2>4. UNCHANGED <<SnSR, SnIR, TX_WR, txbuf, busy, latched, acked, got>>
    BY <2>1 DEF chip
  <2>5. TypeOK'
    BY <2>3, <2>4 DEF SendInv, TypeOK
  <2>6. LastSend'
    <3>1. busy => Up
      BY DEF SendInv, LastSend
    <3>2. Up => (busy # ("SEND_OK" \in SnIR))
      BY <2>1 DEF SendInv, LastSend, At
    <3>3. label = "clear" => ~busy
      BY <2>1, <3>1, <3>2
    <3>4. QED
      BY <2>1, <2>3, <2>4, <3>1, <3>2, <3>3, Zenon DEF LastSend, At, Up
  <2>7. FlagIsRight' /\ InSend' /\ PointerRight' /\ RoomFound'
    BY <2>1, <2>3, <2>4
    DEF SendInv, FlagIsRight, InSend, PointerRight, RoomFound, pending, At, Up
  <2>8. QED
    BY <2>5, <2>6, <2>7 DEF SendInv
<1>3. QED
  BY <1>1, <1>2

LEMMA ClearKeeps ==
  ASSUME SendInv, ClearOk
  PROVE  SendInv'
<1>1. /\ cpu.pc = "clear" /\ Goto("size") /\ SnIR' = SnIR \ {"SEND_OK"}
      /\ UNCHANGED <<SnSR, TX_WR, txbuf, busy, latched, acked, got>>
  BY DEF ClearOk, At
<1>2. "size" \in Labels
  BY DEF Labels
<1>3. /\ cpu' \in [pc : Labels, size : 0 .. MaxLen, len : 0 .. MaxLen,
                   ret : 0 .. MaxLen, live : BOOLEAN]
      /\ cpu'.pc = "size"
      /\ cpu'.len = cpu.len /\ cpu'.ret = cpu.ret
      /\ UNCHANGED <<sock_is_sending, given>>
  BY <1>1, <1>2, GotoRight DEF SendInv
<1>4. TypeOK'
  BY <1>1, <1>3 DEF SendInv, TypeOK
<1>5. QED
  BY <1>1, <1>3, <1>4
  DEF SendInv, FlagIsRight, InSend, LastSend, PointerRight, RoomFound, pending, At, Up

\* The wait for room ends with room for the whole chunk.
LEMMA SizeKeeps ==
  ASSUME SendInv, SizeRoom \/ SizeNoRoom \/ SizeStatus
  PROVE  SendInv'
<1>1. CASE CloseAndFail
  BY <1>1, CloseKeeps
<1>2. CASE ~CloseAndFail
  <2>1. PICK label \in {"copy", "size", "size.status"} :
            /\ Goto(label) /\ UNCHANGED chip
            /\ cpu.pc \in {"size", "size.status"}
            /\ label = "copy" => TX_FSR >= trx
    BY <1>2 DEF SizeRoom, SizeNoRoom, SizeStatus, At
  <2>2. label \in Labels
    BY DEF Labels
  <2>3. /\ cpu' \in [pc : Labels, size : 0 .. MaxLen, len : 0 .. MaxLen,
                     ret : 0 .. MaxLen, live : BOOLEAN]
        /\ cpu'.pc = label
        /\ cpu'.len = cpu.len /\ cpu'.ret = cpu.ret
        /\ UNCHANGED <<sock_is_sending, given>> /\ trx' = trx
    BY <2>1, <2>2, GotoRight DEF SendInv
  <2>4. UNCHANGED <<SnSR, SnIR, TX_WR, txbuf, busy, latched, acked, got>>
    BY <2>1 DEF chip
  <2>5. TypeOK'
    BY <2>3, <2>4 DEF SendInv, TypeOK
  <2>6. RoomFound'
    <3>1. TX_FSR' = TX_FSR
      BY <2>4 DEF TX_FSR
    <3>2. trx \in Nat /\ TX_FSR \in Int
      BY <2>1, ChunkRange, Locals, Sizes DEF SendInv, At, TX_FSR
    <3>3. QED
      BY <2>1, <2>3, <3>1, <3>2 DEF RoomFound
  <2>7. FlagIsRight' /\ InSend' /\ LastSend' /\ PointerRight'
    BY <2>1, <2>3, <2>4
    DEF SendInv, FlagIsRight, InSend, LastSend, PointerRight, pending, At, Up
  <2>8. QED
    BY <2>5, <2>6, <2>7 DEF SendInv
<1>3. QED
  BY <1>1, <1>2

\* The chunk is copied to the place of the pointer, which moves behind it.
LEMMA CopyWrites ==
  ASSUME SendInv, Copy
  PROVE  /\ cpu.pc = "copy" /\ cpu'.pc = "command" /\ trx' = trx
         /\ cpu' \in [pc : Labels, size : 0 .. MaxLen, len : 0 .. MaxLen,
                      ret : 0 .. MaxLen, live : BOOLEAN]
         /\ cpu'.len = cpu.len /\ cpu'.ret = cpu.ret /\ cpu'.size = cpu.size
         /\ UNCHANGED <<SnSR, SnIR, busy, latched, acked, got, sock_is_sending, given>>
         /\ TX_WR' \in 0 .. PTR - 1
         /\ Up => TX_WR' = (latched + trx) % PTR
         /\ txbuf' \in [0 .. SSIZE - 1 -> Nat]
<1>1. /\ cpu.pc = "copy" /\ Goto("command") /\ TX_WR' = (TX_WR + trx) % PTR
      /\ UNCHANGED <<SnSR, SnIR, busy, latched, acked, got>>
  BY DEF Copy, At
<1>2. "command" \in Labels
  BY DEF Labels
<1>3. trx \in Nat /\ TX_WR \in Nat /\ given \in Nat /\ cpu.ret \in Nat
  BY <1>1, ChunkRange, Locals DEF SendInv, TypeOK, At
<1>4. TX_WR' \in 0 .. PTR - 1
  <2>1. TX_WR + trx \in Int
    BY <1>3
  <2>2. QED
    BY <1>1, <2>1, Sizes, ModDef
<1>5. Up => TX_WR' = (latched + trx) % PTR
  <2> SUFFICES ASSUME Up PROVE TX_WR' = (latched + trx) % PTR
    OBVIOUS
  <2> DEFINE c == trx
  <2>0. latched \in Int /\ c \in Int
    BY <1>3, Locals DEF SendInv
  <2>1. TX_WR = latched % PTR
    BY <1>1, <2>0 DEF SendInv, PointerRight, pending, At
  <2> HIDE DEF c
  <2>2. ((latched % PTR) + c) % PTR = (latched + c) % PTR
    BY <2>0, Sizes, PointerMove
  <2>3. QED
    BY <1>1, <2>1, <2>2 DEF c
<1>6. txbuf' \in [0 .. SSIZE - 1 -> Nat]
  <2> DEFINE c == trx
  <2>1. txbuf' = [i \in 0 .. SSIZE - 1 |->
             LET k == (i - TX_WR) % SSIZE
             IN  IF k < c THEN given + cpu.ret + k + 1 ELSE txbuf[i]]
    BY DEF Copy
  <2>2. c \in Nat
    BY <1>3
  <2> HIDE DEF c
  <2>3. ASSUME NEW i \in 0 .. SSIZE - 1
        PROVE  (i - TX_WR) % SSIZE \in Nat
    <3>1. i - TX_WR \in Int
      BY <1>3
    <3>2. QED
      BY <3>1, Sizes, ModDef
  <2>4. ASSUME NEW i \in 0 .. SSIZE - 1
        PROVE  txbuf'[i] \in Nat
    BY <1>3, <2>1, <2>2, <2>3 DEF SendInv, TypeOK
  <2>5. QED
    BY <2>1, <2>4
<1>7. QED
  BY <1>1, <1>2, <1>4, <1>5, <1>6, GotoRight DEF SendInv

LEMMA CopyKeeps ==
  ASSUME SendInv, Copy
  PROVE  SendInv'
<1>1. TypeOK'
  BY CopyWrites DEF SendInv, TypeOK
<1>2. PointerRight'
  BY CopyWrites DEF PointerRight, pending, At, Up
<1>3. RoomFound'
  <2>1. TX_FSR' = TX_FSR /\ (Up' <=> Up)
    BY CopyWrites DEF TX_FSR, Up
  <2>2. Up => trx' <= TX_FSR
    BY CopyWrites DEF SendInv, RoomFound
  <2>3. QED
    BY <2>1, <2>2 DEF RoomFound
<1>4. FlagIsRight' /\ InSend' /\ LastSend'
  BY CopyWrites DEF SendInv, FlagIsRight, InSend, LastSend, At, Up
<1>5. QED
  BY <1>1, <1>2, <1>3, <1>4 DEF SendInv

\* SEND hands over the chunk, unless the connection is gone.
LEMMA CommandSends ==
  ASSUME SendInv, Command
  PROVE  /\ cpu.pc = "command" /\ ~busy /\ "SEND_OK" \notin SnIR
         /\ Up => latched' = latched + trx /\ busy' = TRUE
         /\ ~Up => latched' = latched /\ busy' = busy
         /\ UNCHANGED <<SnSR, SnIR, TX_WR, txbuf, acked, got>>
         /\ Up => TX_WR = latched' % PTR
         /\ latched' \in acked .. acked + SSIZE /\ latched' >= latched
         /\ busy' \in BOOLEAN /\ Len(got) \in acked .. latched'
<1>1. /\ cpu.pc = "command" /\ CmdSEND /\ ~busy /\ "SEND_OK" \notin SnIR
      /\ UNCHANGED <<SnSR, SnIR, TX_WR, txbuf, acked, got>>
  BY DEF Command, CmdSEND, SendInv, LastSend, At
<1>2. CASE Up
  <2> DEFINE c == trx
  <2>1. c \in 0 .. PTR - 1 /\ c \in Nat /\ latched \in Nat
    BY <1>1, ChunkRange, Locals, Sizes DEF SendInv, At
  <2>2. TX_WR = (latched + c) % PTR
    BY <1>1, <1>2 DEF SendInv, PointerRight, pending, At
  <2>3. c <= SSIZE - (latched - acked)
    BY <1>1, <1>2 DEF SendInv, RoomFound, TX_FSR
  <2> HIDE DEF c
  <2>4. (TX_WR - latched) % PTR = c
    BY <2>1, <2>2, Sizes, PointerDiff
  <2>5. latched' = latched + c /\ busy' = TRUE
    BY <1>1, <1>2, <2>4 DEF CmdSEND
  <2>6. latched' \in acked .. acked + SSIZE /\ latched' >= latched
    BY <2>1, <2>3, <2>5, Locals, Sizes DEF SendInv, TypeOK
  <2>7. Len(got) \in acked .. latched'
    BY <2>6, Locals DEF SendInv, TypeOK
  <2>8. QED
    BY <1>1, <1>2, <2>2, <2>5, <2>6, <2>7 DEF c
<1>3. CASE ~Up
  BY <1>1, <1>3, Locals DEF CmdSEND, SendInv, TypeOK
<1>4. QED
  BY <1>2, <1>3

\* Behind the SEND: the flag is taken down for the next chunk at once, or stays
\* up for the next call.
LEMMA CommandGoesOn ==
  ASSUME SendInv, Command
  PROVE  /\ cpu' \in [pc : Labels, size : 0 .. MaxLen, len : 0 .. MaxLen,
                      ret : 0 .. MaxLen, live : BOOLEAN]
         /\ given' \in Nat /\ sock_is_sending' \in BOOLEAN
         /\ \/ /\ cpu'.pc = "wait.ok" /\ cpu'.len = cpu.len /\ cpu'.size = cpu.size
               /\ cpu'.ret = cpu.ret + trx /\ cpu'.ret < cpu'.len
               /\ ~sock_is_sending' /\ given' = given
            \/ /\ cpu'.pc = "idle" /\ cpu'.len = 0 /\ cpu'.size = 0 /\ cpu'.ret = 0
               /\ cpu.ret + trx = cpu.len
               /\ sock_is_sending' /\ given' = given + cpu.size
<1> DEFINE c == trx
<1>1. c \in Nat /\ cpu.ret + c <= cpu.len
  BY ChunkRange DEF Command, SendInv, At
<1>2. IF cpu.ret + c < cpu.len
      THEN LoopTop([cpu EXCEPT !.ret = @ + c], TRUE) /\ UNCHANGED given
      ELSE cpu' = Idle /\ sock_is_sending' = TRUE /\ given' = given + cpu.size
  BY DEF Command
<1>3. CASE cpu.ret + c < cpu.len
  <2> DEFINE r == cpu.ret + c
             state == [cpu EXCEPT !.ret = r]
  <2>1. r \in 0 .. MaxLen /\ state = [cpu EXCEPT !.ret = @ + c]
    BY <1>1, Locals, Sizes DEF SendInv
  <2>2. LoopTop(state, TRUE) /\ given' = given
    BY <1>2, <1>3, <2>1
  <2> HIDE DEF r
  <2>3. /\ state \in [pc : Labels, size : 0 .. MaxLen, len : 0 .. MaxLen,
                      ret : 0 .. MaxLen, live : BOOLEAN]
        /\ state.len = cpu.len /\ state.size = cpu.size /\ state.ret = r
    BY <2>1 DEF SendInv, TypeOK
  <2> HIDE DEF state
  <2>4. /\ cpu' \in [pc : Labels, size : 0 .. MaxLen, len : 0 .. MaxLen,
                     ret : 0 .. MaxLen, live : BOOLEAN]
        /\ cpu'.pc = "wait.ok"
        /\ cpu'.len = cpu.len /\ cpu'.ret = r /\ cpu'.size = cpu.size
        /\ sock_is_sending' = FALSE
    <3>1. TRUE \in BOOLEAN
      OBVIOUS
    <3>2. QED
      BY <2>2, <2>3, <3>1, LoopTopRight
  <2>5. given' \in Nat
    BY <2>2 DEF SendInv, TypeOK
  <2>6. r < cpu.len
    BY <1>3 DEF r
  <2>7. QED
    BY <2>2, <2>4, <2>5, <2>6 DEF r
<1>4. CASE ~(cpu.ret + c < cpu.len)
  <2>1. Idle \in [pc : Labels, size : 0 .. MaxLen, len : 0 .. MaxLen,
                  ret : 0 .. MaxLen, live : BOOLEAN]
    BY Sizes DEF Idle, Labels
  <2>2. cpu' = Idle /\ sock_is_sending' = TRUE /\ given' = given + cpu.size
    BY <1>2, <1>4
  <2>3. cpu'.pc = "idle" /\ cpu'.len = 0 /\ cpu'.size = 0 /\ cpu'.ret = 0
    BY <2>2 DEF Idle
  <2>4. cpu.ret + c = cpu.len
    BY <1>1, <1>4, Locals DEF SendInv
  <2>5. given' \in Nat
    BY <2>2, Locals DEF SendInv, TypeOK
  <2>6. QED
    BY <2>1, <2>2, <2>3, <2>4, <2>5
<1>5. QED
  BY <1>3, <1>4

LEMMA CommandKeeps ==
  ASSUME SendInv, Command
  PROVE  SendInv'
<1>1. /\ cpu'.pc \in {"wait.ok", "idle"}
      /\ cpu'.pc = "idle" => sock_is_sending'
      /\ cpu'.pc = "wait.ok" => ~sock_is_sending' /\ cpu'.ret < cpu'.len
  BY CommandGoesOn
<1>2. TypeOK'
  BY CommandSends, CommandGoesOn DEF SendInv, TypeOK
<1>3. (Up' <=> Up) /\ "SEND_OK" \notin SnIR'
  BY CommandSends DEF Up
<1>4. busy' <=> Up'
  <2>1. Up => busy'
    BY CommandSends
  <2>2. ~Up => ~busy'
    BY CommandSends
  <2>3. QED
    BY <1>3, <2>1, <2>2
<1>5. FlagIsRight' /\ LastSend'
  BY <1>1, <1>3, <1>4 DEF FlagIsRight, LastSend, At
<1>6. InSend'
  BY <1>1 DEF InSend, At
<1>7. PointerRight'
  <2>1. pending' = 0 /\ TX_WR' = TX_WR /\ latched' \in Nat
    BY <1>1, CommandSends, Locals DEF SendInv, pending, At
  <2>2. QED
    BY <1>3, <2>1, CommandSends DEF PointerRight
<1>8. RoomFound'
  BY <1>1 DEF RoomFound
<1>9. QED
  BY <1>2, <1>5, <1>6, <1>7, <1>8 DEF SendInv

LEMMA StutterKeeps ==
  ASSUME SendInv, UNCHANGED vars
  PROVE  SendInv'
BY DEF vars, chip, SendInv, TypeOK, FlagIsRight, InSend, LastSend, PointerRight,
       RoomFound, At, Up, pending, trx, TX_FSR

LEMMA NextKeepsSendInv == SendInv /\ [Next]_vars => SendInv'
<1> SUFFICES ASSUME SendInv, [Next]_vars PROVE SendInv'
  OBVIOUS
<1>1. CASE Open
  BY <1>1, OpenKeeps
<1>2. CASE \E size \in 1 .. MaxLen : Write(size)
  BY <1>2, WriteKeeps
<1>3. CASE Driver
  BY <1>3, WaitKeeps, ClearKeeps, SizeKeeps, CopyKeeps, CommandKeeps DEF Driver
<1>4. CASE Environment
  BY <1>4, SendOkKeeps, TransitKeeps, EndKeeps DEF Environment, Chip
<1>5. CASE UNCHANGED vars
  BY <1>5, StutterKeeps
<1>6. QED
  BY <1>1, <1>2, <1>3, <1>4, <1>5 DEF Next

\* send() keeps its invariant, the socket, its flags and the driver's flag in
\* any state the chip and the peer can bring them to.
THEOREM SendInvariant == Spec => []SendInv
<1>1. QED
  BY InitSendInv, NextKeepsSendInv, PTL DEF Spec

\* Every variable has its type; the ring never holds more than fits in.
THEOREM SendTyped == Spec => []TypeOK
<1>1. SendInv => TypeOK
  BY DEF SendInv
<1>2. QED
  BY <1>1, SendInvariant, PTL

\* Between two calls the flag sock_is_sending tells whether a SEND is to be
\* waited for, as long as there is a connection.
THEOREM FlagAgreesWithSocket == Spec => []FlagIsRight
<1>1. SendInv => FlagIsRight
  BY DEF SendInv
<1>2. QED
  BY <1>1, SendInvariant, PTL

\* No SEND is given while another one is under way.
THEOREM OneSendOnly == Spec => OneSendAtATime
<1>1. SendInv => [At("command") /\ cpu'.pc # "command" => ~busy]_vars
  BY DEF SendInv, LastSend, At
<1>2. QED
  BY <1>1, SendInvariant, PTL DEF OneSendAtATime
----------------------------------------------------------------------------
(* The data.  A length that fits into a uint16_t is needed from here on.    *)

\* Steps that leave the ring and what the bytes are counted by.
LEMMA DataKept ==
  ASSUME DataInv, Up' => Up, pending' = pending,
         UNCHANGED <<txbuf, latched, acked, got, given>>,
         cpu'.len = cpu.len, cpu'.size = cpu.size, cpu'.ret = cpu.ret,
         cpu'.pc = "idle" => cpu.pc = "idle"
  PROVE  DataInv'
  BY DEF DataInv, At

LEMMA InitDataInv == Init => DataInv
<1> SUFFICES ASSUME Init PROVE DataInv
  OBVIOUS
<1>1. ~Up /\ cpu.len = 0 /\ cpu.size = 0 /\ cpu.ret = 0
  BY DEF Init, Idle, Up, Connected
<1>2. got = [k \in 1 .. Len(got) |-> k]
  <2>1. got = << >> /\ Len(got) = 0
    BY DEF Init
  <2>2. << >> = [k \in 1 .. 0 |-> k]
    OBVIOUS
  <2>3. QED
    BY <2>1, <2>2
<1>3. QED
  BY <1>1, <1>2 DEF DataInv

LEMMA CloseKeepsData ==
  ASSUME DataInv, CloseAndFail
  PROVE  DataInv'
<1>1. SnSR' = "CLOSED" /\ cpu' = Idle /\ got' = got
  BY DEF CloseAndFail
<1>2. ~Up' /\ cpu'.len = 0 /\ cpu'.size = 0 /\ cpu'.ret = 0
  BY <1>1 DEF Idle, Up, Connected
<1>3. QED
  BY <1>1, <1>2 DEF DataInv

LEMMA OpenKeepsData ==
  ASSUME DataInv, Open
  PROVE  DataInv'
<1>1. /\ latched' = 0 /\ acked' = 0 /\ got' = << >> /\ given' = 0
      /\ cpu.pc = "idle" /\ cpu' = cpu /\ cpu.ret = 0
  BY DEF Open, DataInv, At
<1>2. pending' = 0
  BY <1>1 DEF pending, At
<1>3. << >> = [k \in 1 .. 0 |-> k] /\ Len(<< >>) = 0
  OBVIOUS
<1>4. got' = [k \in 1 .. Len(got') |-> k]
  BY <1>1, <1>3
<1>5. acked' + 1 .. latched' + pending' = {}
  BY <1>1, <1>2
<1>6. latched' = given' + cpu'.ret
  BY <1>1
<1>7. QED
  BY <1>1, <1>4, <1>5, <1>6 DEF DataInv, At

LEMMA WriteKeepsData ==
  ASSUME MaxLen <= LENGTHS, SendInv, DataInv, NEW size \in 1 .. MaxLen, Write(size)
  PROVE  DataInv'
<1>1. /\ cpu.pc = "idle" /\ size % LENGTHS > 0
      /\ UNCHANGED <<SnSR, txbuf, latched, acked, got, given>>
  BY DEF Write, chip, At
<1>2. /\ cpu'.pc \in {"wait.ok", "size"} /\ cpu'.ret = 0
      /\ cpu'.size = size /\ cpu'.len = size % LENGTHS
  BY WriteKeeps
<1>3. size % LENGTHS = size
  <2>1. size \in 0 .. LENGTHS - 1
    <3>1. size \in Nat /\ size <= LENGTHS
      BY Sizes
    <3>2. CASE size = LENGTHS
      <4>1. (LENGTHS * 1 + 0) % LENGTHS = 0
        BY Sizes, ModOf
      <4>2. QED
        BY <1>1, <3>2, <4>1, Sizes
    <3>3. QED
      BY <3>1, <3>2, Sizes
  <2>2. QED
    BY <2>1, Sizes, ModSmall
<1>4. cpu.ret = 0 /\ pending' = 0 /\ pending = 0
  BY <1>1, <1>2 DEF DataInv, pending, At
<1>5. QED
  BY <1>1, <1>2, <1>3, <1>4 DEF DataInv, At, Up

\* What is written into the ring does not touch what the peer has not
\* acknowledged, and lies behind it.
LEMMA CopyKeepsData ==
  ASSUME SendInv, DataInv, Copy
  PROVE  DataInv'
<1> DEFINE c == trx
<1>1. /\ cpu.pc = "copy" /\ cpu'.pc = "command" /\ trx' = c
      /\ cpu'.len = cpu.len /\ cpu'.ret = cpu.ret /\ cpu'.size = cpu.size
      /\ UNCHANGED <<SnSR, latched, acked, got, given>>
  BY CopyWrites
<1>2. /\ c \in 1 .. SSIZE /\ c \in Nat /\ latched \in Nat /\ acked \in Nat
      /\ acked <= latched /\ given \in Nat /\ cpu.ret \in Nat
  BY <1>1, ChunkRange, Locals DEF SendInv, TypeOK, At
<1>3. pending' = c /\ pending = 0 /\ (Up' <=> Up)
  BY <1>1 DEF pending, At, Up
<1>4. txbuf' = [i \in 0 .. SSIZE - 1 |->
           LET k == (i - TX_WR) % SSIZE
           IN  IF k < c THEN given + cpu.ret + k + 1 ELSE txbuf[i]]
  BY DEF Copy
<1>5. Up => c <= SSIZE - (latched - acked) /\ TX_WR = latched % PTR
                /\ latched = given + cpu.ret
  BY <1>1, <1>2, <1>3 DEF SendInv, RoomFound, PointerRight, TX_FSR, DataInv
<1> HIDE DEF c
<1>6. ASSUME Up, NEW k \in acked + 1 .. latched + c
      PROVE  txbuf'[(k - 1) % SSIZE] = k
  <2> DEFINE i == (k - 1) % SSIZE
             place == (i - TX_WR) % SSIZE
             n == latched - acked
             m == k - 1 - acked
  <2>1. k - 1 \in Int /\ k \in Nat /\ latched \in Int
    BY <1>2
  <2>2. i \in 0 .. SSIZE - 1
    BY <2>1, Sizes, ModDef
  <2>3. txbuf'[i] = IF place < c THEN given + cpu.ret + place + 1 ELSE txbuf[i]
    BY <1>4, <2>2
  <2>4. n \in Nat /\ m \in Nat /\ n <= SSIZE /\ m < SSIZE /\ n + c <= SSIZE
    BY <1>2, <1>5, <1>6, <2>1, Sizes
  <2>5. place = (m - n) % SSIZE
    <3> DEFINE x == k - 1   b == latched
    <3>0. x \in Int /\ b \in Int
      BY <2>1
    <3> HIDE DEF x, b
    <3>1. ((x % SSIZE) - (b % PTR)) % SSIZE = (x - b) % SSIZE
      BY <3>0, Sizes, CellOffset
    <3> USE DEF x, b
    <3>2. m - n = (k - 1) - latched
      BY <1>2, <2>1
    <3>3. TX_WR = latched % PTR
      BY <1>5, <1>6
    <3>4. QED
      BY <3>1, <3>2, <3>3
  <2> HIDE DEF place, n, m
  <2>6. place = IF n <= m THEN m - n ELSE SSIZE - n + m
    BY <2>4, <2>5, Sizes, PlaceAfter
  <2>7. CASE n <= m
    <3>1. place = k - 1 - latched
      BY <1>2, <2>1, <2>6, <2>7 DEF n, m
    <3>2. place < c /\ given + cpu.ret + place + 1 = k
      BY <1>2, <1>5, <1>6, <2>1, <3>1
    <3>3. QED
      BY <2>3, <3>2 DEF i
  <2>8. CASE m < n
    <3>1. ~(place < c)
      BY <1>2, <2>4, <2>6, <2>8, Sizes
    <3>2. k \in acked + 1 .. latched + pending
      BY <1>2, <1>3, <2>1, <2>8 DEF n, m
    <3>3. txbuf[i] = k
      BY <1>6, <3>2 DEF DataInv, i
    <3>4. QED
      BY <2>3, <3>1, <3>3 DEF i
  <2>9. QED
    BY <2>4, <2>7, <2>8
<1>7. QED
  BY <1>1, <1>3, <1>6 DEF DataInv, At

LEMMA CommandKeepsData ==
  ASSUME SendInv, DataInv, Command
  PROVE  DataInv'
<1> DEFINE c == trx
<1>1. cpu.pc = "command" /\ c \in Nat /\ pending = c
  BY ChunkRange DEF Command, SendInv, At, pending
<1>2. /\ Up => latched' = latched + c
      /\ UNCHANGED <<SnSR, txbuf, acked, got>>
  BY CommandSends
<1>3. \/ /\ cpu'.pc = "wait.ok" /\ cpu'.len = cpu.len /\ cpu'.size = cpu.size
         /\ cpu'.ret = cpu.ret + c /\ given' = given
      \/ /\ cpu'.pc = "idle" /\ cpu'.len = 0 /\ cpu'.size = 0 /\ cpu'.ret = 0
         /\ cpu.ret + c = cpu.len /\ given' = given + cpu.size
  BY CommandGoesOn
<1> HIDE DEF c
<1>4. pending' = 0 /\ (Up' <=> Up)
  BY <1>2, <1>3 DEF pending, At, Up
<1>5. cpu.len = cpu.size /\ cpu.ret \in Nat /\ cpu.size \in Nat
      /\ given \in Nat /\ latched \in Nat /\ acked \in Nat
  BY Locals DEF SendInv, TypeOK, DataInv
<1>6. Up => latched' = given' + cpu'.ret
  <2> SUFFICES ASSUME Up PROVE latched' = given' + cpu'.ret
    OBVIOUS
  <2>1. latched = given + cpu.ret /\ latched' = latched + c
    BY <1>2 DEF DataInv
  <2>2. CASE cpu'.ret = cpu.ret + c /\ given' = given
    BY <1>1, <1>5, <2>1, <2>2
  <2>3. CASE cpu'.ret = 0 /\ cpu.ret + c = cpu.len /\ given' = given + cpu.size
    BY <1>1, <1>5, <2>1, <2>3
  <2>4. QED
    BY <1>3, <2>2, <2>3
<1>7. Up => latched' + pending' = latched + pending
  BY <1>1, <1>2, <1>4, <1>5
<1>8. cpu'.len = cpu'.size /\ (cpu'.pc = "idle" => cpu'.ret = 0)
  BY <1>3, <1>5
<1>9. QED
  BY <1>2, <1>4, <1>6, <1>7, <1>8 DEF DataInv, At

\* The byte the peer receives is the next one.
LEMMA DeliverNext ==
  ASSUME SendInv, DataInv, ChipDeliver
  PROVE  /\ got' = [k \in 1 .. Len(got) + 1 |-> k] /\ Len(got') = Len(got) + 1
         /\ Len(got) + 1 \in Nat /\ Len(got) < latched
<1> DEFINE n == Len(got)
<1>1. n \in Nat /\ acked \in Nat /\ latched \in Nat /\ acked <= n /\ n < latched /\ Up
  BY Locals DEF SendInv, TypeOK, ChipDeliver
<1>2. pending \in Nat
  BY PendingRange DEF SendInv
<1>3. txbuf[n % SSIZE] = n + 1
  <2>1. n + 1 \in acked + 1 .. latched + pending /\ (n + 1) - 1 = n
    BY <1>1, <1>2
  <2>2. QED
    BY <1>1, <2>1 DEF DataInv
<1>4. got' = Append(got, n + 1)
  BY <1>3 DEF ChipDeliver
<1>5. got = [k \in 1 .. n |-> k] /\ got \in Seq(Nat)
  BY DEF DataInv, SendInv, TypeOK
<1>6. /\ got' \in Seq(Nat) /\ Len(got') = n + 1
      /\ \A k \in 1 .. n + 1 : got'[k] = k
  BY <1>1, <1>4, <1>5
<1>7. got' = [k \in 1 .. n + 1 |-> k]
  BY <1>1, <1>6
<1>8. QED
  BY <1>1, <1>6, <1>7

LEMMA TransitKeepsData ==
  ASSUME SendInv, DataInv, ChipDeliver \/ ChipAck,
         UNCHANGED <<sock_is_sending, cpu, given>>
  PROVE  DataInv'
<1>1. /\ UNCHANGED <<SnSR, txbuf, latched, cpu, given>>
      /\ acked' = acked \/ acked' = acked + 1
      /\ acked \in Nat /\ latched \in Nat /\ pending \in Nat
  BY Locals, PendingRange DEF ChipDeliver, ChipAck, SendInv
<1>2. pending' = pending /\ (Up' <=> Up)
  BY <1>1 DEF pending, trx, At, Up
<1>3. got' = [k \in 1 .. Len(got') |-> k]
  BY DeliverNext DEF ChipAck, DataInv
<1>4. \A k \in acked' + 1 .. latched' + pending' : k \in acked + 1 .. latched + pending
  BY <1>1, <1>2
<1>5. Up' => \A k \in acked' + 1 .. latched' + pending' : txbuf'[(k - 1) % SSIZE] = k
  BY <1>1, <1>2, <1>4 DEF DataInv
<1>6. QED
  BY <1>1, <1>2, <1>3, <1>5 DEF DataInv, At
\* The steps that move no data: the flags, the waits, and the end.
LEMMA QuietKeepsData ==
  ASSUME SendInv, DataInv,
         \/ WaitOk \/ WaitStatus \/ WaitTimeout \/ ClearOk
         \/ SizeRoom \/ SizeNoRoom \/ SizeStatus
         \/ ChipSendOk /\ UNCHANGED <<sock_is_sending, cpu, given>>
         \/ ChipFin /\ UNCHANGED <<sock_is_sending, cpu, given>>
         \/ ChipAbort /\ UNCHANGED <<sock_is_sending, cpu, given>>
         \/ UNCHANGED vars
  PROVE  DataInv'
<1>1. CASE CloseAndFail
  BY <1>1, CloseKeepsData
<1>2. CASE ~CloseAndFail /\ cpu' = cpu
  <2>1. Up' => Up
    BY <1>2 DEF ChipSendOk, ChipFin, ChipAbort, WaitOk, WaitStatus, WaitTimeout,
       ClearOk, SizeRoom, SizeNoRoom, SizeStatus, Up, Connected, vars, chip
  <2>2. UNCHANGED <<txbuf, latched, acked, got, given>>
    BY <1>2 DEF ChipSendOk, ChipFin, ChipAbort, WaitOk, WaitStatus, WaitTimeout,
       ClearOk, SizeRoom, SizeNoRoom, SizeStatus, Goto, vars, chip
  <2>3. pending' = pending
    BY <1>2 DEF pending, trx, At
  <2>4. QED
    BY <1>2, <2>1, <2>2, <2>3, DataKept
<1>3. CASE ~CloseAndFail /\ cpu' # cpu
  <2>1. PICK label \in Labels \ {"idle", "command"} :
            /\ Goto(label) /\ ~At("command")
            /\ UNCHANGED <<SnSR, txbuf, latched, acked, got>>
    BY <1>3 DEF WaitOk, WaitStatus, WaitTimeout, ClearOk, SizeRoom, SizeNoRoom,
       SizeStatus, At, Labels, vars, chip
  <2>2. /\ cpu'.pc = label /\ cpu'.len = cpu.len /\ cpu'.size = cpu.size
        /\ cpu'.ret = cpu.ret /\ given' = given
    BY <2>1, GotoRight DEF SendInv
  <2>3. pending' = pending /\ (Up' <=> Up)
    BY <2>1, <2>2 DEF pending, At, Up
  <2>4. QED
    BY <2>1, <2>2, <2>3, DataKept
<1>4. QED
  BY <1>1, <1>2, <1>3

LEMMA NextKeepsDataInv ==
  ASSUME MaxLen <= LENGTHS
  PROVE  SendInv /\ DataInv /\ [Next]_vars => DataInv'
<1> SUFFICES ASSUME SendInv, DataInv, [Next]_vars PROVE DataInv'
  OBVIOUS
<1>1. CASE Open
  BY <1>1, OpenKeepsData
<1>2. CASE \E size \in 1 .. MaxLen : Write(size)
  BY <1>2, WriteKeepsData
<1>3. CASE Copy \/ Command
  BY <1>3, CopyKeepsData, CommandKeepsData
<1>4. CASE Driver /\ ~(Copy \/ Command)
  BY <1>4, QuietKeepsData DEF Driver
<1>5. CASE Environment
  BY <1>5, QuietKeepsData, TransitKeepsData DEF Environment, Chip
<1>6. CASE UNCHANGED vars
  BY <1>6, QuietKeepsData
<1>7. QED
  BY <1>1, <1>2, <1>3, <1>4, <1>5, <1>6 DEF Next

\* What the peer has not acknowledged is in its place in the ring, and what it
\* has received is what was written, if every size fits into a uint16_t.
THEOREM DataInvariant ==
  ASSUME MaxLen <= LENGTHS
  PROVE  Spec => []DataInv
<1>1. QED
  BY InitDataInv, NextKeepsDataInv, SendInvariant, PTL DEF Spec

----------------------------------------------------------------------------
(* The refinement. *)

LEMMA InitStream == Init => Stream!Init
<1> SUFFICES ASSUME Init PROVE Stream!Init
  OBVIOUS
<1>1. ~Up /\ latched = 0 /\ got = << >>
  BY DEF Init, Up, Connected
<1>2. QED
  BY <1>1 DEF Stream!Init

\* Steps of the code that are steps of the stream, ...
LEMMA OpenOpens ==
  ASSUME Open
  PROVE  Stream!Open
<1>1. Up' /\ latched' = 0 /\ got' = << >>
  BY DEF Open, Up, Connected
<1>2. QED
  BY <1>1 DEF Stream!Open

LEMMA CommandPuts ==
  ASSUME SendInv, Command, Up
  PROVE  Stream!Put
<1>1. /\ latched' = latched + trx /\ UNCHANGED <<SnSR, got>>
      /\ trx \in 1 .. SSIZE /\ latched \in Nat
  BY CommandSends, ChunkRange, Locals DEF SendInv, Command, At
<1>2. latched' \in Nat /\ latched' > latched
  BY <1>1, Sizes
<1>3. Up' = Up
  BY <1>1 DEF Up
<1>4. QED
  BY <1>1, <1>2, <1>3 DEF Stream!Put

LEMMA DeliverGets ==
  ASSUME SendInv, DataInv, ChipDeliver
  PROVE  Stream!Get
<1>1. /\ got' = [k \in 1 .. Len(got) + 1 |-> k] /\ Len(got) < latched
      /\ latched \in Nat /\ Len(got) \in Nat
  BY DeliverNext, Locals DEF SendInv
<1>2. Up' = Up /\ latched' = latched
  BY DEF ChipDeliver, Up
<1>3. Len(got) + 1 \in Len(got) + 1 .. latched
  BY <1>1
<1>4. QED
  BY <1>1, <1>2, <1>3 DEF Stream!Get

LEMMA DownEnds ==
  ASSUME ChipAbort \/ CloseAndFail
  PROVE  Stream!End
<1>1. ~Up' /\ UNCHANGED <<latched, got>>
  BY DEF ChipAbort, CloseAndFail, Up, Connected
<1>2. QED
  BY <1>1 DEF Stream!End

\* ... and those that are none.
LEMMA OtherStutters ==
  ASSUME SendInv,
         \/ \E size \in 1 .. MaxLen : Write(size)
         \/ Driver /\ ~CloseAndFail /\ ~(Command /\ Up)
         \/ ChipSendOk \/ ChipAck \/ ChipFin
         \/ UNCHANGED vars
  PROVE  UNCHANGED <<Up, latched, got>>
<1>1. latched' = latched /\ got' = got
  BY CommandSends
  DEF Write, Driver, WaitOk, WaitStatus, WaitTimeout, ClearOk, SizeRoom,
      SizeNoRoom, SizeStatus, Copy, ChipSendOk, ChipAck, ChipFin, vars, chip
<1>2. SnSR' = SnSR \/ ChipFin
  BY CommandSends
  DEF Write, Driver, WaitOk, WaitStatus, WaitTimeout, ClearOk, SizeRoom,
      SizeNoRoom, SizeStatus, Copy, ChipSendOk, ChipAck, vars, chip
<1>3. Up' = Up
  BY <1>2 DEF ChipFin, Up, Connected
<1>4. QED
  BY <1>1, <1>3

LEMMA StepRefines == SendInv /\ DataInv /\ [Next]_vars => [Stream!Next]_<<Up, latched, got>>
<1> SUFFICES ASSUME SendInv, DataInv, [Next]_vars
             PROVE  Stream!Next \/ UNCHANGED <<Up, latched, got>>
  OBVIOUS
<1>1. CASE Open
  BY <1>1, OpenOpens DEF Stream!Next
<1>2. CASE \E size \in 1 .. MaxLen : Write(size)
  BY <1>2, OtherStutters
<1>3. CASE Driver
  BY <1>3, CommandPuts, DownEnds, OtherStutters DEF Stream!Next
<1>4. CASE Environment
  BY <1>4, DeliverGets, DownEnds, OtherStutters DEF Environment, Chip, Stream!Next
<1>5. CASE UNCHANGED vars
  BY <1>5, OtherStutters
<1>6. QED
  BY <1>1, <1>2, <1>3, <1>4, <1>5 DEF Next

\* What is written to a connection is a stream of bytes for the peer: every byte
\* once and in order, whatever the sizes of ring, pointer and buffers, as long
\* as the size of a buffer fits into a uint16_t.
THEOREM SendsByteStream ==
  ASSUME MaxLen <= LENGTHS
  PROVE  Spec => StreamSpec
<1>1. QED
  BY InitStream, StepRefines, SendInvariant, DataInvariant, PTL
  DEF Spec, StreamSpec, Stream!Spec
=============================================================================
