--------------------------- MODULE UdpSendProofs ---------------------------
(* A datagram that fits into the transmit ring is sent as it was written,   *)
(* for rings and pointers of every size, proved with TLAPS.                 *)
EXTENDS UdpSend, Rings

LEMMA InitSendInv == Init => SendInv
<1> SUFFICES ASSUME Init PROVE SendInv
  OBVIOUS
<1>1. 0 \in 0 .. PTR - 1 /\ 0 \in 0 .. MaxDraft
  BY UdpSendAssumption
<1>2. [i \in 0 .. SSIZE - 1 |-> 0] \in [0 .. SSIZE - 1 -> Nat]
  OBVIOUS
<1>3. TypeOK
  BY <1>1, <1>2 DEF Init, TypeOK, Labels
<1>4. QED
  BY <1>3 DEF Init, SendInv, At

\* Steps that leave the ring alone and begin or end nothing.
LEMMA RingKept ==
  ASSUME Drafted, UNCHANGED <<TX_RD, TX_WR, txbuf, draft>>
  PROVE  Drafted'
  BY DEF Drafted

LEMMA ChipSendKeeps ==
  ASSUME SendInv, ChipSend
  PROVE  SendInv'
<1>1. PICK flag \in {"SEND_OK", "TIMEOUT"} : ChipSendEnds(flag)
  BY DEF ChipSend
<1>2. busy /\ SnIR = {} /\ ~At("idle") /\ ~drafting
  BY <1>1 DEF ChipSendEnds, SendInv, At
<1>3. SnIR' = {flag} /\ ~busy' /\ ~drafting' /\ ~At("idle")'
  BY <1>1, <1>2 DEF ChipSendEnds, At
<1>4. SnIR' # {"SEND_OK", "TIMEOUT"}
  BY <1>1, <1>3
<1>5. TypeOK'
  BY <1>1, <1>3 DEF ChipSendEnds, SendInv, TypeOK
<1>6. QED
  BY <1>3, <1>4, <1>5 DEF SendInv

LEMMA RestartKeeps ==
  ASSUME SendInv, Begin \/ Stop
  PROVE  SendInv'
<1>1. PICK status \in {"CLOSED", "UDP"} : Restart(status)
  BY DEF Begin, Stop
<1>2. 0 \in 0 .. PTR - 1
  BY UdpSendAssumption
<1>3. TypeOK'
  BY <1>1, <1>2 DEF Restart, SendInv, TypeOK
<1>4. SnIR' = {} /\ ~busy' /\ ~drafting'
  BY <1>1 DEF Restart
<1>5. QED
  BY <1>3, <1>4 DEF SendInv

LEMMA BeginPacketKeeps ==
  ASSUME SendInv, BeginPacket
  PROVE  SendInv'
<1>1. 0 \in 0 .. MaxDraft /\ _offset' = 0 /\ draft' = 0 /\ drafting' = TRUE
  BY UdpSendAssumption DEF BeginPacket
<1>2. UNCHANGED <<SnSR, SnIR, TX_RD, TX_WR, txbuf, busy, pc>> /\ At("idle")
  BY DEF BeginPacket, chip
<1>3. TypeOK'
  BY <1>1, <1>2 DEF SendInv, TypeOK
<1>4. QED
  BY <1>1, <1>2, <1>3 DEF SendInv, At

\* write() appends to what the datagram has.
LEMMA WriteKeeps ==
  ASSUME SendInv, NEW len \in 1 .. MaxLen, Write(len)
  PROVE  SendInv'
<1> DEFINE ret == Buffered(len)
           end == draft + ret
<1>1. /\ ~busy /\ drafting /\ At("idle") /\ _offset = draft
      /\ SSIZE \in Nat \ {0} /\ PTR \in Nat \ {0} /\ PTR % SSIZE = 0 /\ TX_RD \in Nat
      /\ draft \in Nat /\ draft + len <= MaxDraft /\ MaxDraft \in Nat /\ len \in Nat \ {0}
  BY UdpSendAssumption DEF Write, SendInv, TypeOK, At
<1>2. readSnTX_WR = TX_RD /\ TX_FSR = SSIZE
  BY <1>1 DEF readSnTX_WR, TX_FSR
<1>3. ret \in 1 .. SSIZE /\ ret <= len
  BY <1>1, <1>2 DEF Buffered
<1> HIDE DEF ret
<1> DEFINE ptr == (TX_RD + draft) % PTR
<1>4. /\ txbuf' = [i \in DOMAIN txbuf |->
             LET k == (i - ptr) % SSIZE
             IN  IF k < ret THEN draft + k + 1 ELSE txbuf[i]]
      /\ TX_WR' = (ptr + ret) % PTR /\ _offset' = end /\ draft' = end
      /\ UNCHANGED <<SnSR, SnIR, busy, TX_RD, pc, drafting>>
  BY <1>1, <1>2 DEF Write, ret
<1>5. ptr \in 0 .. PTR - 1 /\ TX_RD + draft \in Int
  BY <1>1, ModDef
<1>6. end \in 0 .. MaxDraft /\ end \in Nat
  BY <1>1, <1>3
<1>7. TX_WR' = (TX_RD + end) % PTR
  <2> DEFINE b == TX_RD + draft
  <2>0. b \in Int /\ ret \in Int
    BY <1>3, <1>5
  <2> HIDE DEF b
  <2>1. ((b % PTR) + ret) % PTR = (b + ret) % PTR
    BY <1>1, <2>0, PointerMove
  <2> USE DEF b
  <2>2. (TX_RD + draft) + ret = TX_RD + end
    BY <1>1, <1>3
  <2>3. QED
    BY <1>4, <2>1, <2>2
<1>8. TX_WR' \in 0 .. PTR - 1
  <2>1. TX_RD + end \in Int
    BY <1>1, <1>6
  <2>2. QED
    BY <1>1, <1>7, <2>1, ModDef
<1>9. txbuf' \in [0 .. SSIZE - 1 -> Nat]
  <2>1. DOMAIN txbuf = 0 .. SSIZE - 1 /\ txbuf \in [0 .. SSIZE - 1 -> Nat]
    BY DEF SendInv, TypeOK
  <2>2. ASSUME NEW i \in 0 .. SSIZE - 1
        PROVE  (i - ptr) % SSIZE \in Nat
    <3>1. i - ptr \in Int
      BY <1>1, <1>5
    <3>2. QED
      BY <1>1, <3>1, ModDef
  <2>3. ASSUME NEW i \in 0 .. SSIZE - 1
        PROVE  txbuf'[i] \in Nat
    BY <1>1, <1>4, <2>1, <2>2
  <2>4. QED
    BY <1>4, <2>1, <2>3
<1>10. TypeOK'
  BY <1>4, <1>6, <1>8, <1>9 DEF SendInv, TypeOK
<1>11. end <= SSIZE => \A k \in 1 .. end : txbuf'[(TX_RD + k - 1) % SSIZE] = k
  <2> SUFFICES ASSUME end <= SSIZE, NEW k \in 1 .. end
               PROVE  txbuf'[(TX_RD + k - 1) % SSIZE] = k
    OBVIOUS
  <2> DEFINE i == (TX_RD + k - 1) % SSIZE
             place == (i - ptr) % SSIZE
  <2>1. k \in Nat \ {0} /\ TX_RD + k - 1 \in Int
    BY <1>1
  <2>2. i \in 0 .. SSIZE - 1
    BY <1>1, <2>1, ModDef
  <2>3. txbuf'[i] = IF place < ret THEN draft + place + 1 ELSE txbuf[i]
    BY <1>4, <2>2 DEF SendInv, TypeOK
  <2>4. place = (k - 1 - draft) % SSIZE
    <3> DEFINE b == TX_RD + draft
               x == TX_RD + k - 1
    <3>0. b \in Int /\ x \in Int
      BY <1>5, <2>1
    <3> HIDE DEF b, x
    <3>1. ((x % SSIZE) - (b % PTR)) % SSIZE = (x - b) % SSIZE
      BY <1>1, <3>0, CellOffset
    <3> USE DEF b, x
    <3>2. (TX_RD + k - 1) - (TX_RD + draft) = k - 1 - draft
      BY <1>1, <2>1
    <3>3. QED
      BY <3>1, <3>2
  <2>5. place = IF draft <= k - 1 THEN k - 1 - draft ELSE SSIZE - draft + (k - 1)
    <3>1. draft <= SSIZE /\ k - 1 \in Nat /\ k - 1 < SSIZE
      BY <1>1, <1>3, <2>1
    <3>2. QED
      BY <1>1, <2>4, <3>1, PlaceAfter
  <2> HIDE DEF i, place
  <2>6. CASE draft <= k - 1
    <3>1. place = k - 1 - draft /\ place < ret
      BY <1>1, <1>3, <2>1, <2>5, <2>6
    <3>2. QED
      BY <1>1, <2>1, <2>3, <3>1 DEF i
  <2>7. CASE k <= draft
    <3>1. ~(place < ret)
      BY <1>1, <1>3, <2>1, <2>5, <2>7
    <3>2. draft >= 1 /\ draft <= SSIZE /\ k \in 1 .. draft
      BY <1>1, <1>3, <2>1, <2>7
    <3>3. txbuf[i] = k
      BY <1>1, <3>2 DEF SendInv, Drafted, i
    <3>4. QED
      BY <2>3, <3>1, <3>3 DEF i
  <2>8. QED
    BY <1>1, <2>1, <2>6, <2>7
<1>12. Drafted'
  BY <1>4, <1>6, <1>7, <1>11 DEF Drafted
<1>13. QED
  BY <1>1, <1>4, <1>10, <1>12 DEF SendInv, At

LEMMA EndPacketKeeps ==
  ASSUME SendInv, EndPacket
  PROVE  SendInv'
<1>1. /\ drafting /\ SnIR = {} /\ pc' = "send.ok" /\ drafting' = FALSE
      /\ busy' \in BOOLEAN
      /\ UNCHANGED <<SnSR, SnIR, TX_RD, TX_WR, txbuf, _offset, draft>>
  BY DEF EndPacket, SendInv, At
<1>2. TypeOK'
  BY <1>1 DEF SendInv, TypeOK, Labels
<1>3. draft >= 1 => Drafted'
  BY <1>1, RingKept DEF SendInv
<1>4. QED
  BY <1>1, <1>2, <1>3 DEF SendInv, At

LEMMA SendOkKeeps ==
  ASSUME SendInv, SendOk
  PROVE  SendInv'
<1>1. /\ At("send.ok") /\ pc' \in {"idle", "send.timeout"} /\ SnIR' \subseteq SnIR
      /\ pc' = "idle" => "SEND_OK" \in SnIR /\ SnIR' = SnIR \ {"SEND_OK"}
      /\ UNCHANGED <<SnSR, TX_RD, TX_WR, txbuf, busy, _offset, drafting, draft>>
  BY DEF SendOk
<1>2. ~drafting /\ SnIR \subseteq {"SEND_OK", "TIMEOUT"}
  BY <1>1 DEF SendInv, TypeOK, At
<1>3. TypeOK'
  BY <1>1, <1>2 DEF SendInv, TypeOK, Labels
<1>4. pc' = "idle" => ~busy /\ SnIR' = {}
  BY <1>1, <1>2 DEF SendInv
<1>5. SnIR' # {"SEND_OK", "TIMEOUT"}
  BY <1>1, <1>2 DEF SendInv
<1>6. busy /\ draft >= 1 => Drafted'
  BY <1>1, RingKept DEF SendInv
<1>7. QED
  BY <1>1, <1>2, <1>3, <1>4, <1>5, <1>6 DEF SendInv, At

LEMMA SendTimeoutKeeps ==
  ASSUME SendInv, SendTimeout
  PROVE  SendInv'
<1>1. /\ At("send.timeout") /\ pc' \in {"idle", "send.ok"}
      /\ SnIR' = SnIR \/ SnIR' = {}
      /\ pc' = "idle" => "TIMEOUT" \in SnIR /\ SnIR' = {}
      /\ UNCHANGED <<SnSR, TX_RD, TX_WR, txbuf, busy, _offset, drafting, draft>>
  BY DEF SendTimeout
<1>2. ~drafting /\ SnIR \subseteq {"SEND_OK", "TIMEOUT"}
  BY <1>1 DEF SendInv, TypeOK, At
<1>3. TypeOK'
  BY <1>1, <1>2 DEF SendInv, TypeOK, Labels
<1>4. pc' = "idle" => ~busy
  BY <1>1 DEF SendInv
<1>5. SnIR' # {"SEND_OK", "TIMEOUT"}
  BY <1>1 DEF SendInv
<1>6. busy /\ draft >= 1 => Drafted'
  BY <1>1, RingKept DEF SendInv
<1>7. QED
  BY <1>1, <1>2, <1>3, <1>4, <1>5, <1>6 DEF SendInv, At

LEMMA StutterKeeps ==
  ASSUME SendInv, UNCHANGED vars
  PROVE  SendInv'
  BY DEF SendInv, TypeOK, Drafted, At, vars, chip

LEMMA NextKeepsSendInv == SendInv /\ [Next]_vars => SendInv'
<1> SUFFICES ASSUME SendInv, [Next]_vars PROVE SendInv'
  OBVIOUS
<1>1. CASE Sketch
  BY <1>1, RestartKeeps, BeginPacketKeeps, WriteKeeps, EndPacketKeeps DEF Sketch
<1>2. CASE Driver
  BY <1>2, SendOkKeeps, SendTimeoutKeeps DEF Driver
<1>3. CASE ChipSend
  BY <1>3, ChipSendKeeps
<1>4. CASE UNCHANGED vars
  BY <1>4, StutterKeeps
<1>5. QED
  BY <1>1, <1>2, <1>3, <1>4 DEF Next

\* The transmit half of a UDP socket keeps its invariant: where a datagram
\* begins and ends in the ring, what lies there, and that no flag of an earlier
\* SEND is left when the next is given.
THEOREM SendInvariant == Spec => []SendInv
<1>1. QED
  BY InitSendInv, NextKeepsSendInv, PTL DEF Spec

\* Every variable of the transmit half keeps its type.
THEOREM SendTyped == Spec => []TypeOK
<1>1. SendInv => TypeOK
  BY DEF SendInv
<1>2. QED
  BY <1>1, SendInvariant, PTL

LEMMA InvSentIsWritten == SendInv => SentIsWritten
<1> SUFFICES ASSUME SendInv, busy
             PROVE  /\ At("send.ok") \/ At("send.timeout")
                    /\ draft \in 1 .. SSIZE => Outgoing = [k \in 1 .. draft |-> k]
  BY DEF SentIsWritten
<1>1. At("send.ok") \/ At("send.timeout")
  BY DEF SendInv, TypeOK, Labels, At
<1>2. ASSUME draft \in 1 .. SSIZE
      PROVE  Outgoing = [k \in 1 .. draft |-> k]
  <2>1. Drafted /\ SSIZE \in Nat /\ PTR \in Nat \ {0} /\ TX_RD \in Nat
    BY <1>2, UdpSendAssumption DEF SendInv, TypeOK
  <2>2. draft \in 0 .. PTR - 1
    BY <1>2, <2>1, UdpSendAssumption DEF Drafted
  <2>3. (TX_WR - TX_RD) % PTR = draft
    BY <2>1, <2>2, PointerDiff DEF Drafted
  <2>4. \A k \in 1 .. draft : txbuf[(TX_RD + k - 1) % SSIZE] = k
    BY <1>2, <2>1 DEF Drafted
  <2>5. QED
    BY <2>3, <2>4 DEF Outgoing
<1>3. QED
  BY <1>1, <1>2

\* A datagram that has data and fits into the ring leaves it as it was written,
\* while endPacket() waits, whatever the sizes of ring and pointer.
THEOREM DatagramsSentAsWritten == Spec => []SentIsWritten
<1>1. QED
  BY SendInvariant, InvSentIsWritten, PTL
=============================================================================
