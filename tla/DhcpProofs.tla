----------------------------- MODULE DhcpProofs -----------------------------
(* What a DHCP client does, proved with TLAPS: the address it gives to the  *)
(* chip, for every set of servers and every number of retries, and the      *)
(* time the counters of a lease keep, for every clock, every lease and      *)
(* every rhythm of maintain().                                              *)
EXTENDS Dhcp, LeaseTimer, TLAPS

(* The address of the chip: module Dhcp. *)

\* A reply is of a server; an ACK that is honest was asked for.
LEMMA ReplyServer ==
  ASSUME TypeOK, NEW m \in Replies
  PROVE  m.server \in Servers /\ m.ip \in Addresses /\ m.xid \in Nat
  BY DEF TypeOK, Messages, Replies, Addresses

LEMMA OfferAddress ==
  ASSUME NEW m \in Replies, m.type = "OFFER"
  PROVE  m.ip \in Servers
  BY DEF Replies

LEMMA AckRequested ==
  ASSUME NEW m \in Replies, m.type = "ACK", Honest(m)
  PROVE  Requested(m.ip) /\ m.ip = m.server
<1>1. PICK n \in sent : /\ n.type = "REQUEST"
                        /\ m.ip = n.ip /\ m.server = n.server
  BY DEF Replies
<1>2. m.ip = m.server
  BY DEF Honest
<1>3. QED
  BY <1>1, <1>2 DEF Requested

LEMMA InitDhcpInv == Init => DhcpInv
<1> SUFFICES ASSUME Init PROVE DhcpInv
  OBVIOUS
<1>1. 0 \in 0 .. MaxRestarts /\ 0 \in 0 .. MaxTears
  BY DhcpAssumption
<1>2. 0 \in Nat /\ 0 >= 0
  OBVIOUS
<1>3. /\ renewDue \in BOOLEAN /\ rebindDue \in BOOLEAN
      /\ late \in BOOLEAN /\ torn \in BOOLEAN
  BY Zenon DEF Init
<1>4. TypeOK
  BY <1>1, <1>2, <1>3 DEF Init, TypeOK, Addresses
<1>5. QED
  BY <1>4 DEF Init, DhcpInv, LeaseKnown

\* A step that leaves the lease, the state and the messages alone.
LEMMA Unrelated ==
  ASSUME DhcpInv, TypeOK', UNCHANGED <<dhcp_state, lease, sent, reads>>
  PROVE  DhcpInv'
  BY DEF DhcpInv, LeaseKnown, Requested, lease, reads

\* A step that leaves the client without a lease.
LEMMA GivesUp ==
  ASSUME TypeOK', dhcp_state' \notin {"LEASED", "REREQUEST"}
  PROVE  DhcpInv'
  BY DEF DhcpInv, LeaseKnown

LEMMA ParseType ==
  ASSUME DhcpInv, NEW m \in Replies, Parse(m)
  PROVE  /\ localIp' \in Addresses
         /\ dhcpServerIp' \in Servers
         /\ m.xid \in Nat /\ m.xid >= initialTransactionId
         /\ pc' = "check"
         /\ UNCHANGED <<initialTransactionId, op, late, chipIp, reads>>
<1>1. m.server \in Servers /\ m.ip \in Addresses /\ m.xid \in Nat
  BY ReplyServer DEF DhcpInv
<1>2. dhcpServerIp' \in Servers
  BY <1>1 DEF Parse, DhcpInv, TypeOK, Addresses
<1>3. m.xid >= initialTransactionId
  BY <1>1 DEF Parse, Accepted, DhcpInv, TypeOK
<1>4. QED
  BY <1>1, <1>2, <1>3 DEF Parse

\* The restarts of a call are counted up to their bound.
LEMMA RestartsType ==
  ASSUME DhcpInv, restarts < MaxRestarts, restarts' = restarts + 1
  PROVE  restarts' \in 0 .. MaxRestarts
  BY DhcpAssumption DEF DhcpInv, TypeOK

LEMMA CallersKeep ==
  ASSUME DhcpInv, Begin \/ TimerFires \/ Maintain \/ CheckRebind
  PROVE  DhcpInv'
<1>1. CASE Begin
  <2>1. TypeOK'
    BY <1>1 DEF Begin, ResetLease, DhcpInv, TypeOK, Addresses, xids, due
  <2>2. QED
    BY <1>1, <2>1, GivesUp DEF Begin
<1>2. CASE TimerFires
  <2>1. TypeOK'
    BY <1>2 DEF TimerFires, DhcpInv, TypeOK, xids, lease, call, reads
  <2>2. QED
    BY <1>2, <2>1, Unrelated DEF TimerFires
<1>3. CASE Maintain
  <2>1. TypeOK'
    BY <1>3 DEF Maintain, DhcpInv, TypeOK, xids, lease, due, reads
  <2>2. \/ dhcp_state' = dhcp_state
        \/ dhcp_state = "LEASED" /\ dhcp_state' = "REREQUEST"
    BY <1>3 DEF Maintain
  <2>3. UNCHANGED <<lease, sent, reads>>
    BY <1>3 DEF Maintain
  <2>4. QED
    BY <2>1, <2>2, <2>3 DEF DhcpInv, LeaseKnown, Requested, lease, reads
<1>4. CASE CheckRebind
  <2>1. TypeOK'
    BY <1>4 DEF CheckRebind, ResetLease, DhcpInv, TypeOK, Addresses, xids, lease,
                due, reads
  <2>2. CASE dhcp_state' = "START"
    BY <2>1, <2>2, GivesUp
  <2>3. CASE UNCHANGED <<dhcp_state, lease, reads>>
    BY <1>4, <2>1, <2>3, Unrelated DEF CheckRebind
  <2>4. QED
    BY <1>4, <2>2, <2>3 DEF CheckRebind
<1>5. QED
  BY <1>1, <1>2, <1>3, <1>4

LEMMA SendKeeps ==
  ASSUME DhcpInv, SendDiscover \/ SendRerequest
  PROVE  DhcpInv'
<1>1. transactionId + 1 \in Nat /\ transactionId + 1 >= initialTransactionId
  BY DEF DhcpInv, TypeOK
<1>2. CASE SendDiscover
  <2>1. Discover(transactionId') \in Messages
    BY <1>1, <1>2 DEF SendDiscover, Discover, Messages, Addresses
  <2>2. TypeOK'
    BY <1>1, <1>2, <2>1 DEF SendDiscover, DhcpInv, TypeOK, lease, due, call, reads
  <2>3. QED
    BY <1>2, <2>2, GivesUp DEF SendDiscover
<1>3. CASE SendRerequest
  <2>1. RequestMsg(transactionId') \in Messages
    BY <1>1, <1>3 DEF SendRerequest, RequestMsg, Messages, DhcpInv, TypeOK
  <2>2. TypeOK'
    BY <1>1, <1>3, <2>1 DEF SendRerequest, DhcpInv, TypeOK, lease, due, call, reads
  <2>3. QED
    BY <1>3, <2>2, GivesUp DEF SendRerequest
<1>4. QED
  BY <1>2, <1>3

\* The REQUEST that answers an OFFER is a message.
LEMMA OnOfferType ==
  ASSUME DhcpInv, NEW xid \in Nat, xid >= initialTransactionId, OnOffer(xid),
         localIp' \in Addresses, dhcpServerIp' \in Addresses, pc' = "check",
         UNCHANGED <<initialTransactionId, op, late, chipIp>>,
         tears' \in 0 .. MaxTears, torn' \in BOOLEAN
  PROVE  TypeOK' /\ dhcp_state' = "REQUEST"
<1>1. [type |-> "REQUEST", xid |-> xid, ip |-> localIp', server |-> dhcpServerIp']
      \in Messages
  BY DEF Messages
<1>2. sent' \subseteq Messages
  BY <1>1 DEF OnOffer, DhcpInv, TypeOK
<1>3. /\ transactionId' = xid /\ dhcp_state' = "REQUEST"
      /\ UNCHANGED <<renewDue, rebindDue, restarts>>
  BY DEF OnOffer, due
<1>4. QED
  BY <1>2, <1>3 DEF DhcpInv, TypeOK

LEMMA OnAckType ==
  ASSUME DhcpInv, OnAck,
         localIp' \in Addresses, dhcpServerIp' \in Addresses, pc' = "check",
         UNCHANGED <<initialTransactionId, op, late, chipIp>>,
         tears' \in 0 .. MaxTears, torn' \in BOOLEAN
  PROVE  TypeOK' /\ dhcp_state' = "LEASED" /\ sent' = sent
  BY DEF OnAck, DhcpInv, TypeOK

\* A reply that is not taken, or makes the client start over.
LEMMA OtherType ==
  ASSUME DhcpInv,
         StartOver \/ UNCHANGED <<dhcp_state, transactionId, due, sent, restarts>>,
         localIp' \in Addresses, dhcpServerIp' \in Addresses, pc' = "check",
         UNCHANGED <<initialTransactionId, op, late, chipIp>>,
         tears' \in 0 .. MaxTears, torn' \in BOOLEAN
  PROVE  /\ TypeOK' /\ sent' = sent
         /\ dhcp_state' = "START" \/ dhcp_state' = dhcp_state
<1>1. CASE StartOver
  <2>1. restarts' \in 0 .. MaxRestarts
    BY <1>1, RestartsType DEF StartOver
  <2>2. /\ dhcp_state' = "START"
        /\ UNCHANGED <<transactionId, renewDue, rebindDue, sent>>
    BY <1>1 DEF StartOver, due
  <2>3. QED
    BY <2>1, <2>2 DEF DhcpInv, TypeOK
<1>2. CASE UNCHANGED <<dhcp_state, transactionId, due, sent, restarts>>
  BY <1>2 DEF due, DhcpInv, TypeOK
<1>3. QED
  BY <1>1, <1>2

LEMMA ReadsType ==
  ASSUME DhcpInv, UNCHANGED reads
  PROVE  tears' \in 0 .. MaxTears /\ torn' \in BOOLEAN /\ torn' = torn
  BY DEF reads, DhcpInv, TypeOK

LEMMA ServersAreAddresses == Servers \subseteq Addresses
  BY DEF Addresses

LEMMA OfferKeeps ==
  ASSUME DhcpInv, Offer
  PROVE  DhcpInv'
<1>1. PICK m \in Replies : m.type = "OFFER" /\ Parse(m) /\ OnOffer(m.xid)
  BY DEF Offer
<1>2. /\ localIp' \in Addresses /\ dhcpServerIp' \in Servers
      /\ m.xid \in Nat /\ m.xid >= initialTransactionId
      /\ pc' = "check"
      /\ UNCHANGED <<initialTransactionId, op, late, chipIp, reads>>
  BY <1>1, ParseType
<1>3. TypeOK' /\ dhcp_state' = "REQUEST"
  BY <1>1, <1>2, OnOfferType, ReadsType, ServersAreAddresses
<1>4. QED
  BY <1>3, GivesUp

LEMMA AckKeeps ==
  ASSUME DhcpInv, Ack
  PROVE  DhcpInv'
<1>1. PICK m \in Replies : m.type = "ACK" /\ Parse(m) /\ OnAck
  BY DEF Ack
<1>2. /\ localIp' \in Addresses /\ dhcpServerIp' \in Servers
      /\ pc' = "check"
      /\ UNCHANGED <<initialTransactionId, op, late, chipIp, reads>>
  BY <1>1, ParseType
<1>3. Requested(m.ip) /\ m.ip = m.server /\ localIp' = m.ip
  BY <1>1, AckRequested DEF Parse
<1>4. TypeOK' /\ dhcp_state' = "LEASED" /\ sent' = sent
  BY <1>1, <1>2, OnAckType, ReadsType, ServersAreAddresses
<1>5. m.server \in Servers
  BY <1>1, ReplyServer DEF DhcpInv
<1>6. localIp' # None /\ dhcpServerIp' # None
  BY <1>2, <1>3, <1>5, DhcpAssumption
<1>7. QED
  BY <1>3, <1>4, <1>6 DEF DhcpInv, LeaseKnown, Requested

LEMMA OtherReplyKeeps ==
  ASSUME DhcpInv, Nak \/ OutOfTurn
  PROVE  DhcpInv'
<1>1. PICK m \in Replies :
          /\ Parse(m)
          /\ StartOver \/ UNCHANGED <<dhcp_state, transactionId, due, sent, restarts>>
  BY DEF Nak, OutOfTurn
<1>2. /\ localIp' \in Addresses /\ dhcpServerIp' \in Servers
      /\ pc' = "check"
      /\ UNCHANGED <<initialTransactionId, op, late, chipIp, reads>>
  BY <1>1, ParseType
<1>3. TypeOK' /\ (dhcp_state' = "START" \/ dhcp_state' = dhcp_state)
  BY <1>1, <1>2, OtherType, ReadsType, ServersAreAddresses
<1>4. dhcp_state \in {"DISCOVER", "REQUEST"}
  BY <1>1 DEF Parse, Listening
<1>5. QED
  BY <1>3, <1>4, GivesUp

\* Whatever is made of a reply a read of which fails, it leaves a mark.
LEMMA TornReplyKeeps ==
  ASSUME DhcpInv, TornReply
  PROVE  DhcpInv'
<1>1. /\ localIp' \in Addresses /\ dhcpServerIp' \in Addresses
      /\ torn' = TRUE /\ pc' = "check"
      /\ UNCHANGED <<initialTransactionId, op, late, chipIp>>
  BY DEF TornReply, ParseTorn
<1>2. tears' \in 0 .. MaxTears
  BY DhcpAssumption DEF TornReply, ParseTorn, DhcpInv, TypeOK
<1>3. torn' \in BOOLEAN
  BY <1>1
<1>4. CASE \E xid \in initialTransactionId .. transactionId : OnOffer(xid)
  <2>1. PICK xid \in initialTransactionId .. transactionId : OnOffer(xid)
    BY <1>4
  <2>2. xid \in Nat /\ xid >= initialTransactionId
    BY DEF DhcpInv, TypeOK
  <2>3. TypeOK' /\ dhcp_state' = "REQUEST"
    BY <1>1, <1>2, <1>3, <2>1, <2>2, OnOfferType
  <2>4. QED
    BY <2>3, GivesUp
<1>5. CASE OnAck
  <2>1. TypeOK' /\ dhcp_state' = "LEASED"
    BY <1>1, <1>2, <1>3, <1>5, OnAckType
  <2>2. QED
    BY <1>1, <2>1 DEF DhcpInv, LeaseKnown
<1>6. CASE StartOver \/ UNCHANGED <<dhcp_state, transactionId, due, sent, restarts>>
  <2>1. TypeOK'
    BY <1>1, <1>2, <1>3, <1>6, OtherType
  <2>2. QED
    BY <1>1, <2>1 DEF DhcpInv, LeaseKnown
<1>7. QED
  BY <1>4, <1>5, <1>6 DEF TornReply

LEMMA SilentKeeps ==
  ASSUME DhcpInv, Start \/ Foreign \/ NoAnswer \/ Late
  PROVE  DhcpInv'
<1>1. CASE Start
  <2>1. 0 \in 0 .. MaxRestarts
    BY DhcpAssumption
  <2>2. PICK r \in 1 .. MaxRandom :
            transactionId' = r /\ initialTransactionId' = r
    BY <1>1 DEF Start
  <2>3. r \in Nat /\ r >= r
    BY DhcpAssumption
  <2>4. TypeOK'
    BY <1>1, <2>1, <2>2, <2>3 DEF Start, DhcpInv, TypeOK, lease, due, reads
  <2>5. QED
    BY <1>1, <2>4, Unrelated DEF Start
<1>2. CASE Foreign
  <2>1. TypeOK'
    BY <1>2 DEF Foreign, DhcpInv, TypeOK, xids, lease, due, call, reads
  <2>2. QED
    BY <1>2, <2>1, Unrelated DEF Foreign
<1>3. CASE NoAnswer
  <2>1. localIp' \in Addresses /\ dhcpServerIp' \in Addresses
    BY <1>3 DEF NoAnswer, lease, DhcpInv, TypeOK
  <2>2. StartOver /\ pc' = "check"
        /\ UNCHANGED <<initialTransactionId, op, late, chipIp, reads>>
    BY <1>3 DEF NoAnswer
  <2>3. TypeOK'
    BY <2>1, <2>2, OtherType, ReadsType
  <2>4. QED
    BY <2>2, <2>3, GivesUp DEF StartOver
<1>4. CASE Late
  <2>1. TypeOK'
    BY <1>4 DEF Late, DhcpInv, TypeOK, xids, lease, due, reads
  <2>2. QED
    BY <1>4, <2>1, Unrelated DEF Late
<1>5. QED
  BY <1>1, <1>2, <1>3, <1>4

LEMMA EndKeeps ==
  ASSUME DhcpInv, NoSocket \/ Check
  PROVE  DhcpInv'
<1>1. CASE NoSocket
  <2>1. pc' \in {"idle", "rebind?"} /\ chipIp' = chipIp
    BY <1>1 DEF NoSocket, Return
  <2>2. TypeOK'
    BY <1>1, <2>1, DhcpAssumption
    DEF NoSocket, DhcpInv, TypeOK, lease, due, call, reads
  <2>3. QED
    BY <1>1, <2>2, Unrelated DEF NoSocket
<1>2. CASE Check
  <2>1. UNCHANGED <<dhcp_state, initialTransactionId, lease, due, call, sent, reads>>
    BY <1>2 DEF Check
  <2>2. \/ /\ pc' = "loop" /\ UNCHANGED <<transactionId, chipIp>>
        \/ /\ pc' \in {"idle", "rebind?"} /\ transactionId' = transactionId + 1
           /\ chipIp' \in {chipIp, localIp}
    BY <1>2 DEF Check, Return
  <2>3. TypeOK'
    BY <2>1, <2>2 DEF DhcpInv, TypeOK, lease, due, call, reads
  <2>4. QED
    BY <2>1, <2>3, Unrelated
<1>3. QED
  BY <1>1, <1>2

LEMMA DhcpInvStep == DhcpInv /\ [Next]_vars => DhcpInv'
<1> SUFFICES ASSUME DhcpInv, [Next]_vars PROVE DhcpInv'
  OBVIOUS
<1>1. CASE UNCHANGED vars
  <2>1. TypeOK'
    BY <1>1 DEF vars, xids, lease, due, call, reads, DhcpInv, TypeOK
  <2>2. QED
    BY <1>1, <2>1, Unrelated DEF vars
<1>2. CASE Begin \/ TimerFires \/ Maintain \/ CheckRebind
  BY <1>2, CallersKeep
<1>3. CASE SendDiscover \/ SendRerequest
  BY <1>3, SendKeeps
<1>4. CASE Offer
  BY <1>4, OfferKeeps
<1>5. CASE Ack
  BY <1>5, AckKeeps
<1>6. CASE Nak \/ OutOfTurn
  BY <1>6, OtherReplyKeeps
<1>7. CASE TornReply
  BY <1>7, TornReplyKeeps
<1>8. CASE Start \/ Foreign \/ NoAnswer \/ Late
  BY <1>8, SilentKeeps
<1>9. CASE NoSocket \/ Check
  BY <1>9, EndKeeps
<1>10. QED
  BY <1>1, <1>2, <1>3, <1>4, <1>5, <1>6, <1>7, <1>8, <1>9 DEF Next, Step

\* Only the end of a request that has got a lease gives the chip an address.
LEMMA ChipIpStep ==
  ASSUME DhcpInv, [Next]_vars, chipIp' \notin {chipIp, None}
  PROVE  torn \/ Requested(chipIp')
<1>1. CASE Check
  <2>1. dhcp_state = "LEASED" /\ chipIp' = localIp
    BY <1>1 DEF Check, Return
  <2>2. QED
    BY <2>1 DEF DhcpInv, LeaseKnown
<1>2. CASE Begin \/ TimerFires \/ Maintain \/ CheckRebind
  BY <1>2 DEF Begin, TimerFires, Maintain, CheckRebind
<1>3. CASE SendDiscover \/ SendRerequest \/ Start \/ Foreign \/ NoAnswer \/ Late
  BY <1>3 DEF SendDiscover, SendRerequest, Start, Foreign, NoAnswer, Late
<1>4. CASE Offer \/ Ack \/ Nak \/ OutOfTurn
  BY <1>4 DEF Offer, Ack, Nak, OutOfTurn, Parse
<1>5. CASE TornReply
  BY <1>5 DEF TornReply, ParseTorn
<1>6. CASE NoSocket
  BY <1>6 DEF NoSocket, Return
<1>7. CASE UNCHANGED vars
  BY <1>7 DEF vars
<1>8. QED
  BY <1>1, <1>2, <1>3, <1>4, <1>5, <1>6, <1>7 DEF Next, Step

\* A REQUEST is sent to renew a lease, or in answer to an OFFER.
LEMMA RequestStep ==
  ASSUME DhcpInv, [Next]_vars, NEW m \in sent' \ sent, m.type = "REQUEST"
  PROVE  torn' \/ (m.ip # None /\ m.server # None)
<1>1. CASE SendRerequest
  <2>1. m = RequestMsg(transactionId') /\ dhcp_state = "REREQUEST" /\ torn' = torn
    BY <1>1 DEF SendRerequest, reads
  <2>2. m.ip = localIp /\ m.server = dhcpServerIp
    BY <2>1 DEF RequestMsg
  <2>3. QED
    BY <2>1, <2>2 DEF DhcpInv, LeaseKnown
<1>2. CASE Offer
  <2>1. PICK o \in Replies : o.type = "OFFER" /\ Parse(o) /\ OnOffer(o.xid)
    BY <1>2 DEF Offer
  <2>2. m = [type |-> "REQUEST", xid |-> o.xid, ip |-> localIp',
             server |-> dhcpServerIp']
    BY <2>1 DEF OnOffer
  <2>3. localIp' \in Servers
    BY <2>1, OfferAddress DEF Parse
  <2>4. dhcpServerIp' \in Servers
    BY <2>1, ParseType
  <2>5. m.ip = localIp' /\ m.server = dhcpServerIp'
    BY <2>2
  <2>6. QED
    BY <2>3, <2>4, <2>5, DhcpAssumption
<1>3. CASE SendDiscover
  BY <1>3 DEF SendDiscover, Discover
<1>4. CASE TornReply
  BY <1>4 DEF TornReply, ParseTorn
<1>5. CASE Begin \/ TimerFires \/ Maintain \/ CheckRebind
  BY <1>5 DEF Begin, TimerFires, Maintain, CheckRebind
<1>6. CASE Start \/ Foreign \/ NoAnswer \/ Late \/ NoSocket \/ Check
  BY <1>6 DEF Start, Foreign, NoAnswer, StartOver, Late, NoSocket, Check, call
<1>7. CASE Ack \/ Nak \/ OutOfTurn
  BY <1>7 DEF Ack, Nak, OutOfTurn, OnAck, StartOver
<1>8. CASE UNCHANGED vars
  BY <1>8 DEF vars
<1>9. QED
  BY <1>1, <1>2, <1>3, <1>4, <1>5, <1>6, <1>7, <1>8 DEF Next, Step

\* What the client knows of its lease is right as long as no read fails.
THEOREM DhcpInvariant == Spec => []DhcpInv
  BY InitDhcpInv, DhcpInvStep, PTL DEF Spec

\* Every variable has its type; the ids that are accepted are not none.
THEOREM DhcpTyped == Spec => []TypeOK
<1>1. DhcpInv => TypeOK
  BY DEF DhcpInv
<1>2. QED
  BY <1>1, DhcpInvariant, PTL

\* begin() and maintain() give the chip only addresses whose server has been
\* asked for them by name, or else a read of a reply has failed since the lease
\* was reset.
THEOREM ChipUsesRequestedAddress == Spec => ChipIpRequested
<1>1. DhcpInv /\ [Next]_vars
      => [chipIp' \notin {chipIp, None} => torn \/ Requested(chipIp')]_vars
  BY ChipIpStep
<1>2. QED
  BY <1>1, DhcpInvariant, PTL DEF Spec, ChipIpRequested

\* No REQUEST goes out without an address or without a server, unless a read of
\* a reply has failed since the lease was reset.
THEOREM RequestsAreComplete == Spec => RequestsComplete
<1>1. DhcpInv /\ [Next]_vars
      => [\A m \in sent' \ sent :
              m.type = "REQUEST" => torn' \/ (m.ip # None /\ m.server # None)]_vars
  BY RequestStep
<1>2. QED
  BY <1>1, DhcpInvariant, PTL DEF Spec, RequestsComplete

----------------------------------------------------------------------------
(* The counters of a lease: module LeaseTimer. *)

\* The reading of a clock that wraps around, and what has gone by.
LEMMA ModRange ==
  ASSUME NEW a \in Int, NEW n \in Nat \ {0}
  PROVE  a % n \in 0 .. n - 1
  OBVIOUS

LEMMA QuotientIsNat ==
  ASSUME NEW a \in Nat, NEW n \in Nat \ {0}, a >= n
  PROVE  a \div n \in Nat \ {0}
<1>1. a \div n \in Int /\ a % n \in 0 .. n - 1 /\ a = n * (a \div n) + (a % n)
  OBVIOUS
<1> DEFINE q == a \div n   r == a % n
<1>2. q \in Int /\ r \in Int /\ r < n /\ a = n * q + r
  BY <1>1
<1> HIDE DEF q, r
<1>3. ASSUME q <= 0 PROVE FALSE
  <2>1. n * q <= 0
    BY <1>2, <1>3
  <2>2. QED
    BY <1>2, <2>1
<1>4. q \in Nat \ {0}
  BY <1>2, <1>3
<1>5. QED
  BY <1>4 DEF q

\* A counter that goes down by e seconds stays exact.
LEMMA CountDownExact ==
  ASSUME NEW c \in Nat, NEW t \in Nat, NEW e \in Nat \ {0}, NEW u \in Nat,
         Exact(c, t), since \in Nat, u = since + e * SEC
  PROVE  \/ CountDown(c, e) = 0
         \/ CountDown(c, e) * SEC = t * SEC - u
<1>1. CASE c < e * 2
  BY <1>1 DEF CountDown
<1>2. CASE ~(c < e * 2)
  <2>1. c # 0 /\ CountDown(c, e) = c - e
    BY <1>2 DEF CountDown
  <2>2. c * SEC = t * SEC - since
    BY <2>1 DEF Exact
  <2>3. SEC \in Nat
    BY TimerAssumption
  <2>4. (c - e) * SEC = c * SEC - e * SEC
    BY <2>3
  <2>5. c * SEC \in Int /\ e * SEC \in Int /\ t * SEC \in Int
    BY <2>3
  <2>6. QED
    BY <2>1, <2>2, <2>4, <2>5
<1>3. QED
  BY <1>1, <1>2

LEMMA CountDownType ==
  ASSUME NEW c \in Nat, NEW e \in Nat
  PROVE  CountDown(c, e) \in Nat
  BY DEF CountDown

LEMMA InitTimerInv == TimersInit => TimerInv
  BY TimerAssumption
  DEF TimersInit, TimerInv, TimersTypeOK, NoLeaseInRequest, CountersExact

\* A step that leaves the timers alone and makes no lease.
LEMMA TimersAlone ==
  ASSUME TimerInv, TimersTypeOK', UNCHANGED timers,
         state' = "LEASED" => state = "LEASED",
         stage' \in {"renew", "rebind"} => state' # "LEASED"
  PROVE  TimerInv'
  BY DEF TimerInv, CountersExact, NoLeaseInRequest, Exact, timers

\* A step in a request, after which there is no lease.
LEMMA NoLease ==
  ASSUME TimersTypeOK', state' # "LEASED"
  PROVE  TimerInv'
  BY DEF TimerInv, CountersExact, NoLeaseInRequest

LEMMA CountKeeps ==
  ASSUME TimerInv, Count
  PROVE  TimerInv'
<1> DEFINE e == Elapsed \div SEC
<1>1. CASE Elapsed >= SEC
  <2>1. /\ stage = "idle" /\ stage' = "check"
        /\ lastCheck' = (now - (Elapsed % SEC)) % WRAP
        /\ since' = Passed(e * SEC)
        /\ renewInSec' = CountDown(renewInSec, e)
        /\ rebindInSec' = CountDown(rebindInSec, e)
        /\ UNCHANGED <<now, state, leaseTime, T1, T2>>
    BY <1>1 DEF Count
  <2>2. SEC \in Nat \ {0} /\ WRAP \in Nat \ {0}
    BY TimerAssumption
  <2>3. now - lastCheck \in Int
    BY DEF TimerInv, TimersTypeOK
  <2>4. Elapsed \in Nat
    BY <2>2, <2>3, ModRange DEF Elapsed
  <2>5. e \in Nat \ {0}
    BY <1>1, <2>2, <2>4, QuotientIsNat
  <2>6. Elapsed % SEC \in Int
    BY <2>2, <2>4, ModRange
  <2>7. lastCheck' \in 0 .. WRAP - 1
    <3>1. now - (Elapsed % SEC) \in Int
      BY <2>2, <2>6 DEF TimerInv, TimersTypeOK
    <3>2. QED
      BY <2>1, <2>2, <3>1, ModRange
  <2> HIDE DEF e
  <2>8. e * SEC \in Nat
    BY <2>2, <2>5
  <2>9. since' \in Nat
    BY <2>1, <2>8 DEF Passed, TimerInv, TimersTypeOK
  <2>10. renewInSec' \in Nat /\ rebindInSec' \in Nat
    BY <2>1, <2>5, CountDownType DEF TimerInv, TimersTypeOK
  <2>11. TimersTypeOK'
    BY <2>1, <2>7, <2>9, <2>10 DEF TimerInv, TimersTypeOK
  <2>12. ASSUME state = "LEASED"
         PROVE  Exact(renewInSec, T1)' /\ Exact(rebindInSec, T2)'
    <3>1. since' = since + e * SEC
      BY <2>1, <2>12 DEF Passed
    <3>2. Exact(renewInSec, T1) /\ Exact(rebindInSec, T2)
      BY <2>12 DEF TimerInv, CountersExact
    <3>3. since \in Nat /\ T1 \in Nat /\ T2 \in Nat /\ renewInSec \in Nat
          /\ rebindInSec \in Nat
      BY DEF TimerInv, TimersTypeOK
    <3>4. Exact(renewInSec, T1)'
      BY <2>1, <2>5, <2>9, <3>1, <3>2, <3>3, CountDownExact DEF Exact
    <3>5. Exact(rebindInSec, T2)'
      BY <2>1, <2>5, <2>9, <3>1, <3>2, <3>3, CountDownExact DEF Exact
    <3>6. QED
      BY <3>4, <3>5
  <2>13. QED
    BY <2>1, <2>11, <2>12 DEF TimerInv, CountersExact, NoLeaseInRequest
<1>2. CASE ~(Elapsed >= SEC)
  <2>1. TimersTypeOK'
    BY <1>2 DEF Count, TimerInv, TimersTypeOK
  <2>2. UNCHANGED timers /\ stage' = "check" /\ UNCHANGED state
    BY <1>2 DEF Count, timers
  <2>3. QED
    BY <2>1, <2>2, TimersAlone
<1>3. QED
  BY <1>1, <1>2

LEMMA ChecksKeep ==
  ASSUME TimerInv, Tick \/ RenewIfDue \/ RebindIfDue
  PROVE  TimerInv'
<1>1. CASE Tick
  <2>1. now' \in 0 .. WRAP - 1
    <3>1. now + 1 \in Int /\ WRAP \in Nat \ {0}
      BY TimerAssumption DEF TimerInv, TimersTypeOK
    <3>2. QED
      BY <1>1, <3>1, ModRange DEF Tick
  <2>2. TimersTypeOK'
    BY <1>1, <2>1 DEF Tick, TimerInv, TimersTypeOK, timers
  <2>3. QED
    BY <1>1, <2>2, TimersAlone DEF Tick, TimerInv, NoLeaseInRequest
<1>2. CASE RenewIfDue
  <2>1. TimersTypeOK'
    BY <1>2 DEF RenewIfDue, TimerInv, TimersTypeOK, timers
  <2>2. QED
    BY <1>2, <2>1, TimersAlone DEF RenewIfDue
<1>3. CASE RebindIfDue
  <2>1. TimersTypeOK'
    BY <1>3 DEF RebindIfDue, TimerInv, TimersTypeOK, timers
  <2>2. QED
    BY <1>3, <2>1, TimersAlone DEF RebindIfDue
<1>4. QED
  BY <1>1, <1>2, <1>3

\* The values of the options, and of the fields they set.
LEMMA OptionsType ==
  ASSUME NEW g \in Options
  PROVE  g.lease \in Nat /\ g.T1 \in Nat /\ g.T2 \in Nat
<1>1. Times \subseteq Nat
  BY TimerAssumption DEF Times
<1>2. g.lease \in Times /\ g.T1 \in Times /\ g.T2 \in Times
  BY DEF Options
<1>3. QED
  BY <1>1, <1>2

\* T1 and T2 as they are calculated.
LEMMA Fractions ==
  ASSUME NEW l \in Nat
  PROVE  l \div 2 \in Nat /\ l - (l \div 8) \in Nat
<1>1. l \div 2 \in Nat
  OBVIOUS
<1>2. l \div 8 \in Int /\ l % 8 \in 0 .. 7 /\ l = 8 * (l \div 8) + (l % 8)
  OBVIOUS
<1>3. l - (l \div 8) \in Nat
  BY <1>2
<1>4. QED
  BY <1>1, <1>3

LEMMA AckedKeeps ==
  ASSUME TimerInv, NEW g \in Options, Acked(g)
  PROVE  TimerInv'
<1>1. g.lease \in Nat /\ g.T1 \in Nat /\ g.T2 \in Nat
  BY OptionsType
<1>2. leaseTime' \in Nat
  BY <1>1, TimerAssumption DEF Acked, OrElse, TimerInv, TimersTypeOK
<1>3. leaseTime' \div 2 \in Nat /\ leaseTime' - (leaseTime' \div 8) \in Nat
  BY <1>2, Fractions
<1>4. T1' \in Nat /\ T2' \in Nat
  BY <1>1, <1>3 DEF Acked, OrElse, TimerInv, TimersTypeOK
<1>5. /\ renewInSec' = T1' /\ rebindInSec' = T2'
      /\ lastCheck' = now /\ since' = 0 /\ now' = now
      /\ state' = "LEASED" /\ stage' \in {"rebind?", "idle"}
  BY DEF Acked, AfterRequest
<1>6. TimersTypeOK'
  BY <1>2, <1>4, <1>5 DEF TimerInv, TimersTypeOK
<1>7. Exact(renewInSec, T1)' /\ Exact(rebindInSec, T2)'
  <2>1. T1' * SEC \in Int /\ T2' * SEC \in Int
    BY <1>4, TimerAssumption
  <2>2. QED
    BY <1>5, <2>1 DEF Exact
<1>8. QED
  BY <1>5, <1>6, <1>7 DEF TimerInv, CountersExact, NoLeaseInRequest

LEMMA RequestKeeps ==
  ASSUME TimerInv,
         BeginAgain \/ Failed \/ RequestUnsent \/ \E g \in Options : Parsed(g)
  PROVE  TimerInv'
<1>1. CASE BeginAgain
  <2>1. TimersTypeOK'
    BY <1>1 DEF BeginAgain, TimerInv, TimersTypeOK
  <2>2. QED
    BY <1>1, <2>1, NoLease DEF BeginAgain
<1>2. CASE Failed
  <2>1. TimersTypeOK'
    BY <1>2 DEF Failed, AfterRequest, TimerInv, TimersTypeOK
  <2>2. QED
    BY <1>2, <2>1, NoLease DEF Failed
<1>3. CASE RequestUnsent
  <2>1. TimersTypeOK'
    BY <1>3 DEF RequestUnsent, AfterRequest, TimerInv, TimersTypeOK, timers
  <2>2. QED
    BY <1>3, <2>1, NoLease DEF RequestUnsent, TimerInv, NoLeaseInRequest
<1>4. CASE \E g \in Options : Parsed(g)
  <2>1. PICK g \in Options : Parsed(g)
    BY <1>4
  <2>2. g.lease \in Nat /\ g.T1 \in Nat /\ g.T2 \in Nat
    BY OptionsType
  <2>3. TimersTypeOK'
    BY <2>1, <2>2 DEF Parsed, OrElse, TimerInv, TimersTypeOK
  <2>4. QED
    BY <2>1, <2>3, NoLease DEF Parsed, TimerInv, NoLeaseInRequest
<1>5. QED
  BY <1>1, <1>2, <1>3, <1>4

LEMMA TimerInvStep == TimerInv /\ [TimersNext]_timersVars => TimerInv'
<1> SUFFICES ASSUME TimerInv, [TimersNext]_timersVars PROVE TimerInv'
  OBVIOUS
<1>1. CASE UNCHANGED timersVars
  BY <1>1
  DEF timersVars, timers, TimerInv, TimersTypeOK, NoLeaseInRequest, CountersExact,
      Exact
<1>2. CASE Count
  BY <1>2, CountKeeps
<1>3. CASE Tick \/ RenewIfDue \/ RebindIfDue
  BY <1>3, ChecksKeep
<1>4. CASE \E g \in Options : Acked(g)
  BY <1>4, AckedKeeps
<1>5. CASE BeginAgain \/ Failed \/ RequestUnsent \/ \E g \in Options : Parsed(g)
  BY <1>5, RequestKeeps
<1>6. QED
  BY <1>1, <1>2, <1>3, <1>4, <1>5 DEF TimersNext, TimersStep, CheckLease, Request

\* The timers are well-typed, the counters are exact, and no request is made
\* while there is a lease.
THEOREM TimerInvariant == TimersSpec => []TimerInv
  BY InitTimerInv, TimerInvStep, PTL DEF TimersSpec

\* A counter never wraps around below 0.
THEOREM TimersTyped == TimersSpec => []TimersTypeOK
<1>1. TimerInv => TimersTypeOK
  BY DEF TimerInv
<1>2. QED
  BY <1>1, TimerInvariant, PTL

\* What is left of T1 and T2 is counted to the tick.
THEOREM CountersKeepTime == TimersSpec => []CountersExact
<1>1. TimerInv => CountersExact
  BY DEF TimerInv
<1>2. QED
  BY <1>1, TimerInvariant, PTL
=============================================================================
