-------------------------------- MODULE Dhcp --------------------------------
(* DhcpClass: how a lease is requested, renewed and rebound, and what       *)
(* EthernetClass::begin and maintain make of it.  Datagrams may be lost,    *)
(* doubled, delayed and reordered: a reply may arrive whenever something    *)
(* that was ever sent calls for it.  Every server hands out one address,    *)
(* which is named as the server is.                                         *)
(*                                                                          *)
(* A definition whose comment begins with "Fault" is a plausible mistake in *)
(* the code, kept beside the definition it would replace.                   *)
EXTENDS Integers, FiniteSets

CONSTANTS
    Servers,    \* DHCP servers
    None,       \* address 0.0.0.0
    MaxRandom,  \* bound: largest random number a transaction id starts from
    MaxRestarts,\* bound: times a call falls back to START, for want of an answer
                \* or by a NAK
    MaxTears,   \* bound: replies a read of which fails
    MaxSent     \* bound: different messages sent before a call

ASSUME DhcpAssumption ==
    /\ None \notin Servers
    /\ MaxRandom \in Nat \ {0} /\ MaxRestarts \in Nat /\ MaxTears \in Nat
    /\ MaxSent \in Nat

VARIABLES
    \* DhcpClass
    dhcp_state, transactionId, initialTransactionId,
    localIp, dhcpServerIp,
    renewDue, rebindDue,    \* the counters of LeaseTimer are 0
    \* request_DHCP_lease
    pc,         \* idle, request, loop, check, rebind?
    op,         \* the last caller: begin, renew or rebind
    late,       \* _timeout is over
    restarts,   \* times this call has fallen back to START
    \* outside
    sent,       \* all messages ever sent by the client
    chipIp,     \* SIPR, the address the chip uses
    \* history
    tears,      \* replies a read of which has failed
    torn        \* there was one since the lease was last reset

lease == <<localIp, dhcpServerIp>>
xids == <<transactionId, initialTransactionId>>
due == <<renewDue, rebindDue>>
call == <<op, late, restarts>>
reads == <<tears, torn>>
vars == <<dhcp_state, xids, lease, due, pc, call, sent, chipIp, reads>>

Init ==
    /\ dhcp_state = "START" /\ transactionId = 0 /\ initialTransactionId = 0
    /\ localIp = None /\ dhcpServerIp = None
    /\ renewDue = TRUE /\ rebindDue = TRUE
    /\ pc = "idle" /\ op = "begin" /\ late = FALSE /\ restarts = 0
    /\ sent = {} /\ chipIp = None
    /\ tears = 0 /\ torn = FALSE

----------------------------------------------------------------------------
(* Messages *)

\* An address that is nobody's is that of a server that never answers.
Addresses == Servers \union {None}

Discover(x) == [type |-> "DISCOVER", xid |-> x, ip |-> None, server |-> None]

RequestMsg(x) ==
    [type |-> "REQUEST", xid |-> x, ip |-> localIp, server |-> dhcpServerIp]

\* The replies that may arrive: a server offers its address, acknowledges a
\* request for it that names the server, and refuses any such request.
Replies ==
    {[type |-> "OFFER", xid |-> m.xid, ip |-> s, server |-> s] :
        m \in {n \in sent : n.type = "DISCOVER"}, s \in Servers}
    \union
    {[type |-> t, xid |-> m.xid, ip |-> IF t = "ACK" THEN m.ip ELSE None,
      server |-> m.server] :
        m \in {n \in sent : n.type = "REQUEST" /\ n.server # None},
        t \in {"ACK", "NAK"}}

\* A server acknowledges its own address only.
Honest(m) == m.type = "ACK" => m.ip = m.server

\* The ids from the one this call began with on are accepted.
Accepted(m) == m.xid \in initialTransactionId .. transactionId

----------------------------------------------------------------------------
(* The callers. *)

ResetLease ==
    /\ localIp' = None /\ dhcpServerIp' = None
    /\ torn' = FALSE /\ UNCHANGED tears

\* EthernetClass::begin and beginWithDHCP: the chip has no address meanwhile.
Begin ==
    /\ pc = "idle" /\ Cardinality(sent) <= MaxSent
    /\ chipIp' = None
    /\ ResetLease
    /\ dhcp_state' = "START"
    /\ pc' = "request" /\ op' = "begin"
    /\ UNCHANGED <<xids, due, late, restarts, sent>>

\* Time goes by: T1 or T2 is over.
TimerFires ==
    /\ pc = "idle"
    /\ \/ renewDue' = TRUE /\ UNCHANGED rebindDue
       \/ rebindDue' = TRUE /\ UNCHANGED renewDue
    /\ UNCHANGED <<dhcp_state, xids, lease, pc, call, sent, chipIp, reads>>

\* checkLease, first half.
Maintain ==
    /\ pc = "idle" /\ Cardinality(sent) <= MaxSent
    /\ IF renewDue /\ dhcp_state = "LEASED"
       THEN pc' = "request" /\ op' = "renew" /\ dhcp_state' = "REREQUEST"
       ELSE pc' = "rebind?" /\ UNCHANGED <<op, dhcp_state>>
    /\ UNCHANGED <<xids, lease, due, late, restarts, sent, chipIp, reads>>

\* checkLease, second half.
CheckRebind ==
    /\ pc = "rebind?"
    /\ IF rebindDue /\ dhcp_state \in {"LEASED", "START"}
       THEN /\ pc' = "request" /\ op' = "rebind" /\ dhcp_state' = "START"
            /\ ResetLease
       ELSE pc' = "idle" /\ UNCHANGED <<op, dhcp_state, lease, reads>>
    /\ UNCHANGED <<xids, due, late, restarts, sent, chipIp>>

\* request_DHCP_lease returns; with a lease, begin() and maintain() give the
\* chip its address.
Return(ok) ==
    /\ pc' = IF op = "renew" THEN "rebind?" ELSE "idle"
    /\ chipIp' = IF ok THEN localIp ELSE chipIp

----------------------------------------------------------------------------
(* request_DHCP_lease *)

NoSocket ==
    /\ pc = "request"
    /\ \E r \in 1 .. MaxRandom : transactionId' = r /\ initialTransactionId' = r
    /\ Return(FALSE)
    /\ UNCHANGED <<dhcp_state, lease, due, call, sent, reads>>

\* Fault: only the first id of the call is drawn.
StartKeepsId ==
    /\ pc = "request"
    /\ \E r \in 1 .. MaxRandom : initialTransactionId' = r
    /\ late' = FALSE /\ restarts' = 0
    /\ pc' = "loop"
    /\ UNCHANGED <<dhcp_state, transactionId, lease, due, op, sent, chipIp, reads>>

Start ==
    /\ pc = "request"
    /\ \E r \in 1 .. MaxRandom : transactionId' = r /\ initialTransactionId' = r
    /\ late' = FALSE /\ restarts' = 0
    /\ pc' = "loop"
    /\ UNCHANGED <<dhcp_state, lease, due, op, sent, chipIp, reads>>

SendDiscover ==
    /\ pc = "loop" /\ dhcp_state = "START"
    /\ transactionId' = transactionId + 1
    /\ sent' = sent \union {Discover(transactionId')}
    /\ dhcp_state' = "DISCOVER"
    /\ pc' = "check"
    /\ UNCHANGED <<initialTransactionId, lease, due, call, chipIp, reads>>

SendRerequest ==
    /\ pc = "loop" /\ dhcp_state = "REREQUEST"
    /\ transactionId' = transactionId + 1
    /\ sent' = sent \union {RequestMsg(transactionId')}
    /\ dhcp_state' = "REQUEST"
    /\ pc' = "check"
    /\ UNCHANGED <<initialTransactionId, lease, due, call, chipIp, reads>>

Listening == pc = "loop" /\ dhcp_state \in {"DISCOVER", "REQUEST"}

\* parseDHCPResponse of a reply that is accepted: the address is taken over
\* from every type of reply, the server only if none is known.
Parse(m) ==
    /\ Listening /\ m \in Replies /\ Honest(m) /\ Accepted(m)
    /\ localIp' = m.ip
    /\ dhcpServerIp' = IF dhcpServerIp = None THEN m.server ELSE dhcpServerIp
    /\ pc' = "check"
    /\ UNCHANGED <<initialTransactionId, op, late, chipIp, reads>>

\* A read in parseDHCPResponse fails and nobody looks at its result: the header
\* is what the memory held, or what follows is read one field off.
ParseTorn ==
    /\ Listening /\ tears < MaxTears
    /\ localIp' \in Addresses /\ dhcpServerIp' \in Addresses
    /\ tears' = tears + 1 /\ torn' = TRUE
    /\ pc' = "check"
    /\ UNCHANGED <<initialTransactionId, op, late, chipIp>>

\* What request_DHCP_lease makes of the type of a reply.
OnOffer(xid) ==
    /\ dhcp_state = "DISCOVER" /\ dhcp_state' = "REQUEST"
    /\ transactionId' = xid
    /\ sent' = sent \union
           {[type |-> "REQUEST", xid |-> xid, ip |-> localIp', server |-> dhcpServerIp']}
    /\ UNCHANGED <<due, restarts>>

OnAck ==
    /\ dhcp_state = "REQUEST" /\ dhcp_state' = "LEASED"
    /\ renewDue' = FALSE /\ rebindDue' = FALSE
    /\ UNCHANGED <<transactionId, sent, restarts>>

StartOver ==
    /\ restarts < MaxRestarts /\ restarts' = restarts + 1
    /\ dhcp_state' = "START"
    /\ UNCHANGED <<transactionId, due, sent>>

Offer == \E m \in Replies : m.type = "OFFER" /\ Parse(m) /\ OnOffer(m.xid)

\* Fault: an OFFER that is late is taken for the ACK.
AckOrOffer == \E m \in Replies : m.type \in {"ACK", "OFFER"} /\ Parse(m) /\ OnAck

Ack == \E m \in Replies : m.type = "ACK" /\ Parse(m) /\ OnAck

\* Fault: a request that is refused is repeated.
NakRepeats == \E m \in Replies :
    /\ m.type = "NAK" /\ dhcp_state = "REQUEST" /\ Parse(m)
    /\ restarts < MaxRestarts /\ restarts' = restarts + 1
    /\ dhcp_state' = "REREQUEST"
    /\ UNCHANGED <<transactionId, due, sent>>

Nak == \E m \in Replies :
    m.type = "NAK" /\ dhcp_state = "REQUEST" /\ Parse(m) /\ StartOver

\* A reply out of turn is parsed as well.
OutOfTurn == \E m \in Replies :
    /\ \/ m.type = "OFFER" /\ dhcp_state = "REQUEST"
       \/ m.type \in {"ACK", "NAK"} /\ dhcp_state = "DISCOVER"
    /\ Parse(m)
    /\ UNCHANGED <<dhcp_state, transactionId, due, sent, restarts>>

\* A reply a read of which fails may pass for one of any type, or for silence:
\* a type that cannot be read is 255.
TornReply ==
    /\ ParseTorn
    /\ \/ \E xid \in initialTransactionId .. transactionId : OnOffer(xid)
       \/ OnAck
       \/ StartOver
       \/ UNCHANGED <<dhcp_state, transactionId, due, sent, restarts>>

\* A reply to another client, or with an id that is not accepted.
Foreign ==
    /\ Listening
    /\ pc' = "check"
    /\ UNCHANGED <<dhcp_state, xids, lease, due, call, sent, chipIp, reads>>

\* Nothing has come within _responseTimeout.
NoAnswer ==
    /\ Listening /\ StartOver
    /\ pc' = "check"
    /\ UNCHANGED <<initialTransactionId, lease, op, late, chipIp, reads>>

\* _timeout is over.
Late ==
    /\ pc \in {"loop", "check"} /\ ~late
    /\ late' = TRUE
    /\ UNCHANGED <<dhcp_state, xids, lease, due, pc, op, restarts, sent, chipIp, reads>>

\* Fault: the time is looked at only when no answer has come.
CheckAfterSilence ==
    /\ pc = "check"
    /\ IF dhcp_state = "LEASED" \/ (late /\ dhcp_state = "START")
       THEN Return(dhcp_state = "LEASED") /\ transactionId' = transactionId + 1
       ELSE pc' = "loop" /\ UNCHANGED <<transactionId, chipIp>>
    /\ UNCHANGED <<dhcp_state, initialTransactionId, lease, due, call, sent, reads>>

\* The end of the loop's body and its condition.
Check ==
    /\ pc = "check"
    /\ IF dhcp_state = "LEASED" \/ late
       THEN Return(dhcp_state = "LEASED") /\ transactionId' = transactionId + 1
       ELSE pc' = "loop" /\ UNCHANGED <<transactionId, chipIp>>
    /\ UNCHANGED <<dhcp_state, initialTransactionId, lease, due, call, sent, reads>>

Step ==
    \/ CheckRebind \/ NoSocket \/ Start \/ SendDiscover \/ SendRerequest
    \/ Offer \/ Ack \/ Nak \/ OutOfTurn \/ TornReply \/ Foreign \/ NoAnswer
    \/ Check

Next == Begin \/ TimerFires \/ Maintain \/ Step \/ Late

Spec == Init /\ [][Next]_vars

\* The code runs, and _timeout is over some time, whatever arrives.
FairSpec == Spec /\ WF_vars(Step) /\ WF_vars(Late)

----------------------------------------------------------------------------
(* Properties *)

Messages ==
    [type : {"DISCOVER", "REQUEST"}, xid : Nat,
     ip : Addresses, server : Addresses]

\* Every variable has its type; the ids that are accepted are not none.
TypeOK ==
    /\ dhcp_state \in {"START", "DISCOVER", "REQUEST", "LEASED", "REREQUEST"}
    /\ initialTransactionId \in Nat
    /\ transactionId \in Nat /\ transactionId >= initialTransactionId
    /\ localIp \in Addresses /\ dhcpServerIp \in Addresses
    /\ renewDue \in BOOLEAN /\ rebindDue \in BOOLEAN
    /\ pc \in {"idle", "request", "loop", "check", "rebind?"}
    /\ op \in {"begin", "renew", "rebind"}
    /\ late \in BOOLEAN /\ restarts \in 0 .. MaxRestarts
    /\ sent \subseteq Messages
    /\ chipIp \in Addresses
    /\ tears \in 0 .. MaxTears /\ torn \in BOOLEAN

Requested(ip) ==
    \E m \in sent : m.type = "REQUEST" /\ m.ip = ip /\ m.server = ip

\* An address is given to the chip only when its server has been asked for it,
\* by name: an offer that is late, doubled or of another server is no lease.
\* (Unless a read of a reply has failed since the lease was reset: any bytes
\* may then be taken for an ACK.)
ChipIpRequested ==
    [][chipIp' \notin {chipIp, None} => torn \/ Requested(chipIp')]_vars

\* A REQUEST names an address and a server: none is sent with what a NAK or a
\* reset has left behind.  (Unless a read of a reply has failed since the lease
\* was reset: the server it names may then have been left 0.)
RequestsComplete ==
    [][\A m \in sent' \ sent :
           m.type = "REQUEST" => torn' \/ (m.ip # None /\ m.server # None)]_vars

\* request_DHCP_lease returns, however much other traffic there is.
RequestReturns == pc = "request" ~> pc \in {"idle", "rebind?"}

\* What the states of the client say of the address and the server it knows,
\* as long as no read has failed: with the type invariant it is preserved by
\* every step.
LeaseKnown ==
    /\ dhcp_state = "LEASED" => torn \/ Requested(localIp)
    /\ dhcp_state \in {"LEASED", "REREQUEST"} =>
           torn \/ (localIp # None /\ dhcpServerIp # None)

DhcpInv == TypeOK /\ LeaseKnown

----------------------------------------------------------------------------
(* What is said of the code and does not hold of it. *)

\* After a renewal that has failed, a later maintain() tries again.  (It does
\* not hold: in the states DISCOVER, REQUEST and REREQUEST checkLease does nothing,
\* and a request that times out or has no socket leaves them behind.)
WillRetry ==
    pc = "idle" /\ op = "renew" => dhcp_state \in {"START", "LEASED"}

\* A REQUEST takes up the offer it answers.  (It does not hold: the server of
\* an earlier offer is kept, and named beside the address of another.)
RequestMatchesOffer ==
    tears = 0 => \A m \in sent : m.type = "REQUEST" => m.server = m.ip

\* Every REQUEST names a server.  (It does not hold: when the read of the server
\* in an OFFER fails, nobody notices, and 0.0.0.0 is named.)
RequestNamesServer ==
    \A m \in sent : m.type = "REQUEST" => m.server # None
=============================================================================
