-------------------------------- MODULE Dns --------------------------------
(* DNSClient: getHostByName turns the name of a host into its address.  It  *)
(* opens a UDP socket, sends a query, waits for a datagram and reads an     *)
(* address out of it.  The socket is the one Datagrams describes, which     *)
(* UdpRecv implements; BuildRequest is modelled by the query it sends.      *)
(*                                                                          *)
(* A text is a sequence of characters, and a character is a digit 0..9, DOT *)
(* or a letter.  A datagram is a sequence of cells: a byte of a name is a   *)
(* cell, and so is every other field, an address included.  A name server   *)
(* answers a query when it likes, also after the lookup was given up.       *)
(*                                                                          *)
(* A definition whose comment begins with "Fault" is a plausible mistake in *)
(* the code, kept beside the definition it would replace.                   *)
EXTENDS Integers, FiniteSets, SequencesExt

CONSTANTS
    Server,     \* address of the name server, a number
    Stranger,   \* address of another host that sends datagrams
    Hosts,      \* the texts looked up
    Zone,       \* what the server knows of each name
    Ids,        \* values of millis() as a request identifier
    Ports,      \* local ports (16)
    MaxAsked,   \* bound: queries that differ
    MaxIn,      \* bound: datagrams in the socket
    Texts       \* the texts inet_aton is checked on

INADDR_NONE == 0 - 1
NOWHERE == 0        \* 0.0.0.0: no lease has named a server

ASSUME DnsAssumption ==
    /\ Server \in Nat \ {NOWHERE} /\ Stranger \in Nat \ {NOWHERE, Server}
    /\ Ids \subseteq Nat /\ Ports \subseteq Nat \ {0}
    /\ MaxAsked \in Nat /\ MaxIn \in Nat

DOT == 10

\* uint16_t, uint8_t and where the two high bits of a byte are clear
WORD == 65536
BYTE == 256
LABEL_COMPRESSION == 64

SUCCESS == 1
TIMED_OUT == -1
INVALID_SERVER == -2
TRUNCATED == -3
INVALID_RESPONSE == -4

DNS_HEADER_SIZE == 4    \* identifier, flags, questions, answers
TYPE_A == 1
CLASS_IN == 1
ADDRESS_SIZE == 1

\* What the flags of a header say.
QUERY == 0
RESPONSE == 1
FAILED == 2         \* a response that is truncated or has an error code

VARIABLES
    queue, remote, rest, got,   \* the socket, as in Datagrams
    port,           \* the local port it is open on; 0: it is closed
    moving,         \* a datagram has come in since the last read
    iDNSServer, iRequestId,
    aResult,        \* the caller's address
    ret,            \* what getHostByName returns, or has returned
    cpu,            \* where the code is and its locals
    asked,          \* history: the queries that were sent
    torn            \* history: a read has failed in this lookup

Udp == INSTANCE Datagrams WITH Nobody <- 0

socket == <<queue, remote, rest, got, port, moving>>
object == <<iDNSServer, iRequestId>>
result == <<aResult, ret>>
vars == <<socket, object, result, cpu, asked, torn>>

UNSET == -1     \* a local that nothing was assigned to

Idle == [pc |-> "idle", host |-> <<>>,
         id |-> 0, flags |-> 0, questions |-> 0, answers |-> 0,
         len |-> UNSET, type |-> 0, class |-> 0, rdlength |-> 0]

Init ==
    /\ Udp!Init /\ port = 0 /\ moving = FALSE
    /\ iDNSServer = INADDR_NONE /\ iRequestId = 0
    /\ aResult = 0 /\ ret = 0
    /\ cpu = Idle
    /\ asked = {} /\ torn = FALSE

----------------------------------------------------------------------------
(* Texts *)

AtonStart == [ok |-> TRUE, acc |-> 0, dots |-> 0, result |-> <<0, 0, 0, 0>>]

\* The body of inet_aton's loop.
Aton(s, c) ==
    IF s.ok /\ c \in 0 .. 9 /\ 10 * s.acc + c <= 255
    THEN [s EXCEPT !.acc = 10 * @ + c]
    ELSE IF s.ok /\ c = DOT /\ s.dots < 3
    THEN [s EXCEPT !.result[s.dots + 1] = s.acc, !.dots = @ + 1, !.acc = 0]
    ELSE [s EXCEPT !.ok = FALSE]

\* (A text it does not accept may leave numbers in the caller's address.)
inet_aton(address) ==
    LET end == FoldLeft(Aton, AtonStart, address)
    IN  [ok |-> end.ok /\ end.dots = 3,
         result |-> [end.result EXCEPT ![4] = end.acc]]

Address(quad) == FoldLeft(LAMBDA n, octet : BYTE * n + octet, 0, quad)

\* The sections of a host's name that BuildRequest writes: none is empty.
Sections(host) ==
    LET Section(s, c) ==
            IF c # DOT THEN [s EXCEPT !.open = Append(@, c)]
            ELSE IF s.open = <<>> THEN s
            ELSE [closed |-> Append(s.closed, s.open), open |-> <<>>]
    IN  FoldLeft(Section, [closed |-> <<>>, open |-> <<>>], Append(host, DOT)).closed

\* The name in a query: its sections, each behind its length, and a section of
\* length 0.
Question(host) ==
    FlattenSeq([i \in DOMAIN Sections(host) |-> <<Len(Sections(host)[i])>> \o Sections(host)[i]])
        \o <<0>>

----------------------------------------------------------------------------
(* Datagrams and where they come from.  Zone[name] has the server's records *)
(* for a name and the cells of an answer, where each record begins at its   *)
(* cell `at`.                                                               *)

RecordCells(record) ==
    record.name \o <<record.type, record.class, 0, Len(record.data)>> \o record.data

EndOf(record) == record.at + Len(RecordCells(record))

\* The records lie one behind the other.
InOrder(records, cells) ==
    /\ Len(cells) + 1 = IF records = <<>> THEN 1 ELSE EndOf(records[Len(records)])
    /\ \A i \in DOMAIN records :
        /\ records[i].at = IF i = 1 THEN 1 ELSE EndOf(records[i - 1])
        /\ EndOf(records[i]) <= Len(cells) + 1
        /\ \A k \in DOMAIN RecordCells(records[i]) :
               cells[records[i].at + k - 1] = RecordCells(records[i])[k]

\* At each mark of a name a section begins behind its length.  The name ends
\* with a section of length 0 or with a pointer, which is two cells.
IsWalk(name, marks) ==
    /\ 1 \in marks /\ marks \subseteq DOMAIN name
    /\ \A m \in marks :
        \/ name[m] = 0 /\ m = Len(name)
        \/ name[m] \in 1 .. LABEL_COMPRESSION - 1 /\ m + name[m] + 1 \in marks
        \/ name[m] \in LABEL_COMPRESSION .. BYTE - 1 /\ m + 1 = Len(name)

IsName(name) == \E marks \in SUBSET DOMAIN name : IsWalk(name, marks)

IsPlainName(name) ==
    \E marks \in SUBSET DOMAIN name :
        IsWalk(name, marks) /\ \A m \in marks : name[m] < LABEL_COMPRESSION

Record == [at : Nat, name : Seq(Nat), type : 0 .. WORD - 1, class : 0 .. WORD - 1, data : Seq(Nat)]

ASSUME ZoneAssumption ==
    /\ \A name \in DOMAIN Zone :
        /\ name \in Seq(Nat) /\ IsPlainName(name)
        /\ Zone[name].records \in Seq(Record) /\ Zone[name].cells \in Seq(Nat)
        /\ InOrder(Zone[name].records, Zone[name].cells)
        /\ \A i \in DOMAIN Zone[name].records :
               /\ IsName(Zone[name].records[i].name)
               /\ Len(Zone[name].records[i].data) < WORD
    /\ \A host \in Hosts : inet_aton(host).ok \/ Question(host) \in DOMAIN Zone

\* What a datagram holds behind its header: the question and the answers.
Body(name, cells) == name \o <<TYPE_A, CLASS_IN>> \o cells

Reply(query, flags, records, cells) ==
    <<query.id, flags, 1, Len(records)>> \o Body(query.name, cells)

\* The server's answer to a query: its records, none of them, or an error.
Replies(query) ==
    {Reply(query, RESPONSE, Zone[query.name].records, Zone[query.name].cells),
     Reply(query, RESPONSE, <<>>, <<>>), Reply(query, FAILED, <<>>, <<>>)}

\* It comes to the port the query was sent from, whoever has it now.
Arrive(datagram) ==
    /\ port # 0 /\ Len(queue) < MaxIn
    /\ Udp!Arrive(datagram)
    /\ moving' = TRUE
    /\ UNCHANGED <<port, object, result, cpu, asked, torn>>

ServerAnswers ==
    \E query \in asked : \E data \in Replies(query) :
        /\ query.port = port
        /\ Arrive([from |-> Server, data |-> data])

Environment == ServerAnswers \/ \E data \in {<<>>, <<0>>} : Arrive([from |-> Stranger, data |-> data])

----------------------------------------------------------------------------
(* getHostByName *)

At(label) == cpu.pc = label

Goto(label) == cpu' = [cpu EXCEPT !.pc = label]

Leave == cpu' = [Idle EXCEPT !.pc = "stop"]

\* A new DNSClient and a new address, and begin(): the lease may have named no
\* server.
Begin(server) ==
    /\ At("idle")
    /\ iDNSServer' = server /\ iRequestId' = 0
    /\ queue' = <<>> /\ remote' = 0 /\ rest' = <<>> /\ got' = <<>> /\ moving' = FALSE
    /\ aResult' = 0 /\ ret' = 0
    /\ Goto("lookup")
    /\ torn' = FALSE
    /\ UNCHANGED <<port, asked>>

\* The answers that need no network.
LookupLocal(host) ==
    /\ At("lookup")
    /\ \/ /\ inet_aton(host).ok
          /\ aResult' = Address(inet_aton(host).result) /\ ret' = 1
       \/ /\ ~inet_aton(host).ok
          /\ \/ iDNSServer = INADDR_NONE /\ ret' = INVALID_SERVER
             \/ iDNSServer # INADDR_NONE /\ ret' = 0     \* no socket
          /\ UNCHANGED aResult
    /\ cpu' = Idle
    /\ UNCHANGED <<socket, object, asked, torn>>

Lookup(host, local) ==
    /\ At("lookup") /\ ~inet_aton(host).ok /\ iDNSServer # INADDR_NONE
    /\ Udp!Reset /\ port' = local /\ moving' = FALSE
    /\ cpu' = [Idle EXCEPT !.pc = "request", !.host = host]
    /\ UNCHANGED <<object, result, asked, torn>>

\* beginPacket() takes any address but 0.  A query the chip could not send
\* ends the lookup with 0.
Request(id) ==
    /\ At("request")
    /\ \/ /\ iDNSServer # NOWHERE
          /\ iRequestId' = id
          /\ asked' = asked \union
                 {[id |-> id, port |-> port, name |-> Question(cpu.host)]}
          /\ Cardinality(asked') <= MaxAsked
          /\ cpu' = [Idle EXCEPT !.pc = "wait"]
          /\ UNCHANGED ret
       \/ /\ iRequestId' \in {iRequestId, id}
          /\ Leave
          /\ UNCHANGED <<asked, ret>>
    /\ UNCHANGED <<socket, iDNSServer, aResult, torn>>

\* Fault: a lookup that failed leaves its socket open.
StopForgotten ==
    /\ At("stop")
    /\ IF ret = SUCCESS THEN Udp!Reset /\ port' = 0 /\ moving' = FALSE ELSE UNCHANGED socket
    /\ cpu' = Idle
    /\ UNCHANGED <<object, result, asked, torn>>

Stop ==
    /\ At("stop")
    /\ Udp!Reset /\ port' = 0 /\ moving' = FALSE
    /\ cpu' = Idle
    /\ UNCHANGED <<object, result, asked, torn>>

----------------------------------------------------------------------------
(* ProcessResponse.  Its result is a uint16_t: no error is negative in the   *)
(* caller, and TIMED_OUT does not make it wait again.                       *)

Return(code) == ret' = code % WORD /\ Leave /\ UNCHANGED aResult

\* A datagram without data is none.
WaitTake ==
    /\ At("wait")
    /\ Udp!Take
    /\ IF rest' # <<>> THEN Goto("source") ELSE UNCHANGED cpu
    /\ moving' = FALSE
    /\ UNCHANGED <<port, object, result, asked, torn>>

\* Fault: the wait has no end.
WaitForever ==
    /\ At("wait")
    /\ UNCHANGED vars

\* (Also with a datagram in the socket, if its size was read while it moved.)
WaitTimeout ==
    /\ At("wait")
    /\ Return(TIMED_OUT)
    /\ UNCHANGED <<socket, object, asked, torn>>

CheckSource ==
    /\ At("source")
    /\ \/ remote # iDNSServer /\ Return(INVALID_SERVER)
       \/ remote = iDNSServer /\ Len(rest) < DNS_HEADER_SIZE /\ Return(TRUNCATED)
       \/ /\ remote = iDNSServer /\ Len(rest) >= DNS_HEADER_SIZE
          /\ Goto("header")
          /\ UNCHANGED result
    /\ UNCHANGED <<socket, object, asked, torn>>

\* read(buffer, n): it fails at the end of the datagram, and where the size is
\* read while another datagram comes in.
Read(n) == Len(rest) >= n /\ Udp!Read(n) /\ moving' = FALSE /\ UNCHANGED <<port, torn>>

ReadFails ==
    /\ rest = <<>> \/ moving
    /\ moving' = FALSE /\ torn' = TRUE
    /\ UNCHANGED <<queue, remote, rest, got, port>>

\* A loop that reads n cells and drops them: a read that fails loses one.
SkipCells(n) ==
    /\ \E k \in {n, n - 1, Len(rest)} :
           /\ k \in 0 .. n /\ (k < n => moving \/ k = Len(rest))
           /\ Udp!Skip(k)
           /\ torn' = (torn \/ k < n)
    /\ moving' = FALSE
    /\ UNCHANGED port

\* read() of one cell into a local of that many values; if it fails, the local
\* is one of others.
ReadInto(local, values, others, label) ==
    \/ Read(1) /\ cpu' = [cpu EXCEPT ![local] = got'[1] % values, !.pc = label]
    \/ /\ ReadFails
       /\ \E value \in others : cpu' = [cpu EXCEPT ![local] = value, !.pc = label]

\* The rest of the datagram is read before the call returns.
FlushAndReturn(code) ==
    Udp!Skip(Len(rest)) /\ moving' = FALSE /\ UNCHANGED <<port, torn>> /\ Return(code)

\* The header holds what its memory held before if it could not be read.
ReadHeader ==
    /\ At("header")
    /\ \/ /\ Read(DNS_HEADER_SIZE)
          /\ cpu' = [cpu EXCEPT !.pc = "check", !.id = got'[1], !.flags = got'[2],
                                !.questions = got'[3], !.answers = got'[4]]
       \/ /\ ReadFails
          /\ \E id \in Ids, flags \in {QUERY, RESPONSE}, n \in 0 .. 1 :
                 cpu' = [cpu EXCEPT !.pc = "check", !.id = id, !.flags = flags,
                                    !.questions = n, !.answers = n]
    /\ UNCHANGED <<object, result, asked>>

\* Fault: the identifier is not compared.
CheckHeaderFlags ==
    /\ At("check")
    /\ \/ cpu.flags = QUERY /\ FlushAndReturn(INVALID_RESPONSE)
       \/ cpu.flags = FAILED /\ FlushAndReturn(-5)
       \/ cpu.flags = RESPONSE /\ cpu.answers = 0 /\ FlushAndReturn(-6)
       \/ /\ cpu.flags = RESPONSE /\ cpu.answers > 0
          /\ Goto("name")
          /\ UNCHANGED <<socket, result, torn>>
    /\ UNCHANGED <<object, asked>>

CheckHeader ==
    /\ At("check")
    /\ LET answered == cpu.id = iRequestId /\ cpu.flags # QUERY
       IN  \/ ~answered /\ FlushAndReturn(INVALID_RESPONSE)
           \/ answered /\ cpu.flags = FAILED /\ FlushAndReturn(-5)
           \/ answered /\ cpu.flags # FAILED /\ cpu.answers = 0 /\ FlushAndReturn(-6)
           \/ /\ answered /\ cpu.flags # FAILED /\ cpu.answers > 0
              /\ Goto("name")
              /\ UNCHANGED <<socket, result, torn>>
    /\ UNCHANGED <<object, asked>>

Parse == UNCHANGED <<object, result, asked>>

\* The loops over the sections of a name, of a question as long as there are
\* questions and of an answer's record afterwards.
ReadLength ==
    /\ At("name")
    /\ ReadInto("len", BYTE, IF cpu.len = UNSET THEN {0, 1, BYTE - 1} ELSE {cpu.len}, "section")
    /\ Parse

\* Only the loop over an answer's name knows pointers.
IsPointer == cpu.questions = 0 /\ cpu.len >= LABEL_COMPRESSION

\* while(len--) leaves 255.
SkipSection ==
    /\ At("section") /\ cpu.len > 0 /\ ~IsPointer
    /\ SkipCells(cpu.len)
    /\ cpu' = [cpu EXCEPT !.pc = "name", !.len = BYTE - 1]
    /\ Parse

\* Fault: the name goes on behind a pointer.
SkipPointerGoesOn ==
    /\ At("section") /\ IsPointer
    /\ SkipCells(1)
    /\ Goto("name")
    /\ Parse

SkipPointer ==
    /\ At("section") /\ IsPointer
    /\ SkipCells(1)
    /\ Goto("type")
    /\ Parse

EndName ==
    /\ At("section") /\ cpu.len = 0
    /\ Goto(IF cpu.questions > 0 THEN "question" ELSE "type")
    /\ UNCHANGED <<socket, torn>> /\ Parse

\* A question's type and class.
SkipQuestion ==
    /\ At("question")
    /\ SkipCells(2)
    /\ cpu' = [cpu EXCEPT !.pc = "name", !.questions = @ - 1, !.len = UNSET]
    /\ Parse

ReadRecord ==
    /\ \/ At("type") /\ ReadInto("type", WORD, {0, TYPE_A}, "class")
       \/ At("class") /\ ReadInto("class", WORD, {0, CLASS_IN}, "ttl")
       \/ At("ttl") /\ SkipCells(1) /\ Goto("rdlength")
       \/ At("rdlength") /\ ReadInto("rdlength", WORD, {0, ADDRESS_SIZE}, "answer")
    /\ Parse

CheckAnswer ==
    /\ At("answer")
    /\ LET isAddress == cpu.type = TYPE_A /\ cpu.class = CLASS_IN
       IN  \/ isAddress /\ cpu.rdlength # ADDRESS_SIZE /\ FlushAndReturn(-9)
           \/ /\ isAddress /\ cpu.rdlength = ADDRESS_SIZE
              /\ Goto("address")
              /\ UNCHANGED <<socket, result, torn>>
           \/ /\ ~isAddress
              /\ Goto("data")
              /\ UNCHANGED <<socket, result, torn>>
    /\ UNCHANGED <<object, asked>>

\* read() may fail: SUCCESS is returned all the same.
ReadAddress ==
    /\ At("address")
    /\ \/ Read(1) /\ aResult' = got'[1]
       \/ ReadFails /\ UNCHANGED aResult
    /\ ret' = SUCCESS
    /\ Leave
    /\ UNCHANGED <<object, asked>>

\* A record of another type is skipped.
SkipData ==
    /\ At("data")
    /\ SkipCells(cpu.rdlength)
    /\ cpu' = [cpu EXCEPT !.pc = IF cpu.answers = 1 THEN "end" ELSE "name",
                          !.answers = @ - 1, !.len = UNSET]
    /\ Parse

NoAnswer ==
    /\ At("end")
    /\ FlushAndReturn(-10)
    /\ UNCHANGED <<object, asked>>

----------------------------------------------------------------------------

Caller ==
    \/ \E server \in {INADDR_NONE, NOWHERE, Server} : Begin(server)
    \/ \E host \in Hosts : LookupLocal(host) \/ \E local \in Ports : Lookup(host, local)
    \/ \E id \in Ids : Request(id)

ProcessResponse ==
    \/ WaitTake \/ CheckSource \/ ReadHeader \/ CheckHeader
    \/ ReadLength \/ SkipSection \/ SkipPointer \/ EndName \/ SkipQuestion
    \/ ReadRecord \/ CheckAnswer \/ ReadAddress \/ SkipData \/ NoAnswer

Next == Caller \/ ProcessResponse \/ WaitTimeout \/ Stop \/ Environment

Spec == Init /\ [][Next]_vars

\* The code goes on, and the clock does.
ReturningSpec ==
    /\ Spec
    /\ WF_vars(ProcessResponse) /\ WF_vars(WaitTimeout) /\ WF_vars(Stop)
    /\ WF_vars(\E id \in Ids : Request(id))
    /\ WF_vars(\E host \in Hosts : LookupLocal(host))

----------------------------------------------------------------------------
(* Properties *)

Labels == {"idle", "lookup", "request", "wait", "source", "header", "check", "name",
           "section", "question", "type", "class", "ttl", "rdlength", "answer",
           "address", "data", "end", "stop"}

Locals ==
    [pc : Labels, host : Hosts \union {<<>>}, id : Nat, flags : Nat,
     questions : Nat, answers : Nat, len : UNSET .. BYTE - 1,
     type : 0 .. WORD - 1, class : 0 .. WORD - 1, rdlength : 0 .. WORD - 1]

Queries == [id : Ids, port : Ports, name : DOMAIN Zone]

\* Every variable has its type (aResult has the one of AddressIsRight); the
\* socket is open only while a lookup is under way.
TypeOK ==
    /\ queue \in Seq([from : {Server, Stranger}, data : Seq(Nat)])
    /\ remote \in {0, Server, Stranger} /\ rest \in Seq(Nat) /\ got \in Seq(Nat)
    /\ port \in Ports \union {0} /\ (port = 0 <=> At("idle") \/ At("lookup"))
    /\ iDNSServer \in {INADDR_NONE, NOWHERE, Server} /\ iRequestId \in Ids \union {0}
    /\ ret \in INVALID_SERVER .. WORD - 1
    /\ cpu \in Locals /\ asked \subseteq Queries
    /\ torn \in BOOLEAN /\ moving \in BOOLEAN

AddressesOf(name) ==
    {Zone[name].records[i].data[1] :
        i \in {j \in DOMAIN Zone[name].records : Zone[name].records[j].type = TYPE_A}}

\* An address that came over the network is one of the name that was asked for
\* under the lookup's identifier and port: no answer to an earlier lookup, part
\* of a name or other record is taken for it, whatever order the datagrams come
\* in, unless a read failed.  (If an identifier and a port come back, the name
\* may be an earlier one: the code does not compare it.)
AddressIsRight ==
    At("stop") /\ ret = SUCCESS /\ ~torn =>
        \E query \in asked : /\ query.id = iRequestId /\ query.port = port
                             /\ aResult \in AddressesOf(query.name)

\* An answer is never read beyond its end: a read fails only where another
\* datagram came in, whichever names, records and numbers of them it has.
StaysInAnswer == [][~torn /\ torn' => moving]_vars

\* A lookup returns, unless a read failed: the name server may be silent, send
\* an error or answer another query.
LookupReturns == ~At("idle") ~> At("idle") \/ torn

Number(digits) ==
    LET Value[i \in 0 .. Len(digits)] ==
            IF i = 0 THEN 0 ELSE 10 * Value[i - 1] + digits[i]
    IN  Value[Len(digits)]

\* The parts of a text between its dots.
Parts(text) ==
    LET dots == SetToSortSeq({i \in DOMAIN text : text[i] = DOT}, <)
        ends == <<0>> \o dots \o <<Len(text) + 1>>
    IN  [k \in 1 .. Len(dots) + 1 |-> SubSeq(text, ends[k] + 1, ends[k + 1] - 1)]

\* A text is taken for an address exactly if it is four numbers up to 255 with
\* dots between them, where an empty one is 0, and these are the address.
AtonIsAddress ==
    \A text \in Texts :
        LET parts == Parts(text)
            isAddress == /\ Len(parts) = 4
                         /\ \A k \in 1 .. 4 : \A i \in DOMAIN parts[k] : parts[k][i] \in 0 .. 9
                         /\ \A k \in 1 .. 4 : Number(parts[k]) <= 255
        IN  /\ inet_aton(text).ok <=> isAddress
            /\ isAddress => inet_aton(text).result = [k \in 1 .. 4 |-> Number(parts[k])]

----------------------------------------------------------------------------
(* What each label of the code may rely on: preserved by every step.        *)

\* What the name server has sent to the port answers a query sent from it.
ArrivedRight ==
    \A i \in DOMAIN queue : queue[i].from = Server =>
        \E query \in asked : query.port = port /\ queue[i].data \in Replies(query)

\* Queries go to the server only, and a datagram is read only if it is its.
ServerRight ==
    /\ At("lookup") \/ At("request") => ret = 0
    /\ At("request") =>
           iDNSServer # INADDR_NONE /\ cpu.host \in Hosts /\ ~inet_aton(cpu.host).ok
    /\ At("wait") \/ At("source") => iDNSServer = Server
    /\ (At("source") \/ At("header")) /\ remote = Server =>
           \E query \in asked : query.port = port /\ rest \in Replies(query)
    /\ At("header") => remote = Server

\* A header that was read is the one of the datagram.
HeaderRight ==
    At("check") /\ ~torn /\ cpu.answers > 0 =>
        \E query \in asked :
            /\ query.port = port /\ cpu.id = query.id
            /\ cpu.questions = 1 /\ cpu.answers = Len(Zone[query.name].records)
            /\ rest = Body(query.name, Zone[query.name].cells)

Walking == {"name", "section", "question", "type", "class", "ttl", "rdlength", "answer",
            "address", "data"}

CountsRight ==
    /\ cpu.pc \in Walking => cpu.answers > 0
    /\ At("question") => cpu.questions > 0

\* Where the code is in a name of which it has read n cells.
InName(name, marks, n) ==
    /\ IsWalk(name, marks)
    /\ \/ At("name") /\ n + 1 \in marks
       \/ At("section") /\ n \in marks /\ cpu.len = name[n]

InQuestion(name, n) ==
    \/ \E marks \in SUBSET DOMAIN name :
           InName(name, marks, n) /\ \A m \in marks : name[m] < LABEL_COMPRESSION
    \/ At("question") /\ n = Len(name)

\* Where it is in a record, and what it has read.
InRecord(record, n) ==
    \/ \E marks \in SUBSET DOMAIN record.name : InName(record.name, marks, n)
    \/ At("type") /\ n = Len(record.name)
    \/ At("class") /\ n = Len(record.name) + 1 /\ cpu.type = record.type
    \/ /\ \/ At("ttl") /\ n = Len(record.name) + 2
          \/ At("rdlength") /\ n = Len(record.name) + 3
       /\ cpu.type = record.type /\ cpu.class = record.class
    \/ /\ cpu.pc \in {"answer", "address", "data"} /\ n = Len(record.name) + 4
       /\ cpu.type = record.type /\ cpu.class = record.class
       /\ cpu.rdlength = Len(record.data)

\* Where it is in the answer to a query of whose body it has read n cells.
InBody(query, n) ==
    LET records == Zone[query.name].records
    IN  \/ /\ cpu.questions = 1 /\ cpu.answers = Len(records)
           /\ InQuestion(query.name, n)
        \/ /\ cpu.questions = 0
           /\ \E i \in DOMAIN records :
                /\ cpu.answers = Len(records) - i + 1
                /\ InRecord(records[i], n - (Len(query.name) + 1 + records[i].at))

\* The rest of the datagram is what the answer has behind the first n cells.
Behind(query, n) ==
    LET body == Body(query.name, Zone[query.name].cells)
    IN  SubSeq(body, n + 1, Len(body))

\* As long as no read has failed the code stands where it takes itself to be,
\* in an answer to the query of this lookup.
InAnswer ==
    cpu.pc \in Walking /\ ~torn =>
        \E query \in asked : \E n \in 0 .. Len(Body(query.name, Zone[query.name].cells)) :
            /\ query.port = port /\ query.id = iRequestId
            /\ rest = Behind(query, n) /\ InBody(query, n)

AddressChecked ==
    At("address") => cpu.type = TYPE_A /\ cpu.class = CLASS_IN /\ cpu.rdlength = ADDRESS_SIZE

DnsInv ==
    /\ TypeOK /\ ArrivedRight /\ ServerRight /\ HeaderRight /\ CountsRight
    /\ InAnswer /\ AddressChecked /\ AddressIsRight

----------------------------------------------------------------------------
(* What is said of the code and does not hold of it. *)

\* beginPacket(host) returns 1, or 0 if the name could not be resolved.  (It
\* does not hold: getHostByName returns -2 without a server, and the errors of
\* ProcessResponse as numbers near 65535.)
FailureIsZero == [][At("stop") => ret \in {0, 1}]_vars

\* Every lookup returns.  (It does not hold: a read that fails behind a section
\* of the question's name leaves len at 255, and so do all the reads after it.)
LookupAlwaysReturns == ~At("idle") ~> At("idle")
=============================================================================
