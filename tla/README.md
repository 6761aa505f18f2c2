# Ethernet_STM32: verification project

TLA+ models of the W5500 Ethernet library for STM32 (`src/src/*.cpp`, `*.h`),
the TLC configurations that check them on small instances, and theorems that
TLAPS proves for every value of the constants. Paths below are relative to the
repository's root; `src/socket.cpp` is the library's file of that name.

To run: `tlc -config SocketPool.cfg MCEthernetSockets.tla` and so on (the table
of runs names the module of each configuration), `tlapm EthernetSocketsProofs.tla`.

## 1. Inventory

The library is single-threaded: the sketch calls it, and every call runs to its
end. The concurrency is between the driver, which sees one register per SPI
transfer, and the chip with the remote peers behind it, which change registers
at any time. No lock or interrupt is involved; no state is persisted.

| component | state | operations | uses |
|---|---|---|---|
| W5500 chip (external) | per socket: status `Sn_SR`, port, interrupt flags, two ring buffers with pointers and sizes | commands OPEN, LISTEN, CONNECT, DISCON, CLOSE, SEND, RECV; SYN, FIN, RST, data, acknowledgements from the peers | - |
| register access (`w5500.cpp/.h`) | none | `getTXFreeSize`, `getRXReceivedSize` (double reads), ring copies, `execCmdSn` | chip |
| socket layer (`socket.cpp/.h`) | `sock_is_sending`, `local_port` | `open close listen connect send recv peek`, UDP `startUDP bufferData sendUDP`; unused: `sendto recvfrom igmpsend` | register access |
| `EthernetClient` | `_sock`, static `_srcport` | `connect write available read peek stop connected status` | socket layer, `server_port`, DNS |
| `EthernetServer` | `_port`, shared `Ethernet.server_port[]` | `begin accept available write` | socket layer, temporary `EthernetClient`s |
| `EthernetUDP` | `_sock _port _remoteIP _remotePort _offset _remaining` | `begin beginMulticast stop beginPacket write endPacket parsePacket read peek flush` | socket layer, `server_port`, DNS |
| `DhcpClass` | state, transaction ids, addresses, lease times, counters | `beginWithDHCP checkLease` | one `EthernetUDP` |
| `DNSClient` | server, request id | `getHostByName inet_aton` | one `EthernetUDP` |
| `EthernetClass` | `server_port[]`, DNS server | `begin` (DHCP or static), `maintain`, getters | DHCP, registers |

How they interact: clients, servers and UDP objects (the ones inside the DHCP
and DNS clients included) share eight hardware sockets. There is no allocator:
each operation scans the status registers and takes the first socket whose
status looks free, and only `server_port` says which sockets a server owns. TCP
data goes through the chip's rings; the flag `sock_is_sending` is the only thing
the driver remembers of a SEND between two calls.

What is hard: registers read one after the other while the chip moves on (scans,
status and size, the two bytes of a size); a socket whose owner the peer has
taken away; flags that outlive the call that set them; pointers that wrap around
inside a copy; waits that depend on a peer; late, doubled and lost datagrams; a
clock that wraps around; renewals that fail.

What makes each part correct:

- *pool*: an object never tears down a socket in use; no socket is lost; a server
  knows its connections and, when polled, has a listening socket and opens no
  second one; `accept()` throws no unread data away; calls return.
- *double reads*: never more than there is, and a value the register had.
- *send and receive*: the bytes of one side arrive at the other in order, once;
  one SEND at a time; calls return, and data arrives.
- *DHCP*: the chip uses only addresses a server was asked for; requests are
  complete; requests end; the client keeps trying.
- *lease timers*: exact counters; a renewal comes; T1 and T2 within the lease.
- *UDP*: datagram boundaries hold; nothing is sent that was not written.
- *DNS*: only an answer to the question is taken; a lookup ends.

The hazards, each at its line and with the properties that cover it, are in
`PROJECT.json`.

## 2. Modules

| module | models | notes |
|---|---|---|
| `W5500Socket` | status, port and receive counter of each hardware socket; commands; chip and peer steps | external; taken from how the driver uses it |
| `EthernetSockets` | the pool: `connect`, `stop`, `read`, `write`, UDP `begin` and `stop`, server `begin`, `accept`, `available`, `write` | extends `W5500Socket` |
| `RegRead` | the double read of `Sn_TX_FSR` and `Sn_RX_RSR`, byte by byte | justifies the reads in the four modules below |
| `ByteStream` | what one direction of a TCP connection promises | abstract |
| `TcpSend` | `SOCKETClass::send` under `EthernetClient::write` on one socket, ring and peer | implements `ByteStream` |
| `TcpRecv` | `recv`, `peek`, `available`, `connected` on one socket, ring and peer | implements `ByteStream` |
| `Datagrams` | what the receiving half of a UDP socket promises | abstract |
| `UdpRecv` | `EthernetUDP::begin`, `stop`, `parsePacket`, `read`, `peek`, `flush` over `recv` on one socket and ring | implements `Datagrams` |
| `UdpSend` | `beginPacket`, `write`, `endPacket` with `startUDP`, `bufferData`, `sendUDP` on one socket and ring | |
| `Dns` | `getHostByName`, `inet_aton`, the query, the wait and the walk through the answer | its socket is the one of `Datagrams` |
| `Dhcp` | `request_DHCP_lease`, `parseDHCPResponse`, `checkLease`, `begin`, `maintain`; servers and network | its `renewDue` and `rebindDue` are the counters of `LeaseTimer` at 0 |
| `LeaseTimer` | the counters of `checkLease`, the clock, the lease times of an ACK | its request is `Dhcp` in one step |
| `MC...` | values of the constants for TLC | |
| `Rings` | lemmas on pointers that wrap around and on the cells of a ring | used by the proofs about `TcpSend`, `TcpRecv`, `UdpSend`, `UdpRecv`; `Dns` takes one on `%` |
| `...Proofs` | theorems | one for each of `EthernetSockets`, `TcpSend`, `TcpRecv` (with those about `RegRead`), `UdpSend`, `UdpRecv`, `Dhcp` (with those about `LeaseTimer`), `Dns` |

### Correspondence

*EthernetSockets.* `cpu` is the sketch's thread: `cpu.pc` names the place in the code
right before its next register access, the other fields are its locals. A label exists
wherever a step of the chip between two accesses can be seen. An operation may start
whenever `pc` is `idle`, in any order and any number of times, since the sketch is
arbitrary: `begin()` may be called twice, or after `available()`, and then opens a
second listening socket on the port. `connect`: `connect.scan` is one iteration of the
loop at `EthernetClient.cpp:33`, then `open` (46), `socket.connect` (48, with its
refusal of bad addresses), and the two polls of each round (53, 55). `stop`: DISCON,
polls for a second (`StopPolls` rounds), CLOSE by force, `server_port` cleared. `accept`
runs inside `available` and `write` and calls `stop` on its temporary client (`NoObj`)
and `begin` at its end. `send`, under either `write`, is a wait (`send.wait`): while the
peer is connected only `SendTaken` ends it, the peer's confirming and taking what was
sent, and nothing makes that happen; on any other status `send` gives up and closes the
socket, or finds what it waits for after all (`SendPoll`). What it sends is the subject
of `TcpSend`. An object without a socket has `_sock = 8`; the control byte `8 << 5` is 0
in eight bits, so `Chan` sends it to socket 0, as the unguarded `read()` does.
`InClients` are variables that hold what `available()` returned: several may name one
socket, and a stale one may still be stopped. Ports are `server_port` values; every
ephemeral and UDP port is `OtherPort`.

*TcpSend.* The k-th byte of a connection is written k, so that a byte that is
lost, doubled or overwritten in the ring shows. `latched - acked` bytes occupy
the ring. The free size may read as 0 while it moves (see `RegRead`), once
something was acknowledged. `given` and `cpu.live` are history. `write()` takes a
`size_t` and `send()` a `uint16_t`: `size % LENGTHS` bytes are sent, and `size` is
what `write()` returns. *TcpRecv* is the mirror image; `got` and `over` are
history: `over` is the status in which `connected()` found the end of the connection.
In CLOSED it does not look for unread data, in CLOSE_WAIT it does. The size of a read
becomes an `int16_t` (`Int16`), which may be negative or 0.

*UdpRecv.* The chip puts each datagram behind a header of 8 bytes, here two cells: the
sender and the length. `Byte(j, k)` is byte k of the j-th datagram, so that a byte of
one taken for a byte of another, or for a header, shows. `parsePacket()` is the loop
of `flush()`, the check of the size, and a `recv()` of the header, each of them a
label. A size that is read while a datagram arrives may read as 0 (`ReadsZero`).
`inbox` keeps every datagram of the open socket with the cell its header begins at
(`at`); it, `taken` and `got` are history. `_sock` is not kept: the accesses of a
stopped object, whose `_sock` is 8, reach socket 0, which is taken to be the one it
had.

*UdpSend.* Byte k of a datagram being built is k. `TX_FSR` does not count what was
written and not sent, and `Sn_TX_WR` reads as at the last SEND; `_offset` is what
the object adds to it. `sendUDP` polls SEND_OK and TIMEOUT, one label each, and
clears what it finds. `drafting` says that a datagram was begun (a sketch calls
`write` only then); `draft` counts what `write()` has accepted. Both are history.

*Dns.* A character is a digit, `DOT` or a letter; a datagram is a sequence of cells,
one for each byte of a name and one for each other field, an address included.
`Zone` is what the name server knows: for each name its records and the cells of an
answer, with the cell each record begins at. A name is a sequence of cells with marks
where a section begins behind its length (`IsWalk`); it ends with a section of length 0
or, in an answer, with a pointer. The server answers any query at any time, any number
of times or never, with its records, none, or an error, and another host sends
datagrams of its own.
Every loop of `ProcessResponse` is a label and reads `rest` as the code reads the
datagram. A read fails at the end of the datagram, or where the size is read while
another one arrives (`moving`), and then leaves its local as it was: `torn` records
that. The locals have the widths of
the code: `len` is a byte, the type, class and length of a record are words, and
results are `% WORD`, as `ProcessResponse` returns a `uint16_t`.

*RegRead.* The high byte is transferred first; the register only grows between
the calls of the driver, as RECV and SEND are the driver's own.

*Dhcp.* Messages are never removed from `sent`, and a reply to any message may
arrive at any time, any number of times or never: loss, doubling, delay and
reordering in one. A server offers one address, which has the server's name.
`Foreign` is traffic that is not accepted. `Late` is `_timeout`, `NoAnswer` is
`_responseTimeout`, at any moment. `parseDHCPResponse` ignores the results of its reads,
which fail when the size is read while another datagram arrives (see `RegRead`): the
header is then what the memory held, an option keeps its value, or what follows is read
one field off, so that any byte may be taken for the type and any four for an address.
`TornReply` is all of that at once: any address, server, accepted id and type, 255
included, which the caller takes for silence. `torn` records that a read has failed
since `reset_DHCP_lease`, which clears what it has left; an address that is nobody's
is that of a server that never answers.

*LeaseTimer.* `now` is `millis()` with `SEC` ticks a second and `WRAP` values.
`since` is the time since the ACK that the code has accounted for. `Options` are any
times, in any order, as a read that fails may lose one or put another in its place;
`Granted` are those a server sends. Its definitions
have names of their own (`TimersSpec`, `stage`, `BeginAgain`...), so that one module
can extend both it and `Dhcp`.

Every module keeps, beside the definitions, a few marked "Fault": plausible
mistakes that replace the definition after them, each of which some property
notices (`mutants` in `PROJECT.json`).

## 3. Runs

| run (configuration) | checks | instance | states |
|---|---|---|---|
| socket_pool (`SocketPool.cfg`) | `TypeOK`, `HalfClosedOnlyInStop`, `PassiveKnown`, `AcceptAddsNoListener`, `NoOrphanSocket`, `OpenTakesDeadSocket`, `CallsReturn`, `AcceptDropsNoData`, `KeepsListening` | 2 sockets, a client, an incoming client, a UDP object, a polled server | 448 000 |
| reg_read (`RegRead.cfg`) | `NeverTooMuch`, `RealValue`, `ReadEnds` | bytes of 3 values | 3 300 |
| tcp_send (`TcpSend.cfg`) | `TypeOK`, `FlagIsRight`, `StreamSpec`, `OneSendAtATime`, `WriteReturns`, `WrittenArrives` | ring of 2, pointers mod 4, lengths mod 6, writes of up to 6, 9 bytes | 27 000 |
| tcp_recv (`TcpRecv.cfg`) | `TypeOK`, `PeekIsNext`, `OverMeansRead`, `StreamSpec`, `ArrivedIsRead` | ring of 2, pointers mod 4, lengths mod 8, reads of up to 4, 7 bytes | 10 200 |
| udp_recv (`UdpRecv.cfg`) | `TypeOK`, `DatagramSpec`, `PollingServes` | ring of 5, pointers mod 10, 2 peers, 3 datagrams of up to 2 bytes, reads of up to 2 | 114 000 |
| udp_send (`UdpSend.cfg`) | `TypeOK`, `SentIsWritten`, `EndPacketReturns` | ring of 3, pointers mod 12, datagrams of up to 5 bytes in writes of up to 2 | 5 600 |
| dns (`Dns.cfg`) | `TypeOK`, `AddressIsRight`, `StaysInAnswer`, `LookupReturns` | 2 names, one with an alias, a numeric host; 2 ids, 2 ports, 2 queries, 1 datagram in the socket; every text of up to 6 of 5 characters | 146 000 |
| lease_timer (`LeaseTimer.cfg`) | `TimersTypeOK`, `CountersExact`, `RenewalComes` | 3 ticks a second, clock of 8, times of 2 and 5 s | 771 000 |
| dhcp (`Dhcp.cfg`) | `TypeOK`, `ChipIpRequested`, `RequestsComplete`, `RequestReturns` | 2 servers, 1 restart, 1 reply with a failing read, calls until 3 messages are out | 432 000 |

Bounds. Two sockets are enough for one object to take the socket of another, for a
scan to pass one, and for two servers to fight for the one that becomes free
(`Servers.cfg`, two ports, the same properties, is kept for that and passes). No
symmetry is used, as every instance with more than one of a kind checks liveness
too. `RxCap = 1`: properties only ask whether
there is unread data. `StopPolls`: the poll of `stop()` that is not the last one
is the same however many there are. A ring of 2 and pointers mod 4 wrap around
several times within 9 bytes, and a write of 5 needs three chunks; a write of 6 is
one of 0 with lengths mod 6, and a read of 4 is negative with lengths mod 8. A
receive ring of 5 holds a header and its data across its end, or two short
datagrams at once; one more begins a third while the first is read. That the
pointer's range is a multiple of the ring's is an assumption of the modules, true
of 65536 and 2048. A datagram of 5 is larger than the transmit ring of 3, and of 3
as large. Two queries with two ids and ports: an answer to the first lookup may
come to the second, whose id and port may be the same or not; a
second datagram in the socket would wait until the lookup is over and be dropped.
A clock of 8 ticks and seconds of 3 do not divide each other, so the wrap-around
falls on every phase of a second; polls are up to 7 ticks, two seconds and a
rest, apart. One restart and first ids of 1 make the ids of two attempts overlap
with those of the next call; three different messages are an attempt with a retry, or
one with a renewal, and another call follows. One reply with a failing read is enough
to leave anything behind in any state. `connect()` may be refused its address at any
time; `NoOrphanSocket` exempts a socket in INIT, the one way to lose a socket
(`UdpBeginFails.cfg` below), and says that there is no other.

Fairness. In the pool the code itself is fair, `WF(Driver)`: the thread keeps
running; nothing is assumed of the peers, not even that they take data, so that
`CallsReturn` and `KeepsListening` except a sketch that waits for one for ever
(`WaitsForPeer`: the polls of `connect()`, and a `write` whose peer stays connected and
takes nothing); and `loop()` calls `available()` again and again (`PollingSpec`), which
`KeepsListening` needs. `ConnectReturns` adds that a TCP handshake ends. `TcpSend`
adds that the chip ends a SEND and that a peer takes and acknowledges data (or the
connection breaks, which is always allowed), and strong fairness of a read of the
size that finds room: a read is torn only while the register moves, at most `SSIZE`
times without a SEND. `TcpRecv` adds the same for the received size, and a sketch
that keeps reading with a length that `recv()` takes as positive. `UdpRecv` has a
sketch that keeps calling `parsePacket()`, and strong fairness of the two reads of
the size that find something: a full ring moves no more. `UdpSend` adds that the
chip ends a SEND, one way or the other. In `Dns` the code goes on and the wait of five
seconds ends; nothing is assumed of the network. `RegRead` assumes nothing of the
chip: a register cannot grow for
ever. `Dhcp` adds that `_timeout` is over some time, `LeaseTimer` that time goes
on and `loop()` calls `maintain()`.

### What does not hold

Each of these runs checks one statement that a comment, a document or an example
of the repository makes, and TLC refutes it.

1. available_is_incoming (`AvailableIsIncoming.cfg`): a peer resets a served
   connection, its socket is CLOSED with `server_port` still set, `connect()`
   takes it, and `available()` returns the outgoing connection as a client.
2. connect_returns (`ConnectReturns.cfg`): the peer closes before the first poll;
   CLOSE_WAIT is neither ESTABLISHED nor CLOSED, and `connect()` never returns.
3. will_retry (`WillRetry.cfg`): a lease is due, its renewal gets no socket, and the
   state it leaves is one in which `maintain()` does nothing any more; likewise a
   renewal that times out.

More configurations are kept for the reader, each with a counterexample of a few
steps; they are not among the runs of `PROJECT.json`.

- `UdpBeginFails.cfg` (`MCEthernetSockets`): `connect()` to address or port 0 leaves
  its socket in INIT for good.
- `EofIsReal.cfg` (`TcpRecv`): data and FIN arrive between `recv()`'s read of the
  size and of the status; it returns 0, end of file, with data unread.
- `ConnectedUntilRead.cfg` (`TcpRecv`): data and RST arrive; `connected()` finds the
  socket CLOSED and answers 0 with the data unread, and a sketch that stops there
  loses it.
- `FailsWhenClosed.cfg` (`TcpSend`): `write()` on a lost connection reports
  success, once.
- `LongWriteArrives.cfg` (`TcpSend`): of a buffer longer than a `uint16_t` counts
  only the rest is sent, and all of it is reported as written.
- `StoppedCallsReturn.cfg` (`UdpRecv`): `flush()`, and `parsePacket()` with it, on an
  object that was stopped in the middle of a datagram waits for the rest for ever.
- `SentIsDraft.cfg` (`UdpSend`): a datagram larger than the ring overwrites its own
  start, as the free size does not count what it already holds; one without data
  sends what was written for the last one if that was never ended.
- `EndPacketEnds.cfg` (`UdpSend`): `endPacket()` on a stopped object waits for a flag
  that a closed socket never raises.
- `FailureIsZero.cfg` (`MCDns`): a lookup that fails returns neither 1 nor 0: -2
  without a server, and 65535 where `ProcessResponse` timed out.
- `LookupAlwaysReturns.cfg` (`MCDns`): a read that fails behind a section of the
  question's name leaves `len` at 255, and so do all the reads after it: the
  loop never ends.
- `TimersWithinLease.cfg` (`MCLeaseTimer`): T1 or T2 of an earlier reply survives
  an ACK of a shorter lease that does not name it.
- `RequestMatchesOffer.cfg` (`MCDhcp`): the REQUEST for the address of a second
  offer names the server of the first.
- `RequestNamesServer.cfg` (`MCDhcp`): the read of the server in an OFFER fails, and
  the REQUEST that answers it names 0.0.0.0.

## 4. Theorems

Proved with TLAPS, for every value of the constants that the named assumptions
of the modules allow (any number of sockets, objects, ports, servers, any size of
ring, pointer and buffer, any clock, any width of a byte):

- `EthernetSocketsProofs`: `TypeCorrect`. `TypeOK` is inductive with
  `IdleClean` and `TakerHasSocket`, which say that a label that uses `sock[obj]`
  has one. `PoolInvariant` proves the inductive invariant
  `PoolInv`, and from it `HalfClosedOnlyInStop`, `PassiveKnown`,
  `AcceptAddsNoListener` (theorem `AcceptKeepsOneListener`), `OpenTakesDeadSocket` and
  `AcceptDropsNoData`. None of them is inductive: that `accept()` adds no second
  listener needs to know what the scan of `accept()` has
  seen so far and that no other step can make a socket listen behind it
  (`ScanSoFar`); "OPEN takes a dead socket" needs that what a scan has read is
  still true (`ScanStillTrue`), for CLOSED sockets stay closed and CLOSE_WAIT
  sockets only ever close; `PassiveKnown` needs the port each label has set
  (`BeginPortSet`, `ActivePort`, `StopClosed`); `AcceptDropsNoData` needs that a
  peer in CLOSE_WAIT sends nothing more (`AcceptChecked`). `NoSocketLost` proves
  `NoOrphanSocket`, which speaks of the moments between two calls: `NoneLost` says it
  of every label, but for a new listening socket whose port is not noted yet, and
  `TakerInOrder` says that an object has no socket while it looks for one and that
  `stop()` works on the socket of its object.
- `TcpRecvProofs`, first part, about `RegRead`: `ReadInv` follows the two bytes of
  each read: as the register only grows, the high byte of a later read is no less than
  that of an earlier one, so two reads that agree enclose a moment at which the
  register had their value. From it `NeverTooMuch` and `RealValue`.
- `TcpSendProofs`: `SendInv` says at each label of `send()` whether a SEND is under
  way, which flags the socket has and that there is room for what will be copied;
  from it `TypeOK`, `FlagIsRight` and `OneSendAtATime`. `DataInv` adds where the
  bytes are: each one between `acked` and `latched` is in its cell, and the pointer
  is `latched` modulo its range. From both, every step is a step of `ByteStream` or
  a stutter (`SendsByteStream`, which says `StreamSpec`), provided that `MaxLen <= LENGTHS`:
  a longer write does not arrive (`LongWriteArrives.cfg`).
- `TcpRecvProofs`, second part: `RecvInv` is the mirror image of `SendInv` and
  `DataInv`: the pointer is `freed` modulo its range (`PointerRight`), unread bytes are
  in their cells, and what the sketch has got is what came before the pointer
  (`DataRight`); no more is copied than is there (`DataSeen`), and what `connected()`
  has found in CLOSE_WAIT is the end (`EndRight`). From it `TypeOK`, `PeekIsNext`,
  `OverMeansRead` and `StreamSpec`.
- `UdpSendProofs`: `SendInv` with `Drafted`: a datagram lies in the ring from the
  pointer of the last SEND to the one `write()` has left, and no flag of an old SEND
  is there when the next is given. From it `TypeOK` and `SentIsWritten`.
- `UdpRecvProofs`: `RecvInv` of `UdpRecv`. The datagrams lie one behind the other
  (`InboxInOrder`); `freed`, the cells given back, and `_remaining` add up to the end
  of the datagram taken last, and the pointer is `freed` modulo its range
  (`PointerRight`); what was received and not given back is in its cell (`DataRight`);
  `recv()` is asked for a header only where one begins and otherwise for no more than
  is left (`CallRight`), which is why it never takes a part of what it was asked for.
  `TypeOK` is not inductive without the last three: that `freed` never passes
  `received` is the framing of the datagrams. From `RecvInv` every step is a step of
  `Datagrams` or a stutter (`ReadsDatagrams`, which says `DatagramSpec`): a header is
  `Take`, `read()` is `Read`, each byte of `flush()` is `Skip(1)`, and a datagram that
  arrives writes over nothing that is left (`DatagramArrives`).
- `DhcpProofs`, first part: `DhcpInv` adds what the states know of the address and the
  server (`LeaseKnown`): as long as no read has failed since the lease was reset, in
  LEASED the address has been requested by name, and a lease that is renewed has both.
  `ChipIpRequested` and `RequestsComplete` are properties of steps and follow from it:
  only the end of a request that has a lease gives the chip an address (`ChipIpStep`),
  and a REQUEST is sent only to renew a lease or in answer to an OFFER (`RequestStep`).
  After a failed read they say nothing, and could not: `RequestNamesServer.cfg`.
  `DhcpTyped` is `TypeOK`.
- `DhcpProofs`, second part, about `LeaseTimer`: `TimerInv` adds to `CountersExact` that
  a request is only made without a lease, so that what replies do to T1 and T2 does not
  touch a running counter; the arithmetic of the clock and of whole seconds is in
  lemmas. `TimersTyped` is `TimersTypeOK`.
- `DnsProofs`: `DnsInv` of `Dns`. `AddressIsRight` says something of the moment the
  address has been read; that it holds depends on every step of the walk before. So
  `InAnswer` says that, as long as no read has failed, `rest` is an answer to a query of
  this lookup without its first n cells, for some n, and that the code stands at cell n
  where it takes itself to be: in the question's name at a mark of it or behind a length
  (`InQuestion`), or in the i-th record with the type, class and length of that record
  in its locals and as many answers left to read as there are records from there on
  (`InRecord`, `InBody`). `HeaderRight` says the same of the header, `ServerRight` and
  `ArrivedRight` that what is read came from the name server to this port. The lemmas
  are about cells: what is left after a read of k cells, that a record's fields are
  where the walk finds them (`RecordCells`), and that a name ends at its last mark,
  which is why `InAnswer` is inductive where `len` is the length of a section and the
  step behind a pointer is one cell. From it `TypeOK`, `AddressIsRight`, and
  `StaysInAnswer`: where the code stands there is always a cell left for the next read.
  No bound of the run is used: names, records, their number, sections, pointers, queries
  and datagrams are of any number and length.

The proofs about rings rest on `Rings`: a pointer that moves by n and one that is
counted without end stay congruent, and two cells less than a ring apart differ.

The assumptions are those each module names and TLC evaluates in its runs:
`SocketAssumption` and `ObjectAssumption` (at least one socket; ports are not 0; kinds
of objects are disjoint), `ByteAssumption`, `SendAssumption`, `RecvAssumption`,
`UdpSendAssumption` and `UdpRecvAssumption` (the pointer's range is a multiple of the
ring's), `TimerAssumption` (the sketch calls `maintain()` more often than the clock
wraps around), `DhcpAssumption`, `DnsAssumption` (the name server and the other host
have addresses of their own) and `ZoneAssumption` (what the name server answers is
well-formed: records one behind the other, names that end; and it knows each name that
is looked up, which are names whose sections are shorter than 64). The behaviour of
the chip in `W5500Socket` is an assumption too, and so are honest DHCP servers, which
acknowledge only their own address (`Honest`).

Model-checked only: the liveness properties, as fairness and ENABLED are out of
the prover's reach, and the violations. Every invariant of a run, every action
property and every refinement is also a theorem. What `inet_aton` makes of a text, and
`Question` of a host's name, are folds over data of any length, about which the
installed provers cannot prove anything: TLC compares `inet_aton` with a definition
over the parts of a text (`AtonIsAddress`, an assumption of `MCDns`), and the proofs use
of `Question` only what `ZoneAssumption` says of it.

## 5. Not modelled

- `sendto`, `recvfrom`, `igmpsend`: nothing in the library calls them;
- `beginMulticast`: it is `begin` with other registers;
- SPI transfers, chip select, reset: pure I/O;
- `begin` with addresses and the getters: writes and reads of registers;
- ephemeral port numbers, `local_port` (every caller passes a port);
- subnet mask, gateway and DNS server of a lease: stored and copied beside the
  address, with no control flow of their own; the layout of DHCP messages;
- `printByte`, `htons` and its like: conversions no property depends on;
- the example sketches: the order in which a sketch calls the library is arbitrary.

## 6. Plan

1. `Dhcp` composed with `LeaseTimer`: what the chip may do with an address after its
   lease.
2. An abstract allocator (each socket is free, owned by an object, or listening
   for a server) that `EthernetSockets` implements where the findings allow it.
