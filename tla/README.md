# EtherCard in TLA+

Models of EtherCard, the IPv4 stack for Arduino boards with an ENC28J60
Ethernet chip, with TLC configurations and TLAPS proofs. Paths such as
`tcpip.cpp:719` are relative to `src/` of the library.

## 1. The system

A sketch owns one packet buffer, `gPB`, used for receiving and for sending. Its
`loop()` calls `packetLoop(packetReceive())`: `packetReceive` copies one frame
out of the chip's ring, `packetLoop` answers ARP, ICMP, UDP and TCP from that
buffer, and with no frame (`plen == 0`) does what is pending: ARP requests,
the SYN of a request. There are no threads and no interrupt handlers in the
library. Concurrency comes from the chip, which stores frames while the program
runs; from the network, which loses, delays and repeats; from callbacks, which
call back into the library; and from the sketch, which calls any function
between two calls of `packetLoop`.

| Component | Source | State | Operations | Interacts with |
|---|---|---|---|---|
| ARP and destination resolution | `tcpip.cpp`, `EtherCard.cpp` | addresses, `waitgwmac`, `delaycnt`, `gwmacaddr`, one `destmacaddr` for DNS server and peer, four flags | `staticSetup`, `setGwIp`, idle `packetLoop`, ARP input, every sender | its MACs are used by all senders; TCP waits for the gateway |
| DNS | `dns.cpp` | `dnstid_l`, `dnsip`, `hisip` | `dnsLookup` with its three waits | waits for link, resolver and answer, runs `packetLoop` itself, clears and sets `hisip` |
| TCP client | `tcpip.cpp` | one connection state, callbacks, `tcp_fd`, `www_fd`, `result_fd` | `clientTcpReq`, `browseUrl`, `httpPost`, `tcpSend`, `tcpReply`, SYN, segment input | data-fill callback reads the stash; peer is `hisip` |
| TCP server | `tcpip.cpp` | `SEQ`, `info_data_len`, `seqnum` | `accept`, `httpServerReply...` | shares `gPB` |
| DHCP client | `dhcp.cpp` | `dhcpState`, `currentXid`, timers, lease | `dhcpSetup`, `DhcpStateMachine` | called first by `packetLoop`; sets addresses, calls `setGwIp`, switches the filter |
| UDP server | `udpserver.cpp` | table of listeners | listen, pause, resume, dispatch | callbacks, `gPB` |
| Receive ring and filter | `enc28j60.cpp` | `gNextPacketPtr`, `unreleasedPacket`, chip registers | `packetReceive`, `readPacketSlice`, `enableBroadcast`... | the chip |
| Transmission and registers | `enc28j60.cpp` | `Enc28j60Bank`, `retry`, `count`, the chip's registers | `initialize`, `packetSend` with retries, PHY registers, `copyin`/`copyout`, `powerDown`/`powerUp`, `doBIST` | the chip |
| Stash | `stash.cpp` | free map, write and read buffer, chip memory | `create`, `put`, `save`, `open`, `get`, `release`, `prepare`, `extract`, `cleanup` | chip memory; TCP client |
| Text helpers and formats | `webutil.cpp`, `bufferfiller.cpp`, `stash.cpp` | none | pure functions | web server, stash messages |

What makes each hard, and what it must do:

* **Resolution**: replies arrive late, for an earlier configuration, or not at
  all; ARP requests are answered in place in `gPB`, which the following tests
  read again. A frame must carry the MAC of its next hop; the gateway must be
  found in the end.
* **TCP client**: one state for all requests; segments of old connections,
  retransmissions, resets and a FIN before its data. A payload is produced
  once, a reply goes to the request it answers, nothing is acknowledged unread.
* **DNS**: a lookup runs `packetLoop` in a loop, on a 16-bit clock that wraps;
  answers to earlier lookups come late. A lookup returns, and what it leaves in
  `hisip` is the address of the name asked for.
* **Web server**: it keeps nothing of a connection but one length and one
  sequence number for all clients, and answers from the segment still in `gPB`.
  Every client reads its own page whole, whatever is lost or repeated.
* **Driver**: every register access relies on the bank selected before, in the
  chip and in a cached copy; the transmitter may hang. Accesses reach their own
  register, calls return, frames get their time.
* **DHCP**: lost and late answers against timeouts, several boards, temporary
  filter changes against the sketch's own. No address used twice or beyond its
  lease; the filter restored; bound in the end.
* **Receive ring**: the chip writes between any two steps; wrap-around. Frames
  arrive whole and in order, and the ring never wedges.
* **UDP server**: callbacks change the table and the buffer the loop reads.
* **Stash**: two buffers over one memory, a linked list that is partly in a
  buffer. Texts are kept, blocks neither leak nor are shared.

`PROJECT.json` lists every hazard at its line with the properties on it.

## 2. Modules

| Module | Role |
|---|---|
| `Resolver`, `MCResolver`, `ResolverProofs` | ARP, gateway and destination MACs, the waits of `dnsLookup` as the resolver sees them |
| `TcpClient`, `MCTcpClient`, `TcpClientProofs` | TCP client with its external server and wire |
| `PacketLoop`, `MCPacketLoop`, `PacketLoopProofs` | composition: `dnsLookup` in full with `Resolver`, `TcpClient` and DHCP's leases; implements both (`PartsImplemented`) |
| `TcpServer`, `MCTcpServer`, `ServerProofs` | web server against clients over a lossy wire |
| `Dhcp`, `MCDhcp`, `DhcpProofs` | DHCP on several boards, broadcast filter, external server |
| `RxRing`, `MCRxRing`, `RxRingProofs` | receive ring against the chip |
| `Enc28j60`, `MCEnc28j60`, `Enc28j60Proofs` | the rest of the driver: banks, `packetSend`, filter, power, self test |
| `UdpServer`, `MCUdpServer`, `ServerProofs` | table of listeners and dispatch loop |
| `Stash`, `MCStash`, `StashProofs` | block store with its buffers |
| `TextStore` | what a stash promises; `Stash` implements it (`KeepsTexts`, proved) |
| `WebUtil` | text helpers as functions; `TcpServer` extends it |
| `Formats` | formats of `Stash::prepare`/`extract` and `BufferFiller::emit_p` |
| `Checksum` | the Internet checksum and its patch in echo replies; proofs in `PacketLoopProofs` |

Each component module is parameterised by constants with a named assumption,
has one action per operation or per way through a handler, and keeps the names
of the code. Several programs are covered by one run: a `sketch`, `program`,
`setting` or `variant` variable is chosen in `Init` and never changes.

### Resolver
A MAC is named by the address of the interface that owns it, so "carries the
right MAC" is an equality. `waitgwmac` is the set of its flags. `Idle` is
`packetLoop(0)`: the gateway request when `delaycnt` is 0 and the link is up,
and the single requests for a local DNS server and a local peer. `ArpIn` is the
whole handler; `AnsweredInPlace` is the rewritten buffer that the tests after
the answer look at. `SendUdp` and `SendUnicast` stand for all senders: which
MAC they write is `UdpRoute` and `Route`. `DnsQuery` and `DnsDone` are
`dnsLookup` past its wait; while it waits for the answer no `Idle` step is
possible, as in the code. `IsLan` has the code's two oddities: a first octet 0
is never local, and with no netmask everything else is.

### TcpClient
A client port is the record of descriptor and SYN counter that the code packs
into its low byte; the code looks at the descriptor only. The ways through the
segment handler are the actions `RcvReset`, `RcvSynAck`, `RcvUnexpected`,
`RcvData`, `RcvFin`, `RcvLateData` and `RcvIgnored`, with the guards of the
code's order of tests. `opened`, `filled`, `replies`, `served` and `handed` are
history: `handed` has the segments that a callback of the sketch was given
(`HandsOver`), or that `tcp_result_cb` left for `tcpReply`. The browser's
callback is given data of more than 12 bytes only (`tcpip.cpp:572`); which
segments of a reply are shorter is a choice of the setting (`short`). The server is external: it sends one segment at a time, because the
window the client offers holds no more, and a FIN with the last.

### PacketLoop
The variables of `Resolver` and `TcpClient` under one roof; both modules are
instantiated, `inDns` and `hasGw` being defined from the state of the whole. An
action is a whole `packetLoop` call (`IdleLoop`, `ArpLoop`, `TcpLoop`,
`DhcpLoop`) or a turn of one of the loops of `dnsLookup`; `phase` says in which
of them the program is. While a lookup runs, each `packetLoop` call is followed
by the look at the clock that the code makes there (`LoopReturns`). `clock` is
`millis()` as `uint16_t`; `Elapsed` is the expression of `dns.cpp:96` on a
16-bit int (`library.properties` names AVR boards only). `IdleLoop` sends ARP requests and a
pending SYN in one step, as the code does. DHCP runs before the packet is
looked at and its message is built over it, so the packet counts as lost
(`DhcpLoop`).

### TcpServer
A segment is a record of client, flags, numbers and data; a request is shown by
the value its form holds, which `WebUtil` encodes, cuts out and decodes
(`Understood`). `Accept` is what `packetLoop` does with a segment to the
server's port; `handed` is history, the requests it has returned to the sketch.
The sketch answers in one part (`HttpServerReply`) or in several
(`HttpServerReplyAck`, then `HttpServerReplyWithFlags`), each built over the
segment in `gPB` as `StepSeq` shows. The clients are external: ordinary TCP
implementations that send their request in one segment and close once the
server has. A sketch answers before it calls `packetLoop` again.

### Enc28j60
A driver function is the sequence of its register operations, run one per step
(`Operate`) with the chip at work in between. An operation says whether it goes
through `SetBank` (`selects`) or relies on the bank selected before (`Raw`). A
register is the set of its bits that are on, and pointers and values are not
told apart. `packetSend` is the only function with branches of its own and is
modelled loop by loop (`PacketSend`, `Poll`, `Look`, `RetryAfterLateCollision`,
`GiveUp`) in its four builds. The transmitter succeeds, fails or never ends.

### Dhcp
Time is a `Tick` that all timers see. A tick waits for boards with a timer due:
the sketch is assumed to call `packetLoop` at least once a tick. `stateAge` and
`leaseAge` are differences to `millis()` and are kept at 0 where the code does
not read them. A message carries what the code or the server decides on: type,
xid, address, whether `ciaddr` and options 50/54 are filled in.

### RxRing
The memory is modelled cell by cell; a cell is known by the frame it belongs
to and its place in it, so that overwriting is visible. `packetReceive` is
three steps (release, copy, count off) and `FrameArrives` may happen between
any of them. Steps are as fine as the chip can tell them apart: it looks at
`ERXRDPT` and `EPKTCNT` only, and writes memory that the copy reads. The copy
itself is one step because the frame copied is not released until later.

### UdpServer
The dispatch loop is one step per listener, and a callback is a state in which
the sketch may register, pause, resume, answer (`CallbackReplies`) or send
(`CallbackSends`), any number of times. `overwritten` records that it wrote to
`gPB`.

### Stash and TextStore
`mem` is the chip's pages, the two buffers and the free map; a block has its
tail and next places at the end as in `stash.h`. `load`, `fetchByte`,
`allocBlock`, `put`, `get` and `release` are functions on `mem`, so that an
action composes them in the order the code calls them. `Fill` is the data-fill
callback with `length`, `extract` and `cleanup`. `text` and `pos` are the
refinement mapping: the text as it stands with the write buffer taken into
account (`TextOf`), and how far it was read (`PosOf`). How many letters the
sketch has printed is the length of that text (`LengthOf`), so `Put` needs no
counter beside the memory. `size()` on a stash that is still written is not
called by the sketches modelled (section 5).

## 3. Runs

| Run | States | Asks |
|---|---|---|
| `resolver` | 796 000 | Do frames carry the MAC of their next hop, with ARP lost, late and reordered and the gateway replaced? |
| `stack` | 53 000 | Does the composition implement its parts, do lookups end with the right address, is every request of a quiet line answered? |
| `tcp_client` | 530 000 | Do payload, reply and acknowledgement belong to the right request, with retransmission, refusal and resets? |
| `tcp_concurrent` | violation | Concurrent requests, as `EtherCard.h:208` allows |
| `web_server` | 32 000 | Does each of two clients get its own page whole and its connection closed? |
| `dhcp` | 339 000 | Is an address used under its lease only; the filter; liveness |
| `rx_ring` | 49 000 | Are frames whole and in order, the current one kept, the ring alive? |
| `driver` | 213 000 | Are banks right, transmissions given their time, calls ended, own frames heard? |
| `udp_server` | 14 500 | Dispatch with callbacks that change table and buffer |
| `udp_pause` | violation | Pausing a port, as `EtherCard.h:326` documents, with a packet for another port in the buffer |
| `stash` | 122 000 | Does the stash implement `TextStore`, without leak or sharing? |
| `stash_release` | violation | `release` as `stash.cpp:98` describes it |

Deadlock is allowed in three modules only: in the TCP client runs, in `stack`
and in `web_server` requests, SYNs and lookups are bounded, and with no segment
left nothing remains to be done. Everywhere else TLC checks that some step is
always possible.

Every property of a passing run has a mutant in `PROJECT.json`, a plausible bug
in one definition that makes TLC find the property violated.

The pure functions are checked as assumptions that TLC evaluates with a run.
`MCTcpServer`: `urlDecode` restores what a browser encoded and `findKeyVal` cut
out of a form, for all texts of up to three of nine awkward characters;
`parseIp` reads what `makeNetStr` writes; a packet with its checksum adds up to
all ones. `MCStash`: `prepare` announces as many bytes as `extract` delivers,
also segment by segment, for all formats of three pieces.

### Bounds
* `Resolver`: two setups, so that a gateway is replaced while its answers are
  in flight; `DelayWrap` 2 stands for 65536, and asking at one count and not at
  the other is all the code distinguishes; the wire gets at most one request
  from other hosts on top of what the board itself causes.
* `TcpClient`: two requests and three SYNs, so that a segment of an old
  connection meets a newer request, also one whose SYN was sent twice; two
  descriptors, so that both requests differ in theirs. Three parts of a reply:
  a first, a middle one of 12 bytes or fewer, and a last with FIN. `Several` (2) is where counts stop.
  Loss needs no action: a segment in a set need never be received.
* `PacketLoop`: three programs. Two lookups, so that the answer to the first
  arrives during the second; `NTid` 3 keeps their ids apart, as 256 does. A
  lookup and two requests with the gateway replaced. A lookup with leases that
  come and go. A clock of 3 values and a timeout of 1, so that it wraps within
  a wait; a lookup may start at any value of it. `DelayWrap` 1: the gateway is
  asked for in every idle turn.
* `TcpServer`: two clients, so that their segments interleave, with answers of
  one part and of two. Sequence numbers modulo 32, and `Isns` 2 with `Apart` 8:
  the initial numbers wrap and are reused, and so do the clients' own, which
  start one short of the wrap. One request for each client; every segment it
  ever sent may be received again at any time.
* `Dhcp`: `Timeout` and `RenewAfter` are 1 tick and the lease is 6, the shortest
  for which `LeaseCovers` holds: the board counts from the acknowledgement,
  which may come two ticks after the grant, renews a tick later and gives up
  after two more. That the lease outlasts these is up to the server's option 58
  and not to the code, which renews at the full lease without that option.
  Three xids allow an old message, a current one of each board and a new one.
  Two boards that use DHCP only, or one board with each kind of sketch.
* `Enc28j60`: the four builds of `packetSend` and a sketch that mixes filter
  modes; two frames, so that a pipelined one meets the next; `Patience` 2 and
  one retry, so that both limits are reached with and without success.
* `RxRing`: 34 bytes for records of 12 and 16 bytes (frames of 5 and 10 with
  CRC): two largest records fit, wrap-around happens at many offsets, and the
  buffer of 4 truncates the longer frame. Two frame numbers suffice because
  current and next differ.
* `UdpServer`: two ports, three entries: several on one port, others between.
* `Stash`: `TailPlace` 4 (62 in the code) makes the first block of a chain hold
  two letters and the others five. A text of one letter ends inside the first
  block, one of two fills it, one of seven fills two blocks and leaves the third
  empty. Four blocks besides block 0 are enough for both posts, and the same
  blocks are used again and again. `Junk` is what the memory holds at power-up:
  a byte that could be taken for a link.

### Fairness
* `PacketLoop`: the loops of the program go on, and time with them; `loop()`
  calls `packetLoop` for ever, and the card is not always receiving. Strong
  fairness for the gateway: asked again and again, it answers, and the answer
  arrives. TCP segments arrive (the client never resends), and replies begin with a
  segment of more than 12 bytes (`short` is empty), without which
  `EveryRequestServed` does not hold. The DNS server owes nothing: `LookupReturns` holds without it.
* `TcpServer`: the sketch answers (weakly fair). A client sends what is
  unacknowledged; a segment that it may send again and again is received some
  time, and so is what the server sent (strongly fair: many segments compete).
  The latter is an assumption about the wire, since the server resends only
  when asked again: `EveryClientServed` does not hold where an answer is lost
  after its acknowledgement has arrived.
* `Dhcp`: weak fairness of every step of the state machine and of time; strong
  of receiving an offer or acknowledgement and of the server's answers, because
  a lossy wire can disable each of them again and again, but not for ever. Only
  for a board alone on its network: with two, one may take the address.
* `RxRing`: the steps of `packetReceive` are weakly fair (plain sequential
  code); the sketch that powers down powers up again; on the network there is
  always one more frame.
* `Enc28j60`: the driver's next step and the chip's units are weakly fair, the
  transmitter is not (Errata Issue 13).

`Resolver`, `TcpClient`, `UdpServer` and `Stash` are checked for safety only:
their liveness is that of the composition, or follows from a `for` statement.

## 4. What the proofs show

The proofs hold for all values of the constants that satisfy the named
assumptions: every number of hosts, requests, boards, ports or listeners, every
size of the ring, every number of blocks a byte can name and every text. Of the 40 properties of
the passing runs, 34 are theorems,
some under a hypothesis that the last part of this section explains.

### Theorems and their invariants

| Theorem | States | Argument |
|---|---|---|
| `ResolverProofs!TypeCorrect` | `[]TypeOK` | `TypeOK` is inductive; an ARP packet rewritten in place is again one, and every route is a MAC |
| `ResolverProofs!GatewayGenuine` | `[]GatewayMacGenuine` | inductive by itself: `HAVE_GW_MAC` is set only with a packet from `gwip`, and `setGwIp` clears it |
| `ResolverProofs!OffSubnetGoesToGateway` | `OffSubnetViaGateway`, every setup with a netmask | `MaskBeforeGateway` (no gateway is looked for before a mask is set) with `TypeOK` and `GatewayMacGenuine` |
| `ResolverProofs!DnsQueriesArrive`, `PeersGetTheirFrames` | `DnsQueryReachesServer`, `PeerMacGenuine`, under `OneLocalTarget` | `PeerInv`: what is in `destmacaddr` with `HAVE_DNS_MAC` or `HAVE_DEST_MAC` is the MAC of the one local host that may use it, since only ARP packets from that host are stored |
| `TcpClientProofs!TypeCorrect` | `[]TypeOK` | `TypeInv` = `TypeOK` and `NumbersFit`: part and request numbers on the wire exist |
| `TcpClientProofs!PayloadProducedOnce` | `[]FillOnce` | `FillInv`: the current request has no payload while its handshake goes on, later ones none at all. Without it a second SYN+ACK is not excluded |
| `TcpClientProofs!WwwOneReply` | `OneReply` for `browseUrl`/`httpPost` | `ReplyInv`: no reply while the connection is on the way to ESTABLISHED, and handing one over leaves that part of the states |
| `TcpClientProofs!RepliesMatched`, `PayloadsRouted` | `ReplyForTheRequest`, `PayloadOnOwnConnection`, under `OneFdEach` and up to `NFd` requests | `RouteInv`: a port belongs to the request that drew its descriptor; a payload, and an answer to it, may be of a later request than the port it travels on but never of an earlier one, so on the port of the last request it can only be the last one's |
| `TcpClientProofs!OneReplyEach` | `OneReply` with polling too, under `OneFdEach` | `OnceInv`: `RouteInv`, and a result that waits for `tcpReply` is of the last request only while that has none |
| `TcpClientProofs!AcknowledgedWasHanded` | `AckedMeansHanded` | `HandedInv`: an acknowledgement of part n comes after those of parts 1..n that are not short were handed over, data on the wire after the parts before it; data and FIN are on the line only in states that hand over or ignore (`Calm`), and whatever travels does so with the last request's descriptor (`OnLastFd`), without which the browser's callback would get no data |
| `ServerProofs!AcknowledgedWasHanded` | `[]AckedWasHanded` | `AckInv`: while the sketch answers, `gPB` holds the request it was handed, which is in `handed`, or a segment that acknowledges it (`Working`); each segment sent acknowledges a member of `handed` of the same client, or a SYN or FIN |
| `ServerProofs!ReadsItsOwnPage` | `[]PageForTheRequest`, under `PartsFit` and `Understands` | `PageInv`: for each client there is one number r such that all its requests acknowledge r and the parts of all answers to it lie one after the other from r on. The server remembers nothing of a connection, so this is a relation between segments, not with a state |
| `DhcpProofs!TypeCorrect` | `[]TypeOK` | `TypeInv`: with the shape of the messages |
| `DhcpProofs!FilterAsAsked` | `[]FilterRestored` | `AskedMeansOn`: if the sketch asked for broadcasts the chip lets them in, in all states; a conditional `disableBroadcast(true)` restores only because of this |
| `DhcpProofs!WaitingBoardHears` | `[]WaitingHears` | a board enters a waiting state with the filter open, and only its own `Goto` and its sketch change it |
| `DhcpProofs!LeaseOfItsOwn` | `[]LeaseCovers`, under `UniqueXids` and `LeaseOutlasts` | `LeaseInv`: one message at most is under way under a board's xid and fits its state (`TalkInv`); the server's clock for a lease and the board's timers add up to the lease and the delay of the acknowledgement (`Granted`, `Covered`) |
| `ServerProofs!ListenersTyped` | `[]UdpTypeOK` | `Table` and `Bounds`: the index of the loop stays in a table that may grow |
| `ServerProofs!ListensAsAsked` | `[]ListeningAsAsked`, under `PortInBuffer` | the shape of the table (`Table`) |
| `ServerProofs!CalledForOwnPortOnly` | `[]CalledForOwnPort` | `gPB` holds the packet of the loop until a callback writes to it |
| `ServerProofs!DueListenersCalled` | `[]AllListenersCalled`, under `PortInBuffer` | `DueGetCalled`: entries that are due and passed by the loop were called, registering behind the loop included |
| `RxRingProofs!TypeCorrect`, `FramesIntact`, `PacketStays`, `SlicesAreOfCurrent` | `TypeOK`, `ReceivedIntact`, `CurrentPacketKept`, `SliceIsOfCurrentOnceReleased` | `RingInv`, below |
| `Enc28j60Proofs!BanksRight` | `[]BankRight` | `BankInv`: `Enc28j60Bank` is the chip's bank, or a reset is under way and bank 0 is selected next (`InStep`); every raw access follows one that selects its bank (`Served`, `Whole`), for all functions of the driver |
| `Enc28j60Proofs!FilterHears` | `[]OwnFramesHeard` | `FilterInv`: the filter is as it should be, or the operations under way make it so last |
| `Enc28j60Proofs!FramesInTime` | `FramesGetTheirTime` | `SendInv`: a transmission goes on between calls with pipelining only; each function then leaves it alone, waits for it, resets the chip or has looked `Patience` times |
| `PacketLoopProofs!PartsRight` | `PartsImplemented` | each step is a step of `Resolver` and of `TcpClient` or changes nothing of theirs; that a DNS answer is looked at needs `LookupInv` (`hisip` is 0 while the lookup waits) |
| `PacketLoopProofs!AnswerHeardIsOwn` | `AnswerForThisLookup` | `OwnTid`: no id is used twice, so the id waited for is that of the name asked for |
| `StashProofs!TypeCorrect`, `BlocksNeverShared`, `NothingLeaks` | `TypeOK`, `BlocksDisjoint`, `NoLeak`, under `Room` and `~Hurried` | `StashInv`, below |
| `StashProofs!KeepsTheTexts` | `KeepsTexts`, under the same | each step maps to a step of `TextStore` or a stutter; below |
| `PacketLoopProofs!CarriesGoneAfterTwo` | two additions of the carries suffice | for every 32-bit sum, by cases on whether the first leaves a carry |
| `PacketLoopProofs!EchoReplyChecksumRight` | the patched checksum of an echo reply is right iff not (high byte > 247 and low byte = 255) | by cases on the two bytes: the carry out of the low byte is dropped |

What is proved of `Resolver` and `TcpClient` carries over to `packetLoop` and
`dnsLookup` together by `PartsRight`.

**The receive ring.** The properties speak of one frame; the invariant has to
speak of all whose bytes are still needed: `kept`, the frame the sketch is
reading and those not counted off. `RingInv` says that they lie end to end from
`oldest` to `ERXWRPT` (`Linked`), that none reaches into another (`Separate`)
and that each is whole (`Holds`), with `ERXRDPT` just before `oldest`, or at 0
as at power-up (`ReadPointer`). Lemma `Room` shows that a frame the chip finds
room for ends before `oldest`. It needs `Even`: the ring has an even size and
records an even length, and so `ERXWRPT` never meets `ERXRDPT`, where a full
ring would look empty. With a ring of odd size the theorem would be false.

**The stash.** A chain is a number of blocks, each naming the next in its last
byte, and the truth about a block is in the write buffer or, if another block is
in there, in the chip. `StashInv` speaks of blocks as they are (`Page`): the
blocks of a live stash are different ones and end at `last`, whose next is 0
(`Chained`), no two stashes share one and the rest is free (`BlocksDisjoint`,
`Shared`), and block 0 describes the prepared stash (`Message`). What the read
buffer holds is weaker: once a stash is saved, a copy of one of its blocks is
right (`Copied`); while it is written, the read buffer may hold an old copy of
its first block, which `open` in `create` has left there, and of no other
(`Writing`). That is why `save` has to make the read buffer forget that block,
and why `load` into the write buffer has to forget the block it loads: dropping
the second is the mutant of `KeepsTexts`. `StepInv` puts the parts together for
a step that has to do with one stash and leaves the others apart (`Apart`);
`RoomLeft` shows that `allocBlock` finds a block, by comparing the blocks in use
with the shares of `Room` and the pigeonhole principle.

The chain (`BlockAt`), `release` (`Chain`) and `extract` (`Fill`) are recursive
functions. Their equations hold because such a function exists (`FollowExists`,
`ReadsExist`), and what they compute follows by induction over the number of
blocks or letters, put as sets of numbers (`Induct`). `ReadMoves` is the heart of
the refinement: after k letters `get` returns letter k + 1, or 0 at the end,
wherever block boundaries lie; `ReadAll` and `FillSends` repeat it for the whole
message, and `GrownText` shows that `put` appends, also when it moves on to a new
block.

### Hypotheses

Each is a condition on the sketch, the server or the constants that the code
relies on. Except where noted, TLC finds the property violated without it.

* `OneLocalTarget`: every setup gives a netmask, and of a sketch's local DNS
  server and local peers there is one in all. They share `destmacaddr`.
* `OneFdEach`: no more requests than descriptors (8 in the code), and a sketch
  with `tcpSend` waits until the line is quiet. With the ninth request a
  descriptor comes round, and a late answer to the first is taken for its own;
  `tcp_concurrent` shows what concurrent requests do. `PayloadOnOwnConnection`
  speaks of sketches without `tcpSend` only, so the first half is enough.
* `AckedMeansHanded` speaks of segments of more than 12 bytes, the shorter ones
  being acknowledged and dropped (section 5), and is proved for one request, or
  for requests made on a quiet line. Otherwise late data of an earlier persistent
  connection is acknowledged unread while the next SYN is pending (section 5).
* `UniqueXids`, `LeaseOutlasts`: boards draw xids that differ, and a lease
  lasts longer than two timeouts and a tick each beyond the renewal. The second
  depends on the server's options 51 and 58 and not on the code.
* `PortInBuffer`: pause and resume are called for the port of the packet in
  `gPB`; `udp_pause` shows the other case.
* `PartsFit`: the parts of a page fit into the sequence space once (2^32 in the
  code; not tried without it). `Understands`: what a client asked for comes
  through `urlEncode`, `findKeyVal` and `urlDecode`; that is induction over a
  text, which TLC evaluates for all short ones (`MCTcpServer`).
* `Room`: the spare blocks can be dealt out so that each stash of a sketch gets
  enough for its text and its header; with none left `allocBlock` returns block 0.
  `~Hurried`: `release` is called with the write buffer moved to block 0, as
  `prepare` and `cleanup` do; `stash_release` shows the other case.
* `AnswerForThisLookup` holds for programs with fewer lookups than ids (256 in
  the code), as the assumption of `PacketLoop` says.

### Only model-checked

* Liveness: `LookupReturns`, `EveryRequestServed`, `EveryClientServed`,
  `EventuallyBound`, `FramesKeepComing`, `CallsReturn`. Temporal proofs under
  fairness need `ENABLED`, which is out of the prover's reach.
* The pure functions of `WebUtil`, `Formats` and `Checksum!Sum`: induction over
  texts, evaluated on bounded inputs.

## 5. Where the code and its documentation differ

Shown by runs:
* `tcp_concurrent`: `EtherCard.h:208` allows seven concurrent requests; the code
  has one connection state and one prepared message. The payload of the second
  `tcpSend` leaves on the first connection.
* `udp_pause`: `udpServerPauseListenOnPort` and its counterpart ignore their
  argument and use the port in `gPB`. In the run, pausing a port without a
  listener while a packet for another one is in the buffer switches off the
  listener of that other port.
* `stash_release`: `release` follows links in the chip's memory that the write
  buffer may have newer values of, and frees another stash's block. Sketches
  that release only through `cleanup`, after `prepare` has moved the write
  buffer to block 0, are safe; this is what `Hurried = FALSE` says.

Seen while modelling and excluded by the sketches and settings of the runs, or
by the condition a property is stated on:
* A local DNS server and a local peer share `destmacaddr` (`tcpip.cpp:52`), and
  neither `has_` flag is reset when the address changes.
* Without a netmask every address is local (`tcpip.cpp:112`). `README.md:121` of
  the library calls `staticSetup` without one; `OffSubnetViaGateway` and its
  theorem are about setups that give a mask.
* `www_client_internal_result_cb` drops data of 12 bytes or fewer
  (`tcpip.cpp:572`), and the segment is acknowledged all the same (`:807`): on a
  persistent connection a short segment of a reply is lost, and a reply whose
  first segment is short is lost in either case.
* ARP requests for DNS server and peer are sent once (`tcpip.cpp:700`, a todo),
  a SYN likewise; a lost one is not repeated.
* A segment of an old connection can end the current one (`tcpip.cpp:762` tests
  the peer, not the port).
* `tcp_fd` has three bits: with the ninth request a descriptor is used again,
  and a late segment for the first is taken for one of the ninth.
* Between a persistent connection's last data and the SYN of the next request
  (SENDSYN), late data of the old one is acknowledged and not handed over.
* A reply beyond its first segment is dropped without persistence, as
  `EtherCard.h:315` documents; `tcpip.cpp:8-10` says of the client only that it
  can also receive large pages.
* A renewal carries options 50 and 54, which the table at `dhcp.cpp:138-145`
  forbids.
* `broadcastip` is computed when `dhcpSetup` returns and not at later leases.
* Boards that draw the same xid take each other's answers.
* `readPacketSlice` is one byte off until the ring is first released
  (`enc28j60.cpp:763`), and a second `initialize` leaves the statics of
  `packetReceive` as they were.
* A UDP callback that answers changes the ports the dispatch loop compares with.
* The echo reply's checksum is wrong for requests with the checksums named in
  section 4.
* `enc28j60.h:143` says of `doBIST` "Reset and fully initialise ENC28J60"; the
  code resets the chip and leaves the receive filter, the buffer pointers and
  the MAC as the reset and the test made them (`enc28j60.cpp:652`). In
  `Enc28j60` a sketch that has called `doBIST` calls `initialize` before it
  sends, receives or switches the filter (`begun`), as the code needs.
* `powerDown` of a build with pipelining waits for a transmission that may hang.
* Broadcasts switched on in promiscuous mode, by DHCP too, leave a filter that
  lets only broadcasts pass.
* A client that half-closes right after its request loses it when the FIN is
  seen first (`tcpip.cpp:666` acknowledges any FIN).
* `bufferfiller.h:45` documents `$H` with lower-case digits (`hhh=a4`), as does
  a comment in `emit_p`; the code writes capitals.
* `size()` of a stash that is still being written, after another one was written
  in between, may take the tail from the copy that `open` left in the read buffer
  (`stash.cpp:31-34`, `:82`); the comment at `stash.cpp:133` says it is the number
  of characters. Where `prepare` calls it, after `save`, it is (`SizeRight`).
* With no block left, `allocBlock` returns block 0, that of the message.
* `README.md:156-158` of the library says only the gateway is looked up by ARP;
  the code looks up local DNS servers and peers too.

## 6. Not modelled

* DHCP: the encoding of options, custom options and callbacks, and the lease
  arithmetic in milliseconds. The state machine sees whether an option is
  present and when a renewal is due. `dhcpSetup` runs it only with the link up
  (`dhcp.cpp:360`); this guard is left out, since without a link nothing of the
  board's reaches the network and the timers are looked at later.
* DNS: the walk over the records of an answer; an answer has an address, an
  error or neither.
* A second `initialize` under a running receive ring: `packetReceive` keeps its
  statics, and what it reads then is not a state the properties are about.
* Packet layouts of ICMP, NTP, Wake-on-LAN and UDP, which are stateless senders;
  their choice of MAC is in `Resolver`, the checksum in `Checksum`.
* Web clients that half-close, and sketches that answer after the next
  `packetLoop`: the code does not serve them.
* `enc_malloc`, disabled by default, Serial output, and the example sketches.

## 7. Plan

Done, in this order: `Resolver`, `TcpClient`, `Dhcp`, `RxRing`, `UdpServer`,
`Stash`/`TextStore`, `PacketLoop`, `Enc28j60`, `TcpServer`, `WebUtil`, `Formats`
and `Checksum`, then the proofs of section 4. Next:

1. `RxFifo`, the abstract queue that `RxRing` implements; `RingInv` already
   holds what its refinement needs.
2. `Stash` with `TcpClient`: prepared messages across resets and refusals.

Runs that ask related questions of one module are merged into one by way of its
`sketch` or `setting` constant, as now, to keep a run per question.

## 8. Running

    tlc -config MCResolver_masked.cfg MCResolver.tla
    tlapm ResolverProofs.tla
