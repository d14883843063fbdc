------------------------------ MODULE Resolver ------------------------------
(***************************************************************************)
(* Hardware-address resolution of the IP stack in tcpip.cpp: the ARP part  *)
(* of packetLoop, setGwIp, staticSetup and the DHCP acknowledgement, the   *)
(* choice of a destination MAC made by every sender, and the two places    *)
(* where dnsLookup leans on it.                                            *)
(*                                                                         *)
(* A MAC address is named by the IP address of the interface that owns it, *)
(* so a frame for host h is addressed correctly when its MAC is h, and a   *)
(* frame for an off-subnet host when its MAC is the gateway's address.     *)
(* The wire holds ARP packets only; it loses and reorders them.  The IP    *)
(* frame sent last is kept in `frame' so that properties can talk about it.*)
(***************************************************************************)
EXTENDS Naturals, FiniteSets

CONSTANTS
  Lan,        \* addresses on our subnet (ours excepted)
  Remote,     \* addresses beyond the gateway
  Me,         \* the address this node is configured with
  NoIp,       \* 0.0.0.0, also a MAC that was never filled in
  Bcast,      \* broadcast or multicast address, also the all-ones MAC
  GoogleDns,  \* 8.8.8.8, what dnsRequest falls back to
  Sketches,   \* programs using the stack: see SketchType
  DelayWrap,  \* 2^16 in the code: delaycnt is a uint16_t
  MaxSetups,  \* bound on the number of staticSetup calls and DHCP leases
  MaxWire     \* bound on the wire: hosts ask nothing beyond it

Hosts == Lan \union Remote
Ips == Hosts \union {Me, NoIp, Bcast}
SetupArgs == [my: {Me, NoIp}, gw: Lan \union {NoIp},
              dns: Hosts \union {NoIp}, mask: BOOLEAN]
(* A sketch: the argument lists it passes to staticSetup, those its DHCP   *)
(* server sends, the addresses it sends to or a DNS answer yields.         *)
SketchType == [setups: SUBSET SetupArgs, acks: SUBSET SetupArgs,
               hisIps: SUBSET Hosts]
Flags == {"INITIAL_ARP", "HAVE_GW_MAC", "REFRESHING", "ACCEPT_ARP_REPLY"}

ASSUME ResolverAssumption ==
  /\ Lan \intersect Remote = {}
  /\ {Me, NoIp, Bcast} \intersect Hosts = {}
  /\ Me # NoIp /\ Me # Bcast /\ NoIp # Bcast
  /\ GoogleDns \in Remote
  /\ Sketches \subseteq SketchType
  /\ DelayWrap \in Nat \ {0} /\ MaxSetups \in Nat /\ MaxWire \in Nat

VARIABLES
  sketch,                \* the program on this board
  myip, gwip, dnsip, hisip,
  masked,                \* netmask is not 0.0.0.0
  waitgwmac, delaycnt, gwmacaddr, destmacaddr,
  has_dns_mac, waiting_for_dns_mac, has_dest_mac, waiting_for_dest_mac,
  linkUp,
  inDns,                 \* inside dnsLookup, waiting for the answer
  wire,                  \* ARP packets in flight
  frame,                 \* the IP frame sent last
  setups                 \* number of staticSetup calls and leases so far

addrs == <<myip, gwip, dnsip, hisip, masked>>
gwvars == <<waitgwmac, delaycnt, gwmacaddr>>
destvars == <<destmacaddr, has_dns_mac, waiting_for_dns_mac,
              has_dest_mac, waiting_for_dest_mac>>
book == <<sketch, setups>>
vars == <<addrs, gwvars, destvars, linkUp, inDns, wire, frame, book>>

ArpPackets == [op: {"request", "reply"}, src: Ips, dst: Ips]
Frames == [dst: Ips, mac: Ips]

TypeOK ==
  /\ sketch \in Sketches
  /\ myip \in {Me, NoIp}
  /\ gwip \in Lan \union {NoIp}
  /\ dnsip \in Hosts \union {NoIp}
  /\ hisip \in Hosts \union {NoIp}
  /\ waitgwmac \in SUBSET Flags
  /\ delaycnt \in 0 .. DelayWrap - 1
  /\ gwmacaddr \in Ips /\ destmacaddr \in Ips
  /\ has_dns_mac \in BOOLEAN /\ waiting_for_dns_mac \in BOOLEAN
  /\ has_dest_mac \in BOOLEAN /\ waiting_for_dest_mac \in BOOLEAN
  /\ linkUp \in BOOLEAN /\ inDns \in BOOLEAN /\ masked \in BOOLEAN
  /\ wire \in SUBSET ArpPackets
  /\ frame \in Frames
  /\ setups \in 0 .. MaxSetups

Init ==
  /\ sketch \in Sketches
  /\ myip = NoIp /\ gwip = NoIp /\ dnsip = NoIp /\ hisip = NoIp
  /\ masked = FALSE
  /\ waitgwmac = {} /\ delaycnt = 0
  /\ gwmacaddr = NoIp /\ destmacaddr = NoIp
  /\ has_dns_mac = FALSE /\ waiting_for_dns_mac = FALSE
  /\ has_dest_mac = FALSE /\ waiting_for_dest_mac = FALSE
  /\ linkUp \in BOOLEAN
  /\ inDns = FALSE /\ wire = {}
  /\ frame = [dst |-> NoIp, mac |-> NoIp]
  /\ setups = 0

-----------------------------------------------------------------------------
(* is_lan: an address whose first octet is 0 is never local; with a zero   *)
(* netmask every other pair of addresses compares equal.                   *)
IsLanUnmasked(a, b) == a # NoIp /\ b # NoIp
IsLan(a, b) ==
  /\ a # NoIp /\ b # NoIp
  /\ masked => (a \in Lan \union {Me}) = (b \in Lan \union {Me})

(* The MAC every unicast sender writes: destmacaddr for a local target,    *)
(* gwmacaddr otherwise; udpPrepare overrides it for broadcast/multicast.   *)
Route(ip) == IF IsLan(myip, ip) THEN destmacaddr ELSE gwmacaddr
UdpRoute(ip) == IF ip = Bcast THEN Bcast ELSE Route(ip)

ClientWaitingGw == "HAVE_GW_MAC" \notin waitgwmac
ClientWaitingDnsGwOnly == ~masked /\ "HAVE_GW_MAC" \notin waitgwmac
ClientWaitingDns ==
  IF IsLan(myip, dnsip) THEN ~has_dns_mac ELSE "HAVE_GW_MAC" \notin waitgwmac

ArpWhoHas(ip) == [op |-> "request", src |-> myip, dst |-> ip]

-----------------------------------------------------------------------------
(* staticSetup: a null argument (NoIp, mask = FALSE) leaves that setting   *)
(* alone; a gateway goes through setGwIp, which restarts its resolution.   *)
SetGwIpKeepingMac(gw) ==
  gwip' = gw /\ delaycnt' = 0 /\ waitgwmac' = waitgwmac \union {"INITIAL_ARP"}
SetGwIp(gw) == gwip' = gw /\ delaycnt' = 0 /\ waitgwmac' = {"INITIAL_ARP"}

StaticSetup(arg) ==
  /\ ~inDns /\ setups < MaxSetups
  /\ setups' = setups + 1
  /\ myip' = IF arg.my = NoIp THEN myip ELSE arg.my
  /\ IF arg.gw = NoIp
     THEN delaycnt' = 0 /\ UNCHANGED <<gwip, waitgwmac>>
     ELSE SetGwIp(arg.gw)
  /\ dnsip' = IF arg.dns = NoIp THEN dnsip ELSE arg.dns
  /\ masked' = (masked \/ arg.mask)
  /\ UNCHANGED <<hisip, gwmacaddr, destvars, linkUp, inDns, wire, frame,
                 sketch>>

(* process_dhcp_ack, in a dhcpSetup, a packetLoop or a dnsLookup: options  *)
(* that are missing leave their setting alone, and setGwIp asks for the    *)
(* gateway again, a new one or not.  Without a lease there is no address.  *)
DhcpAck(arg) ==
  /\ setups < MaxSetups
  /\ setups' = setups + 1
  /\ myip' = Me
  /\ LET gw == IF arg.gw = NoIp THEN gwip ELSE arg.gw
     IN IF gw = NoIp THEN UNCHANGED <<gwip, delaycnt, waitgwmac>> ELSE SetGwIp(gw)
  /\ dnsip' = IF arg.dns = NoIp THEN dnsip ELSE arg.dns
  /\ masked' = (masked \/ arg.mask)
  /\ UNCHANGED <<hisip, gwmacaddr, destvars, linkUp, inDns, wire, frame,
                 sketch>>
DhcpDiscover ==
  /\ sketch.acks # {} /\ myip' = NoIp
  /\ UNCHANGED <<gwip, dnsip, hisip, masked, gwvars, destvars, linkUp, inDns,
                 wire, frame, book>>

(* The sketch assigns the public member hisip (parseIp, copyIp).           *)
SetHisIp(ip) ==
  /\ ~inDns /\ hisip' = ip
  /\ UNCHANGED <<myip, gwip, dnsip, masked, gwvars, destvars, linkUp, inDns,
                 wire, frame, book>>

(* packetLoop(0): ask for the gateway once per wrap of delaycnt, and once  *)
(* ever for a local DNS server and a local peer; when a TCP request is     *)
(* pending (syn), send its SYN, once the gateway is known.                 *)
GatewayAskDue ==
  /\ waitgwmac \intersect {"INITIAL_ARP", "REFRESHING"} # {}
  /\ delaycnt = 0 /\ linkUp

TickOffByOne(c) == (c + 1) % (DelayWrap + 1)
Tick(c) == (c + 1) % DelayWrap

DnsAskDue == IsLan(myip, dnsip) /\ ~has_dns_mac /\ ~waiting_for_dns_mac
DestAskDue == IsLan(myip, hisip) /\ ~has_dest_mac /\ ~waiting_for_dest_mac

Idle(syn) ==
  /\ ~inDns /\ syn => ~ClientWaitingGw
  /\ waitgwmac' = IF GatewayAskDue THEN waitgwmac \union {"ACCEPT_ARP_REPLY"}
                  ELSE waitgwmac
  /\ delaycnt' = Tick(delaycnt)
  /\ waiting_for_dns_mac' = (waiting_for_dns_mac \/ DnsAskDue)
  /\ waiting_for_dest_mac' = (waiting_for_dest_mac \/ DestAskDue)
  /\ wire' = wire \union {ArpWhoHas(ip) : ip \in
                {i \in {gwip} : GatewayAskDue} \union
                {i \in {dnsip} : DnsAskDue} \union
                {i \in {hisip} : DestAskDue}}
  /\ frame' = IF syn THEN [dst |-> hisip, mac |-> Route(hisip)] ELSE frame
  /\ UNCHANGED <<addrs, gwmacaddr, destmacaddr, has_dns_mac, has_dest_mac,
                 linkUp, inDns, book>>

(* packetLoop on an ARP packet for us.  A request is answered in place:    *)
(* make_arp_answer_from_request turns the shared buffer into our reply,    *)
(* and the tests that follow read that rewritten buffer.                   *)
AnsweredInPlace(pkt) ==
  IF pkt.op = "request" THEN [op |-> "reply", src |-> myip, dst |-> pkt.src]
  ELSE pkt
StoreMacUnchecked(buf, ip) == buf.src \in Hosts /\ ip # NoIp
ClientStoreMac(buf, ip) == buf.src = ip

ArpIn(pkt) ==
  LET buf == AnsweredInPlace(pkt)
      forGw == /\ "ACCEPT_ARP_REPLY" \in waitgwmac
               /\ buf.op = "reply" /\ ClientStoreMac(buf, gwip)
      forDns == ~has_dns_mac /\ waiting_for_dns_mac /\ ClientStoreMac(buf, dnsip)
      forDest == /\ ~has_dest_mac /\ waiting_for_dest_mac
                 /\ ClientStoreMac(buf, hisip)
  IN
  /\ pkt.dst = myip
  /\ wire' = (wire \ {pkt}) \union {p \in {buf} : pkt.op = "request"}
  /\ gwmacaddr' = IF forGw THEN buf.src ELSE gwmacaddr
  /\ waitgwmac' = IF forGw THEN {"HAVE_GW_MAC"} ELSE waitgwmac
  /\ destmacaddr' = IF forDns \/ forDest THEN buf.src ELSE destmacaddr
  /\ has_dns_mac' = (has_dns_mac \/ forDns)
  /\ waiting_for_dns_mac' = (waiting_for_dns_mac /\ ~forDns)
  /\ has_dest_mac' = (has_dest_mac \/ forDest)
  /\ waiting_for_dest_mac' = (waiting_for_dest_mac /\ ~forDest)
  /\ UNCHANGED <<addrs, delaycnt, linkUp, inDns, frame, book>>

(* udpPrepare/udpTransmit, and the unicast senders clientIcmpRequest and   *)
(* ntpRequest: nothing waits for the MAC to be known.                      *)
SendUdp(ip) ==
  /\ ~inDns /\ frame' = [dst |-> ip, mac |-> UdpRoute(ip)]
  /\ UNCHANGED <<addrs, gwvars, destvars, linkUp, inDns, wire, book>>
SendUnicast(ip) ==
  /\ ~inDns /\ frame' = [dst |-> ip, mac |-> Route(ip)]
  /\ UNCHANGED <<addrs, gwvars, destvars, linkUp, inDns, wire, book>>

(* dnsLookup past its clientWaitingDns loop: hisip is cleared, a missing   *)
(* DNS server replaced, the query sent; until the answer or the timeout    *)
(* packetLoop runs on received packets only.                               *)
DnsServer == IF dnsip = NoIp THEN GoogleDns ELSE dnsip
DnsQuery ==
  /\ ~inDns /\ ~ClientWaitingDns
  /\ hisip' = NoIp
  /\ dnsip' = DnsServer
  /\ frame' = [dst |-> dnsip', mac |-> UdpRoute(dnsip')]
  /\ inDns' = TRUE
  /\ UNCHANGED <<myip, gwip, masked, gwvars, destvars, linkUp, wire, book>>
DnsDone ==
  /\ inDns /\ inDns' = FALSE
  /\ hisip' \in sketch.hisIps \union {NoIp}
  /\ UNCHANGED <<myip, gwip, dnsip, masked, gwvars, destvars, linkUp, wire,
                 frame, book>>

-----------------------------------------------------------------------------
(* Environment: the other hosts, the cable, the wire.                      *)
HostAnswers(h) ==
  \E pkt \in wire :
    /\ pkt.op = "request" /\ pkt.dst = h
    /\ wire' = (wire \ {pkt}) \union
               {[op |-> "reply", src |-> h, dst |-> pkt.src]}
    /\ UNCHANGED <<addrs, gwvars, destvars, linkUp, inDns, frame, book>>
HostAsks(h) ==
  /\ myip # NoIp /\ Cardinality(wire) < MaxWire
  /\ wire' = wire \union {[op |-> "request", src |-> h, dst |-> myip]}
  /\ UNCHANGED <<addrs, gwvars, destvars, linkUp, inDns, frame, book>>
Lose(pkt) ==
  /\ wire' = wire \ {pkt}
  /\ UNCHANGED <<addrs, gwvars, destvars, linkUp, inDns, frame, book>>
LinkChange ==
  /\ linkUp' = ~linkUp
  /\ UNCHANGED <<addrs, gwvars, destvars, inDns, wire, frame, book>>

Next ==
  \/ \E arg \in sketch.setups : StaticSetup(arg)
  \/ \E ip \in sketch.hisIps : SetHisIp(ip)
  \/ \E arg \in sketch.acks : DhcpAck(arg)
  \/ DhcpDiscover
  \/ \E syn \in BOOLEAN : Idle(syn)
  \/ \E pkt \in wire : ArpIn(pkt)
  \/ \E ip \in sketch.hisIps \union {Bcast} : SendUdp(ip)
  \/ \E ip \in sketch.hisIps : SendUnicast(ip)
  \/ DnsQuery \/ DnsDone
  \/ \E h \in Lan : HostAnswers(h) \/ HostAsks(h)
  \/ \E pkt \in wire : Lose(pkt)
  \/ LinkChange

Spec == Init /\ [][Next]_vars

-----------------------------------------------------------------------------
(* While packetLoop believes it has the gateway's MAC, gwmacaddr is the    *)
(* MAC of the gateway configured now: a reply still in flight from an      *)
(* earlier gateway, an answer to another question or our own answer built  *)
(* in the shared buffer never passes for it.                               *)
GatewayMacGenuine == "HAVE_GW_MAC" \in waitgwmac => gwmacaddr = gwip

(* The MAC a frame for ip must carry to reach it.                          *)
NextHop(ip) == IF ip \in Lan THEN ip ELSE gwip

(* dnsLookup sends its query only once clientWaitingDns has said that the  *)
(* MAC is known: the query then carries the MAC of the DNS server, or of   *)
(* the gateway when the server is not on the subnet.  (A board between two *)
(* leases has no address, and the server could not answer it anyway.)      *)
DnsQueryReachesServer ==
  [][~inDns /\ inDns' /\ myip # NoIp => frame'.mac = NextHop(dnsip')]_vars

(* Frames for addresses beyond the subnet leave through the gateway: with  *)
(* its MAC known they carry it, and never that of a local peer.            *)
OffSubnetViaGateway ==
  [][(frame' # frame /\ frame'.dst \in Remote /\ "HAVE_GW_MAC" \in waitgwmac)
       => frame'.mac = gwip]_vars

(* The sketch's one local peer, once packetLoop has seen its ARP packet,   *)
(* is sent frames with its own MAC.                                        *)
PeerMacGenuine ==
  [][(frame' # frame /\ frame'.dst = hisip /\ has_dest_mac
        /\ IsLan(myip, hisip)) => frame'.mac = hisip]_vars

=============================================================================
