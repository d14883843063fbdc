--------------------------- MODULE ResolverProofs ---------------------------
(***************************************************************************)
(* Proofs about Resolver, for every subnet, sketch and bound: the type     *)
(* invariant, that a known gateway MAC is the configured gateway's, that   *)
(* off-subnet frames use it when every setup gives the netmask, and that   *)
(* DNS queries and frames for a local peer carry the MAC they should.      *)
(***************************************************************************)
EXTENDS Resolver, TLAPS

USE DEF SetupArgs, SketchType, book, Flags, Hosts, Ips

(* The board starts unconfigured.                                          *)
LEMMA InitTypeOK == Init => TypeOK
<1> SUFFICES ASSUME Init PROVE TypeOK
    OBVIOUS
<1>1. delaycnt \in 0 .. DelayWrap - 1 /\ setups \in 0 .. MaxSetups
  BY ResolverAssumption DEF Init
<1>2. wire \in SUBSET ArpPackets /\ frame \in Frames
  BY DEF Init, Frames
<1> QED BY <1>1, <1>2 DEF Init, TypeOK

(* What an ARP packet writes: MACs and IP addresses of real interfaces.    *)
LEMMA AnsweredIsArp ==
  ASSUME TypeOK, NEW pkt \in wire
  PROVE  pkt \in ArpPackets /\ AnsweredInPlace(pkt) \in ArpPackets
  BY ResolverAssumption DEF TypeOK, ArpPackets, AnsweredInPlace

(* What a sender writes is a MAC.                                          *)
LEMMA RouteIsMac ==
  ASSUME TypeOK, NEW ip
  PROVE  Route(ip) \in Ips /\ UdpRoute(ip) \in Ips
  BY DEF TypeOK, Route, UdpRoute

(* Every step keeps every variable in its type.                            *)
LEMMA StepTypeOK == TypeOK /\ [Next]_vars => TypeOK'
<1> SUFFICES ASSUME TypeOK, [Next]_vars PROVE TypeOK'
    OBVIOUS
<1> USE ResolverAssumption
<1>0. /\ sketch.setups \subseteq SetupArgs /\ sketch.hisIps \subseteq Hosts
      /\ sketch.acks \subseteq SetupArgs
  BY DEF TypeOK
<1>1. ASSUME NEW arg \in sketch.setups, StaticSetup(arg) PROVE TypeOK'
  <2>1. /\ arg.my \in {Me, NoIp} /\ arg.gw \in Lan \union {NoIp}
        /\ arg.dns \in Hosts \union {NoIp} /\ arg.mask \in BOOLEAN
    BY <1>0
  <2>2. waitgwmac' \in SUBSET Flags /\ delaycnt' = 0
        /\ gwip' \in Lan \union {NoIp}
    <3>1. CASE arg.gw = NoIp
      BY <1>1, <3>1 DEF StaticSetup, TypeOK
    <3>2. CASE arg.gw # NoIp
      BY <1>1, <2>1, <3>2 DEF StaticSetup, SetGwIp
    <3> QED BY <3>1, <3>2
  <2>3. 0 \in 0 .. DelayWrap - 1
    OBVIOUS
  <2>4. setups' \in 0 .. MaxSetups
    BY <1>1 DEF StaticSetup, TypeOK
  <2>5. myip' \in {Me, NoIp} /\ dnsip' \in Hosts \union {NoIp}
    BY <1>1, <2>1 DEF StaticSetup, TypeOK
  <2>6. masked' \in BOOLEAN
    BY <1>1, <2>1 DEF StaticSetup, TypeOK
  <2> QED
    BY <1>1, <2>2, <2>3, <2>4, <2>5, <2>6 DEF StaticSetup, TypeOK, destvars
<1>2. ASSUME NEW ip \in sketch.hisIps, SetHisIp(ip) PROVE TypeOK'
  BY <1>0, <1>2 DEF SetHisIp, TypeOK, gwvars, destvars
<1>3. ASSUME NEW syn \in BOOLEAN, Idle(syn) PROVE TypeOK'
  <2>1. delaycnt' \in 0 .. DelayWrap - 1
    BY <1>3 DEF Idle, Tick, TypeOK
  <2>2. \A ip \in {gwip, dnsip, hisip} : ArpWhoHas(ip) \in ArpPackets
    BY DEF TypeOK, ArpPackets, ArpWhoHas
  <2>3. wire' \in SUBSET ArpPackets
    BY <1>3, <2>2 DEF Idle, TypeOK
  <2>4. waitgwmac' \in SUBSET Flags
    BY <1>3 DEF Idle, TypeOK
  <2>5. waiting_for_dns_mac' \in BOOLEAN /\ waiting_for_dest_mac' \in BOOLEAN
    BY <1>3 DEF Idle, TypeOK
  <2>6. frame' \in Frames
    BY <1>3, RouteIsMac DEF Idle, TypeOK, Frames
  <2> QED BY <1>3, <2>1, <2>3, <2>4, <2>5, <2>6 DEF Idle, TypeOK, addrs
<1>4. ASSUME NEW pkt \in wire, ArpIn(pkt) PROVE TypeOK'
  <2> DEFINE buf == AnsweredInPlace(pkt)
  <2>1. buf \in ArpPackets /\ buf.src \in Ips
    BY AnsweredIsArp DEF ArpPackets
  <2>2. wire' \in SUBSET ArpPackets
    BY <1>4, <2>1 DEF ArpIn, TypeOK
  <2>3. /\ gwmacaddr' \in Ips /\ destmacaddr' \in Ips
        /\ waitgwmac' \in SUBSET Flags
    BY <1>4, <2>1 DEF ArpIn, TypeOK
  <2>4. /\ has_dns_mac' \in BOOLEAN /\ waiting_for_dns_mac' \in BOOLEAN
        /\ has_dest_mac' \in BOOLEAN /\ waiting_for_dest_mac' \in BOOLEAN
    BY <1>4 DEF ArpIn, TypeOK
  <2> QED BY <1>4, <2>2, <2>3, <2>4 DEF ArpIn, TypeOK, addrs
<1>5. ASSUME NEW ip \in sketch.hisIps \union {Bcast}, SendUdp(ip) PROVE TypeOK'
  BY <1>0, <1>5, RouteIsMac
  DEF SendUdp, TypeOK, Frames, addrs, gwvars, destvars
<1>6. ASSUME NEW ip \in sketch.hisIps, SendUnicast(ip) PROVE TypeOK'
  BY <1>0, <1>6, RouteIsMac
  DEF SendUnicast, TypeOK, Frames, addrs, gwvars, destvars
<1>7. CASE DnsQuery
  BY <1>7 DEF DnsQuery, DnsServer, UdpRoute, Route, TypeOK, Frames, gwvars, destvars
<1>8. CASE DnsDone
  <2>1. hisip' \in Hosts \union {NoIp} /\ inDns' \in BOOLEAN
    BY <1>0, <1>8 DEF DnsDone, TypeOK
  <2> QED BY <1>8, <2>1 DEF DnsDone, TypeOK, gwvars, destvars
<1>9. ASSUME NEW h \in Lan, HostAnswers(h) PROVE TypeOK'
  BY <1>9 DEF HostAnswers, TypeOK, ArpPackets, addrs, gwvars, destvars
<1>10. ASSUME NEW h \in Lan, HostAsks(h) PROVE TypeOK'
  BY <1>10 DEF HostAsks, TypeOK, ArpPackets, addrs, gwvars, destvars
<1>11. ASSUME NEW pkt \in wire, Lose(pkt) PROVE TypeOK'
  BY <1>11 DEF Lose, TypeOK, addrs, gwvars, destvars
<1>12. CASE LinkChange
  BY <1>12 DEF LinkChange, TypeOK, addrs, gwvars, destvars
<1>13. ASSUME NEW arg \in sketch.acks, DhcpAck(arg) PROVE TypeOK'
  <2>1. /\ arg.gw \in Lan \union {NoIp} /\ arg.dns \in Hosts \union {NoIp}
        /\ arg.mask \in BOOLEAN
    BY <1>0
  <2>2. /\ waitgwmac' \in SUBSET Flags /\ delaycnt' \in 0 .. DelayWrap - 1
        /\ gwip' \in Lan \union {NoIp}
    <3> DEFINE gw == IF arg.gw = NoIp THEN gwip ELSE arg.gw
    <3>1. gw \in Lan \union {NoIp}
      BY <2>1 DEF TypeOK
    <3>2. CASE gw = NoIp
      BY <1>13, <3>2 DEF DhcpAck, TypeOK
    <3>3. CASE gw # NoIp
      BY <1>13, <3>1, <3>3 DEF DhcpAck, SetGwIp
    <3> QED BY <3>2, <3>3
  <2>3. setups' \in 0 .. MaxSetups
    BY <1>13 DEF DhcpAck, TypeOK
  <2>4. dnsip' \in Hosts \union {NoIp} /\ masked' \in BOOLEAN
    BY <1>13, <2>1 DEF DhcpAck, TypeOK
  <2> QED BY <1>13, <2>2, <2>3, <2>4 DEF DhcpAck, TypeOK, destvars
<1>14. CASE DhcpDiscover
  BY <1>14 DEF DhcpDiscover, TypeOK, gwvars, destvars
<1>15. CASE UNCHANGED vars
  BY <1>15 DEF vars, addrs, gwvars, destvars, TypeOK
<1> QED
  BY <1>1, <1>2, <1>3, <1>4, <1>5, <1>6, <1>7, <1>8, <1>9, <1>10, <1>11,
     <1>12, <1>13, <1>14, <1>15 DEF Next

(* Every reachable state of the resolver is well typed: addresses stay     *)
(* addresses and delaycnt stays below its wrap.                            *)
THEOREM TypeCorrect == Spec => []TypeOK
  BY InitTypeOK, StepTypeOK, PTL DEF Spec

-----------------------------------------------------------------------------
(* GatewayMacGenuine is inductive: setGwIp drops WGW_HAVE_GW_MAC when it   *)
(* changes gwip, and packetLoop sets it with the MAC of gwip's owner.      *)
LEMMA StepGateway == GatewayMacGenuine /\ [Next]_vars => GatewayMacGenuine'
<1> SUFFICES ASSUME GatewayMacGenuine, [Next]_vars PROVE GatewayMacGenuine'
    OBVIOUS
<1>1. ASSUME NEW arg \in sketch.setups, StaticSetup(arg) PROVE GatewayMacGenuine'
  BY <1>1 DEF StaticSetup, SetGwIp, GatewayMacGenuine
<1>2. ASSUME NEW syn \in BOOLEAN, Idle(syn) PROVE GatewayMacGenuine'
  BY <1>2 DEF Idle, GatewayMacGenuine, addrs
<1>3. ASSUME NEW pkt \in wire, ArpIn(pkt) PROVE GatewayMacGenuine'
  BY <1>3 DEF ArpIn, ClientStoreMac, GatewayMacGenuine, addrs
<1>4. CASE UNCHANGED <<gwip, gwvars>>
  BY <1>4 DEF gwvars, GatewayMacGenuine
<1>5. ASSUME NEW arg \in sketch.acks, DhcpAck(arg) PROVE GatewayMacGenuine'
  BY <1>5 DEF DhcpAck, SetGwIp, GatewayMacGenuine
<1> QED
  BY <1>1, <1>2, <1>3, <1>4, <1>5
  DEF Next, DhcpDiscover, SetHisIp, SendUdp, SendUnicast, DnsQuery, DnsDone, HostAnswers,
      HostAsks, Lose, LinkChange, vars, addrs

(* Whatever ARP packets arrive, in whatever order, packetLoop never takes  *)
(* another host's MAC for that of the configured gateway.                  *)
THEOREM GatewayGenuine == Spec => []GatewayMacGenuine
<1>1. Init => GatewayMacGenuine
  BY DEF Init, GatewayMacGenuine
<1> QED BY <1>1, StepGateway, PTL DEF Spec

-----------------------------------------------------------------------------
(* A sketch that always passes a netmask has set it by the time a gateway  *)
(* is configured, so by the time its MAC can be known.                     *)
MaskBeforeGateway ==
  sketch \in Sketches /\ (waitgwmac # {} => masked)

(* It stays so: a gateway comes with a setup or a lease.                   *)
LEMMA StepMask ==
  ASSUME \A s \in Sketches : \A arg \in s.setups \union s.acks : arg.mask
  PROVE  MaskBeforeGateway /\ [Next]_vars => MaskBeforeGateway'
<1> SUFFICES ASSUME MaskBeforeGateway, [Next]_vars PROVE MaskBeforeGateway'
    OBVIOUS
<1>1. ASSUME NEW arg \in sketch.setups, StaticSetup(arg) PROVE MaskBeforeGateway'
  BY <1>1 DEF StaticSetup, MaskBeforeGateway
<1>2. ASSUME NEW syn \in BOOLEAN, Idle(syn) PROVE MaskBeforeGateway'
  BY <1>2 DEF Idle, GatewayAskDue, MaskBeforeGateway, addrs
<1>3. ASSUME NEW pkt \in wire, ArpIn(pkt) PROVE MaskBeforeGateway'
  BY <1>3 DEF ArpIn, MaskBeforeGateway, addrs
<1>4. CASE UNCHANGED <<sketch, masked, waitgwmac>>
  BY <1>4 DEF MaskBeforeGateway
<1>5. ASSUME NEW arg \in sketch.acks, DhcpAck(arg) PROVE MaskBeforeGateway'
  BY <1>5 DEF DhcpAck, MaskBeforeGateway
<1> QED
  BY <1>1, <1>2, <1>3, <1>4, <1>5
  DEF Next, DhcpDiscover, SetHisIp, SendUdp, SendUnicast, DnsQuery, DnsDone, HostAnswers,
      HostAsks, Lose, LinkChange, vars, addrs, gwvars

(* Beyond the subnet means through the gateway.                            *)
LEMMA RemoteRoute ==
  ASSUME TypeOK, GatewayMacGenuine, masked, "HAVE_GW_MAC" \in waitgwmac,
         NEW ip \in Remote
  PROVE  Route(ip) = gwip /\ UdpRoute(ip) = gwip
  BY ResolverAssumption DEF TypeOK, GatewayMacGenuine, Route, UdpRoute, IsLan

(* With the netmask given, no frame for an address beyond the subnet is    *)
(* sent to a local peer once the gateway's MAC is known.                   *)
THEOREM OffSubnetGoesToGateway ==
  ASSUME \A s \in Sketches : \A arg \in s.setups \union s.acks : arg.mask
  PROVE  Spec => OffSubnetViaGateway
<1> DEFINE Inv == TypeOK /\ GatewayMacGenuine /\ MaskBeforeGateway
<1> DEFINE ViaGateway ==
      (frame' # frame /\ frame'.dst \in Remote /\ "HAVE_GW_MAC" \in waitgwmac)
        => frame'.mac = gwip
<1>1. Init => MaskBeforeGateway
  BY DEF Init, MaskBeforeGateway
<1>2. MaskBeforeGateway /\ [Next]_vars => MaskBeforeGateway'
  BY StepMask
<1>3. Inv /\ [Next]_vars => [ViaGateway]_vars
  <2> SUFFICES ASSUME Inv, Next, frame' # frame, frame'.dst \in Remote,
                      "HAVE_GW_MAC" \in waitgwmac
               PROVE  frame'.mac = gwip
      OBVIOUS
  <2>0. masked
    BY DEF MaskBeforeGateway
  <2>1. ASSUME NEW ip \in sketch.hisIps \union {Bcast}, SendUdp(ip)
        PROVE  frame'.mac = gwip
    BY <2>0, <2>1, RemoteRoute DEF SendUdp
  <2>2. ASSUME NEW ip \in sketch.hisIps, SendUnicast(ip) PROVE frame'.mac = gwip
    BY <2>0, <2>2, RemoteRoute DEF SendUnicast
  <2>3. CASE DnsQuery
    <3>1. frame'.dst = dnsip' /\ frame'.mac = UdpRoute(dnsip')
      BY <2>3 DEF DnsQuery
    <3>2. UdpRoute(dnsip') = gwip
      BY <2>0, <3>1, RemoteRoute, ResolverAssumption
         DEF UdpRoute, Route, IsLan, TypeOK, GatewayMacGenuine
    <3> QED BY <3>1, <3>2
  <2>4. ASSUME NEW syn \in BOOLEAN, Idle(syn) PROVE frame'.mac = gwip
    BY <2>0, <2>4, RemoteRoute DEF Idle
  <2> QED
    BY <2>1, <2>2, <2>3, <2>4
    DEF Next, StaticSetup, DhcpAck, DhcpDiscover, SetHisIp, ArpIn, DnsDone, HostAnswers,
        HostAsks, Lose, LinkChange
<1> QED
  BY <1>1, <1>2, <1>3, TypeCorrect, GatewayGenuine, PTL
  DEF Spec, OffSubnetViaGateway

-----------------------------------------------------------------------------
(* The local hosts that a sketch may send to share destmacaddr: its peers, *)
(* and the DNS servers it is told of.                                      *)
Targets(s) ==
  Lan \intersect (s.hisIps \union {arg.dns : arg \in s.setups \union s.acks})

(* What is in destmacaddr is the MAC of such a host, for nobody else's     *)
(* packet passes for an answer of theirs: a request of the board asks for  *)
(* an address, and only hosts of the subnet and the board itself reply.    *)
PeerInv ==
  /\ TypeOK
  /\ dnsip \in Lan => dnsip \in Targets(sketch)
  /\ hisip \in Lan => hisip \in Targets(sketch)
  /\ waitgwmac # {} => gwip # NoIp
  /\ myip # NoIp => masked
  /\ \A pkt \in wire : IF pkt.op = "request" THEN pkt.dst # NoIp
                                            ELSE pkt.src \in Lan \union {Me}
  /\ has_dns_mac \/ has_dest_mac => destmacaddr \in Targets(sketch)

(* Nothing is known at first.                                              *)
LEMMA InitPeer == Init => PeerInv
<1> SUFFICES ASSUME Init PROVE PeerInv
  OBVIOUS
<1>1. NoIp \notin Lan
  BY ResolverAssumption
<1> QED BY <1>1, InitTypeOK DEF Init, PeerInv

(* Asking, hearing and being told of addresses keep the invariant.         *)
LEMMA StepPeer ==
  ASSUME \A s \in Sketches : \A arg \in s.setups \union s.acks : arg.mask
  PROVE  PeerInv /\ [Next]_vars => PeerInv'
<1> SUFFICES ASSUME PeerInv, [Next]_vars PROVE PeerInv'
  OBVIOUS
<1> USE DEF PeerInv
<1>0. TypeOK' /\ sketch \in Sketches /\ NoIp \notin Hosts /\ Me \notin Hosts /\ Me # NoIp
  BY StepTypeOK, ResolverAssumption DEF TypeOK
<1>1. \A arg \in sketch.setups \union sketch.acks :
        arg.mask /\ (arg.dns \in Lan => arg.dns \in Targets(sketch))
  BY <1>0 DEF Targets
<1>2. \A ip \in sketch.hisIps : ip \in Lan => ip \in Targets(sketch)
  BY DEF Targets
<1>3. ASSUME NEW arg \in sketch.setups, StaticSetup(arg) PROVE PeerInv'
  <2>1. sketch' = sketch /\ wire' = wire /\ UNCHANGED destvars /\ hisip' = hisip
    BY <1>3 DEF StaticSetup
  <2>2. masked' /\ (dnsip' \in Lan => dnsip' \in Targets(sketch))
    BY <1>1, <1>3 DEF StaticSetup
  <2>3. waitgwmac' # {} => gwip' # NoIp
    BY <1>3 DEF StaticSetup, SetGwIp
  <2> QED BY <1>0, <2>1, <2>2, <2>3 DEF destvars
<1>4. ASSUME NEW arg \in sketch.acks, DhcpAck(arg) PROVE PeerInv'
  <2>1. sketch' = sketch /\ wire' = wire /\ UNCHANGED destvars /\ hisip' = hisip
    BY <1>4 DEF DhcpAck
  <2>2. masked' /\ (dnsip' \in Lan => dnsip' \in Targets(sketch))
    BY <1>1, <1>4 DEF DhcpAck
  <2>3. waitgwmac' # {} => gwip' # NoIp
    BY <1>4 DEF DhcpAck, SetGwIp
  <2> QED BY <1>0, <2>1, <2>2, <2>3 DEF destvars
<1>5. ASSUME NEW ip \in sketch.hisIps, SetHisIp(ip) PROVE PeerInv'
  BY <1>0, <1>2, <1>5 DEF SetHisIp, gwvars, destvars
<1>6. CASE DnsQuery
  <2>1. dnsip' = dnsip \/ dnsip' \notin Lan
    BY <1>6, ResolverAssumption DEF DnsQuery, DnsServer
  <2> QED BY <1>0, <1>6, <2>1 DEF DnsQuery, gwvars, destvars
<1>7. CASE DnsDone
  <2>1. hisip' \in Lan => hisip' \in Targets(sketch)
    BY <1>0, <1>2, <1>7 DEF DnsDone
  <2> QED BY <1>0, <1>7, <2>1 DEF DnsDone, gwvars, destvars
<1>8. ASSUME NEW syn \in BOOLEAN, Idle(syn) PROVE PeerInv'
  <2>1. \A ip : ArpWhoHas(ip).op = "request" /\ ArpWhoHas(ip).dst = ip
    BY DEF ArpWhoHas
  <2>2. /\ GatewayAskDue => gwip # NoIp
        /\ DnsAskDue => dnsip # NoIp
        /\ DestAskDue => hisip # NoIp
    BY DEF GatewayAskDue, DnsAskDue, DestAskDue, IsLan
  <2>3. \A pkt \in wire' : pkt \in wire \/ (pkt.op = "request" /\ pkt.dst # NoIp)
    BY <1>8, <2>1, <2>2 DEF Idle
  <2>4. waitgwmac' # {} => waitgwmac # {}
    BY <1>8 DEF Idle, GatewayAskDue
  <2> QED BY <1>0, <1>8, <2>3, <2>4 DEF Idle, addrs
<1>9. ASSUME NEW pkt \in wire, ArpIn(pkt) PROVE PeerInv'
  <2> DEFINE buf == AnsweredInPlace(pkt)
  <2>1. buf.op = "reply" /\ buf.src \in Lan \union {Me}
    <3>1. CASE pkt.op = "request"
      <4>1. buf.op = "reply" /\ buf.src = myip /\ myip # NoIp
        BY <1>9, <3>1 DEF AnsweredInPlace, ArpIn
      <4> QED BY <4>1 DEF TypeOK
    <3>2. CASE pkt.op # "request"
      BY <3>2 DEF AnsweredInPlace, TypeOK, ArpPackets
    <3> QED BY <3>1, <3>2
  <2>2. /\ wire' \subseteq wire \union {buf}
        /\ UNCHANGED <<addrs, sketch>>
        /\ waitgwmac' # {} => waitgwmac # {}
        /\ has_dns_mac' \/ has_dest_mac' =>
             \/ destmacaddr' = destmacaddr /\ (has_dns_mac \/ has_dest_mac)
             \/ destmacaddr' = buf.src /\ buf.src \in {dnsip, hisip}
    BY <1>9 DEF ArpIn, ClientStoreMac, book
  <2>3. buf.src \in {dnsip, hisip} => buf.src \in Targets(sketch)
    BY <1>0, <2>1 DEF TypeOK
  <2> HIDE DEF buf
  <2>4. /\ \A p \in wire' : IF p.op = "request" THEN p.dst # NoIp
                                                 ELSE p.src \in Lan \union {Me}
        /\ has_dns_mac' \/ has_dest_mac' => destmacaddr' \in Targets(sketch)
    BY <2>1, <2>2, <2>3
  <2> QED BY <1>0, <2>2, <2>4 DEF addrs
<1>10. ASSUME NEW h \in Lan, HostAnswers(h) PROVE PeerInv'
  BY <1>0, <1>10 DEF HostAnswers, addrs, gwvars, destvars
<1>11. ASSUME NEW h \in Lan, HostAsks(h) PROVE PeerInv'
  BY <1>0, <1>11 DEF HostAsks, addrs, gwvars, destvars
<1>12. CASE UNCHANGED <<sketch, dnsip, hisip, gwip, masked, gwvars, destvars>>
            /\ wire' \subseteq wire /\ myip' \in {myip, NoIp}
  BY <1>0, <1>12 DEF gwvars, destvars
<1> QED
  BY <1>3, <1>4, <1>5, <1>6, <1>7, <1>8, <1>9, <1>10, <1>11, <1>12
  DEF Next, DhcpDiscover, SendUdp, SendUnicast, Lose, LinkChange, vars, addrs

(* The netmask is always given, and one local host at most uses            *)
(* destmacaddr.                                                            *)
OneLocalTarget ==
  \A s \in Sketches : /\ \A arg \in s.setups \union s.acks : arg.mask
                     /\ \A a, b \in Targets(s) : a = b

(* Then a DNS query is addressed to the server, or to the gateway when the *)
(* server is not on the subnet.                                            *)
THEOREM DnsQueriesArrive == ASSUME OneLocalTarget PROVE Spec => DnsQueryReachesServer
<1>1. ASSUME PeerInv, GatewayMacGenuine, [Next]_vars, ~inDns, inDns', myip # NoIp
      PROVE  frame'.mac = NextHop(dnsip')
  <2> USE DEF PeerInv
  <2>1. DnsQuery
    BY <1>1 DEF Next, StaticSetup, SetHisIp, DhcpAck, DhcpDiscover, Idle, ArpIn, SendUdp,
                SendUnicast, DnsDone, HostAnswers, HostAsks, Lose, LinkChange, vars
  <2>2. /\ sketch \in Sketches /\ masked /\ myip = Me /\ GoogleDns \notin Lan /\ Me \notin Lan
        /\ NoIp \notin Lan /\ Bcast \notin Hosts /\ GoogleDns \in Hosts /\ GoogleDns # NoIp
    BY <1>1, ResolverAssumption DEF TypeOK
  <2>3. /\ dnsip' = DnsServer /\ frame'.mac = UdpRoute(dnsip') /\ ~ClientWaitingDns
        /\ dnsip' \in Hosts
    BY <1>1, <2>1, <2>2 DEF DnsQuery, DnsServer, TypeOK
  <2>4. CASE dnsip \in Lan
    <3>1. dnsip' = dnsip /\ IsLan(myip, dnsip)
      BY <1>1, <2>2, <2>3, <2>4 DEF DnsServer, IsLan
    <3>2. destmacaddr = dnsip
      BY <1>1, <2>2, <2>3, <2>4, <3>1 DEF ClientWaitingDns, OneLocalTarget
    <3> QED BY <2>2, <2>3, <2>4, <3>1, <3>2 DEF UdpRoute, Route, NextHop
  <2>5. CASE dnsip \notin Lan
    <3>0. /\ dnsip' \in {dnsip, GoogleDns} /\ dnsip \in Hosts \union {NoIp}
          /\ Me \notin Hosts /\ Me # NoIp
      BY <1>1, <2>3, ResolverAssumption DEF DnsServer, TypeOK
    <3>1. dnsip' \notin Lan /\ ~IsLan(myip, dnsip') /\ ~IsLan(myip, dnsip)
      BY <2>2, <2>5, <3>0 DEF IsLan
    <3>2. gwmacaddr = gwip
      BY <1>1, <2>3, <3>1 DEF ClientWaitingDns, GatewayMacGenuine
    <3> QED BY <2>2, <2>3, <3>1, <3>2 DEF UdpRoute, Route, NextHop
  <2> QED BY <2>4, <2>5
<1>2. PeerInv /\ GatewayMacGenuine /\ [Next]_vars =>
        [~inDns /\ inDns' /\ myip # NoIp => frame'.mac = NextHop(dnsip')]_vars
  BY <1>1
<1>3. PeerInv /\ [Next]_vars => PeerInv'
  BY StepPeer DEF OneLocalTarget
<1> QED BY <1>2, <1>3, InitPeer, GatewayGenuine, PTL DEF Spec, DnsQueryReachesServer

(* And whatever the sketch sends to its local peer, once that has been     *)
(* heard of, carries the peer's MAC.                                       *)
THEOREM PeersGetTheirFrames == ASSUME OneLocalTarget PROVE Spec => PeerMacGenuine
<1>1. ASSUME PeerInv, [Next]_vars, frame' # frame, frame'.dst = hisip, has_dest_mac,
             IsLan(myip, hisip)
      PROVE  frame'.mac = hisip
  <2> USE DEF PeerInv
  <2>1. /\ sketch \in Sketches /\ masked /\ myip = Me /\ Me \notin Hosts /\ Bcast \notin Hosts
    BY <1>1, ResolverAssumption DEF TypeOK, IsLan
  <2>2. hisip \in Lan
    BY <1>1, <2>1 DEF IsLan, TypeOK
  <2>3. destmacaddr = hisip
    BY <1>1, <2>1, <2>2 DEF OneLocalTarget
  <2>4. Route(hisip) = hisip /\ UdpRoute(hisip) = hisip
    BY <1>1, <2>1, <2>2, <2>3 DEF Route, UdpRoute
  <2>5. ASSUME NEW ip, frame' = [dst |-> ip, mac |-> UdpRoute(ip)] PROVE frame'.mac = hisip
    BY <1>1, <2>4, <2>5
  <2>6. ASSUME NEW ip, frame' = [dst |-> ip, mac |-> Route(ip)] PROVE frame'.mac = hisip
    BY <1>1, <2>4, <2>6
  <2>7. CASE DnsQuery
    <3>1. frame'.dst = dnsip' /\ frame'.mac = UdpRoute(dnsip')
      BY <2>7 DEF DnsQuery
    <3> QED BY <1>1, <2>4, <3>1 DEF UdpRoute, Route, IsLan
  <2> QED
    BY <1>1, <2>5, <2>6, <2>7
    DEF Next, SendUdp, SendUnicast, Idle, StaticSetup, DhcpAck, DhcpDiscover, SetHisIp, ArpIn,
        DnsDone, HostAnswers, HostAsks, Lose, LinkChange, vars
<1>2. PeerInv /\ [Next]_vars =>
        [(frame' # frame /\ frame'.dst = hisip /\ has_dest_mac
            /\ IsLan(myip, hisip)) => frame'.mac = hisip]_vars
  BY <1>1
<1>3. PeerInv /\ [Next]_vars => PeerInv'
  BY StepPeer DEF OneLocalTarget
<1> QED BY <1>2, <1>3, InitPeer, PTL DEF Spec, PeerMacGenuine
=============================================================================
