----------------------------- MODULE PacketLoop -----------------------------
(***************************************************************************)
(* What packetLoop (tcpip.cpp) runs for every packet, composed: address    *)
(* resolution (Resolver) and the TCP client (TcpClient), sharing the       *)
(* gateway flags and hisip, and dnsLookup (dns.cpp), which calls           *)
(* packetLoop itself while it waits, and clears hisip.                     *)
(*                                                                         *)
(* Time counts for dnsLookup alone.  Its clock is millis() as a uint16_t,  *)
(* in ticks: it wraps, and each of the loops looks at it every tick.  ARP  *)
(* and DNS packets are delayed and reordered without limit; one that is    *)
(* lost is one that stays on its way for ever.                             *)
(***************************************************************************)
EXTENDS Integers, Sequences, FiniteSets

CONSTANTS
  Lan, Remote, Me, NoIp, Bcast, GoogleDns, DelayWrap, MaxSetups, MaxWire,
  NFd, NLow, MaxParts, MaxReqs, MaxSyns,
  Programs,   \* net: the sketch for Resolver; tcp: the setting for TcpClient;
              \* configs: the staticSetup calls it makes, in order; names: what
              \* it looks up, looks: how often at most
  Address,    \* the address of each name
  NoName,
  ClockWrap,  \* 2^16 milliseconds
  Timeout,    \* 30000 of them
  NTid        \* 256 in the code: dnstid_l is a byte

ASSUME PacketLoopAssumption ==
  /\ Timeout \in 1 .. ClockWrap - 1 /\ NTid \in Nat \ {0}
  /\ \A p \in Programs :
       /\ p.looks \in 0 .. NTid - 1 /\ NoName \notin p.names
       /\ \A n \in p.names : Address[n] \in p.net.hisIps
       /\ p.configs \in Seq(p.net.setups)

VARIABLES
  program,
  myip, gwip, dnsip, hisip, masked, waitgwmac, delaycnt, gwmacaddr, destmacaddr,
  has_dns_mac, waiting_for_dns_mac, has_dest_mac, waiting_for_dest_mac,
  linkUp, wire, frame, setups,
  tcp_client_state, tcp_fd, tcpclient_src_port_l, www_fd, kind, result_fd,
  resultFrom, req, opened, filled, replies, served, handed, toServer, toClient, srv,
  phase,      \* where dnsLookup is: which of its loops, "idle" outside it
  asked,      \* the name it looks up
  clock, start,
  polled,     \* the loop has looked at the clock in this tick
  dnstid_l,
  dnsWire,    \* DNS queries and answers in flight
  lookups

net == <<myip, gwip, dnsip, hisip, masked, waitgwmac, delaycnt, gwmacaddr, destmacaddr,
         has_dns_mac, waiting_for_dns_mac, has_dest_mac, waiting_for_dest_mac, linkUp,
         wire, frame, setups>>
tcp == <<tcp_client_state, tcp_fd, tcpclient_src_port_l, www_fd, kind, result_fd,
         resultFrom, req, opened, filled, replies, served, handed, toServer, toClient,
         srv>>
timing == <<clock, start, polled>>
dns == <<asked, dnstid_l, dnsWire, lookups>>
vars == <<program, net, tcp, phase, timing, dns>>

R == INSTANCE Resolver WITH
       Sketches <- {p.net : p \in Programs}, sketch <- program.net,
       inDns <- phase = "answer"
C == INSTANCE TcpClient WITH
       Settings <- {p.tcp : p \in Programs}, setting <- program.tcp,
       hasGw <- "HAVE_GW_MAC" \in waitgwmac

Init ==
  /\ program \in Programs /\ phase = "idle"
  /\ R!Init /\ C!Init
  /\ asked = NoName /\ clock = 0 /\ start = 0 /\ polled = FALSE
  /\ dnstid_l = 0 /\ dnsWire = {} /\ lookups = 0

-----------------------------------------------------------------------------
(* uint16_t(millis()) - start in the 16-bit int of AVR boards; a wider type *)
(* would not wrap (ElapsedWide).                                           *)
ElapsedWide == clock - start
Elapsed == (clock - start) % ClockWrap
TimedOut == Elapsed >= Timeout

(* One turn of the loop that dnsLookup is in, which may be its last.       *)
Turn(p) == phase' = p /\ polled' = TRUE /\ UNCHANGED <<clock, start>>
Return == phase' = "idle" /\ clock' = 0 /\ start' = 0 /\ polled' = FALSE

(* packetLoop returns: to loop(), or to dnsLookup.  A lookup that waits    *)
(* for a MAC looks at the clock afterwards, one that waits for the answer  *)
(* has done so before the packet came in.                                  *)
LoopReturns ==
  \/ phase = "idle" /\ UNCHANGED <<phase, timing>>
  \/ phase = "mac" /\ R!ClientWaitingDns /\ IF TimedOut THEN Return ELSE Turn("mac")
  \/ phase = "answer" /\ ~TimedOut /\ Turn("answer")

-----------------------------------------------------------------------------
(* packetLoop with nothing received: ARP requests, and a pending SYN.      *)
IdleLoop ==
  /\ LoopReturns /\ UNCHANGED <<program, dns>>
  /\ \/ R!Idle(TRUE) /\ C!SendSyn
     \/ /\ ~(tcp_client_state = "SENDSYN" /\ ~R!ClientWaitingGw)
        /\ R!Idle(FALSE) /\ UNCHANGED tcp

ArpLoop(pkt) ==
  /\ LoopReturns /\ UNCHANGED <<program, dns>>
  /\ R!ArpIn(pkt)
  /\ UNCHANGED tcp

(* A TCP segment: all of them come from the one server the sketch talks    *)
(* to, and check_ip_message_is_from(hisip) fails while hisip is cleared.   *)
TcpLoop ==
  /\ hisip # NoIp
  /\ LoopReturns /\ UNCHANGED <<program, net, dns>>
  /\ C!PacketLoopReceive

(* packetLoop runs the DHCP client first.  A request it sends is built     *)
(* over the packet just received, which is as good as lost.                *)
DhcpLoop ==
  /\ LoopReturns /\ UNCHANGED <<program, tcp, dns>>
  /\ R!DhcpDiscover \/ \E arg \in program.net.acks : R!DhcpAck(arg)

-----------------------------------------------------------------------------
(* dnsLookup.  The sketch calls it, as it makes a request, once it is done *)
(* with the last request.                                                  *)
DnsLookupClearsFirst(name) ==
  /\ phase = "idle" /\ lookups < program.looks /\ C!SketchReady
  /\ phase' = "link" /\ asked' = name /\ lookups' = lookups + 1
  /\ \E now \in 0 .. ClockWrap - 1 : clock' = now /\ start' = now
  /\ polled' = FALSE /\ hisip' = NoIp
  /\ UNCHANGED <<program, myip, gwip, dnsip, masked, waitgwmac, delaycnt, gwmacaddr,
                 destmacaddr, has_dns_mac, waiting_for_dns_mac, has_dest_mac,
                 waiting_for_dest_mac, linkUp, wire, frame, setups, tcp, dnstid_l, dnsWire>>
DnsLookup(name) ==
  /\ phase = "idle" /\ lookups < program.looks /\ C!SketchReady
  /\ phase' = "link" /\ asked' = name /\ lookups' = lookups + 1
  /\ \E now \in 0 .. ClockWrap - 1 : clock' = now /\ start' = now
  /\ polled' = FALSE
  /\ UNCHANGED <<program, net, tcp, dnstid_l, dnsWire>>

WaitForLink ==
  /\ phase = "link"
  /\ CASE linkUp -> Turn("mac") [] ~linkUp /\ TimedOut -> Return [] OTHER -> Turn("link")
  /\ UNCHANGED <<program, net, tcp, dns>>

DnsRequest ==
  /\ phase = "mac" /\ phase' = "answer"
  /\ start' = clock /\ polled' = TRUE /\ UNCHANGED clock
  /\ UNCHANGED <<program, tcp, asked, lookups>>
  /\ R!DnsQuery
  /\ dnstid_l' = (dnstid_l + 1) % NTid
  /\ dnsWire' = dnsWire \union {[is |-> "query", tid |-> dnstid_l', name |-> asked]}

NothingReceived ==
  /\ phase = "answer"
  /\ IF TimedOut THEN Return ELSE Turn("answer")
  /\ UNCHANGED <<program, net, tcp, dns>>

(* checkForDnsAnswer, on a packet that packetLoop has left alone: another  *)
(* lookup's answer, an error, an address, or no address among the records. *)
IsDnsAnswerAnyTid(m) == m.is # "query"
IsDnsAnswer(m) == m.is # "query" /\ m.tid = dnstid_l
CheckForDnsAnswer(m) ==
  /\ phase = "answer" /\ ~TimedOut /\ m.is # "query"
  /\ dnsWire' = dnsWire \ {m}
  /\ UNCHANGED <<program, tcp, asked, dnstid_l, lookups>>
  /\ IF IsDnsAnswer(m) /\ m.is \in {"error", "address"}
     THEN /\ Return
          /\ hisip' = IF m.is = "address" THEN Address[m.name] ELSE NoIp
          /\ R!DnsDone
     ELSE Turn("answer") /\ UNCHANGED net

-----------------------------------------------------------------------------
(* The rest of the sketch: staticSetup, browseUrl or tcpSend, tcpReply.    *)
Configure ==
  /\ phase = "idle" /\ UNCHANGED <<program, phase, tcp, timing, dns>>
  /\ setups < Len(program.configs) /\ R!StaticSetup(program.configs[setups + 1])
Request ==
  /\ phase = "idle" /\ hisip # NoIp
  /\ UNCHANGED <<program, phase, net, timing, dns>>
  /\ \E k \in program.tcp.kinds : C!Request(k)
TcpReply ==
  /\ phase = "idle" /\ UNCHANGED <<program, phase, net, timing, dns>>
  /\ \E f \in C!Fds : C!TcpReply(f)

(* External: the clock, the cable, the other hosts.                        *)
Tick ==
  /\ phase # "idle" /\ polled /\ polled' = FALSE
  /\ clock' = (clock + 1) % ClockWrap
  /\ UNCHANGED <<program, phase, net, tcp, start, dns>>
LinkChange ==
  /\ UNCHANGED <<program, phase, tcp, timing, dns>>
  /\ R!LinkChange
ArpAnswer(h) ==
  /\ UNCHANGED <<program, phase, tcp, timing, dns>>
  /\ R!HostAnswers(h)
DnsServer(what) ==
  /\ \E m \in dnsWire : m.is = "query" /\ dnsWire' = (dnsWire \ {m}) \union {[m EXCEPT !.is = what]}
  /\ UNCHANGED <<program, phase, net, tcp, timing, asked, dnstid_l, lookups>>
TcpServer ==
  /\ UNCHANGED <<program, phase, net, timing, dns>>
  /\ C!ServerStep
LookupTurn == WaitForLink \/ DnsRequest \/ NothingReceived
TcpTurn == TcpServer \/ TcpLoop \/ TcpReply
Next ==
  \/ IdleLoop \/ TcpTurn \/ DhcpLoop
  \/ \E pkt \in wire : ArpLoop(pkt)
  \/ \E n \in program.names : DnsLookup(n)
  \/ LookupTurn
  \/ \E m \in dnsWire : CheckForDnsAnswer(m)
  \/ Configure \/ Request \/ Tick \/ LinkChange
  \/ \E h \in Lan : ArpAnswer(h)
  \/ \E what \in {"error", "address", "other"} : DnsServer(what)

Spec == Init /\ [][Next]_vars

(* Every loop goes on, and time with it, and the card is not receiving all *)
(* the time; an ARP request made again and again is answered, and the      *)
(* answer received, some day; the web server answers, and what it sends    *)
(* arrives.  Nothing is assumed of the DNS server.                         *)
GatewayAnswers == \E h \in Lan : h = gwip /\ ArpAnswer(h)
GatewayHeard ==
  \E pkt \in wire :
    pkt.op = "reply" /\ pkt.src = gwip /\ ArpLoop(pkt)
Fairness ==
  /\ WF_vars(LookupTurn \/ Tick) /\ WF_vars(IdleLoop) /\ WF_vars(TcpTurn)
  /\ SF_vars(GatewayAnswers) /\ SF_vars(GatewayHeard)
FairSpec == Spec /\ Fairness

-----------------------------------------------------------------------------
(* Resolver and TcpClient describe the composition truly: every step of it *)
(* is one of theirs, or leaves their part alone.  What is shown and proved *)
(* of them holds of the program in which dnsLookup clears hisip under the  *)
(* client's feet and calls packetLoop from inside a sketch's callback-free *)
(* loop.                                                                   *)
PartsImplemented == R!Spec /\ C!Spec

(* dnsLookup returns, though the link is down, the gateway silent, the     *)
(* server's answer lost, late, an error or without an address.             *)
LookupReturns == phase # "idle" ~> phase = "idle"

(* A lookup that succeeds leaves in hisip the address of the name it was   *)
(* asked for, whatever answers to earlier lookups are still under way.     *)
AnswerForThisLookup ==
  [][phase = "answer" /\ phase' = "idle" /\ hisip' # NoIp => hisip' = Address[asked]]_vars

(* With the link up for good every request to a host beyond the gateway is *)
(* answered: its SYN waits until packetLoop has found the gateway.  (The   *)
(* replies begin with more than 12 bytes; a shorter segment is dropped.)   *)
EveryRequestServed ==
  <>[]linkUp => \A r \in C!Reqs : req = r ~> replies[r] > 0

=============================================================================
