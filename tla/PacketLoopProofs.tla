-------------------------- MODULE PacketLoopProofs --------------------------
(***************************************************************************)
(* Proofs about PacketLoop: it implements Resolver and TcpClient, step by  *)
(* step, for all programs and all values of the constants, and a lookup    *)
(* that succeeds has heard the answer to itself.  At the end, the checksum *)
(* of the echo reply that packetLoop makes of a request.                   *)
(***************************************************************************)
EXTENDS PacketLoop, Checksum, TLAPS

(* What holds between the parts: hisip stays cleared while dnsLookup waits *)
(* for the answer, and each query has a transaction id of its own.         *)
Phases == {"idle", "link", "mac", "answer"}
Messages == [is : {"query", "error", "address", "other"}, tid : Nat, name : program.names]
TypeInv ==
  /\ program \in Programs /\ phase \in Phases /\ setups \in Nat
  /\ lookups \in 0 .. program.looks /\ dnstid_l \in 0 .. lookups
  /\ dnsWire \in SUBSET Messages /\ (phase # "idle" => asked \in program.names)
Cleared == phase = "answer" => hisip = NoIp
OwnTid ==
  /\ phase \in {"link", "mac"} => dnstid_l < lookups
  /\ \A m \in dnsWire : m.tid <= dnstid_l
  /\ phase = "answer" => \A m \in dnsWire : m.tid = dnstid_l => m.name = asked
LookupInv == TypeInv /\ Cleared /\ OwnTid

(* packetLoop returning inside dnsLookup does not end a wait for answers.  *)
LEMMA Returning ==
  ASSUME LoopReturns, phase \in Phases
  PROVE  /\ phase' \in Phases /\ (phase' = "answer") = (phase = "answer")
         /\ phase' # phase => phase' = "idle"
BY DEF LoopReturns, Return, Turn, Phases

(* No lookup has begun.                                                    *)
LEMMA InvInit == Init => LookupInv
<1> SUFFICES ASSUME Init PROVE LookupInv
  OBVIOUS
<1>1. program.looks \in Nat
  BY PacketLoopAssumption DEF Init
<1>2. setups = 0
  BY DEF Init, R!Init
<1> QED BY <1>1, <1>2 DEF Init, LookupInv, TypeInv, Cleared, OwnTid, Phases

(* Only a query and its answer touch what the invariant says: all else     *)
(* that packetLoop does leaves it, or ends the lookup.                     *)
LEMMA InvStep == LookupInv /\ [Next]_vars => LookupInv'
<1> SUFFICES ASSUME LookupInv, [Next]_vars PROVE LookupInv'
  OBVIOUS
<1> USE DEF LookupInv, TypeInv, Cleared, OwnTid, Messages
<1>0. program \in Programs /\ program.looks \in 0 .. NTid - 1 /\ NTid \in Nat \ {0}
  BY PacketLoopAssumption
(* Steps that leave the lookup's part alone, or end it.                    *)
<1>1. ASSUME UNCHANGED <<program, hisip, dns>>, setups' \in Nat, phase' \in Phases,
             phase' = phase \/ phase' = "idle"
      PROVE  LookupInv'
  BY <1>1 DEF dns
<1>2. ASSUME LoopReturns, UNCHANGED <<program, hisip, dns>>, setups' \in Nat
      PROVE  LookupInv'
  BY <1>1, <1>2, Returning
<1>3. CASE IdleLoop
  BY <1>2, <1>3 DEF IdleLoop, R!Idle, R!addrs, R!book
<1>4. ASSUME NEW pkt \in wire, ArpLoop(pkt) PROVE LookupInv'
  BY <1>2, <1>4 DEF ArpLoop, R!ArpIn, R!addrs, R!book
<1>5. CASE TcpLoop
  BY <1>2, <1>5 DEF TcpLoop, net
<1>6. CASE DhcpLoop
  BY <1>2, <1>6 DEF DhcpLoop, R!DhcpDiscover, R!DhcpAck, R!book
<1>7. ASSUME NEW n \in program.names, DnsLookup(n) PROVE LookupInv'
  BY <1>0, <1>7 DEF DnsLookup, net, Phases
<1>8. CASE WaitForLink
  BY <1>8 DEF WaitForLink, Turn, Return, net, dns, Phases
<1>9. CASE DnsRequest
  <2>1. /\ phase = "mac" /\ phase' = "answer" /\ hisip' = NoIp /\ setups' = setups
        /\ UNCHANGED <<program, asked, lookups>>
        /\ dnsWire' = dnsWire \union {[is |-> "query", tid |-> dnstid_l', name |-> asked]}
        /\ dnstid_l' = (dnstid_l + 1) % NTid
    BY <1>9 DEF DnsRequest, R!DnsQuery, R!book
  <2>2. dnstid_l' = dnstid_l + 1 /\ dnstid_l' \in 0 .. lookups
    BY <1>0, <2>1
  <2>3. \A m \in dnsWire : m.tid <= dnstid_l /\ m.tid \in Nat
    OBVIOUS
  <2>4. \A m \in dnsWire' : m.tid <= dnstid_l' /\ (m.tid = dnstid_l' => m.name = asked)
    BY <2>1, <2>2, <2>3
  <2> QED BY <2>1, <2>2, <2>4 DEF Phases
<1>10. CASE NothingReceived
  BY <1>1, <1>10 DEF NothingReceived, Turn, Return, net, Phases
<1>11. ASSUME NEW m \in dnsWire, CheckForDnsAnswer(m) PROVE LookupInv'
  <2>1. /\ dnsWire' = dnsWire \ {m} /\ UNCHANGED <<program, asked, dnstid_l, lookups>>
        /\ setups' = setups
        /\ phase' = "idle" \/ (phase' = phase /\ hisip' = hisip)
    BY <1>11 DEF CheckForDnsAnswer, R!DnsDone, R!book, Turn, Return, net
  <2> QED BY <2>1 DEF Phases
<1>12. CASE Configure
  BY <1>1, <1>12 DEF Configure, R!StaticSetup, R!book
<1>13. CASE Request \/ TcpReply \/ Tick \/ TcpServer
  BY <1>1, <1>13 DEF Request, TcpReply, Tick, TcpServer, net
<1>14. CASE LinkChange
  BY <1>1, <1>14 DEF LinkChange, R!LinkChange, R!addrs, R!book
<1>15. ASSUME NEW h \in Lan, ArpAnswer(h) PROVE LookupInv'
  BY <1>1, <1>15 DEF ArpAnswer, R!HostAnswers, R!addrs, R!book
<1>16. ASSUME NEW what \in {"error", "address", "other"}, DnsServer(what) PROVE LookupInv'
  <2>1. PICK m \in dnsWire : dnsWire' = (dnsWire \ {m}) \union {[m EXCEPT !.is = what]}
    BY <1>16 DEF DnsServer
  <2>2. UNCHANGED <<program, phase, hisip, setups, asked, dnstid_l, lookups>>
    BY <1>16 DEF DnsServer, net
  <2> DEFINE a == [m EXCEPT !.is = what]
  <2>3. a \in Messages /\ a.tid = m.tid /\ a.name = m.name
    OBVIOUS
  <2> HIDE DEF a
  <2> QED BY <2>1, <2>2, <2>3 DEF a
<1>17. CASE UNCHANGED vars
  BY <1>1, <1>17 DEF vars, net
<1> QED BY <1>3, <1>4, <1>5, <1>6, <1>7, <1>8, <1>9, <1>10, <1>11, <1>12, <1>13, <1>14, <1>15,
           <1>16, <1>17 DEF Next, TcpTurn, LookupTurn

-----------------------------------------------------------------------------
(* A lookup that succeeds leaves in hisip the address of the name it was   *)
(* asked for: up to NTid - 1 lookups, no answer still under way has its    *)
(* transaction id.                                                         *)
THEOREM AnswerHeardIsOwn == Spec => AnswerForThisLookup
<1>1. ASSUME LookupInv, [Next]_vars, phase = "answer", phase' = "idle", hisip' # NoIp
      PROVE  hisip' = Address[asked]
  <2> USE <1>1 DEF LookupInv, TypeInv, Cleared, OwnTid
  <2>1. CASE \E m \in dnsWire : CheckForDnsAnswer(m)
    <3>1. PICK m \in dnsWire : CheckForDnsAnswer(m)
      BY <2>1
    <3>2. m.tid = dnstid_l /\ hisip' = Address[m.name]
      BY <3>1 DEF CheckForDnsAnswer, IsDnsAnswer, Turn, net
    <3> QED BY <3>2
  <2>2. ASSUME hisip' = hisip PROVE FALSE
    BY <2>2
  <2>3. ~LoopReturns
    BY Returning
  <2>4. CASE DnsRequest \/ WaitForLink \/ NothingReceived \/ Configure \/ Request \/ TcpReply \/ Tick
             \/ LinkChange \/ TcpServer \/ UNCHANGED vars
    BY <2>2, <2>4 DEF DnsRequest, WaitForLink, NothingReceived, Configure, Request, TcpReply, Tick,
                     LinkChange, TcpServer, vars, net
  <2>5. CASE \/ \E n \in program.names : DnsLookup(n)
             \/ \E h \in Lan : ArpAnswer(h)
             \/ \E what \in {"error", "address", "other"} : DnsServer(what)
    BY <2>5 DEF DnsLookup, ArpAnswer, DnsServer
  <2> QED BY <2>1, <2>3, <2>4, <2>5
          DEF Next, TcpTurn, LookupTurn, IdleLoop, ArpLoop, TcpLoop, DhcpLoop
<1>2. LookupInv /\ [Next]_vars =>
        [phase = "answer" /\ phase' = "idle" /\ hisip' # NoIp => hisip' = Address[asked]]_vars
  BY <1>1
<1> QED BY <1>2, InvInit, InvStep, PTL DEF Spec, AnswerForThisLookup

-----------------------------------------------------------------------------
(* The two parts.  A step that leaves a part's variables alone is a        *)
(* stutter of it; for the TCP client the gateway may also be found, or be  *)
(* asked for anew.                                                         *)
LEMMA ResolverStutters ==
  ASSUME UNCHANGED <<program, net>>, (phase' = "answer") = (phase = "answer")
  PROVE  [R!Next]_(R!vars)
BY DEF R!vars, R!addrs, R!gwvars, R!destvars, R!book, net

LEMMA ClientStutters ==
  ASSUME UNCHANGED <<program, tcp>>
  PROVE  [C!Next]_(C!vars)
<1>1. CASE ("HAVE_GW_MAC" \in waitgwmac') = ("HAVE_GW_MAC" \in waitgwmac)
  BY <1>1 DEF C!vars, C!sketchvars, C!ghosts, C!wires, tcp
<1>2. CASE "HAVE_GW_MAC" \in waitgwmac' /\ "HAVE_GW_MAC" \notin waitgwmac
  BY <1>2 DEF C!Next, C!GatewayFound, C!GatewayFrame, C!sketchvars, C!ghosts, C!wires, tcp
<1>3. CASE "HAVE_GW_MAC" \notin waitgwmac' /\ "HAVE_GW_MAC" \in waitgwmac
  BY <1>3 DEF C!Next, C!SetGwIp, C!GatewayFrame, C!sketchvars, C!ghosts, C!wires, tcp
<1> QED BY <1>1, <1>2, <1>3

(* Every step of the composition is a step of Resolver.  Ending a lookup   *)
(* leaves hisip cleared or sets it to an address the sketch talks to: that *)
(* is where the invariant comes in.                                        *)
LEMMA ResolverStep == LookupInv /\ [Next]_vars => [R!Next]_(R!vars)
<1> SUFFICES ASSUME LookupInv, [Next]_vars PROVE [R!Next]_(R!vars)
  OBVIOUS
<1> USE DEF LookupInv, TypeInv, Cleared
<1>1. CASE IdleLoop
  <2>1. PICK syn \in BOOLEAN : R!Idle(syn)
    BY <1>1 DEF IdleLoop
  <2> QED BY <2>1 DEF R!Next
<1>2. ASSUME NEW pkt \in wire, ArpLoop(pkt) PROVE R!Next
  BY <1>2 DEF ArpLoop, R!Next
<1>3. CASE TcpLoop
  BY <1>3, Returning, ResolverStutters DEF TcpLoop
<1>4. CASE DhcpLoop
  BY <1>4 DEF DhcpLoop, R!Next
<1>5. ASSUME NEW n \in program.names, DnsLookup(n) PROVE [R!Next]_(R!vars)
  BY <1>5, ResolverStutters DEF DnsLookup
<1>6. CASE WaitForLink
  BY <1>6, ResolverStutters DEF WaitForLink, Turn, Return
<1>7. CASE DnsRequest
  BY <1>7 DEF DnsRequest, R!Next
<1>8. CASE NothingReceived
  <2>1. CASE TimedOut
    <3>1. R!DnsDone
      BY <1>8, <2>1 DEF NothingReceived, Return, R!DnsDone, R!gwvars, R!destvars, R!book, net
    <3> QED BY <3>1 DEF R!Next
  <2>2. CASE ~TimedOut
    BY <1>8, <2>2, ResolverStutters DEF NothingReceived, Turn
  <2> QED BY <2>1, <2>2
<1>9. ASSUME NEW m \in dnsWire, CheckForDnsAnswer(m) PROVE [R!Next]_(R!vars)
  <2>1. CASE IsDnsAnswer(m) /\ m.is \in {"error", "address"}
    BY <1>9, <2>1 DEF CheckForDnsAnswer, R!Next
  <2>2. CASE ~(IsDnsAnswer(m) /\ m.is \in {"error", "address"})
    BY <1>9, <2>2, ResolverStutters DEF CheckForDnsAnswer, Turn
  <2> QED BY <2>1, <2>2
<1>10. CASE Configure
  <2>1. setups + 1 \in 1 .. Len(program.configs) /\ R!StaticSetup(program.configs[setups + 1])
    BY <1>10, PacketLoopAssumption DEF Configure
  <2>2. program.configs[setups + 1] \in program.net.setups
    BY <2>1, PacketLoopAssumption
  <2> QED BY <2>1, <2>2 DEF R!Next
<1>11. CASE Request \/ TcpReply \/ Tick \/ TcpServer
  BY <1>11, ResolverStutters DEF Request, TcpReply, Tick, TcpServer
<1>12. CASE LinkChange
  BY <1>12 DEF LinkChange, R!Next
<1>13. ASSUME NEW h \in Lan, ArpAnswer(h) PROVE R!Next
  BY <1>13 DEF ArpAnswer, R!Next
<1>14. ASSUME NEW what \in {"error", "address", "other"}, DnsServer(what)
       PROVE  [R!Next]_(R!vars)
  BY <1>14, ResolverStutters DEF DnsServer
<1>15. CASE UNCHANGED vars
  BY <1>15, ResolverStutters DEF vars
<1> QED BY <1>1, <1>2, <1>3, <1>4, <1>5, <1>6, <1>7, <1>8, <1>9, <1>10, <1>11, <1>12, <1>13,
           <1>14, <1>15 DEF Next, TcpTurn, LookupTurn

(* And one of TcpClient: what resolves addresses does no more to it than   *)
(* find the gateway or ask for it again.                                   *)
LEMMA ClientStep == [Next]_vars => [C!Next]_(C!vars)
<1> SUFFICES ASSUME [Next]_vars PROVE [C!Next]_(C!vars)
  OBVIOUS
<1>1. ASSUME NEW k \in program.tcp.kinds, C!Request(k) PROVE C!Next
  BY <1>1 DEF C!Next
<1>2. ASSUME NEW f \in C!Fds, C!TcpReply(f) PROVE C!Next
  BY <1>2 DEF C!Next
<1>3. CASE C!SendSyn \/ C!PacketLoopReceive \/ C!ServerStep
  BY <1>3 DEF C!Next
<1>4. CASE IdleLoop \/ TcpTurn \/ Request
  BY <1>1, <1>2, <1>3, <1>4, ClientStutters
  DEF IdleLoop, TcpTurn, TcpServer, TcpLoop, TcpReply, Request
<1>5. CASE DhcpLoop \/ \E pkt \in wire : ArpLoop(pkt)
  BY <1>5, ClientStutters DEF DhcpLoop, ArpLoop
<1>6. CASE LookupTurn \/ Configure \/ Tick \/ LinkChange
  BY <1>6, ClientStutters
  DEF LookupTurn, WaitForLink, DnsRequest, NothingReceived, Configure, Tick, LinkChange
<1>7. CASE \/ \E n \in program.names : DnsLookup(n)
           \/ \E m \in dnsWire : CheckForDnsAnswer(m)
           \/ \E h \in Lan : ArpAnswer(h)
           \/ \E what \in {"error", "address", "other"} : DnsServer(what)
  BY <1>7, ClientStutters DEF DnsLookup, CheckForDnsAnswer, ArpAnswer, DnsServer
<1>8. CASE UNCHANGED vars
  BY <1>8, ClientStutters DEF vars
<1> QED BY <1>4, <1>5, <1>6, <1>7, <1>8 DEF Next

(* Resolver and TcpClient describe the composition truly, and what is      *)
(* proved of them holds of packetLoop and dnsLookup together.              *)
THEOREM PartsRight == Spec => PartsImplemented
<1>1. Init => R!Init /\ C!Init
  BY DEF Init
<1>2. LookupInv /\ [Next]_vars => [R!Next]_(R!vars) /\ [C!Next]_(C!vars)
  BY ResolverStep, ClientStep
<1> QED BY <1>1, <1>2, InvInit, InvStep, PTL DEF Spec, PartsImplemented, R!Spec, C!Spec

-----------------------------------------------------------------------------
(* The loop of fill_checksum that adds the carries back in runs twice at   *)
(* most, for every 32-bit sum.                                             *)
THEOREM CarriesGoneAfterTwo ==
  ASSUME NEW sum \in Nat, sum < 65536 * 65536
  PROVE  Carried(Carried(sum)) \in Nat /\ Carried(Carried(sum)) < 65536
<1> DEFINE once == Carried(sum)
<1>1. /\ sum % 65536 \in Nat /\ sum % 65536 < 65536
      /\ sum \div 65536 \in Nat /\ sum \div 65536 < 65536
  OBVIOUS
<1>2. once \in Nat /\ once <= 131070
  BY <1>1 DEF Carried
<1> HIDE DEF once
<1>3. CASE once < 65536
  <2>1. once % 65536 = once /\ once \div 65536 = 0
    BY <1>2, <1>3
  <2> QED BY <1>2, <1>3, <2>1 DEF Carried, once
<1>4. CASE once >= 65536
  <2>1. once % 65536 = once - 65536 /\ once \div 65536 = 1
    BY <1>2, <1>4
  <2>2. Carried(once) = once - 65535
    BY <1>2, <2>1 DEF Carried
  <2>3. Carried(Carried(sum)) = once - 65535
    BY <2>2 DEF once
  <2> QED BY <1>2, <1>4, <2>3
<1> QED BY <1>2, <1>3, <1>4

(* The patched checksum of an echo reply is the right one, that of the     *)
(* request plus 8 in the high byte, but for the requests whose checksum    *)
(* carries into a low byte that is full already: there the carry out of    *)
(* the low byte is lost.                                                   *)
THEOREM EchoReplyChecksumRight ==
  ASSUME NEW hi \in Byte, NEW lo \in Byte
  PROVE  EchoReplyChecksum(hi, lo) = OnesAdd(WordOf(hi, lo), WordOf(8, 0))
           <=> ~(hi > 247 /\ lo = 255)
<1>1. CASE hi <= 247
  <2>1. (hi + 8) % 256 = hi + 8
    BY <1>1 DEF Byte
  <2> QED BY <1>1, <2>1 DEF Byte, EchoReplyChecksum, OnesAdd, WordOf
<1>2. CASE hi > 247
  <2>1. (hi + 8) % 256 = hi - 248
    BY <1>2 DEF Byte
  <2>2. CASE lo < 255
    <3>1. (lo + 1) % 256 = lo + 1
      BY <2>2 DEF Byte
    <3> QED BY <1>2, <2>1, <2>2, <3>1 DEF Byte, EchoReplyChecksum, OnesAdd, WordOf
  <2>3. CASE lo = 255
    <3>1. (lo + 1) % 256 = 0
      BY <2>3
    <3> QED BY <1>2, <2>1, <2>3, <3>1 DEF Byte, EchoReplyChecksum, OnesAdd, WordOf
  <2> QED BY <2>2, <2>3 DEF Byte
<1> QED BY <1>1, <1>2 DEF Byte
=============================================================================
