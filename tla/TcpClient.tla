------------------------------ MODULE TcpClient ------------------------------
(***************************************************************************)
(* The TCP client of tcpip.cpp: clientTcpReq and the requests built on it  *)
(* (browseUrl and httpPost, kind "www"; tcpSend, kind "stash"), the SYN    *)
(* sent by an idle packetLoop, and packetLoop on a segment from hisip.     *)
(*                                                                         *)
(* There is one connection state for all requests.  A segment belongs to   *)
(* the client when the high byte of its port does; the low byte is the     *)
(* request's descriptor (fd) and a counter of SYNs (low), and only the fd  *)
(* is ever looked at.  The server and the wire are external: the wire      *)
(* reorders, what is lost is never received, and nothing arrives twice     *)
(* unless the server retransmits.                                          *)
(***************************************************************************)
EXTENDS Integers, FiniteSets

CONSTANTS
  NFd,        \* 8 in the code: tcp_fd takes three bits of the port
  NLow,       \* 32 in the code: the other five count the SYNs
  Settings,   \* sketches and the servers they talk to: see SettingType
  MaxParts,   \* bound on the segments of a server's reply
  MaxReqs,    \* bound on the number of requests
  MaxSyns     \* bound on the number of SYNs

(* kinds: the kinds of request the sketch makes; when: it makes one at     *)
(* "any" time, being "patient" for the last reply, or once all traffic is  *)
(* "quiet"; persist: it called persistTcpConnection(true); parts: segments *)
(* of the server's reply; short: those of 12 bytes or fewer; repeats: the  *)
(* server retransmits, what it sent arrives any number of times; refuses:  *)
(* it may refuse or abort.                                                 *)
SettingType ==
  [kinds : SUBSET {"www", "stash"}, when : {"any", "patient", "quiet"},
   persist : BOOLEAN, parts : 1 .. MaxParts, short : SUBSET (1 .. MaxParts),
   repeats : BOOLEAN, refuses : BOOLEAN, reqs : 0 .. MaxReqs]

ASSUME TcpClientAssumption ==
  /\ NFd \in Nat \ {0} /\ NLow \in Nat \ {0} /\ MaxParts \in Nat \ {0}
  /\ MaxReqs \in Nat /\ MaxSyns \in Nat
  /\ Settings \subseteq SettingType

Fds == 0 .. NFd - 1
Ports == [fd : Fds, low : 0 .. NLow - 1]
NoFd == -1            \* 123 in the code, a descriptor no request has
NoReq == 0            \* "of no request": requests are numbered from 1
Reqs == 1 .. MaxReqs
Several == 2          \* where the counts of payloads and replies stop
OneMore(n) == IF n < Several THEN n + 1 ELSE Several

VARIABLES
  setting,     \* the sketch on this board and its server
  tcp_client_state, tcp_fd, tcpclient_src_port_l, www_fd,
  kind,        \* which callbacks are registered
  result_fd,   \* stash: descriptor of the reply not yet picked up
  resultFrom,  \* what result_ptr points to: a reply to this request
  hasGw,       \* waitgwmac has WGW_HAVE_GW_MAC, see Resolver
  req,         \* the sketch's last request (a count)
  opened,      \* the request each port was opened for
  filled,      \* payloads sent for each request, counted to Several
  replies,     \* replies handed to the sketch for each request, likewise
  served,      \* for every reply: whom it was handed to, what it answers
  handed,      \* the parts handed to a callback of the sketch, per port,
               \* or, with a stash, left for tcpReply
  toServer, toClient,
  srv          \* external: the server's end of every connection

sketchvars == <<setting, tcp_fd, www_fd, kind, req>>
ghosts == <<filled, replies, served, handed>>
wires == <<toServer, toClient, srv>>
vars == <<tcp_client_state, tcpclient_src_port_l, result_fd, resultFrom, hasGw,
          opened, sketchvars, ghosts, wires>>

States == {"NONE", "SENDSYN", "SYNSENT", "ESTABLISHED", "CLOSING", "CLOSED"}
ClientSegs ==
  [port : Ports, is : {"syn", "payload", "ack", "fin", "rst"},
   n : 0 .. MaxReqs + MaxParts]
ServerSegs ==
  [port : Ports, is : {"synack", "data", "fin", "rst"}, n : 0 .. MaxParts,
   of : Reqs \union {NoReq}]     \* data: the request it answers
Conns ==
  [st : {"closed", "synrcvd", "open", "finsent"}, got : Reqs \union {NoReq},
   acked : 0 .. MaxParts]

TypeOK ==
  /\ setting \in Settings
  /\ tcp_client_state \in States
  /\ tcp_fd \in Fds /\ www_fd \in Fds
  /\ tcpclient_src_port_l \in 0 .. NLow - 1
  /\ kind \in setting.kinds \union {"none"}
  /\ result_fd \in Fds \union {NoFd} /\ resultFrom \in Reqs \union {NoReq}
  /\ hasGw \in BOOLEAN
  /\ req \in 0 .. MaxReqs
  /\ opened \in [Ports -> Reqs \union {NoReq}]
  /\ filled \in [Reqs -> 0 .. Several] /\ replies \in [Reqs -> 0 .. Several]
  /\ served \subseteq [to : Reqs, from : Reqs \union {NoReq}]
  /\ handed \in [Ports -> SUBSET (1 .. MaxParts)]
  /\ toServer \subseteq ClientSegs /\ toClient \subseteq ServerSegs
  /\ srv \in [Ports -> Conns]

Init ==
  /\ setting \in Settings
  /\ tcp_client_state = "NONE" /\ tcp_fd = 0 /\ www_fd = 0
  /\ tcpclient_src_port_l = 1 % NLow
  /\ kind = "none" /\ result_fd = NoFd /\ resultFrom = NoReq
  /\ hasGw = FALSE /\ req = 0
  /\ opened = [p \in Ports |-> NoReq]
  /\ filled = [r \in Reqs |-> 0] /\ replies = [r \in Reqs |-> 0]
  /\ served = {} /\ handed = [p \in Ports |-> {}]
  /\ toServer = {} /\ toClient = {}
  /\ srv = [p \in Ports |-> [st |-> "closed", got |-> NoReq, acked |-> 0]]

Seg(p, what, n) == [port |-> p, is |-> what, n |-> n]
ServerSeg(p, what, n, r) == [port |-> p, is |-> what, n |-> n, of |-> r]

-----------------------------------------------------------------------------
(* The sketch.  A stash sketch calls tcpReply between two packetLoops for  *)
(* every session it waits for: result_ptr points into the shared buffer.   *)
PolledFds == IF setting.when = "any" THEN Fds ELSE {www_fd}
Polled == kind = "stash" => result_fd \notin PolledFds

SketchReady ==
  setting.when # "any" /\ req > 0 =>
    /\ replies[req] > 0
    /\ setting.when = "quiet" => toServer = {} /\ toClient = {}

NextFdUnmasked(fd) == fd + 1
NextFd(fd) == (fd + 1) % NFd

(* clientTcpReq, with browseUrl/httpPost or tcpSend storing its callbacks  *)
(* and the descriptor it returns.                                          *)
Request(k) ==
  /\ req < setting.reqs /\ SketchReady /\ Polled
  /\ req' = req + 1
  /\ kind' = k
  /\ tcp_client_state' = "SENDSYN"
  /\ tcp_fd' = NextFd(tcp_fd)
  /\ www_fd' = tcp_fd'
  /\ UNCHANGED <<setting, tcpclient_src_port_l, result_fd, resultFrom, hasGw,
                 opened, ghosts, wires>>

(* tcpReply(f); the sketch means by f the last request that returned it.   *)
MeantBy(f) ==
  CHOOSE r \in 1 .. req : r % NFd = f /\ \A q \in 1 .. req : q % NFd = f => q <= r
ResultForAnyone(f) == result_fd # NoFd
ResultFor(f) == result_fd = f
TcpReply(f) ==
  /\ kind = "stash" /\ f \in PolledFds /\ ResultFor(f)
  /\ result_fd' = NoFd
  /\ \E r \in 1 .. req : r % NFd = f
  /\ replies' = [replies EXCEPT ![MeantBy(f)] = OneMore(@)]
  /\ served' = served \union {[to |-> MeantBy(f), from |-> resultFrom]}
  /\ UNCHANGED <<tcp_client_state, tcpclient_src_port_l, resultFrom, hasGw,
                 opened, sketchvars, filled, handed, wires>>

-----------------------------------------------------------------------------
(* packetLoop(0): send the SYN of a pending request once the gateway is    *)
(* known, from a new port.                                                 *)
SendSyn ==
  LET low == (tcpclient_src_port_l + 1) % NLow
      p == [fd |-> tcp_fd, low |-> low]
  IN
  /\ tcp_client_state = "SENDSYN" /\ hasGw /\ Polled
  /\ Cardinality({q \in Ports : opened[q] # NoReq}) < MaxSyns
  /\ tcp_client_state' = "SYNSENT"
  /\ tcpclient_src_port_l' = low
  /\ opened' = [opened EXCEPT ![p] = req]
  /\ toServer' = toServer \union {Seg(p, "syn", 0)}
  /\ UNCHANGED <<result_fd, resultFrom, hasGw, sketchvars, ghosts, toClient,
                 srv>>

GatewayFrame ==
  UNCHANGED <<tcp_client_state, tcpclient_src_port_l, result_fd, resultFrom,
             opened, sketchvars, ghosts, wires>>
(* The gateway's MAC becomes known; setGwIp forgets it.                    *)
GatewayFound == ~hasGw /\ hasGw' = TRUE /\ GatewayFrame
SetGwIp == hasGw /\ hasGw' = FALSE /\ GatewayFrame
-----------------------------------------------------------------------------
(* The two datafill callbacks: which request's payload they produce for a  *)
(* connection with descriptor fd.                                          *)
WwwDatafillUnchecked(fd) == req
WwwDatafill(fd) == IF fd = www_fd THEN req ELSE NoReq
StashDatafill(fd) == req
Datafill(fd) == IF kind = "www" THEN WwwDatafill(fd) ELSE StashDatafill(fd)

(* The two result callbacks on data.  The sketch's own callback gets it    *)
(* when the descriptor is www_fd (with another it is called with status 4  *)
(* and no data) and there are more than 12 bytes; tcp_result_cb leaves     *)
(* data of any length for tcpReply.                                        *)
WwwResultUnchecked(seg) == TRUE
WwwResult(seg) == seg.port.fd = www_fd /\ seg.n \notin setting.short
HandsOver(seg) == kind = "www" => WwwResult(seg)
ResultCb(seg) ==
  IF kind = "www"
  THEN /\ IF WwwResult(seg)
          THEN /\ replies' = [replies EXCEPT ![req] = OneMore(@)]
               /\ served' = served \union {[to |-> req, from |-> seg.of]}
          ELSE UNCHANGED <<replies, served>>
       /\ UNCHANGED <<result_fd, resultFrom>>
  ELSE /\ result_fd' = seg.port.fd /\ resultFrom' = seg.of
       /\ UNCHANGED <<replies, served>>

(* packetLoop on a segment from hisip, one action per way through it.      *)
Receive(seg) ==
  Polled /\ toClient' = IF setting.repeats THEN toClient ELSE toClient \ {seg}
Answer(S) == toServer' = toServer \union S

(* A reset reaches the result callback with status 3, which neither www    *)
(* nor stash passes on, and parks the connection state.                    *)
AfterResetRetry == "SENDSYN"
AfterReset == "CLOSING"
RcvReset(seg) ==
  /\ seg.is = "rst" /\ Receive(seg)
  /\ tcp_client_state' = AfterReset
  /\ UNCHANGED <<tcpclient_src_port_l, result_fd, resultFrom, hasGw, opened,
                 sketchvars, ghosts, toServer, srv>>

(* SYN+ACK while waiting for one: acknowledge it, fill and send.           *)
RcvSynAck(seg) ==
  LET r == Datafill(seg.port.fd) IN
  /\ tcp_client_state = "SYNSENT" /\ seg.is = "synack" /\ Receive(seg)
  /\ tcp_client_state' = "ESTABLISHED"
  /\ result_fd' = IF kind = "stash" THEN NoFd ELSE result_fd
  /\ filled' = IF r = NoReq THEN filled ELSE [filled EXCEPT ![r] = OneMore(@)]
  /\ Answer({Seg(seg.port, "ack", 0)} \union
            {Seg(seg.port, "payload", q) : q \in {r} \ {NoReq}})
  /\ UNCHANGED <<tcpclient_src_port_l, resultFrom, hasGw, opened, sketchvars,
                 replies, served, handed, srv>>

(* Anything else while waiting for SYN+ACK: reset it, send a new SYN.      *)
RcvUnexpected(seg) ==
  /\ tcp_client_state = "SYNSENT" /\ seg.is \notin {"rst", "synack"}
  /\ Receive(seg)
  /\ tcp_client_state' = "SENDSYN"
  /\ Answer({Seg(seg.port, "rst", 0)})
  /\ UNCHANGED <<tcpclient_src_port_l, result_fd, resultFrom, hasGw, opened,
                 sketchvars, ghosts, srv>>

(* Data on an established connection: call the result callback, then close *)
(* the connection or, when it persists, acknowledge.                       *)
AfterDataOpen == "ESTABLISHED"
AfterData == IF setting.persist THEN "ESTABLISHED" ELSE "CLOSED"
RcvData(seg) ==
  /\ tcp_client_state = "ESTABLISHED" /\ seg.is = "data" /\ Receive(seg)
  /\ ResultCb(seg)
  /\ handed' = IF HandsOver(seg)
               THEN [handed EXCEPT ![seg.port] = @ \union {seg.n}] ELSE handed
  /\ tcp_client_state' = AfterData
  /\ Answer({Seg(seg.port, IF setting.persist THEN "ack" ELSE "fin", seg.n)})
  /\ UNCHANGED <<tcpclient_src_port_l, hasGw, opened, sketchvars, filled, srv>>

(* A FIN: ignored while established (the data may come after it) and when  *)
(* closing, acknowledged and the end of the connection otherwise.          *)
FinEndsAlways == tcp_client_state \notin {"SYNSENT", "CLOSING"}
FinEnds == tcp_client_state \notin {"SYNSENT", "ESTABLISHED", "CLOSING"}
RcvFin(seg) ==
  /\ seg.is = "fin" /\ FinEnds /\ Receive(seg)
  /\ tcp_client_state' = "CLOSED"
  /\ Answer({Seg(seg.port, "fin", seg.n)})
  /\ UNCHANGED <<tcpclient_src_port_l, result_fd, resultFrom, hasGw, opened,
                 sketchvars, ghosts, srv>>

(* Data that no connection is waiting for is acknowledged all the same.    *)
RcvLateData(seg) ==
  /\ seg.is = "data"
  /\ tcp_client_state \notin {"SYNSENT", "ESTABLISHED", "CLOSING"}
  /\ Receive(seg)
  /\ Answer({Seg(seg.port, "ack", seg.n)})
  /\ UNCHANGED <<tcp_client_state, tcpclient_src_port_l, result_fd, resultFrom,
                 hasGw, opened, sketchvars, ghosts, srv>>

RcvIgnored(seg) ==
  /\ \/ seg.is = "fin" /\ ~FinEnds /\ tcp_client_state # "SYNSENT"
     \/ seg.is = "synack" /\ tcp_client_state # "SYNSENT"
     \/ seg.is = "data" /\ tcp_client_state = "CLOSING"
  /\ Receive(seg)
  /\ UNCHANGED <<tcp_client_state, tcpclient_src_port_l, result_fd, resultFrom,
                 hasGw, opened, sketchvars, ghosts, toServer, srv>>

PacketLoopReceive ==
  \E seg \in toClient :
    \/ RcvReset(seg) \/ RcvSynAck(seg) \/ RcvUnexpected(seg) \/ RcvData(seg)
    \/ RcvFin(seg) \/ RcvLateData(seg) \/ RcvIgnored(seg)

-----------------------------------------------------------------------------
(* External: a web server, answering a request with some segments one at a *)
(* time (the window it is offered holds one) and a FIN with the last.      *)
clientvars == <<tcp_client_state, tcpclient_src_port_l, result_fd, resultFrom,
                hasGw, opened, sketchvars, ghosts>>

(* What the server has unacknowledged on a connection.                     *)
Outstanding(p, c) ==
  CASE c.st = "synrcvd" -> {ServerSeg(p, "synack", 0, NoReq)}
    [] c.st = "open" /\ c.got # NoReq /\ c.acked < setting.parts ->
         {ServerSeg(p, "data", c.acked + 1, c.got)} \union
         {ServerSeg(p, "fin", q, NoReq) :
            q \in {c.acked + 1} \intersect {setting.parts}}
    [] c.st = "finsent" -> {ServerSeg(p, "fin", setting.parts, NoReq)}
    [] OTHER -> {}

Serve(seg, c) ==
  /\ srv' = [srv EXCEPT ![seg.port] = c]
  /\ toServer' = toServer \ {seg}
  /\ toClient' = toClient \union Outstanding(seg.port, c)
  /\ UNCHANGED clientvars

ServerAccepts(seg) ==
  /\ seg.is = "syn" /\ srv[seg.port].st = "closed"
  /\ Serve(seg, [st |-> "synrcvd", got |-> NoReq, acked |-> 0])
ServerReads(seg) ==
  /\ seg.is = "payload" /\ srv[seg.port].st \in {"synrcvd", "open"}
  /\ srv[seg.port].got = NoReq
  /\ Serve(seg, [st |-> "open", got |-> seg.n, acked |-> 0])
ServerGetsAck(seg) ==
  LET c == srv[seg.port] IN
  /\ seg.is = "ack" /\ c.st \in {"synrcvd", "open"}
  /\ Serve(seg, [c EXCEPT !.st = "open",
                          !.acked = IF seg.n > @ THEN seg.n ELSE @])
(* The client's FIN leaves the server free to send the rest.               *)
ServerGetsFin(seg) ==
  LET c == srv[seg.port]
      acked == IF seg.n > c.acked THEN seg.n ELSE c.acked
  IN
  /\ seg.is = "fin" /\ c.st \in {"open", "finsent"}
  /\ Serve(seg, [c EXCEPT !.acked = acked,
                          !.st = CASE acked < setting.parts -> c.st
                                   [] acked >= setting.parts /\ c.st = "open" -> "finsent"
                                   [] OTHER -> "closed"])
ServerDrops(seg) ==
  LET c == srv[seg.port] IN
  /\ \/ seg.is = "rst"
     \/ seg.is = "syn" /\ (c.st # "closed" \/ setting.refuses)
     \/ seg.is # "syn" /\ c.st = "closed"
     \/ seg.is = "payload" /\ c.got # NoReq
     \/ seg.is = "ack" /\ c.st = "finsent"
  /\ srv' = [srv EXCEPT ![seg.port].st = IF seg.is = "rst" THEN "closed" ELSE @]
  /\ toServer' = toServer \ {seg}
  /\ toClient' = IF c.st = "closed" /\ seg.is # "rst"
                 THEN toClient \union {ServerSeg(seg.port, "rst", 0, NoReq)}
                 ELSE toClient
  /\ UNCHANGED clientvars

ServerStep ==
  \E seg \in toServer :
    \/ ServerAccepts(seg) \/ ServerReads(seg) \/ ServerGetsAck(seg)
    \/ ServerGetsFin(seg) \/ ServerDrops(seg)

ServerAborts(p) ==
  /\ setting.refuses /\ srv[p].st # "closed"
  /\ srv' = [srv EXCEPT ![p].st = "closed"]
  /\ toClient' = toClient \union {ServerSeg(p, "rst", 0, NoReq)}
  /\ UNCHANGED <<clientvars, toServer>>

Next ==
  \/ \E k \in setting.kinds : Request(k)
  \/ \E f \in Fds : TcpReply(f)
  \/ SendSyn \/ GatewayFound \/ SetGwIp \/ PacketLoopReceive \/ ServerStep
  \/ \E p \in Ports : ServerAborts(p)

Spec == Init /\ [][Next]_vars

-----------------------------------------------------------------------------
(* The payload of a request is produced at most once, whatever segments    *)
(* arrive and however often the SYN is retried: a POST is not sent twice.  *)
FillOnce == \A r \in Reqs : filled[r] <= 1

(* Unless connections persist, the sketch is handed at most one reply for  *)
(* each of its requests, however often the server repeats it.              *)
OneReply == ~setting.persist => \A r \in Reqs : replies[r] <= 1

(* A reply handed over for a request answers that request.                 *)
ReplyForTheRequest == \A s \in served : s.from = s.to

(* The payload of a www request goes out on the connection opened for it:  *)
(* www_client_internal_datafill_cb compares descriptors, which             *)
(* tcp_datafill_cb does not.                                               *)
PayloadOnOwnConnection ==
  "stash" \notin setting.kinds =>
    \A seg \in toServer : seg.is = "payload" => opened[seg.port] = seg.n

(* On a persistent connection the client acknowledges no segment of more   *)
(* than 12 bytes that the sketch was not handed.  The shorter ones         *)
(* www_client_internal_result_cb drops, and they are acknowledged all the  *)
(* same.                                                                   *)
AckedMeansHanded ==
  setting.persist =>
    \A seg \in toServer :
      seg.is \in {"ack", "fin"} =>
        (1 .. seg.n) \ setting.short \subseteq handed[seg.port]

=============================================================================
