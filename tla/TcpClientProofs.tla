-------------------------- MODULE TcpClientProofs --------------------------
(***************************************************************************)
(* Proofs about TcpClient, for every number of descriptors, ports and      *)
(* reply segments and for every behaviour of sketch, server and wire.      *)
(* First its types; then the payload; then how requests, descriptors and   *)
(* ports belong together (RouteInv), which the properties of replies rest  *)
(* on; last the acknowledgements of persistent connections.                *)
(***************************************************************************)
EXTENDS TcpClient, WellFoundedInduction, TLAPS

(* A nonempty set of numbers has a least member.                           *)
LEMMA LeastOf ==
  ASSUME NEW T \in SUBSET Nat, T # {}
  PROVE  \E x \in T : \A y \in T : x <= y
<1> DEFINE R == {rs \in Nat \X Nat : rs[1] < rs[2]}
<1>1. IsWellFoundedOn(R, Nat)
  BY NatLessThanWellFounded DEF OpToRel
<1>2. PICK x \in T : \A y \in T : ~(<<y, x>> \in R)
  <2> HIDE DEF R
  <2> QED BY <1>1, WFMin
<1>3. ASSUME NEW y \in T PROVE x <= y
  <2>1. ~(y < x)
    BY <1>2, <1>3
  <2> QED BY <2>1
<1> QED BY <1>3

(* tcpReply(f) is meant for a request that had descriptor f, the latest.   *)
LEMMA MeantByLast ==
  ASSUME req \in Nat, NEW f, \E r \in 1 .. req : r % NFd = f
  PROVE  /\ MeantBy(f) \in 1 .. req /\ MeantBy(f) % NFd = f
         /\ \A q \in 1 .. req : q % NFd = f => q <= MeantBy(f)
<1> DEFINE T == {m \in Nat : \E r \in 1 .. req : r % NFd = f /\ m = req - r}
<1>1. T # {} /\ T \in SUBSET Nat
  <2>1. PICK r \in 1 .. req : r % NFd = f
    OBVIOUS
  <2>2. req - r \in T
    BY <2>1
  <2> QED BY <2>2
<1>2. PICK m \in T : \A y \in T : m <= y
  BY <1>1, LeastOf
<1>3. PICK r \in 1 .. req : r % NFd = f /\ m = req - r
  OBVIOUS
<1>4. ASSUME NEW q \in 1 .. req, q % NFd = f PROVE q <= r
  <2>1. req - q \in T
    BY <1>4
  <2> QED BY <2>1, <1>2, <1>3
<1> QED BY <1>3, <1>4 DEF MeantBy

(* No sketch makes more than MaxReqs requests.                             *)
LEMMA RequestBound ==
  ASSUME setting \in Settings, req \in 0 .. MaxReqs, NEW k, Request(k)
  PROVE  req + 1 \in Reqs
<1>1. setting.reqs \in 0 .. MaxReqs
  BY TcpClientAssumption DEF SettingType
<1> QED BY <1>1, TcpClientAssumption DEF Request, Reqs

(* A sketch and its server stay what they are.                             *)
LEMMA StepSetting == [Next]_vars => UNCHANGED setting
  BY DEF Next, Request, TcpReply, SendSyn, GatewayFound, SetGwIp, GatewayFrame,
         PacketLoopReceive, RcvReset, RcvSynAck, RcvUnexpected, RcvData, RcvFin,
         RcvLateData, RcvIgnored, ServerStep, ServerAccepts, ServerReads,
         ServerGetsAck, ServerGetsFin, ServerDrops, ServerAborts, Serve,
         clientvars, sketchvars, vars

-----------------------------------------------------------------------------
(* TypeOK is not inductive: it does not say that acknowledgements count    *)
(* parts and payloads requests, that data start at 1 and answer a request, *)
(* and that callbacks are registered by requests only.                     *)
NumbersFit ==
  /\ \A seg \in toServer :
       IF seg.is = "payload" THEN seg.n \in Reqs ELSE seg.n \in 0 .. MaxParts
  /\ \A seg \in toClient : seg.is = "data" => seg.n >= 1 /\ seg.of \in Reqs
  /\ kind # "none" => req \in Reqs
TypeInv == TypeOK /\ NumbersFit

(* The segments the client sends are segments.                             *)
LEMMA SegType ==
  ASSUME NEW p \in Ports, NEW what \in {"syn", "payload", "ack", "fin", "rst"},
         NEW n \in 0 .. MaxParts
  PROVE  Seg(p, what, n) \in ClientSegs
  BY TcpClientAssumption DEF Seg, ClientSegs

(* The payload of a request is a segment of the client.                    *)
LEMMA PayloadType ==
  ASSUME NEW p \in Ports, NEW r \in Reqs
  PROVE  Seg(p, "payload", r) \in ClientSegs
  BY TcpClientAssumption DEF Seg, ClientSegs, Reqs

(* What a server in state c may send: the next part of its answer.         *)
LEMMA OutstandingType ==
  ASSUME setting \in Settings, NEW p \in Ports, NEW c \in Conns,
         NEW seg \in Outstanding(p, c)
  PROVE  /\ seg \in ServerSegs /\ seg.port = p
         /\ seg.is \in {"synack", "data", "fin"}
         /\ seg.is # "synack" => c.st # "synrcvd"
         /\ seg.is = "data" =>
              c.got # NoReq /\ seg.of = c.got /\ seg.n = c.acked + 1
<1>1. setting.parts \in 1 .. MaxParts
  BY TcpClientAssumption DEF SettingType
<1>2. c.acked \in 0 .. MaxParts /\ c.got \in Reqs \union {NoReq}
  BY DEF Conns
<1> QED
  BY <1>1, <1>2, TcpClientAssumption DEF Outstanding, ServerSeg, ServerSegs

(* The sketch's own steps and those of an idle packetLoop keep the types.  *)
LEMMA TypeSketch ==
  ASSUME TypeInv,
         \/ \E k \in setting.kinds : Request(k)
         \/ SendSyn \/ GatewayFound \/ SetGwIp
         \/ \E f \in Fds : TcpReply(f)
  PROVE  TypeInv'
<1> USE TcpClientAssumption DEF Fds, NoFd, NoReq
<1>1. ASSUME NEW k \in setting.kinds, Request(k) PROVE TypeInv'
  <2>1. req + 1 \in Reqs
    BY <1>1, RequestBound DEF TypeInv, TypeOK
  <2>2. NextFd(tcp_fd) \in Fds
    BY DEF NextFd, TypeInv, TypeOK
  <2>3. TypeOK'
    BY <1>1, <2>1, <2>2
    DEF Request, ghosts, wires, States, TypeInv, TypeOK, Reqs
  <2> QED BY <1>1, <2>1, <2>3 DEF Request, wires, TypeInv, NumbersFit
<1>2. ASSUME SendSyn PROVE TypeInv'
  <2> DEFINE low == (tcpclient_src_port_l + 1) % NLow
             p == [fd |-> tcp_fd, low |-> low]
  <2>1. low \in 0 .. NLow - 1 /\ p \in Ports
    BY DEF TypeInv, TypeOK, Ports
  <2>2. Seg(p, "syn", 0) \in ClientSegs
    BY <2>1, SegType
  <2>3. req \in Reqs \union {NoReq}
    BY DEF TypeInv, TypeOK, Reqs
  <2>4. TypeOK'
    BY <1>2, <2>1, <2>2, <2>3
    DEF SendSyn, sketchvars, ghosts, States, TypeInv, TypeOK
  <2>5. Seg(p, "syn", 0).is = "syn" /\ Seg(p, "syn", 0).n = 0
    BY DEF Seg
  <2> QED BY <1>2, <2>4, <2>5 DEF SendSyn, sketchvars, TypeInv, NumbersFit
<1>3. ASSUME GatewayFound \/ SetGwIp PROVE TypeInv'
  BY <1>3 DEF GatewayFound, SetGwIp, GatewayFrame, sketchvars, ghosts, wires,
              TypeInv, TypeOK, NumbersFit
<1>4. ASSUME NEW f \in Fds, TcpReply(f) PROVE TypeInv'
  <2>1. req \in 0 .. MaxReqs
    BY DEF TypeInv, TypeOK
  <2>2. MeantBy(f) \in 1 .. req
    BY <1>4, <2>1, MeantByLast DEF TcpReply
  <2>3. MeantBy(f) \in Reqs
    BY <2>1, <2>2 DEF Reqs
  <2>4. TypeOK'
    BY <1>4, <2>3
    DEF TcpReply, sketchvars, wires, TypeInv, TypeOK, OneMore, Several
  <2> QED BY <1>4, <2>4 DEF TcpReply, sketchvars, wires, TypeInv, NumbersFit
<1> QED BY <1>1, <1>2, <1>3, <1>4

(* packetLoop on a segment keeps the types, one case per way through it.   *)
LEMMA TypeReceive ==
  ASSUME TypeInv, PacketLoopReceive
  PROVE  TypeInv'
<1> USE TcpClientAssumption
<1>1. PICK seg \in toClient :
        \/ RcvReset(seg) \/ RcvSynAck(seg) \/ RcvUnexpected(seg) \/ RcvData(seg)
        \/ RcvFin(seg) \/ RcvLateData(seg) \/ RcvIgnored(seg)
  BY DEF PacketLoopReceive
<1>2. seg \in ServerSegs /\ seg.port \in Ports /\ seg.n \in 0 .. MaxParts
      /\ seg.of \in Reqs \union {NoReq} /\ seg.port.fd \in Fds
      /\ seg.is \in {"synack", "data", "fin", "rst"}
  BY DEF TypeInv, TypeOK, ServerSegs, Ports
<1>3. Receive(seg) => toClient' \subseteq toClient
  BY DEF Receive
<1>4. ASSUME NEW what \in {"ack", "fin", "rst"}, NEW n \in {0, seg.n}
      PROVE  /\ Seg(seg.port, what, n) \in ClientSegs
             /\ Seg(seg.port, what, n).is = what /\ Seg(seg.port, what, n).n = n
  BY <1>2, SegType DEF Seg
<1>5. CASE RcvReset(seg) \/ RcvIgnored(seg)
  BY <1>3, <1>5 DEF RcvReset, RcvIgnored, AfterReset, States, sketchvars, ghosts,
                    TypeInv, TypeOK, NumbersFit
<1>6. CASE RcvSynAck(seg)
  <2> DEFINE r == Datafill(seg.port.fd)
             new == {Seg(seg.port, "ack", 0)} \union
                    {Seg(seg.port, "payload", q) : q \in {r} \ {NoReq}}
  <2>1. r \in Reqs \union {NoReq}
    BY DEF Datafill, WwwDatafill, StashDatafill, TypeInv, TypeOK, Reqs, NoReq
  <2>2. new \subseteq ClientSegs
        /\ \A s \in new : IF s.is = "payload" THEN s.n \in Reqs ELSE s.n = 0
    <3>1. ASSUME NEW q \in {r} \ {NoReq}
          PROVE  /\ Seg(seg.port, "payload", q) \in ClientSegs
                 /\ Seg(seg.port, "payload", q).is = "payload"
                 /\ Seg(seg.port, "payload", q).n \in Reqs
      BY <2>1, <1>2, PayloadType DEF Seg
    <3> QED BY <1>4, <3>1
  <2>3. /\ toServer' = toServer \union new /\ toClient' \subseteq toClient
        /\ tcp_client_state' = "ESTABLISHED"
        /\ result_fd' \in {NoFd, result_fd}
        /\ filled' = filled \/ filled' = [filled EXCEPT ![r] = OneMore(@)]
        /\ UNCHANGED <<tcpclient_src_port_l, resultFrom, hasGw, opened,
                       setting, tcp_fd, www_fd, kind, req, replies, served,
                       handed, srv>>
    BY <1>3, <1>6 DEF RcvSynAck, Answer, sketchvars
  <2>4. filled' \in [Reqs -> 0 .. Several]
    BY <2>3 DEF TypeInv, TypeOK, OneMore, Several
  <2>5. TypeOK'
    BY <2>2, <2>3, <2>4 DEF TypeInv, TypeOK, States
  <2>6. NumbersFit'
    BY <2>2, <2>3 DEF TypeInv, NumbersFit
  <2> QED BY <2>5, <2>6 DEF TypeInv
<1>7. CASE RcvUnexpected(seg)
  BY <1>3, <1>4, <1>7 DEF RcvUnexpected, Answer, sketchvars, ghosts, States,
                          TypeInv, TypeOK, NumbersFit
<1>8. CASE RcvData(seg)
  <2> DEFINE new == Seg(seg.port, IF setting.persist THEN "ack" ELSE "fin", seg.n)
  <2>1. /\ toServer' = toServer \union {new} /\ toClient' \subseteq toClient
        /\ tcp_client_state' \in {"ESTABLISHED", "CLOSED"}
        /\ \/ handed' = handed
           \/ handed' = [handed EXCEPT ![seg.port] = @ \union {seg.n}]
        /\ UNCHANGED <<tcpclient_src_port_l, hasGw, opened,
                       setting, tcp_fd, www_fd, kind, req, filled, srv>>
    BY <1>3, <1>8 DEF RcvData, AfterData, Answer, sketchvars
  <2>2. new \in ClientSegs /\ new.is # "payload" /\ new.n \in 0 .. MaxParts
    BY <1>2, <1>4
  <2>3. seg.n \in 1 .. MaxParts
    BY <1>2, <1>8 DEF RcvData, TypeInv, NumbersFit
  <2>4. handed' \in [Ports -> SUBSET (1 .. MaxParts)]
    BY <2>1, <2>3, <1>2 DEF TypeInv, TypeOK
  <2>5. /\ replies' \in [Reqs -> 0 .. Several]
        /\ served' \subseteq [to : Reqs, from : Reqs \union {NoReq}]
        /\ result_fd' \in Fds \union {NoFd}
        /\ resultFrom' \in Reqs \union {NoReq}
    <3>1. CASE kind = "www"
      <4>1. req \in Reqs
        BY <3>1 DEF TypeInv, NumbersFit
      <4>2. UNCHANGED <<result_fd, resultFrom>>
            /\ (replies' = replies \/ replies' = [replies EXCEPT ![req] = OneMore(@)])
            /\ (served' = served
                \/ served' = served \union {[to |-> req, from |-> seg.of]})
        BY <1>8, <3>1 DEF RcvData, ResultCb
      <4> QED BY <1>2, <4>1, <4>2 DEF TypeInv, TypeOK, OneMore, Several
    <3>2. CASE kind # "www"
      BY <1>2, <1>8, <3>2 DEF RcvData, ResultCb, TypeInv, TypeOK
    <3> QED BY <3>1, <3>2
  <2>6. TypeOK'
    BY <2>1, <2>2, <2>4, <2>5 DEF TypeInv, TypeOK, States
  <2>7. NumbersFit'
    BY <2>1, <2>2 DEF TypeInv, NumbersFit
  <2> QED BY <2>6, <2>7 DEF TypeInv
<1>9. CASE RcvFin(seg)
  BY <1>2, <1>3, <1>4, <1>9 DEF RcvFin, Answer, sketchvars, ghosts, States,
                                TypeInv, TypeOK, NumbersFit
<1>10. CASE RcvLateData(seg)
  BY <1>2, <1>3, <1>4, <1>10 DEF RcvLateData, Answer, sketchvars, ghosts,
                                 TypeInv, TypeOK, NumbersFit
<1> QED BY <1>1, <1>5, <1>6, <1>7, <1>8, <1>9, <1>10

(* What a step of the server does: it reads segments of one connection,    *)
(* leaves it as c, and sends what c leaves unacknowledged, or a reset.     *)
ServerMove(p, c) ==
  /\ UNCHANGED clientvars /\ toServer' \subseteq toServer
  /\ srv' = [srv EXCEPT ![p] = c]
  /\ srv[p].st # "closed" \/ \E seg \in toServer : seg.port = p
  /\ \/ c.got \in {NoReq, srv[p].got}
     \/ \E seg \in toServer :
          seg.port = p /\ seg.is = "payload" /\ c.got = seg.n
  /\ \/ c.acked \in {0, srv[p].acked}
     \/ \E seg \in toServer :
          seg.port = p /\ seg.is \in {"ack", "fin"} /\ c.acked = seg.n
  /\ \A s \in toClient' \ toClient :
       /\ s \in ServerSegs /\ s.port = p
       /\ s.is \in {"data", "fin"} =>
            \E seg \in toServer : seg.is \in {"payload", "ack", "fin"}
       /\ s.is # "rst" => \E seg \in toServer : seg.port = p /\ seg.is # "rst"
       /\ s.is = "data" =>
            c.got # NoReq /\ s.of = c.got /\ s.n = c.acked + 1

(* Every step of the server is of this kind.                               *)
LEMMA ServerMoves ==
  ASSUME TypeInv, ServerStep \/ \E p \in Ports : ServerAborts(p)
  PROVE  \E p \in Ports : \E c \in Conns : ServerMove(p, c)
<1> USE TcpClientAssumption
<1>1. /\ setting \in Settings /\ srv \in [Ports -> Conns]
      /\ \A seg \in toServer :
           /\ seg.port \in Ports
           /\ IF seg.is = "payload" THEN seg.n \in Reqs ELSE seg.n \in 0 .. MaxParts
  BY DEF TypeInv, TypeOK, NumbersFit, ClientSegs
<1>2. ASSUME NEW p \in Ports
      PROVE  /\ ServerSeg(p, "rst", 0, NoReq) \in ServerSegs
             /\ ServerSeg(p, "rst", 0, NoReq).port = p
             /\ ServerSeg(p, "rst", 0, NoReq).is = "rst"
  BY DEF ServerSeg, ServerSegs
<1>3. ASSUME NEW seg \in toServer, NEW c \in Conns, Serve(seg, c),
             \/ c.got \in {NoReq, srv[seg.port].got}
             \/ seg.is = "payload" /\ c.got = seg.n,
             \/ c.acked \in {0, srv[seg.port].acked}
             \/ seg.is \in {"ack", "fin"} /\ c.acked = seg.n,
             c.st = "synrcvd" \/ seg.is \in {"payload", "ack", "fin"},
             seg.is # "rst"
      PROVE  ServerMove(seg.port, c)
  <2>1. ASSUME NEW s \in Outstanding(seg.port, c)
        PROVE  /\ s \in ServerSegs /\ s.port = seg.port
               /\ s.is \in {"data", "fin"} => c.st # "synrcvd"
               /\ s.is = "data" => c.got # NoReq /\ s.of = c.got /\ s.n = c.acked + 1
    BY <1>1, OutstandingType
  <2>2. toClient' \ toClient \subseteq Outstanding(seg.port, c)
    BY <1>3 DEF Serve
  <2> QED BY <1>3, <2>1, <2>2 DEF Serve, ServerMove
<1>4. ASSUME NEW seg \in toServer, ServerAccepts(seg) \/ ServerReads(seg)
      PROVE  \E c \in Conns : ServerMove(seg.port, c)
  BY <1>1, <1>3, <1>4 DEF ServerAccepts, ServerReads, Conns
<1>5. ASSUME NEW seg \in toServer, ServerGetsAck(seg)
      PROVE  \E c \in Conns : ServerMove(seg.port, c)
  <2> DEFINE c == srv[seg.port]
             d == [c EXCEPT !.st = "open",
                            !.acked = IF seg.n > @ THEN seg.n ELSE @]
  <2>1. Serve(seg, d) /\ seg.is = "ack" /\ seg.n \in 0 .. MaxParts
    BY <1>1, <1>5 DEF ServerGetsAck
  <2>2. d \in Conns /\ d.got = c.got /\ d.acked \in {c.acked, seg.n}
    BY <1>1, <2>1 DEF Conns
  <2> QED BY <1>3, <2>1, <2>2
<1>6. ASSUME NEW seg \in toServer, ServerGetsFin(seg)
      PROVE  \E c \in Conns : ServerMove(seg.port, c)
  <2> DEFINE c == srv[seg.port]
             acked == IF seg.n > c.acked THEN seg.n ELSE c.acked
             d == [c EXCEPT !.acked = acked,
                            !.st = CASE acked < setting.parts -> c.st
                                     [] acked >= setting.parts /\ c.st = "open" -> "finsent"
                                     [] OTHER -> "closed"]
  <2>1. Serve(seg, d) /\ seg.is = "fin" /\ seg.n \in 0 .. MaxParts
    BY <1>1, <1>6 DEF ServerGetsFin
  <2>2. d \in Conns /\ d.got = c.got /\ d.acked \in {c.acked, seg.n}
    BY <1>1, <2>1 DEF Conns
  <2> QED BY <1>3, <2>1, <2>2
<1>7. ASSUME NEW seg \in toServer, ServerDrops(seg)
      PROVE  \E c \in Conns : ServerMove(seg.port, c)
  <2> DEFINE c == srv[seg.port]
             d == [c EXCEPT !.st = IF seg.is = "rst" THEN "closed" ELSE @]
  <2>1. srv' = [srv EXCEPT ![seg.port] = d]
    BY <1>1, <1>7 DEF ServerDrops, Conns
  <2>2. d \in Conns /\ d.got = c.got /\ d.acked = c.acked
    BY <1>1 DEF Conns
  <2>3. toClient' \ toClient \subseteq {ServerSeg(seg.port, "rst", 0, NoReq)}
        /\ toServer' \subseteq toServer /\ UNCHANGED clientvars
    BY <1>7 DEF ServerDrops
  <2>4. ServerMove(seg.port, d)
    BY <1>1, <1>2, <2>1, <2>2, <2>3 DEF ServerMove
  <2> QED BY <2>2, <2>4
<1>8. ASSUME NEW p \in Ports, ServerAborts(p)
      PROVE  \E c \in Conns : ServerMove(p, c)
  <2> DEFINE d == [srv[p] EXCEPT !.st = "closed"]
  <2>1. srv' = [srv EXCEPT ![p] = d]
    BY <1>1, <1>8 DEF ServerAborts, Conns
  <2>2. d \in Conns /\ d.got = srv[p].got /\ d.acked = srv[p].acked
    BY <1>1 DEF Conns
  <2>3. toClient' \ toClient \subseteq {ServerSeg(p, "rst", 0, NoReq)}
        /\ toServer' \subseteq toServer /\ UNCHANGED clientvars
        /\ srv[p].st # "closed"
    BY <1>8 DEF ServerAborts
  <2> QED BY <1>2, <2>1, <2>2, <2>3 DEF ServerMove
<1> QED BY <1>1, <1>4, <1>5, <1>6, <1>7, <1>8 DEF ServerStep

(* A move of the server keeps the types.                                   *)
LEMMA TypeServer ==
  ASSUME TypeInv, NEW p \in Ports, NEW c \in Conns, ServerMove(p, c)
  PROVE  TypeInv'
<1>1. srv' \in [Ports -> Conns] /\ toServer' \subseteq toServer
      /\ \A s \in toClient' \ toClient :
           s \in ServerSegs /\ (s.is = "data" => s.n >= 1 /\ s.of \in Reqs)
  BY DEF ServerMove, TypeInv, TypeOK, Conns
<1> QED BY <1>1
    DEF ServerMove, clientvars, sketchvars, ghosts, TypeInv, TypeOK, NumbersFit

(* Every step keeps the types.                                             *)
LEMMA StepType == TypeInv /\ [Next]_vars => TypeInv'
<1>1. TypeInv /\ UNCHANGED vars => TypeInv'
  BY DEF vars, sketchvars, ghosts, wires, TypeInv, TypeOK, NumbersFit
<1> QED BY <1>1, TypeSketch, TypeReceive, ServerMoves, TypeServer DEF Next

(* The types hold before the first request.                                *)
LEMMA InitType == Init => TypeInv
<1> SUFFICES ASSUME Init PROVE TypeInv
  OBVIOUS
<1> USE TcpClientAssumption DEF NoReq
<1>1. 1 % NLow \in 0 .. NLow - 1 /\ 0 \in Fds
  BY DEF Fds
<1>2. [st |-> "closed", got |-> NoReq, acked |-> 0] \in Conns
  BY DEF Conns
<1>3. /\ opened \in [Ports -> Reqs \union {NoReq}]
      /\ handed \in [Ports -> SUBSET (1 .. MaxParts)]
      /\ srv \in [Ports -> Conns]
      /\ filled \in [Reqs -> 0 .. Several] /\ replies \in [Reqs -> 0 .. Several]
  BY <1>2 DEF Init, Several
<1>4. TypeOK
  <2>1. hasGw \in BOOLEAN
    BY DEF Init
  <2>2. /\ setting \in Settings
        /\ tcp_client_state \in States
        /\ tcp_fd \in Fds /\ www_fd \in Fds
        /\ tcpclient_src_port_l \in 0 .. NLow - 1
        /\ kind \in setting.kinds \union {"none"}
        /\ result_fd \in Fds \union {NoFd} /\ resultFrom \in Reqs \union {NoReq}
        /\ req \in 0 .. MaxReqs
        /\ served = {} /\ toServer = {} /\ toClient = {}
    BY <1>1 DEF Init, States, NoFd
  <2> QED BY <1>3, <2>1, <2>2 DEF TypeOK
<1> QED BY <1>4 DEF Init, TypeInv, NumbersFit

(* Every variable keeps its type: the callbacks count and name requests    *)
(* that were made, descriptors stay below NFd, and the server is never     *)
(* sent an acknowledgement of parts it does not have.                      *)
THEOREM TypeCorrect == Spec => []TypeOK
<1>1. TypeInv => TypeOK
  BY DEF TypeInv
<1> QED BY <1>1, InitType, StepType, PTL DEF Spec

-----------------------------------------------------------------------------
(* The actions that leave requests, payloads and the SENDSYN/SYNSENT part  *)
(* of the connection state alone, or only move away from it.               *)
Handshaking == tcp_client_state \in {"SENDSYN", "SYNSENT"}
KeepsRequests == UNCHANGED <<setting, req, filled, kind>>

(* Segments that carry no SYN+ACK never start a handshake.                 *)
LEMMA ReceiveCases ==
  ASSUME NEW seg \in toClient,
         \/ RcvReset(seg) \/ RcvUnexpected(seg) \/ RcvData(seg)
         \/ RcvFin(seg) \/ RcvLateData(seg) \/ RcvIgnored(seg)
  PROVE  KeepsRequests /\ (Handshaking' => Handshaking)
  BY DEF RcvReset, RcvUnexpected, RcvData, RcvFin, RcvLateData, RcvIgnored,
         AfterReset, AfterData, KeepsRequests, Handshaking, sketchvars, ghosts

(* Nor do the sketch's polling, the gateway or the server.                 *)
LEMMA OtherCases ==
  ASSUME (\E f \in Fds : TcpReply(f)) \/ SendSyn \/ GatewayFound \/ SetGwIp
         \/ ServerStep \/ (\E p \in Ports : ServerAborts(p)) \/ UNCHANGED vars
  PROVE  KeepsRequests /\ (Handshaking' => Handshaking)
  BY DEF TcpReply, SendSyn, GatewayFound, SetGwIp, GatewayFrame, ServerStep,
         ServerAccepts, ServerReads, ServerGetsAck, ServerGetsFin, ServerDrops,
         ServerAborts, Serve, clientvars, KeepsRequests, Handshaking,
         sketchvars, ghosts, vars

(* FillOnce is not inductive: a payload may still be produced for the last *)
(* request.  What makes it so is that the last request has none while its  *)
(* handshake goes on, and later requests have none at all.                 *)
FillInv ==
  /\ setting \in Settings
  /\ req \in 0 .. MaxReqs /\ filled \in [Reqs -> 0 .. Several]
  /\ FillOnce
  /\ \A r \in Reqs : r > req => filled[r] = 0
  /\ Handshaking /\ req \in Reqs => filled[req] = 0

(* Every step keeps the payload of a request unique.                       *)
LEMMA StepFill == FillInv /\ [Next]_vars => FillInv'
<1> SUFFICES ASSUME FillInv, [Next]_vars PROVE FillInv'
    OBVIOUS
<1> USE TcpClientAssumption DEF Reqs, NoReq
<1>1. ASSUME NEW k \in setting.kinds, Request(k) PROVE FillInv'
  <2>1. setting' = setting /\ req' = req + 1 /\ filled' = filled
    BY <1>1 DEF Request, ghosts
  <2>2. req' \in Reqs /\ filled[req'] = 0
    BY <1>1, <2>1, RequestBound DEF FillInv
  <2> QED BY <2>1, <2>2 DEF FillInv, FillOnce
<1>2. ASSUME NEW seg \in toClient, RcvSynAck(seg) PROVE FillInv'
  <2> DEFINE r == Datafill(seg.port.fd)
  <2>1. r = NoReq \/ r = req
    BY DEF Datafill, WwwDatafill, StashDatafill
  <2>2. setting' = setting /\ req' = req /\ Handshaking /\ ~Handshaking'
    BY <1>2 DEF RcvSynAck, sketchvars, Handshaking
  <2>3. CASE r = NoReq
    BY <1>2, <2>2, <2>3 DEF RcvSynAck, FillInv, FillOnce
  <2>4. CASE r # NoReq
    <3>1. r = req /\ r \in Reqs /\ filled[r] = 0
      BY <2>1, <2>2, <2>4 DEF FillInv
    <3>2. filled' = [filled EXCEPT ![r] = 1]
      BY <1>2, <2>4, <3>1 DEF RcvSynAck, OneMore, Several, FillInv
    <3> QED BY <2>2, <3>1, <3>2 DEF FillInv, FillOnce, Several
  <2> QED BY <2>3, <2>4
<1>3. ASSUME KeepsRequests, Handshaking' => Handshaking PROVE FillInv'
  BY <1>3 DEF KeepsRequests, FillInv, FillOnce
<1> QED
  BY <1>1, <1>2, <1>3, ReceiveCases, OtherCases DEF Next, PacketLoopReceive

(* Whatever arrives, the payload of a request is produced at most once:    *)
(* a POST or a Stash request is not sent a second time.                    *)
THEOREM PayloadProducedOnce == Spec => []FillOnce
<1>1. Init => FillInv
  BY TcpClientAssumption DEF Init, FillInv, FillOnce, Handshaking, Several, Reqs
<1>2. FillInv => FillOnce
  BY DEF FillInv
<1> QED BY <1>1, <1>2, StepFill, PTL DEF Spec

-----------------------------------------------------------------------------
(* A www sketch has no reply for its last request until the connection     *)
(* leaves ESTABLISHED, where it stays out until the next request.          *)
AwaitingReply == tcp_client_state \in {"SENDSYN", "SYNSENT", "ESTABLISHED"}
ReplyInv ==
  /\ setting \in Settings /\ setting.kinds = {"www"} /\ ~setting.persist
  /\ req \in 0 .. MaxReqs /\ replies \in [Reqs -> 0 .. Several]
  /\ kind \in {"none", "www"}
  /\ kind = "none" => ~AwaitingReply
  /\ kind = "www" => req \in Reqs
  /\ \A r \in Reqs : replies[r] <= 1
  /\ \A r \in Reqs : r > req => replies[r] = 0
  /\ AwaitingReply /\ req \in Reqs => replies[req] = 0

KeepsReplies == UNCHANGED <<setting, req, replies, kind>>

(* Every step keeps the reply of a browseUrl or httpPost unique.           *)
LEMMA StepReply == ReplyInv /\ [Next]_vars => ReplyInv'
<1> SUFFICES ASSUME ReplyInv, [Next]_vars PROVE ReplyInv'
    OBVIOUS
<1> USE TcpClientAssumption DEF Reqs
<1>1. ASSUME NEW k \in setting.kinds, Request(k) PROVE ReplyInv'
  <2>1. setting' = setting /\ req' = req + 1 /\ replies' = replies
        /\ kind' = "www"
    BY <1>1 DEF Request, ghosts, ReplyInv
  <2>2. req' \in Reqs /\ replies[req'] = 0
    BY <1>1, <2>1, RequestBound DEF ReplyInv
  <2> QED BY <2>1, <2>2 DEF ReplyInv
<1>2. ASSUME NEW seg \in toClient, RcvData(seg) PROVE ReplyInv'
  <2>1. setting' = setting /\ kind = "www" /\ kind' = kind /\ req' = req /\ req \in Reqs
        /\ replies[req] = 0 /\ ~AwaitingReply'
    BY <1>2 DEF RcvData, AfterData, ReplyInv, AwaitingReply, sketchvars
  <2>2. replies' = replies \/ replies' = [replies EXCEPT ![req] = 1]
    BY <1>2, <2>1 DEF RcvData, ResultCb, OneMore, Several, ReplyInv
  <2> QED BY <2>1, <2>2 DEF ReplyInv, Several
<1>3. ASSUME KeepsReplies, AwaitingReply' => AwaitingReply PROVE ReplyInv'
  BY <1>3 DEF KeepsReplies, ReplyInv
<1>4. ASSUME NEW seg \in toClient,
             \/ RcvReset(seg) \/ RcvSynAck(seg) \/ RcvUnexpected(seg)
             \/ RcvFin(seg) \/ RcvLateData(seg) \/ RcvIgnored(seg)
      PROVE  KeepsReplies /\ (AwaitingReply' => AwaitingReply)
  BY <1>4
  DEF RcvReset, RcvSynAck, RcvUnexpected, RcvFin, RcvLateData, RcvIgnored,
      AfterReset, KeepsReplies, AwaitingReply, sketchvars, ghosts
<1>5. ASSUME SendSyn \/ GatewayFound \/ SetGwIp \/ ServerStep
             \/ (\E p \in Ports : ServerAborts(p)) \/ UNCHANGED vars
      PROVE  KeepsReplies /\ (AwaitingReply' => AwaitingReply)
  BY <1>5
  DEF SendSyn, GatewayFound, SetGwIp, GatewayFrame, ServerStep, ServerAccepts,
      ServerReads, ServerGetsAck, ServerGetsFin, ServerDrops, ServerAborts,
      Serve, clientvars, KeepsReplies, AwaitingReply, sketchvars, ghosts, vars
<1>6. ASSUME NEW f \in Fds, TcpReply(f) PROVE FALSE
  BY <1>6 DEF TcpReply, ReplyInv
<1> QED
  BY <1>1, <1>2, <1>3, <1>4, <1>5, <1>6 DEF Next, PacketLoopReceive

(* The setting never changes, so either ReplyInv holds throughout or       *)
(* nothing is claimed.                                                     *)
WwwOnce == setting.kinds = {"www"} /\ ~setting.persist

(* A sketch that uses only browseUrl and httpPost is handed at most one    *)
(* reply per request, unless it asked for persistent connections.          *)
THEOREM WwwOneReply == Spec => [](setting.kinds = {"www"} => OneReply)
<1>1. Init => (WwwOnce => ReplyInv)
  BY TcpClientAssumption
  DEF Init, ReplyInv, AwaitingReply, Several, Reqs, WwwOnce
<1>2. (WwwOnce => ReplyInv) /\ [Next]_vars => (WwwOnce => ReplyInv)'
  BY StepReply, StepSetting DEF WwwOnce
<1>3. (WwwOnce => ReplyInv) => (setting.kinds = {"www"} => OneReply)
  BY DEF ReplyInv, OneReply, WwwOnce
<1> QED BY <1>1, <1>2, <1>3, PTL DEF Spec

-----------------------------------------------------------------------------
(* The low byte of a port has three bits for the descriptor, so requests   *)
(* are told apart as long as there are no more than NFd of them; and a     *)
(* sketch with tcpSend must poll the descriptor it was given last only, or *)
(* it has the concurrent requests of run tcp_concurrent.                   *)
OneFdEach ==
  /\ setting.reqs <= NFd
  /\ setting.when = "any" => "stash" \notin setting.kinds

(* Port p was opened for an earlier request than r or for r, and r was     *)
(* made: with the descriptor of the last request on the port, r is it.     *)
Meant(p, r) == opened[p] \in 1 .. r /\ r \in 1 .. req

FdsInOrder ==
  /\ req <= setting.reqs /\ tcp_fd = req % NFd /\ www_fd = tcp_fd
  /\ tcp_client_state = "SENDSYN" => req # 0
  /\ req # 0 => kind # "none"
PortsOwned ==
  /\ \A p \in Ports :
       opened[p] # NoReq => p.fd = opened[p] % NFd /\ opened[p] <= req
  /\ \A seg \in toServer \union toClient : opened[seg.port] # NoReq
  /\ \A p \in Ports : srv[p].st # "closed" => opened[p] # NoReq
OnTheirWay ==
  /\ \A seg \in toServer : seg.is = "payload" => Meant(seg.port, seg.n)
  /\ \A p \in Ports : srv[p].got # NoReq => Meant(p, srv[p].got)
  /\ \A seg \in toClient : seg.is = "data" => Meant(seg.port, seg.of)
  /\ result_fd # NoFd =>
       /\ resultFrom \in 1 .. req
       /\ \E r \in 1 .. resultFrom : r % NFd = result_fd

(* A payload, what the server got and what it answers may belong to a      *)
(* later request than the port they travel on (tcp_datafill_cb does not    *)
(* look at the descriptor), but never to an earlier one.  The reply the    *)
(* sketch accepts comes on a port of its last request: it can only be its. *)
RouteInv ==
  /\ TypeInv /\ OneFdEach /\ FdsInOrder /\ PortsOwned /\ OnTheirWay
  /\ ReplyForTheRequest /\ PayloadOnOwnConnection

(* Of NFd requests one after the other no two share a descriptor.          *)
LEMMA SameFd ==
  ASSUME NEW a \in 1 .. NFd, NEW b \in 1 .. NFd, a % NFd = b % NFd
  PROVE  a = b
<1> USE TcpClientAssumption
<1>1. \A m \in 1 .. NFd : m % NFd = IF m = NFd THEN 0 ELSE m
  OBVIOUS
<1> QED BY <1>1

(* On a port with the descriptor of the last request there is nothing of   *)
(* any other request.                                                      *)
LEMMA LastFd ==
  ASSUME RouteInv, NEW p \in Ports, NEW r \in 1 .. req, p.fd = www_fd, Meant(p, r)
  PROVE  r = req /\ opened[p] = req
<1>1. opened[p] % NFd = req % NFd
  BY DEF RouteInv, PortsOwned, FdsInOrder, Meant, NoReq
<1>2. req \in 1 .. NFd /\ opened[p] \in 1 .. NFd
  BY TcpClientAssumption
  DEF RouteInv, OneFdEach, FdsInOrder, TypeInv, TypeOK, Meant, SettingType
<1>3. opened[p] = req
  BY <1>1, <1>2, SameFd
<1> QED BY <1>3 DEF Meant

(* tcpReply hands the sketch a reply to its last request.                  *)
LEMMA TcpReplyLast ==
  ASSUME RouteInv, NEW f \in Fds, TcpReply(f)
  PROVE  /\ f = www_fd /\ result_fd = www_fd /\ req \in Reqs
         /\ MeantBy(f) = req /\ resultFrom = req
<1> USE TcpClientAssumption DEF NoReq, NoFd
<1>1. kind = "stash" /\ f \in PolledFds /\ result_fd = f
      /\ \E r \in 1 .. req : r % NFd = f
  BY DEF TcpReply, ResultFor
<1>2. req \in 0 .. MaxReqs /\ setting.reqs \in Nat /\ req <= NFd
  BY DEF RouteInv, FdsInOrder, OneFdEach, TypeInv, TypeOK, SettingType
<1>3. f = www_fd /\ f = req % NFd
  BY <1>1 DEF PolledFds, RouteInv, FdsInOrder, OneFdEach, TypeInv, TypeOK
<1>4. \A r \in 1 .. req : r % NFd = f => r = req
  BY <1>2, <1>3, SameFd
<1>5. MeantBy(f) = req
  BY <1>1, <1>2, <1>4, MeantByLast
<1>6. resultFrom = req
  BY <1>1, <1>2, <1>4 DEF RouteInv, OnTheirWay, Fds
<1> QED BY <1>1, <1>2, <1>3, <1>5, <1>6 DEF Reqs

(* The sketch's calls and idle turns keep each request with its descriptor. *)
LEMMA RouteSketch ==
  ASSUME RouteInv,
         \/ \E k \in setting.kinds : Request(k)
         \/ SendSyn \/ GatewayFound \/ SetGwIp
         \/ \E f \in Fds : TcpReply(f)
  PROVE  RouteInv'
<1> USE TcpClientAssumption DEF NoReq, NoFd
<1>1. TypeInv'
  BY TypeSketch DEF RouteInv
<1>2. req \in 0 .. MaxReqs /\ req \in Nat /\ setting.reqs \in Nat
  BY DEF RouteInv, TypeInv, TypeOK, SettingType
<1>3. \A seg \in toServer \union toClient : seg.port \in Ports
  BY DEF RouteInv, TypeInv, TypeOK, ClientSegs, ServerSegs
<1>4. ASSUME NEW k \in setting.kinds, Request(k) PROVE RouteInv'
  <2>1. /\ req' = req + 1 /\ req < setting.reqs /\ kind' = k
        /\ tcp_fd' = NextFd(tcp_fd) /\ www_fd' = tcp_fd'
        /\ UNCHANGED <<setting, result_fd, resultFrom, opened, served, toServer,
                       toClient, srv>>
    BY <1>4 DEF Request, ghosts, wires
  <2>2. FdsInOrder'
    <3>1. req \in 0 .. NFd - 1
      BY <1>2, <2>1 DEF RouteInv, OneFdEach
    <3>2. NextFd(req % NFd) = (req + 1) % NFd
      BY <3>1 DEF NextFd
    <3>3. k # "none"
      BY DEF RouteInv, TypeInv, TypeOK, SettingType
    <3> QED BY <1>2, <2>1, <3>2, <3>3 DEF RouteInv, FdsInOrder
  <2>3. PortsOwned'
    BY <1>2, <2>1 DEF RouteInv, PortsOwned, TypeInv, TypeOK, Reqs
  <2>4. OnTheirWay'
    BY <1>2, <2>1 DEF RouteInv, OnTheirWay, Meant
  <2> QED BY <1>1, <2>1, <2>2, <2>3, <2>4
      DEF RouteInv, OneFdEach, ReplyForTheRequest, PayloadOnOwnConnection
<1>5. ASSUME SendSyn PROVE RouteInv'
  <2> DEFINE p == [fd |-> tcp_fd, low |-> (tcpclient_src_port_l + 1) % NLow]
  <2>1. /\ tcp_client_state = "SENDSYN" /\ tcp_client_state' = "SYNSENT"
        /\ opened' = [opened EXCEPT ![p] = req]
        /\ toServer' = toServer \union {Seg(p, "syn", 0)}
        /\ UNCHANGED <<setting, tcp_fd, www_fd, kind, req, result_fd, resultFrom,
                       served, toClient, srv>>
    BY <1>5 DEF SendSyn, sketchvars, ghosts
  <2>2. p \in Ports /\ opened \in [Ports -> Reqs \union {NoReq}]
    BY DEF Ports, RouteInv, TypeInv, TypeOK
  <2>3. req \in Reqs /\ req % NFd = p.fd /\ req \in 1 .. NFd
    <3>1. req # 0 /\ req % NFd = tcp_fd /\ req <= setting.reqs
      BY <2>1 DEF RouteInv, FdsInOrder
    <3>2. req \in 1 .. NFd /\ req \in Reqs
      BY <1>2, <3>1 DEF RouteInv, OneFdEach, Reqs
    <3>3. p.fd = tcp_fd
      OBVIOUS
    <3> QED BY <3>1, <3>2, <3>3
  <2>4. \A q \in Ports : opened[q] # NoReq => opened'[q] = opened[q]
    <3>1. opened[p] # NoReq => opened[p] = req
      BY <1>2, <2>2, <2>3, SameFd DEF RouteInv, PortsOwned, Reqs
    <3> QED BY <2>1, <2>2, <3>1
  <2>5. Seg(p, "syn", 0).port = p /\ Seg(p, "syn", 0).is = "syn"
    BY DEF Seg
  <2>6. PortsOwned'
    <3>1. \A q \in Ports : opened'[q] # NoReq =>
            q.fd = opened'[q] % NFd /\ opened'[q] <= req
      BY <1>2, <2>1, <2>2, <2>3 DEF RouteInv, PortsOwned
    <3>2. opened'[p] # NoReq
      BY <2>1, <2>2, <2>3 DEF Reqs
    <3> QED BY <1>3, <2>1, <2>4, <2>5, <3>1, <3>2 DEF RouteInv, PortsOwned
  <2>7. OnTheirWay'
    <3>1. \A q \in Ports : \A r : opened[q] \in 1 .. r => opened'[q] = opened[q]
      BY <2>4
    <3> QED BY <1>3, <2>1, <2>5, <3>1 DEF RouteInv, OnTheirWay, Meant
  <2>8. PayloadOnOwnConnection'
    BY <1>3, <2>1, <2>4, <2>5 DEF RouteInv, PayloadOnOwnConnection, PortsOwned
  <2> QED BY <1>1, <2>1, <2>6, <2>7, <2>8
      DEF RouteInv, OneFdEach, FdsInOrder, ReplyForTheRequest
<1>6. ASSUME GatewayFound \/ SetGwIp PROVE RouteInv'
  BY <1>1, <1>6 DEF GatewayFound, SetGwIp, GatewayFrame, sketchvars, ghosts,
     wires, RouteInv, OneFdEach, FdsInOrder, PortsOwned, OnTheirWay, Meant,
     ReplyForTheRequest, PayloadOnOwnConnection
<1>7. ASSUME NEW f \in Fds, TcpReply(f) PROVE RouteInv'
  <2>1. /\ result_fd' = NoFd
        /\ served' = served \union {[to |-> MeantBy(f), from |-> resultFrom]}
        /\ UNCHANGED <<tcp_client_state, resultFrom, opened, setting, tcp_fd,
                       www_fd, kind, req, toServer, toClient, srv>>
    BY <1>7 DEF TcpReply, sketchvars, wires
  <2>2. MeantBy(f) = req /\ resultFrom = req
    BY <1>7, TcpReplyLast
  <2> QED BY <1>1, <2>1, <2>2
      DEF RouteInv, OneFdEach, FdsInOrder, PortsOwned, OnTheirWay, Meant,
          ReplyForTheRequest, PayloadOnOwnConnection
<1> QED BY <1>4, <1>5, <1>6, <1>7

(* So does the handler of segments, on each of its ways.                   *)
LEMMA RouteReceive ==
  ASSUME RouteInv, PacketLoopReceive
  PROVE  RouteInv'
<1> USE TcpClientAssumption DEF NoReq, NoFd
<1>1. PICK seg \in toClient :
        \/ RcvReset(seg) \/ RcvSynAck(seg) \/ RcvUnexpected(seg) \/ RcvData(seg)
        \/ RcvFin(seg) \/ RcvLateData(seg) \/ RcvIgnored(seg)
  BY DEF PacketLoopReceive
<1>2. TypeInv'
  BY TypeReceive DEF RouteInv
<1>3. /\ seg.port \in Ports /\ seg.port.fd \in Fds /\ opened[seg.port] \in 1 .. req
      /\ req \in Nat /\ \A s \in toServer \union toClient : s.port \in Ports
  <2>1. seg.port \in Ports /\ req \in Nat
        /\ \A s \in toServer \union toClient : s.port \in Ports
    BY DEF RouteInv, TypeInv, TypeOK, ClientSegs, ServerSegs
  <2>2. opened[seg.port] \in Reqs \union {NoReq}
    BY <2>1 DEF RouteInv, TypeInv, TypeOK
  <2>3. opened[seg.port] # NoReq /\ opened[seg.port] <= req
    BY <2>1 DEF RouteInv, PortsOwned
  <2> QED BY <2>1, <2>2, <2>3 DEF Ports, Reqs
<1>4. Receive(seg) => toClient' \subseteq toClient
  BY DEF Receive
<1>5. CASE RcvReset(seg) \/ RcvUnexpected(seg) \/ RcvFin(seg) \/ RcvLateData(seg)
           \/ RcvIgnored(seg)
  <2>1. /\ toClient' \subseteq toClient
        /\ \A s \in toServer' :
             s \in toServer \/ (s.port = seg.port /\ s.is # "payload")
        /\ UNCHANGED <<opened, setting, tcp_fd, www_fd, kind, req, result_fd,
                       resultFrom, served, srv>>
    BY <1>4, <1>5
    DEF Seg, RcvReset, RcvUnexpected, RcvFin, RcvLateData, RcvIgnored, Answer,
        sketchvars, ghosts
  <2>2. tcp_client_state' = "SENDSYN" => req # 0
    BY <1>3
  <2> QED BY <1>2, <1>3, <2>1, <2>2
      DEF RouteInv, OneFdEach, FdsInOrder, PortsOwned, OnTheirWay, Meant,
          ReplyForTheRequest, PayloadOnOwnConnection
<1>6. CASE RcvSynAck(seg)
  <2> DEFINE r == Datafill(seg.port.fd)
  <2>1. /\ toClient' \subseteq toClient /\ tcp_client_state' = "ESTABLISHED"
        /\ \A s \in toServer' :
             \/ s \in toServer
             \/ s.port = seg.port /\ (s.is = "payload" => r # NoReq /\ s.n = r)
        /\ result_fd' \in {NoFd, result_fd}
        /\ UNCHANGED <<opened, setting, tcp_fd, www_fd, kind, req, resultFrom,
                       served, srv>>
    BY <1>4, <1>6 DEF Seg, RcvSynAck, Answer, sketchvars
  <2>2. r # NoReq => r = req
    BY DEF Datafill, WwwDatafill, StashDatafill
  <2>3. "stash" \notin setting.kinds /\ r # NoReq => opened[seg.port] = req
    <3> SUFFICES ASSUME "stash" \notin setting.kinds, r # NoReq
                 PROVE  opened[seg.port] = req
      OBVIOUS
    <3>1. kind = "www"
      BY <2>2 DEF RouteInv, FdsInOrder, TypeInv, TypeOK, SettingType
    <3>2. seg.port.fd = www_fd
      BY <3>1 DEF Datafill, WwwDatafill
    <3> QED BY <1>3, <3>2, LastFd DEF Meant
  <2>4. PortsOwned' /\ OnTheirWay'
    BY <1>3, <2>1, <2>2 DEF RouteInv, PortsOwned, OnTheirWay, Meant
  <2>5. PayloadOnOwnConnection'
    BY <1>3, <2>1, <2>2, <2>3 DEF RouteInv, PayloadOnOwnConnection
  <2> QED BY <1>2, <2>1, <2>4, <2>5
      DEF RouteInv, OneFdEach, FdsInOrder, ReplyForTheRequest
<1>7. CASE RcvData(seg)
  <2>1. /\ toClient' \subseteq toClient /\ tcp_client_state' # "SENDSYN"
        /\ \A s \in toServer' :
             s \in toServer \/ (s.port = seg.port /\ s.is # "payload")
        /\ UNCHANGED <<opened, setting, tcp_fd, www_fd, kind, req, srv>>
    BY <1>4, <1>7 DEF Seg, RcvData, AfterData, Answer, sketchvars
  <2>2. Meant(seg.port, seg.of)
    BY <1>7 DEF RcvData, RouteInv, OnTheirWay
  <2>3. \/ UNCHANGED <<result_fd, resultFrom>>
        \/ result_fd' = seg.port.fd /\ resultFrom' = seg.of
    BY <1>7 DEF RcvData, ResultCb
  <2>4. seg.port.fd = opened[seg.port] % NFd
    BY <1>3 DEF RouteInv, PortsOwned
  <2>5. PortsOwned'
    BY <1>3, <2>1 DEF RouteInv, PortsOwned
  <2>6. OnTheirWay'
    BY <1>3, <2>1, <2>2, <2>3, <2>4 DEF RouteInv, OnTheirWay, Meant
  <2>7. served' = served \/ served' = served \union {[to |-> req, from |-> req]}
    <3>1. seg.port.fd = www_fd => seg.of = req
      BY <1>3, <2>2, LastFd DEF Meant
    <3> QED BY <1>7, <3>1 DEF RcvData, ResultCb, WwwResult
  <2> QED BY <1>2, <1>3, <2>1, <2>5, <2>6, <2>7
      DEF RouteInv, OneFdEach, FdsInOrder, ReplyForTheRequest,
          PayloadOnOwnConnection
<1> QED BY <1>1, <1>5, <1>6, <1>7

(* So does the server, whose reply keeps the port of the request.          *)
LEMMA RouteServer ==
  ASSUME RouteInv, NEW p \in Ports, NEW c \in Conns, ServerMove(p, c)
  PROVE  RouteInv'
<1> USE DEF NoReq
<1>1. TypeInv'
  BY TypeServer DEF RouteInv
<1>2. /\ srv \in [Ports -> Conns]
      /\ \A s \in toServer \union toClient : s.port \in Ports
  BY DEF RouteInv, TypeInv, TypeOK, ClientSegs, ServerSegs
<1>3. UNCHANGED <<opened, setting, tcp_fd, www_fd, kind, req, result_fd,
                  resultFrom, served, tcp_client_state>>
  BY DEF ServerMove, clientvars, sketchvars, ghosts
<1>4. opened[p] # NoReq
  BY DEF ServerMove, RouteInv, PortsOwned
<1>5. c.got # NoReq => Meant(p, c.got)
  BY DEF ServerMove, RouteInv, OnTheirWay
<1>6. PortsOwned'
  BY <1>2, <1>3, <1>4 DEF ServerMove, RouteInv, PortsOwned
<1>7. OnTheirWay'
  BY <1>2, <1>3, <1>5 DEF ServerMove, RouteInv, OnTheirWay, Meant
<1> QED BY <1>1, <1>2, <1>3, <1>6, <1>7
    DEF ServerMove, RouteInv, OneFdEach, FdsInOrder, ReplyForTheRequest,
        PayloadOnOwnConnection

(* Every step keeps requests, descriptors and segments together.           *)
LEMMA StepRoute == RouteInv /\ [Next]_vars => RouteInv'
<1>1. RouteInv /\ UNCHANGED vars => RouteInv'
  <2>1. RouteInv /\ UNCHANGED vars => TypeInv'
    BY StepType DEF RouteInv
  <2> QED BY <2>1
      DEF vars, sketchvars, ghosts, wires, RouteInv, OneFdEach, FdsInOrder,
          PortsOwned, OnTheirWay, Meant, ReplyForTheRequest, PayloadOnOwnConnection
<1> QED BY <1>1, RouteSketch, RouteReceive, ServerMoves, RouteServer
    DEF Next, RouteInv

(* Before the first request nothing is on its way.                         *)
LEMMA InitRoute == Init /\ OneFdEach => RouteInv
<1> SUFFICES ASSUME Init, OneFdEach PROVE RouteInv
  OBVIOUS
<1> USE TcpClientAssumption DEF NoReq, NoFd
<1>1. TypeInv
  BY InitType
<1>2. FdsInOrder
  BY DEF Init, FdsInOrder, SettingType
<1> QED BY <1>1, <1>2
    DEF Init, RouteInv, PortsOwned, OnTheirWay, ReplyForTheRequest,
        PayloadOnOwnConnection

(* Whatever segments of old connections arrive, and however late, a reply  *)
(* handed over answers the request it is handed over for: of a www sketch  *)
(* at any time, of a tcpSend sketch that polls its last descriptor.        *)
THEOREM RepliesMatched == Spec => [](OneFdEach => ReplyForTheRequest)
<1>1. (OneFdEach => RouteInv) /\ [Next]_vars => (OneFdEach => RouteInv)'
  BY StepRoute, StepSetting DEF OneFdEach
<1>2. (OneFdEach => RouteInv) => (OneFdEach => ReplyForTheRequest)
  BY DEF RouteInv
<1> QED BY <1>1, <1>2, InitRoute, PTL DEF Spec

(* The payload of a www request goes out on its own connection, as long as *)
(* no descriptor has come round.                                           *)
THEOREM PayloadsRouted ==
  Spec => [](setting.reqs <= NFd => PayloadOnOwnConnection)
<1>1. (OneFdEach => RouteInv) /\ [Next]_vars => (OneFdEach => RouteInv)'
  BY StepRoute, StepSetting DEF OneFdEach
<1>2. (OneFdEach => RouteInv)
      => (setting.reqs <= NFd => PayloadOnOwnConnection)
  BY DEF RouteInv, OneFdEach, PayloadOnOwnConnection
<1> QED BY <1>1, <1>2, InitRoute, PTL DEF Spec

-----------------------------------------------------------------------------
(* A reply waiting to be picked up is of the last request only if that has *)
(* none yet, and while its connection is on the way there is none.         *)
OnceInv ==
  /\ RouteInv /\ ~setting.persist
  /\ \A r \in Reqs : replies[r] <= 1
  /\ \A r \in Reqs : r > req => replies[r] = 0
  /\ AwaitingReply /\ req \in Reqs => replies[req] = 0 /\ result_fd # www_fd
  /\ result_fd = www_fd /\ req \in Reqs => replies[req] = 0

(* Every step keeps the reply of a request unique, polled by tcpReply or not. *)
LEMMA StepOnce == OnceInv /\ [Next]_vars => OnceInv'
<1> SUFFICES ASSUME OnceInv, [Next]_vars PROVE OnceInv'
  OBVIOUS
<1> USE TcpClientAssumption
<1>1. RouteInv' /\ setting' = setting
  BY StepRoute, StepSetting DEF OnceInv
<1>2. /\ req \in 0 .. MaxReqs /\ replies \in [Reqs -> 0 .. Several]
      /\ www_fd \in Fds /\ NoFd \notin Fds
  BY DEF OnceInv, RouteInv, TypeInv, TypeOK, NoFd, Fds
<1>3. ASSUME NEW k \in setting.kinds, Request(k) PROVE OnceInv'
  <2>1. req' = req + 1 /\ UNCHANGED <<replies, result_fd, resultFrom>>
    BY <1>3 DEF Request, ghosts
  <2>2. req' \in 1 .. NFd /\ www_fd' = req' % NFd
    BY <1>1, <1>2, <2>1
    DEF RouteInv, FdsInOrder, OneFdEach, TypeInv, TypeOK, SettingType
  <2>3. result_fd # NoFd => \E r \in 1 .. req : r % NFd = result_fd
    BY <1>2 DEF OnceInv, RouteInv, OnTheirWay
  <2>4. result_fd' # www_fd'
    <3>1. www_fd' # NoFd
      BY <1>1 DEF RouteInv, TypeInv, TypeOK, Fds, NoFd
    <3> QED BY <1>2, <2>1, <2>2, <2>3, <3>1, SameFd
  <2>5. req' \in Reqs => replies[req'] = 0
    BY <1>2, <2>1 DEF OnceInv, Reqs
  <2> QED BY <1>1, <1>2, <2>1, <2>4, <2>5 DEF OnceInv, Reqs
<1>4. ASSUME NEW seg \in toClient, RcvData(seg) PROVE OnceInv'
  <2>1. /\ req' = req /\ www_fd' = www_fd /\ AwaitingReply /\ ~AwaitingReply'
    BY <1>4 DEF RcvData, AfterData, AwaitingReply, OnceInv, sketchvars
  <2>2. req \in Reqs
    <3>1. seg.port \in Ports /\ opened[seg.port] # NoReq
      BY DEF OnceInv, RouteInv, PortsOwned, TypeInv, TypeOK, ServerSegs
    <3>2. opened[seg.port] \in Reqs /\ opened[seg.port] <= req
      BY <3>1 DEF OnceInv, RouteInv, PortsOwned, TypeInv, TypeOK
    <3> QED BY <1>2, <3>2 DEF Reqs
  <2>3. \/ /\ result_fd' = result_fd
           /\ replies' = replies \/ replies' = [replies EXCEPT ![req] = OneMore(@)]
        \/ replies' = replies
    BY <1>4 DEF RcvData, ResultCb
  <2> QED BY <1>1, <1>2, <2>1, <2>2, <2>3 DEF OnceInv, OneMore, Several
<1>5. ASSUME NEW f \in Fds, TcpReply(f) PROVE OnceInv'
  <2>1. result_fd = www_fd /\ req \in Reqs /\ MeantBy(f) = req
    BY <1>5, TcpReplyLast DEF OnceInv
  <2>2. /\ result_fd' = NoFd /\ replies' = [replies EXCEPT ![req] = OneMore(@)]
        /\ UNCHANGED <<tcp_client_state, req, www_fd>>
    BY <1>5, <2>1 DEF TcpReply, sketchvars
  <2> QED BY <1>1, <1>2, <2>1, <2>2 DEF OnceInv, AwaitingReply, OneMore, Several
<1>6. ASSUME UNCHANGED <<req, replies, www_fd>>, result_fd' \in {result_fd, NoFd},
             AwaitingReply' => AwaitingReply
      PROVE  OnceInv'
  BY <1>1, <1>2, <1>6 DEF OnceInv
<1>7. ASSUME NEW seg \in toClient,
             \/ RcvReset(seg) \/ RcvSynAck(seg) \/ RcvUnexpected(seg)
             \/ RcvFin(seg) \/ RcvLateData(seg) \/ RcvIgnored(seg)
      PROVE  OnceInv'
  BY <1>6, <1>7
  DEF RcvReset, RcvSynAck, RcvUnexpected, RcvFin, RcvLateData, RcvIgnored,
      AfterReset, AwaitingReply, sketchvars, ghosts
<1>8. ASSUME SendSyn \/ GatewayFound \/ SetGwIp \/ ServerStep
             \/ (\E p \in Ports : ServerAborts(p)) \/ UNCHANGED vars
      PROVE  OnceInv'
  BY <1>6, <1>8
  DEF SendSyn, GatewayFound, SetGwIp, GatewayFrame, ServerStep, ServerAccepts,
      ServerReads, ServerGetsAck, ServerGetsFin, ServerDrops, ServerAborts,
      Serve, clientvars, AwaitingReply, sketchvars, ghosts, vars
<1> QED BY <1>3, <1>4, <1>5, <1>7, <1>8 DEF Next, PacketLoopReceive

(* Sketches with tcpSend, too, are handed at most one reply per request,   *)
(* unless connections persist.                                             *)
THEOREM OneReplyEach == Spec => [](OneFdEach => OneReply)
<1> DEFINE Once == OneFdEach /\ ~setting.persist => OnceInv
<1>1. Init => Once
  <2> SUFFICES ASSUME Init, OneFdEach, ~setting.persist PROVE OnceInv
    OBVIOUS
  <2>1. req = 0 /\ \A r \in Reqs : replies[r] = 0
    BY DEF Init
  <2> QED BY <2>1, InitRoute DEF OnceInv, Reqs
<1>2. Once /\ [Next]_vars => Once'
  BY StepOnce, StepSetting DEF OneFdEach
<1>3. Once => (OneFdEach => OneReply)
  BY DEF OnceInv, OneReply
<1> HIDE DEF Once
<1> QED BY <1>1, <1>2, <1>3, PTL DEF Spec

-----------------------------------------------------------------------------
(* Nothing is left of an earlier request when a connection is opened: the  *)
(* sketch makes one request only, or waits until the line is quiet.        *)
OneAtATime == setting.persist /\ (setting.reqs <= 1 \/ setting.when = "quiet")

NothingBefore ==
  /\ req = 0 => /\ toServer = {} /\ toClient = {}
                /\ \A p \in Ports : srv[p].st = "closed"
  /\ tcp_client_state = "SENDSYN" => req # 0
(* Data and FIN are on the line only when the client is in a state in      *)
(* which it hands data over or ignores everything.                         *)
Calm ==
  tcp_client_state \notin {"ESTABLISHED", "CLOSING"} =>
    \A seg \in toServer \union toClient : seg.is \in {"syn", "synack", "rst"}
(* A descriptor is still that of the last request while segments other     *)
(* than resets travel with it: with another one the browser's callback     *)
(* gets no data.                                                           *)
OnLastFd ==
  /\ www_fd = tcp_fd
  /\ \A seg \in toServer \union toClient : seg.is # "rst" => seg.port.fd = tcp_fd
HandedUpTo(p, n) == (1 .. n) \ setting.short \subseteq handed[p]
HandedBefore ==
  /\ \A seg \in toServer :
       seg.is \in {"ack", "fin"} => HandedUpTo(seg.port, seg.n)
  /\ \A p \in Ports : HandedUpTo(p, srv[p].acked)
  /\ \A seg \in toClient : seg.is = "data" => HandedUpTo(seg.port, seg.n - 1)

(* An acknowledgement covers all parts before it, so that the server's     *)
(* next part is one after parts handed over or short.  What breaks this    *)
(* are data and FIN acknowledged in states that hand nothing over (Calm),  *)
(* and data of a connection with another descriptor (OnLastFd).            *)
HandedInv ==
  TypeInv /\ OneAtATime /\ NothingBefore /\ Calm /\ OnLastFd /\ HandedBefore

(* The sketch's calls and idle turns acknowledge nothing.                  *)
LEMMA HandedSketch ==
  ASSUME HandedInv,
         \/ \E k \in setting.kinds : Request(k)
         \/ SendSyn \/ GatewayFound \/ SetGwIp
         \/ \E f \in Fds : TcpReply(f)
  PROVE  HandedInv'
<1>1. TypeInv'
  BY TypeSketch DEF HandedInv
<1>2. UNCHANGED <<setting, handed, toClient, srv>>
  BY DEF Request, SendSyn, GatewayFound, SetGwIp, GatewayFrame, TcpReply,
         sketchvars, ghosts, wires
<1>3. ASSUME NEW k \in setting.kinds, Request(k) PROVE HandedInv'
  <2>1. toServer = {} /\ toClient = {} /\ toServer' = {} /\ req' # 0
        /\ www_fd' = tcp_fd'
    <3>1. req \in Nat /\ setting.reqs \in Nat
      BY TcpClientAssumption DEF HandedInv, TypeInv, TypeOK, SettingType
    <3>2. req = 0 \/ setting.when = "quiet"
      BY <1>3, <3>1 DEF Request, HandedInv, OneAtATime
    <3>3. toServer = {} /\ toClient = {}
      BY <1>3, <3>1, <3>2 DEF Request, SketchReady, HandedInv, NothingBefore
    <3> QED BY <1>3, <3>1, <3>3 DEF Request, wires
  <2> QED BY <1>1, <1>2, <2>1
      DEF HandedInv, OneAtATime, NothingBefore, Calm, OnLastFd, HandedBefore,
          HandedUpTo
<1>4. CASE SendSyn
  <2>1. /\ tcp_client_state = "SENDSYN" /\ tcp_client_state' = "SYNSENT"
        /\ UNCHANGED <<req, tcp_fd, www_fd>>
        /\ \A s \in toServer' :
             s \in toServer \/ (s.is = "syn" /\ s.port.fd = tcp_fd)
    BY <1>4 DEF SendSyn, Seg, sketchvars
  <2> QED BY <1>1, <1>2, <2>1
      DEF HandedInv, OneAtATime, NothingBefore, Calm, OnLastFd, HandedBefore,
          HandedUpTo
<1>5. CASE GatewayFound \/ SetGwIp \/ \E f \in Fds : TcpReply(f)
  <2>1. UNCHANGED <<tcp_client_state, req, tcp_fd, www_fd, toServer>>
    BY <1>5 DEF GatewayFound, SetGwIp, GatewayFrame, TcpReply, sketchvars, wires
  <2> QED BY <1>1, <1>2, <2>1
      DEF HandedInv, OneAtATime, NothingBefore, Calm, OnLastFd, HandedBefore,
          HandedUpTo
<1> QED BY <1>3, <1>4, <1>5

(* What the handler of segments acknowledges it hands over, or is short.   *)
LEMMA HandedReceive ==
  ASSUME HandedInv, PacketLoopReceive
  PROVE  HandedInv'
<1>1. PICK seg \in toClient :
        \/ RcvReset(seg) \/ RcvSynAck(seg) \/ RcvUnexpected(seg) \/ RcvData(seg)
        \/ RcvFin(seg) \/ RcvLateData(seg) \/ RcvIgnored(seg)
  BY DEF PacketLoopReceive
<1>2. TypeInv'
  BY TypeReceive DEF HandedInv
<1>3. /\ req # 0 /\ toClient' \subseteq toClient /\ OneAtATime'
      /\ UNCHANGED <<setting, req, tcp_fd, www_fd, srv>>
  BY <1>1 DEF HandedInv, NothingBefore, RcvReset, RcvSynAck, RcvUnexpected,
     RcvData, RcvFin, RcvLateData, RcvIgnored, Receive, sketchvars, OneAtATime
<1>4. ~RcvFin(seg) /\ ~RcvLateData(seg) /\ ~RcvUnexpected(seg)
  <2>1. seg.is \in {"synack", "data", "fin", "rst"}
    BY DEF HandedInv, TypeInv, TypeOK, ServerSegs
  <2> QED BY <2>1
      DEF HandedInv, Calm, RcvFin, FinEnds, RcvLateData, RcvUnexpected
<1>5. /\ seg.port \in Ports /\ seg.n \in Nat /\ handed \in [Ports -> SUBSET Nat]
      /\ \A s \in toServer \union toClient : s.port \in Ports
  BY DEF HandedInv, TypeInv, TypeOK, ServerSegs, ClientSegs
<1>6. CASE RcvReset(seg) \/ RcvIgnored(seg)
  <2>1. /\ UNCHANGED <<toServer, handed>>
        /\ tcp_client_state' \in {tcp_client_state, "CLOSING"}
    BY <1>6 DEF RcvReset, RcvIgnored, AfterReset, ghosts
  <2> QED BY <1>2, <1>3, <2>1
      DEF HandedInv, NothingBefore, Calm, OnLastFd, HandedBefore, HandedUpTo
<1>7. CASE RcvSynAck(seg)
  <2>1. /\ tcp_client_state' = "ESTABLISHED" /\ handed' = handed
        /\ seg.is = "synack"
        /\ \A s \in toServer' :
             \/ s \in toServer
             \/ s.port = seg.port /\ s.is = "payload"
             \/ s.port = seg.port /\ s.is = "ack" /\ s.n = 0
    BY <1>7 DEF RcvSynAck, Answer, Seg
  <2>2. OnLastFd'
    BY <1>3, <2>1 DEF HandedInv, OnLastFd
  <2> QED BY <1>2, <1>3, <2>1, <2>2
      DEF HandedInv, NothingBefore, Calm, HandedBefore, HandedUpTo
<1>8. CASE RcvData(seg)
  <2>1. /\ tcp_client_state' = "ESTABLISHED" /\ seg.is = "data"
        /\ \A s \in toServer' :
             \/ s \in toServer
             \/ s.port = seg.port /\ s.is = "ack" /\ s.n = seg.n
    BY <1>8 DEF RcvData, AfterData, Answer, Seg, HandedInv, OneAtATime
  <2>2. /\ \/ handed' = handed
           \/ handed' = [handed EXCEPT ![seg.port] = @ \union {seg.n}]
        /\ seg.n \in setting.short \/ seg.n \in handed'[seg.port]
    <3>1. seg.port.fd = www_fd
      BY <2>1 DEF HandedInv, OnLastFd
    <3>2. HandsOver(seg) \/ seg.n \in setting.short
      BY <3>1 DEF HandsOver, WwwResult
    <3> QED BY <1>5, <1>8, <3>2 DEF RcvData
  <2>3. \A p \in Ports : handed[p] \subseteq handed'[p]
    BY <1>5, <2>2
  <2>4. HandedUpTo(seg.port, seg.n)'
    <3>1. 1 .. seg.n \subseteq 1 .. (seg.n - 1) \union {seg.n}
      BY <1>5
    <3>2. (1 .. (seg.n - 1)) \ setting.short \subseteq handed[seg.port]
      BY <2>1 DEF HandedInv, HandedBefore, HandedUpTo
    <3>3. (1 .. seg.n) \ setting.short \subseteq handed'[seg.port]
      BY <1>5, <2>2, <2>3, <3>1, <3>2
    <3> QED BY <1>3, <3>3 DEF HandedUpTo
  <2>5. HandedBefore'
    BY <1>3, <1>5, <2>1, <2>3, <2>4 DEF HandedInv, HandedBefore, HandedUpTo
  <2>6. OnLastFd'
    BY <1>3, <2>1 DEF HandedInv, OnLastFd
  <2> QED BY <1>2, <1>3, <2>1, <2>5, <2>6 DEF HandedInv, NothingBefore, Calm
<1> QED BY <1>1, <1>4, <1>6, <1>7, <1>8

(* The server sends data of a request it was asked for only.               *)
LEMMA HandedServer ==
  ASSUME HandedInv, NEW p \in Ports, NEW c \in Conns, ServerMove(p, c)
  PROVE  HandedInv'
<1>1. TypeInv'
  BY TypeServer DEF HandedInv
<1>2. /\ srv \in [Ports -> Conns] /\ toServer' \subseteq toServer
      /\ UNCHANGED <<setting, req, handed, tcp_fd, www_fd, tcp_client_state>>
  BY DEF ServerMove, clientvars, sketchvars, ghosts, HandedInv, TypeInv, TypeOK
<1>3. NothingBefore'
  BY <1>2 DEF ServerMove, HandedInv, NothingBefore
<1>4. Calm'
  <2>1. \A s \in toClient' \ toClient : s.is \in {"synack", "data", "fin", "rst"}
    BY DEF ServerMove, ServerSegs
  <2> QED BY <1>2, <2>1 DEF ServerMove, HandedInv, Calm
<1>5. OnLastFd'
  <2>1. \A s \in toClient' \ toClient : s.is # "rst" => s.port.fd = tcp_fd
    BY DEF ServerMove, HandedInv, OnLastFd
  <2> QED BY <1>2, <2>1 DEF HandedInv, OnLastFd
<1>6. HandedBefore'
  <2>1. HandedUpTo(p, c.acked)
    BY DEF ServerMove, HandedInv, HandedBefore, HandedUpTo
  <2>2. \A s \in toClient' : s.is = "data" => HandedUpTo(s.port, s.n - 1)
    <3>1. c.acked \in Nat
      BY DEF Conns
    <3> QED BY <2>1, <3>1 DEF ServerMove, HandedInv, HandedBefore
  <2> QED BY <1>2, <2>1, <2>2 DEF ServerMove, HandedInv, HandedBefore, HandedUpTo
<1> QED BY <1>1, <1>2, <1>3, <1>4, <1>5, <1>6 DEF HandedInv, OneAtATime

(* Every step keeps what is acknowledged handed over.                      *)
LEMMA StepHanded == HandedInv /\ [Next]_vars => HandedInv'
<1>1. HandedInv /\ UNCHANGED vars => HandedInv'
  <2>1. HandedInv /\ UNCHANGED vars => TypeInv'
    BY StepType DEF HandedInv
  <2> QED BY <2>1
      DEF vars, sketchvars, ghosts, wires, HandedInv, OneAtATime, NothingBefore,
          Calm, OnLastFd, HandedBefore, HandedUpTo
<1> QED BY <1>1, HandedSketch, HandedReceive, ServerMoves, HandedServer
    DEF Next, HandedInv

(* On a persistent connection every acknowledged segment of more than 12   *)
(* bytes was handed to the sketch, for replies of any length and with      *)
(* every part repeated at will, if no earlier request has left anything    *)
(* on the line.                                                            *)
THEOREM AcknowledgedWasHanded ==
  Spec => [](setting.reqs <= 1 \/ setting.when = "quiet" => AckedMeansHanded)
<1>1. Init => (OneAtATime => HandedInv)
  <2> SUFFICES ASSUME Init, OneAtATime PROVE HandedInv
    OBVIOUS
  <2> QED BY InitType
      DEF Init, HandedInv, NothingBefore, Calm, OnLastFd, HandedBefore, HandedUpTo
<1>2. (OneAtATime => HandedInv) /\ [Next]_vars => (OneAtATime => HandedInv)'
  BY StepHanded, StepSetting DEF OneAtATime
<1>3. (OneAtATime => HandedInv)
      => (setting.reqs <= 1 \/ setting.when = "quiet" => AckedMeansHanded)
  BY DEF HandedInv, HandedBefore, HandedUpTo, OneAtATime, AckedMeansHanded
<1> QED BY <1>1, <1>2, <1>3, PTL DEF Spec
=============================================================================
