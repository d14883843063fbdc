-------------------------- MODULE ServerProofs --------------------------
(***************************************************************************)
(* Proofs about the two servers.  TcpServer comes first, for any number of *)
(* clients, any texts and any loss, repetition and order of the segments.  *)
(* What findKeyVal and urlDecode make of a form is a hypothesis, checked   *)
(* by TLC on all short texts; the sequence numbers are the code's, modulo  *)
(* any SeqSpace.  UdpServer comes second, for any ports and any size of    *)
(* the table.                                                              *)
(***************************************************************************)
EXTENDS TcpServer, UdpServer, Integers, SequenceTheorems, TLAPS

(* Clients and replies are records with these fields.                      *)
Conn(k) ==
  [state |-> k.state, nxt |-> k.nxt, una |-> k.una, rcv |-> k.rcv, got |-> k.got,
   ended |-> k.ended]
Reply(r) == [value |-> r.value, acked |-> r.acked, sent |-> r.sent]
Shaped(s) == s = Segment(s.client, s.flags, s.seq, s.ack, s.data)
Shapes ==
  /\ client = [c \in Clients |-> Conn(client[c])]
  /\ reply = Reply(reply) /\ reply.acked \in BOOLEAN /\ reply.sent \in 0 .. parts
  /\ parts \in Parts
  /\ Shaped(gPB)
  /\ \A s \in toServer \union toClient : Shaped(s) /\ s.client \in Clients

(* Only a segment without data carries SYN or FIN to the server.           *)
Flagged == \A s \in toServer : s.flags \intersect {"SYN", "FIN"} # {} => s.data = << >>

(* What the server may acknowledge, by AckedWasHanded.                     *)
Handed(s) == [client |-> s.client, upto |-> s.ack] \in handed \/ s.ack \in Marks(s.client)

(* While the sketch answers, gPB holds the request it was handed, or a     *)
(* segment that acknowledges it.                                           *)
Working ==
  ~Idle =>
    \/ /\ ~reply.acked /\ gPB \in toServer /\ gPB.data # << >>
       /\ PayloadLength(gPB) # 0 /\ info_data_len = PayloadLength(gPB)
       /\ [client |-> gPB.client, upto |-> Plus(gPB.seq, PayloadLength(gPB))] \in handed
    \/ reply.acked /\ parts > 1 /\ gPB.client \in Clients /\ Handed(gPB)
AckInv == Shapes /\ Flagged /\ Working /\ \A s \in toClient : Handed(s)

(* A client's connection whose first expected sequence number is r: its    *)
(* requests are all the same, the parts of the answer to it lie one after  *)
(* the other from r on, and it has read the first of them.                 *)
Connected(c) == client[c].state \notin {"closed", "syn"}
Reads(c, r) ==
  /\ client[c].state \in {"asking", "waiting"} =>
       ~client[c].ended /\ client[c].rcv = Plus(r, PartLength * Len(client[c].got))
  /\ client[c].state = "asking" =>
       /\ client[c].got = << >> /\ client[c].una = 0
       /\ client[c].nxt = Plus(0, RequestLength(c))
Requests(c, r) ==
  \A s \in toServer : s.client = c /\ s.data # << >> =>
    Connected(c) /\ s.data = Asked[c] /\ s.seq = 0 /\ s.ack = r
PartOf(c, r, s, n) ==
  /\ s.data = Page(Understood[Asked[c]], n) /\ s.seq = Plus(r, PartLength * (n - 1))
  /\ "FIN" \in s.flags => n = parts
Answers(c, r) ==
  \A s \in toClient : s.client = c /\ s.data # << >> =>
    /\ Connected(c) /\ "ACK" \in s.flags /\ s.ack = Plus(0, RequestLength(c))
    /\ \E n \in 1 .. parts : PartOf(c, r, s, n)
Replies(c, r) ==
  ~Idle /\ gPB.client = c =>
    /\ Connected(c) /\ reply.value = Understood[Asked[c]]
    /\ ~reply.acked => /\ gPB.data = Asked[c] /\ gPB.seq = 0 /\ gPB.ack = r /\ reply.sent = 0
                       /\ info_data_len = RequestLength(c)
    /\ reply.acked => /\ gPB.ack = Plus(0, RequestLength(c))
                      /\ SEQ = Plus(r, PartLength * reply.sent)
Talks(c, r) == Reads(c, r) /\ Requests(c, r) /\ Answers(c, r) /\ Replies(c, r)

(* What a client has read; and a FIN never comes without the last part.    *)
HasRead(c) ==
  LET got == client[c].got IN
  /\ got \in Seq({Page(Asked[c], n) : n \in Nat}) /\ Len(got) <= parts
  /\ \A n \in 1 .. Len(got) : got[n] = Page(Asked[c], n)
  /\ client[c].ended => Len(got) = parts
Fresh(c) ==
  client[c].state \in {"closed", "syn"} =>
    /\ client[c].got = << >> /\ ~client[c].ended
    /\ client[c].una = SeqSpace - 1
    /\ client[c].nxt = IF client[c].state = "syn" THEN Plus(SeqSpace - 1, 1) ELSE SeqSpace - 1
FinWithData == \A s \in toClient : "FIN" \in s.flags => s.data # << >>
Numbers ==
  /\ seqnum \in Nat
  /\ \A s \in toClient : "SYN" \in s.flags => s.seq \in Nat
PageInv ==
  /\ AckInv /\ FinWithData /\ Numbers
  /\ \A c \in Clients : HasRead(c) /\ Fresh(c) /\ \E r \in 0 .. SeqSpace - 1 : Talks(c, r)

-----------------------------------------------------------------------------
(* A segment that is built has the fields it was built from.               *)
LEMMA SegmentShaped ==
  ASSUME NEW c, NEW flags, NEW seq, NEW ack, NEW data
  PROVE  LET s == Segment(c, flags, seq, ack, data) IN
         /\ Shaped(s) /\ s.client = c /\ s.flags = flags /\ s.seq = seq /\ s.ack = ack
         /\ s.data = data
BY DEF Shaped, Segment

(* Changing fields of a segment.  (The provers want to see the values of a *)
(* record's fields in some set: here in the set of all of them.)           *)
WithData(s, flags, data) == [s EXCEPT !.flags = flags, !.data = data]
With(s, seq, data, flags) == [s EXCEPT !.seq = seq, !.data = data, !.flags = flags]
LEMMA SegmentChanged ==
  ASSUME NEW s, Shaped(s), NEW flags, NEW seq, NEW data
  PROVE  /\ WithData(s, flags, data) = Segment(s.client, flags, s.seq, s.ack, data)
         /\ With(s, seq, data, flags) = Segment(s.client, flags, seq, s.ack, data)
<1> DEFINE X == {s.client, s.flags, s.seq, s.ack, s.data, flags, seq, data}
<1>1. s \in [client : X, flags : X, seq : X, ack : X, data : X] /\ {flags, seq, data} \subseteq X
  BY DEF Shaped, Segment
<1> HIDE DEF X
<1>2. ASSUME NEW t, t = WithData(s, flags, data)
      PROVE  t = Segment(s.client, flags, s.seq, s.ack, data)
  BY <1>1, <1>2 DEF Segment, WithData
<1>3. ASSUME NEW t, t = With(s, seq, data, flags)
      PROVE  t = Segment(s.client, flags, seq, s.ack, data)
  BY <1>1, <1>3 DEF Segment, With
<1> QED BY <1>2, <1>3

Conns(X) == [state : X, nxt : X, una : X, rcv : X, got : X, ended : X]
(* All clients are records over one set, of which any values are members.  *)
LEMMA ClientsIn ==
  ASSUME Shapes, NEW new
  PROVE  \E X : new \subseteq X /\ client \in [Clients -> Conns(X)]
<1> DEFINE X == new \union UNION {{client[d].state, client[d].nxt, client[d].una, client[d].rcv,
                                   client[d].got, client[d].ended} : d \in Clients}
<1>1. \A d \in Clients : Conn(client[d]) \in Conns(X)
  <2> SUFFICES ASSUME NEW d \in Clients PROVE Conn(client[d]) \in Conns(X)
    OBVIOUS
  <2>1. {client[d].state, client[d].nxt, client[d].una, client[d].rcv,
         client[d].got, client[d].ended} \subseteq X
    OBVIOUS
  <2> HIDE DEF X
  <2> QED BY <2>1 DEF Conn, Conns
<1>2. new \subseteq X
  OBVIOUS
<1> HIDE DEF X
<1>3. client = [d \in Clients |-> Conn(client[d])]
  BY DEF Shapes
<1>4. [d \in Clients |-> Conn(client[d])] \in [Clients -> Conns(X)]
  BY <1>1
<1> QED BY <1>2, <1>3, <1>4

(* Client c's connection is now k, and the others are as they were.        *)
Becomes(c, k) ==
  /\ client' = [d \in Clients |-> Conn(client'[d])]
  /\ client'[c] = k /\ \A d \in Clients \ {c} : client'[d] = client[d]

(* A step that gives one client's connection a value gives it that value only. *)
LEMMA ClientBecomes ==
  ASSUME Shapes, NEW c \in Clients, NEW k, k = Conn(k), client'[c] = k,
         client' = [d \in Clients |-> client'[d]],
         \A d \in Clients \ {c} : client'[d] = client[d]
  PROVE  Becomes(c, k)
<1>1. \A d \in Clients : client[d] = Conn(client[d])
  BY DEF Shapes
<1>2. \A d \in Clients : client'[d] = Conn(client'[d])
  BY <1>1
<1> QED BY <1>2 DEF Becomes

(* A client connects: its SYN takes one sequence number.                   *)
LEMMA ConnectDoes ==
  ASSUME Shapes, NEW c \in Clients, Connect(c)
  PROVE  /\ Becomes(c, [state |-> "syn", nxt |-> Plus(client[c].nxt, 1), una |-> client[c].una,
                        rcv |-> client[c].rcv, got |-> client[c].got, ended |-> client[c].ended])
         /\ client[c].state = "closed"
<1> DEFINE n == Plus(client[c].nxt, 1)
<1>1. client' = [client EXCEPT ![c].state = "syn", ![c].nxt = n] /\ client[c].state = "closed"
  BY DEF Connect
<1> HIDE DEF n
<1>2. PICK X : {"syn", n} \subseteq X /\ client \in [Clients -> Conns(X)]
  BY ClientsIn
<1>3. /\ client'[c] = [state |-> "syn", nxt |-> n, una |-> client[c].una, rcv |-> client[c].rcv,
                       got |-> client[c].got, ended |-> client[c].ended]
      /\ client' = [d \in Clients |-> client'[d]]
      /\ \A d \in Clients \ {c} : client'[d] = client[d]
  BY <1>1, <1>2 DEF Conns
<1> QED BY <1>1, <1>3, ClientBecomes DEF n, Conn

(* A client gets the SYN+ACK: its numbers go on behind both SYNs.          *)
LEMMA GetsSynAckDoes ==
  ASSUME Shapes, NEW c \in Clients, NEW s, GetsSynAck(c, s)
  PROVE  /\ Becomes(c, [state |-> "asking", nxt |-> Plus(client[c].nxt, RequestLength(c)),
                        una |-> client[c].nxt, rcv |-> Plus(s.seq, 1), got |-> client[c].got,
                        ended |-> client[c].ended])
         /\ client[c].state = "syn" /\ "SYN" \in s.flags
<1> DEFINE n == Plus(client[c].nxt, RequestLength(c))
           r == Plus(s.seq, 1)
<1>1. /\ client' = [client EXCEPT ![c].state = "asking", ![c].una = client[c].nxt,
                                  ![c].nxt = n, ![c].rcv = r]
      /\ client[c].state = "syn" /\ "SYN" \in s.flags
  BY DEF GetsSynAck
<1> HIDE DEF n, r
<1>2. PICK X : {"asking", n, r, client[c].nxt} \subseteq X /\ client \in [Clients -> Conns(X)]
  BY ClientsIn
<1>3. /\ client'[c] = [state |-> "asking", nxt |-> n, una |-> client[c].nxt, rcv |-> r,
                       got |-> client[c].got, ended |-> client[c].ended]
      /\ client' = [d \in Clients |-> client'[d]]
      /\ \A d \in Clients \ {c} : client'[d] = client[d]
  BY <1>1, <1>2 DEF Conns
<1> QED BY <1>1, <1>3, ClientBecomes DEF n, r, Conn

(* A client gets the acknowledgement of its FIN: it is done.               *)
LEMMA GetsFinAckDoes ==
  ASSUME Shapes, NEW c \in Clients, NEW s, GetsFinAck(c, s)
  PROVE  /\ Becomes(c, [state |-> "done", nxt |-> client[c].nxt, una |-> client[c].nxt,
                        rcv |-> client[c].rcv, got |-> client[c].got, ended |-> client[c].ended])
         /\ client[c].state = "closing"
<1>1. /\ client' = [client EXCEPT ![c].state = "done", ![c].una = client[c].nxt]
      /\ client[c].state = "closing"
  BY DEF GetsFinAck
<1>2. PICK X : {"done", client[c].nxt} \subseteq X /\ client \in [Clients -> Conns(X)]
  BY ClientsIn
<1>3. /\ client'[c] = [state |-> "done", nxt |-> client[c].nxt, una |-> client[c].nxt,
                       rcv |-> client[c].rcv, got |-> client[c].got, ended |-> client[c].ended]
      /\ client' = [d \in Clients |-> client'[d]]
      /\ \A d \in Clients \ {c} : client'[d] = client[d]
  BY <1>1, <1>2 DEF Conns
<1> QED BY <1>1, <1>3, ClientBecomes DEF Conn

(* Data received: the connection after it, field by field.                 *)
LEMMA GetsDataDoes ==
  ASSUME Shapes, NEW c \in Clients, NEW s, GetsData(c, s)
  PROVE  \E k :
    LET old == client[c]
        acked == IF Acked(old, s) /\ old.state = "asking" THEN "waiting" ELSE old.state
        inOrder == s.seq = old.rcv /\ ~old.ended
        len == IF s.data = << >> THEN 0 ELSE PartLength
        fin == inOrder /\ "FIN" \in s.flags
    IN
    /\ Becomes(c, k) /\ old.state \in {"asking", "waiting"} /\ "SYN" \notin s.flags
    /\ k.state = IF fin /\ acked = "waiting" THEN "closing" ELSE acked
    /\ k.una = IF Acked(old, s) THEN old.nxt ELSE old.una
    /\ ~(fin /\ acked = "waiting") => k.nxt = old.nxt
    /\ k.rcv = IF inOrder THEN Plus(old.rcv, len + IF fin THEN 1 ELSE 0) ELSE old.rcv
    /\ k.got = IF inOrder /\ len > 0 THEN Append(old.got, s.data) ELSE old.got
    /\ k.ended = (old.ended \/ fin)
<1> DEFINE old == client[c]
           acked == IF Acked(old, s) /\ old.state = "asking" THEN "waiting" ELSE old.state
           una == IF Acked(old, s) THEN old.nxt ELSE old.una
           inOrder == s.seq = old.rcv /\ ~old.ended
           len == IF s.data = << >> THEN 0 ELSE PartLength
           fin == inOrder /\ "FIN" \in s.flags
           closes == fin /\ acked = "waiting"
           state == IF closes THEN "closing" ELSE acked
           nxt == IF closes THEN Plus(old.nxt, 1) ELSE old.nxt
           rcv == IF inOrder THEN Plus(old.rcv, len + IF fin THEN 1 ELSE 0) ELSE old.rcv
           got == IF inOrder /\ len > 0 THEN Append(old.got, s.data) ELSE old.got
           ended == old.ended \/ fin
           k == [state |-> state, una |-> una, nxt |-> nxt, rcv |-> rcv, got |-> got,
                 ended |-> ended]
<1>0. old.state \in {"asking", "waiting"} /\ "SYN" \notin s.flags
      /\ client' = [client EXCEPT ![c] = k]
  BY DEF GetsData
<1>4. ~closes => nxt = old.nxt
  OBVIOUS
<1> HIDE DEF state, nxt, rcv, got, ended, una
<1>1. /\ k = Conn(k) /\ k.state = state /\ k.una = una /\ k.nxt = nxt /\ k.rcv = rcv
      /\ k.got = got /\ k.ended = ended
  BY DEF Conn
<1> HIDE DEF k
<1>2. /\ client'[c] = k /\ client' = [d \in Clients |-> client'[d]]
      /\ \A d \in Clients \ {c} : client'[d] = client[d]
  <2>1. client = [d \in Clients |-> client[d]]
    BY DEF Shapes
  <2> QED BY <1>0, <2>1
<1>3. Becomes(c, k)
  BY <1>1, <1>2, ClientBecomes
<1> QED BY <1>0, <1>1, <1>4, <1>3 DEF state, rcv, got, ended, una

(* The clients' connections keep their shape; nothing else is touched.     *)
LEMMA ReceivesKeeps ==
  ASSUME Shapes, NEW c \in Clients, NEW s, ClientReceives(c, s)
  PROVE  /\ client' = [d \in Clients |-> Conn(client'[d])]
         /\ UNCHANGED <<parts, gPB, server, toServer, toClient>>
<1>1. UNCHANGED <<parts, gPB, server, toServer, toClient>>
  BY DEF ClientReceives
<1>2. \E k : Becomes(c, k)
  <2>1. CASE GetsSynAck(c, s)
    BY <2>1, GetsSynAckDoes
  <2>2. CASE GetsFinAck(c, s)
    BY <2>2, GetsFinAckDoes
  <2>3. CASE GetsData(c, s)
    BY <2>3, GetsDataDoes
  <2> QED BY <2>1, <2>2, <2>3 DEF ClientReceives
<1> QED BY <1>1, <1>2 DEF Becomes

(* Before the first segment nobody waits for a page.                       *)
LEMMA AckInit == Init => AckInv
<1> SUFFICES ASSUME Init PROVE AckInv
  OBVIOUS
<1>1. parts \in Parts /\ parts \in Nat /\ reply = [value |-> << >>, acked |-> TRUE, sent |-> parts]
  BY ServerAssumption DEF Init
<1>2. reply = Reply(reply) /\ reply.acked \in BOOLEAN /\ reply.sent \in 0 .. parts /\ Idle
  BY <1>1 DEF Reply, Idle
<1>3. Shaped(gPB)
  BY DEF Init, Nothing, Shaped, Segment
<1>4. client = [c \in Clients |-> Conn(client[c])] /\ toServer = {} /\ toClient = {}
  BY DEF Init, Conn
<1>5. Shapes
  BY <1>1, <1>2, <1>3, <1>4 DEF Shapes
<1> QED BY <1>2, <1>4, <1>5 DEF AckInv, Flagged, Working

(* What the clients send.                                                  *)
LEMMA OutstandingShaped ==
  ASSUME NEW c \in Clients, NEW s \in Outstanding(c)
  PROVE  /\ Shaped(s) /\ s.client = c
         /\ s.flags \intersect {"SYN", "FIN"} # {} => s.data = << >>
         /\ s.data # << >> => /\ client[c].state = "asking" /\ s.data = Asked[c]
                              /\ s.seq = client[c].una /\ s.ack = client[c].rcv
<1>1. CASE client[c].state = "syn"
  BY <1>1, SegmentShaped DEF Outstanding
<1>2. CASE client[c].state = "asking"
  <2>1. s = Segment(c, {"ACK", "PSH"}, client[c].una, client[c].rcv, Asked[c])
    BY <1>2 DEF Outstanding, Request
  <2> QED BY <1>2, <2>1, SegmentShaped
<1>3. CASE client[c].state = "closing"
  <2>1. s = Segment(c, {"ACK", "FIN"}, client[c].una, client[c].rcv, << >>)
    BY <1>3 DEF Outstanding
  <2> QED BY <2>1, SegmentShaped
<1>4. CASE client[c].state \notin {"syn", "asking", "closing"}
  BY <1>4 DEF Outstanding
<1> QED BY <1>1, <1>2, <1>3, <1>4

(* A segment of the server may be acknowledged by any later one too.       *)
LEMMA HandedStays ==
  ASSUME NEW s, Handed(s), toServer \subseteq toServer', handed \subseteq handed'
  PROVE  Handed(s)'
<1>1. Marks(s.client) \subseteq Marks(s.client)'
  BY DEF Marks
<1> QED BY <1>1 DEF Handed

(* The clients' own steps.                                                 *)
LEMMA AckClients ==
  ASSUME AckInv, NEW c \in Clients,
         Connect(c) \/ ClientSends(c) \/ \E s \in toClient : ClientReceives(c, s)
  PROVE  AckInv'
<1>1. Shapes /\ Flagged /\ Working /\ \A s \in toClient : Handed(s)
  BY DEF AckInv
<1>2. /\ UNCHANGED <<parts, gPB, server, toClient>> /\ toServer \subseteq toServer'
      /\ client' = [d \in Clients |-> Conn(client'[d])]
      /\ \A s \in toServer' : s \in toServer \/ s \in Outstanding(c)
  <2>1. CASE Connect(c)
    BY <1>1, <2>1, ConnectDoes DEF Connect, Becomes
  <2>2. CASE ClientSends(c)
    BY <1>1, <2>2 DEF ClientSends, Shapes
  <2>3. ASSUME NEW s \in toClient, ClientReceives(c, s)
        PROVE  /\ UNCHANGED <<parts, gPB, server, toServer, toClient>>
               /\ client' = [d \in Clients |-> Conn(client'[d])]
    BY <1>1, <2>3, ReceivesKeeps
  <2> QED BY <2>1, <2>2, <2>3
<1>3. Shapes' /\ Flagged'
  BY <1>1, <1>2, OutstandingShaped DEF Shapes, Flagged, server
<1>4. Working'
  BY <1>1, <1>2, HandedStays DEF Working, Idle, PayloadLength, server
<1>5. \A s \in toClient' : Handed(s)'
  BY <1>1, <1>2, HandedStays DEF server
<1> QED BY <1>3, <1>4, <1>5 DEF AckInv

(* The acknowledgement built from a request: len is not 0 then.            *)
LEMMA AckBuilt ==
  ASSUME NEW s, NEW len, len # 0
  PROVE  AckAny(s, len) = Segment(s.client, {"ACK"}, s.ack, Plus(s.seq, len), << >>)
BY DEF AckAny, StepSeq

(* While the sketch has sent nothing, gPB holds the request it was handed. *)
LEMMA RequestInBuffer ==
  ASSUME Working, ~Idle, ~reply.acked
  PROVE  /\ gPB \in toServer /\ gPB.data # << >> /\ info_data_len # 0
         /\ info_data_len = PayloadLength(gPB)
         /\ [client |-> gPB.client, upto |-> Plus(gPB.seq, info_data_len)] \in handed
BY DEF Working, PayloadLength

(* What the three functions of the sketch send and leave behind.           *)
LEMMA ReplyDoes ==
  ASSUME Shapes, Working, HttpServerReply
  PROVE  /\ ~Idle /\ ~reply.acked /\ parts = 1
         /\ gPB' = Nothing /\ reply' = Reply(reply') /\ reply'.acked = reply.acked /\ reply'.sent = 1
         /\ toClient' = toClient \union
              {Segment(gPB.client, {"ACK"}, gPB.ack, Plus(gPB.seq, info_data_len), << >>),
               Segment(gPB.client, {"ACK", "PSH", "FIN"}, gPB.ack, Plus(gPB.seq, info_data_len),
                       NextPart)}
<1> DEFINE ack == AckAny(gPB, info_data_len)
           data == WithData(ack, {"ACK", "PSH", "FIN"}, NextPart)
<1>1. /\ ~Idle /\ parts = 1 /\ toClient' = toClient \union {ack, data}
      /\ gPB' = Nothing /\ reply' = [reply EXCEPT !.sent = 1]
  BY DEF HttpServerReply, Sends, WithData
<1>2. ~reply.acked
  BY <1>1 DEF Working
<1>3. ack = Segment(gPB.client, {"ACK"}, gPB.ack, Plus(gPB.seq, info_data_len), << >>)
  BY <1>1, <1>2, AckBuilt, RequestInBuffer
<1> HIDE DEF ack
<1>4. /\ Shaped(ack) /\ ack.client = gPB.client /\ ack.seq = gPB.ack
      /\ ack.ack = Plus(gPB.seq, info_data_len)
  BY <1>3, SegmentShaped
<1>5. data = Segment(ack.client, {"ACK", "PSH", "FIN"}, ack.seq, ack.ack, NextPart)
  BY <1>4, SegmentChanged
<1> HIDE DEF data
<1>6. reply' = Reply(reply') /\ reply'.acked = reply.acked /\ reply'.sent = 1
  BY <1>1 DEF Shapes, Reply
<1> QED BY <1>1, <1>2, <1>3, <1>4, <1>5, <1>6

(* httpServerReplyAck: the request is acknowledged, and nothing else is sent. *)
LEMMA ReplyAckDoes ==
  ASSUME Shapes, Working, HttpServerReplyAck
  PROVE  /\ ~Idle /\ ~reply.acked /\ parts > 1 /\ UNCHANGED info_data_len
         /\ gPB' = Segment(gPB.client, {"ACK"}, gPB.ack, Plus(gPB.seq, info_data_len), << >>)
         /\ toClient' = toClient \union {gPB'} /\ SEQ' = gPB.ack
         /\ reply' = Reply(reply') /\ reply'.acked = TRUE /\ reply'.sent = reply.sent
         /\ reply'.value = reply.value
<1> DEFINE ack == AckAny(gPB, PayloadLength(gPB))
<1>1. /\ ~Idle /\ parts > 1 /\ ~reply.acked /\ toClient' = toClient \union {ack}
      /\ gPB' = ack /\ SEQ' = ack.seq /\ reply' = [reply EXCEPT !.acked = TRUE]
      /\ UNCHANGED info_data_len
  BY DEF HttpServerReplyAck, Sends
<1>2. ack = Segment(gPB.client, {"ACK"}, gPB.ack, Plus(gPB.seq, info_data_len), << >>)
  BY <1>1, AckBuilt, RequestInBuffer
<1> HIDE DEF ack
<1>3. ack.seq = gPB.ack
  BY <1>2, SegmentShaped
<1>4. /\ reply' = Reply(reply') /\ reply'.acked = TRUE /\ reply'.sent = reply.sent
      /\ reply'.value = reply.value
  BY <1>1 DEF Shapes, Reply
<1> QED BY <1>1, <1>2, <1>3, <1>4

(* httpServerReply_with_flags: one part leaves, behind all parts before it. *)
LEMMA WithFlagsDoes ==
  ASSUME Shapes, Working, HttpServerReplyWithFlags
  PROVE  \E part :
         /\ ~Idle /\ reply.acked /\ parts > 1
         /\ part = Segment(gPB.client, IF LastPart THEN {"ACK", "FIN"} ELSE {"ACK"},
                           SEQ, gPB.ack, NextPart)
         /\ toClient' = toClient \union {part}
         /\ gPB' = (IF LastPart THEN Nothing ELSE part)
         /\ SEQ' = Plus(SEQ, PartLength)
         /\ reply' = Reply(reply') /\ reply'.acked = reply.acked /\ reply'.value = reply.value
         /\ reply'.sent = reply.sent + 1 /\ reply'.sent \in 0 .. parts
<1> DEFINE flags == IF LastPart THEN {"ACK", "FIN"} ELSE {"ACK"}
           part == With(gPB, SEQ, NextPart, flags)
           n == reply.sent + 1
<1>1. /\ ~Idle /\ parts > 1 /\ reply.acked /\ toClient' = toClient \union {part}
      /\ gPB' = (IF LastPart THEN Nothing ELSE part) /\ SEQ' = Plus(SEQ, PartLength)
      /\ reply' = [reply EXCEPT !.sent = n]
  BY DEF HttpServerReplyWithFlags, ReplyInParts, Sends, With
<1> HIDE DEF flags
<1>2. part = Segment(gPB.client, flags, SEQ, gPB.ack, NextPart)
  <2>1. Shaped(gPB)
    BY DEF Shapes
  <2> QED BY <2>1, SegmentChanged
<1> HIDE DEF part
<1>3. n \in 0 .. parts
  BY <1>1, ServerAssumption DEF Shapes, Idle
<1> HIDE DEF n
<1>4. reply' = Reply(reply') /\ reply'.acked = reply.acked /\ reply'.value = reply.value
      /\ reply'.sent = n
  <2>1. reply = Reply(reply) /\ reply' = [reply EXCEPT !.sent = n]
    BY <1>1 DEF Shapes
  <2> QED BY <2>1 DEF Reply
<1> QED BY <1>1, <1>2, <1>3, <1>4 DEF flags, n

(* The server's steps add segments that acknowledge what it was handed.    *)
LEMMA AckServer ==
  ASSUME AckInv, Sketch \/ \E s \in toServer : Accept(s)
  PROVE  AckInv'
<1>1. Shapes /\ Flagged /\ Working /\ \A s \in toClient : Handed(s)
  BY DEF AckInv
<1>2. parts \in Nat \ {0} /\ UNCHANGED <<parts, client, toServer>>
  BY <1>1, ServerAssumption DEF Shapes, Sketch, HttpServerReply, HttpServerReplyAck,
     HttpServerReplyWithFlags, ReplyInParts, Accept
<1>3. ASSUME NEW s, Handed(s) PROVE Handed(s)'
  <2>1. handed \subseteq handed'
    BY DEF Sketch, HttpServerReply, HttpServerReplyAck, HttpServerReplyWithFlags, ReplyInParts,
           Accept, AcceptSyn, AcceptData, AcceptOther
  <2> QED BY <1>2, <1>3, <2>1, HandedStays
<1>4. Shaped(Nothing) /\ Nothing.data = << >>
  BY SegmentShaped DEF Nothing, Shaped, Segment
<1>5. Flagged'
  BY <1>1, <1>2 DEF Flagged
<1>6. ASSUME \A s \in toClient' : s \in toClient \/ (Shaped(s) /\ s.client \in Clients /\ Handed(s)),
             Shaped(gPB'), Working', reply' = Reply(reply'), reply'.acked \in BOOLEAN,
             reply'.sent \in 0 .. parts
      PROVE  AckInv'
  <2>1. Shapes'
    BY <1>1, <1>2, <1>6 DEF Shapes
  <2>2. \A s \in toClient' : Handed(s)'
    BY <1>1, <1>3, <1>6
  <2> QED BY <1>5, <1>6, <2>1, <2>2 DEF AckInv
<1>7. ASSUME NEW s \in toServer, Accept(s) PROVE AckInv'
  <2>1. Shaped(s) /\ s.client \in Clients /\ Idle
    BY <1>1, <1>7 DEF Shapes, Accept
  <2>2. CASE AcceptSyn(s)
    <3>1. /\ toClient' = toClient \union {SynAck(s)} /\ gPB' = Nothing /\ reply' = reply /\ "SYN" \in s.flags
      BY <2>2 DEF AcceptSyn, Sends
    <3>2. s.data = << >>
      BY <1>1, <3>1 DEF Flagged
    <3>3. /\ Shaped(SynAck(s)) /\ SynAck(s).client = s.client
          /\ SynAck(s).ack = Plus(s.seq, 1)
      BY SegmentShaped DEF SynAck
    <3>4. Handed(SynAck(s))
      BY <3>1, <3>2, <3>3 DEF Handed, Marks
    <3>5. Idle'
      BY <1>2, <2>1, <3>1 DEF Idle
    <3>6. Working'
      BY <3>5 DEF Working
    <3> HIDE DEF SynAck
    <3> QED BY <1>1, <1>4, <1>6, <2>1, <3>1, <3>3, <3>4, <3>6 DEF Shapes
  <2>3. CASE AcceptData(s)
    <3>1. /\ PayloadLength(s) > 0 /\ info_data_len' = PayloadLength(s) /\ gPB' = s
          /\ reply' = [value |-> Understood[s.data], acked |-> FALSE, sent |-> 0]
          /\ toClient' = toClient
          /\ [client |-> s.client, upto |-> Plus(s.seq, PayloadLength(s))] \in handed'
      BY <2>3 DEF AcceptData
    <3>2. PayloadLength(s) # 0 /\ s.data # << >>
      BY <3>1 DEF PayloadLength
    <3>3. Working'
      BY <1>2, <3>1, <3>2 DEF Working, PayloadLength
    <3>4. reply' = Reply(reply') /\ reply'.acked \in BOOLEAN /\ reply'.sent \in 0 .. parts
      BY <1>2, <3>1 DEF Reply
    <3>5. \A t \in toClient' : t \in toClient
      BY <3>1
    <3> QED BY <1>6, <2>1, <3>1, <3>3, <3>4, <3>5
  <2>4. CASE AcceptOther(s)
    <3>1. gPB' = Nothing /\ reply' = reply /\ PayloadLength(s) = 0
      BY <2>4 DEF AcceptOther
    <3>2. Idle'
      BY <1>2, <2>1, <3>1 DEF Idle
    <3>3. Working'
      BY <3>2 DEF Working
    <3>4. CASE "FIN" \in s.flags
      <4>1. toClient' = toClient \union {AckAny(s, 0)}
        BY <2>4, <3>4 DEF AcceptOther, Sends
      <4>2. AckAny(s, 0) = Segment(s.client, {"ACK"}, s.ack, Plus(s.seq, 1), << >>)
        BY DEF AckAny, StepSeq
      <4>3. Shaped(AckAny(s, 0)) /\ AckAny(s, 0).client = s.client
            /\ AckAny(s, 0).ack = Plus(s.seq, 1)
        BY <4>2, SegmentShaped
      <4>4. Handed(AckAny(s, 0))
        BY <1>1, <3>4, <4>3 DEF Handed, Marks, Flagged
      <4> HIDE DEF AckAny
      <4> QED BY <1>1, <1>4, <1>6, <2>1, <3>1, <3>3, <4>1, <4>3, <4>4 DEF Shapes
    <3>5. CASE "FIN" \notin s.flags
      <4>1. \A t \in toClient' : t \in toClient
        BY <2>4, <3>5 DEF AcceptOther
      <4> QED BY <1>1, <1>4, <1>6, <3>1, <3>3, <4>1 DEF Shapes
    <3> QED BY <3>4, <3>5
  <2> QED BY <1>7, <2>2, <2>3, <2>4 DEF Accept
<1>8. ASSUME ~Idle, ~reply.acked, NEW s, NEW flags, NEW seq, NEW data,
             s = Segment(gPB.client, flags, seq, Plus(gPB.seq, info_data_len), data)
      PROVE  Shaped(s) /\ s.client \in Clients /\ Handed(s)
  <2>1. Shaped(s) /\ s.client = gPB.client /\ s.ack = Plus(gPB.seq, info_data_len)
    BY <1>8, SegmentShaped
  <2>2. gPB \in toServer /\ [client |-> s.client, upto |-> s.ack] \in handed
    BY <1>1, <1>8, <2>1, RequestInBuffer
  <2> QED BY <1>1, <2>1, <2>2 DEF Shapes, Handed
<1>9. CASE HttpServerReply
  <2>1. ~Idle /\ ~reply.acked
    BY <1>1, <1>9, ReplyDoes
  <2>2. \A s \in toClient' : s \in toClient \/ (Shaped(s) /\ s.client \in Clients /\ Handed(s))
    BY <1>1, <1>8, <1>9, <2>1, ReplyDoes
  <2>3. /\ gPB' = Nothing /\ reply' = Reply(reply') /\ reply'.acked = reply.acked
        /\ reply'.sent = 1 /\ parts = 1
    BY <1>1, <1>9, ReplyDoes
  <2>4. Working' /\ reply'.sent \in 0 .. parts /\ reply'.acked \in BOOLEAN
    BY <1>1, <1>2, <2>3 DEF Working, Idle, Shapes
  <2> QED BY <1>4, <1>6, <2>2, <2>3, <2>4
<1>10. CASE HttpServerReplyAck
  <2>1. ~Idle /\ ~reply.acked /\ parts > 1
    BY <1>1, <1>10, ReplyAckDoes
  <2>2. Shaped(gPB') /\ gPB'.client \in Clients /\ Handed(gPB')
    BY <1>1, <1>8, <1>10, <2>1, ReplyAckDoes
  <2>3. \A s \in toClient' : s \in toClient \/ (Shaped(s) /\ s.client \in Clients /\ Handed(s))
    BY <1>1, <1>10, <2>2, ReplyAckDoes
  <2>4. reply' = Reply(reply') /\ reply'.acked = TRUE /\ reply'.sent \in 0 .. parts
    BY <1>1, <1>10, ReplyAckDoes DEF Shapes
  <2>5. Handed(gPB)'
    BY <1>3, <2>2 DEF Handed
  <2>6. Working'
    BY <1>2, <2>1, <2>2, <2>4, <2>5 DEF Working
  <2> QED BY <1>6, <2>2, <2>3, <2>4, <2>6
<1>11. CASE HttpServerReplyWithFlags
  <2>1. PICK part, flags :
         /\ ~Idle /\ reply.acked /\ parts > 1
         /\ part = Segment(gPB.client, flags, SEQ, gPB.ack, NextPart)
         /\ toClient' = toClient \union {part}
         /\ gPB' = (IF LastPart THEN Nothing ELSE part)
         /\ reply' = Reply(reply') /\ reply'.acked = reply.acked
         /\ reply'.sent = reply.sent + 1 /\ reply'.sent \in 0 .. parts
    BY <1>1, <1>11, WithFlagsDoes
  <2>2. Shaped(part) /\ part.client = gPB.client /\ part.ack = gPB.ack
    BY <2>1, SegmentShaped
  <2>3. Handed(gPB) /\ Handed(part) /\ part.client \in Clients
    <3>1. Handed(gPB) /\ gPB.client \in Clients
      BY <1>1, <2>1 DEF Working
    <3> QED BY <2>2, <3>1 DEF Handed
  <2>4. \A s \in toClient' : s \in toClient \/ (Shaped(s) /\ s.client \in Clients /\ Handed(s))
    BY <2>1, <2>2, <2>3
  <2>5. Working' /\ Shaped(gPB')
    <3>1. CASE LastPart
      BY <1>2, <1>4, <2>1, <3>1 DEF Working, Idle, LastPart
    <3>2. CASE ~LastPart
      <4>1. gPB' = part
        BY <2>1, <3>2
      <4>2. Handed(gPB)'
        BY <1>3, <2>3, <4>1 DEF Handed
      <4> QED BY <1>2, <2>1, <2>2, <2>3, <4>1, <4>2 DEF Working
    <3> QED BY <3>1, <3>2
  <2>6. reply'.acked \in BOOLEAN
    BY <1>1, <2>1 DEF Shapes
  <2> QED BY <1>6, <2>1, <2>4, <2>5, <2>6
<1> QED BY <1>7, <1>9, <1>10, <1>11 DEF Sketch

(* The invariant of the acknowledgements is kept by every step.            *)
LEMMA AckStep == AckInv /\ [Next]_vars => AckInv'
<1> SUFFICES ASSUME AckInv, [Next]_vars PROVE AckInv'
  OBVIOUS
<1>1. \A s \in toClient : s.client \in Clients
  BY DEF AckInv, Shapes
<1>2. CASE UNCHANGED vars
  BY <1>2 DEF vars, server, AckInv, Shapes, Flagged, Working, Handed, Marks, Idle, PayloadLength
<1> QED BY <1>1, <1>2, AckClients, AckServer DEF Next

(* The server acknowledges nothing but the requests the sketch was handed, *)
(* SYNs and FINs (makeTcpAckFromAny, httpServerReplyAck, accept), although *)
(* its lengths and sequence numbers are shared by all clients.             *)
THEOREM AcknowledgedWasHanded == Spec => []AckedWasHanded
<1>1. AckInv => AckedWasHanded
  BY DEF AckInv, Handed, AckedWasHanded
<1> QED BY AckInit, AckStep, <1>1, PTL DEF Spec

-----------------------------------------------------------------------------
(* Sequence numbers: sums modulo the sequence space.                       *)
LEMMA PlusType == ASSUME NEW a \in Nat, NEW n \in Nat PROVE Plus(a, n) \in 0 .. SeqSpace - 1
BY ServerAssumption DEF Plus

(* A sum of sequence numbers wraps at most once.                           *)
LEMMA PlusSum ==
  ASSUME NEW r \in 0 .. SeqSpace - 1, NEW a \in Nat, a < SeqSpace
  PROVE  Plus(r, a) = IF r + a < SeqSpace THEN r + a ELSE r + a - SeqSpace
<1>1. SeqSpace \in Nat \ {0} /\ r + a \in Nat /\ r + a < 2 * SeqSpace
  BY ServerAssumption
<1>2. ASSUME NEW x \in Nat, x < SeqSpace PROVE x % SeqSpace = x
  BY <1>1, <1>2
<1>3. ASSUME NEW x \in Nat, x >= SeqSpace, x < 2 * SeqSpace PROVE x % SeqSpace = x - SeqSpace
  BY <1>1, <1>3
<1> QED BY <1>1, <1>2, <1>3 DEF Plus

(* Nothing added changes nothing, and the last number is followed by the first. *)
LEMMA PlusZero == (\A r \in 0 .. SeqSpace - 1 : Plus(r, 0) = r) /\ Plus(SeqSpace - 1, 1) = 0
<1>1. SeqSpace \in Nat \ {0}
  BY ServerAssumption
<1>2. \A r \in 0 .. SeqSpace - 1 : Plus(r, 0) = r
  BY <1>1, PlusSum
<1>3. Plus(SeqSpace - 1, 1) = SeqSpace % SeqSpace
  BY <1>1 DEF Plus
<1>4. SeqSpace % SeqSpace = 0
  <2>1. ASSUME NEW x \in Nat, x >= SeqSpace, x < 2 * SeqSpace PROVE x % SeqSpace = x - SeqSpace
    BY <1>1, <2>1
  <2> QED BY <1>1, <2>1
<1> QED BY <1>2, <1>3, <1>4

(* Two lengths added one after the other are added together.               *)
LEMMA PlusTwice ==
  ASSUME NEW r \in 0 .. SeqSpace - 1, NEW a \in Nat, NEW b \in Nat, a + b < SeqSpace
  PROVE  Plus(Plus(r, a), b) = Plus(r, a + b)
<1>1. SeqSpace \in Nat \ {0} /\ a < SeqSpace /\ b < SeqSpace /\ a + b \in Nat
  BY ServerAssumption
<1>2. Plus(r, a) \in 0 .. SeqSpace - 1
  BY <1>1, PlusType
<1>3. Plus(r, a) = IF r + a < SeqSpace THEN r + a ELSE r + a - SeqSpace
  BY <1>1, PlusSum
<1>4. Plus(r, a + b) = IF r + (a + b) < SeqSpace THEN r + (a + b) ELSE r + (a + b) - SeqSpace
  BY <1>1, PlusSum
<1>5. Plus(Plus(r, a), b) = IF Plus(r, a) + b < SeqSpace THEN Plus(r, a) + b
                            ELSE Plus(r, a) + b - SeqSpace
  BY <1>1, <1>2, PlusSum
<1> QED BY <1>1, <1>3, <1>4, <1>5

(* Different lengths lead to different sequence numbers.                   *)
LEMMA PlusDistinct ==
  ASSUME NEW r \in 0 .. SeqSpace - 1, NEW a \in Nat, NEW b \in Nat, a < SeqSpace, b < SeqSpace,
         Plus(r, a) = Plus(r, b)
  PROVE  a = b
BY PlusSum, ServerAssumption

(* The parts of an answer lie within the sequence space, and a client's    *)
(* text comes through the form it is sent in (findKeyVal, urlDecode).      *)
PartsFit == \A p \in Parts : PartLength * p < SeqSpace
Understands == \A c \in Clients : Understood[Asked[c]] = Asked[c]

(* All parts of an answer fit into the sequence space.                     *)
LEMMA PartBounds ==
  ASSUME Shapes, PartsFit, NEW n \in Nat, n <= parts
  PROVE  PartLength * n \in Nat /\ PartLength * n < SeqSpace /\ parts \in Nat \ {0}
         /\ PartLength = 3
<1>1. parts \in Nat \ {0} /\ PartLength * parts < SeqSpace /\ SeqSpace \in Nat
  BY ServerAssumption DEF Shapes, PartsFit
<1> QED BY <1>1 DEF PartLength

(* Before the first connection no client expects anything.                 *)
LEMMA PageInit == Init => PageInv
<1> SUFFICES ASSUME Init PROVE PageInv
  OBVIOUS
<1>1. AckInv /\ toClient = {} /\ toServer = {} /\ Idle
  BY AckInit DEF Init, Idle
<1>2. FinWithData /\ Numbers
  <2>1. seqnum \in Nat
    BY ServerAssumption DEF Init
  <2> QED BY <1>1, <2>1 DEF FinWithData, Numbers
<1>3. ASSUME NEW c \in Clients PROVE HasRead(c) /\ Fresh(c)
  <2>1. client[c] = [state |-> "closed", nxt |-> SeqSpace - 1, una |-> SeqSpace - 1, rcv |-> 0,
                     got |-> << >>, ended |-> FALSE]
    BY DEF Init
  <2>2. parts \in Nat
    BY ServerAssumption DEF Init
  <2> QED BY <2>1, <2>2 DEF HasRead, Fresh
<1>4. ASSUME NEW c \in Clients PROVE Talks(c, 0)
  <2>1. client[c].state = "closed"
    BY DEF Init
  <2> QED BY <1>1, <2>1 DEF Talks, Reads, Requests, Answers, Replies
<1>5. 0 \in 0 .. SeqSpace - 1
  BY ServerAssumption
<1> QED BY <1>1, <1>2, <1>3, <1>4, <1>5 DEF PageInv

(* A client that the step leaves alone: nothing new is sent to or from it. *)
LEMMA TalksKept ==
  ASSUME NEW c \in Clients, NEW r, Talks(c, r), client'[c] = client[c],
         UNCHANGED <<parts, gPB, server, toClient>>,
         \A s \in toServer' : s \in toServer \/ s.client # c
  PROVE  Talks(c, r)'
<1>1. Reads(c, r)' /\ Requests(c, r)' /\ Answers(c, r)'
  BY DEF Talks, Reads, Requests, Answers, Connected, PartOf
<1>2. Replies(c, r)'
  BY DEF Talks, Replies, Connected, Idle, server
<1> QED BY <1>1, <1>2 DEF Talks

(* What a connection was before it was connected says nothing of r.        *)
LEMMA NoneYet ==
  ASSUME NEW c \in Clients, NEW r, Talks(c, r), ~Connected(c)
  PROVE  /\ \A s \in toServer \union toClient : s.client = c => s.data = << >>
         /\ ~Idle => gPB.client # c
BY DEF Talks, Requests, Answers, Replies

(* The clients' own steps.                                                 *)
LEMMA PageConnect ==
  ASSUME PageInv, NEW c \in Clients, Connect(c) PROVE PageInv'
<1>1. AckInv /\ AckInv' /\ Shapes
  BY AckClients DEF PageInv, AckInv
<1>2. UNCHANGED <<parts, gPB, server, toServer, toClient>>
  BY DEF Connect
<1>3. FinWithData' /\ Numbers'
  BY <1>2 DEF PageInv, FinWithData, Numbers, server
<1> DEFINE k == [state |-> "syn", nxt |-> Plus(client[c].nxt, 1), una |-> client[c].una,
                 rcv |-> client[c].rcv, got |-> client[c].got, ended |-> client[c].ended]
<1>4. Becomes(c, k) /\ client[c].state = "closed"
  BY <1>1, ConnectDoes
<1>5. /\ client'[c].state = "syn" /\ client'[c].nxt = Plus(client[c].nxt, 1)
      /\ client'[c].una = client[c].una /\ client'[c].got = client[c].got
      /\ client'[c].ended = client[c].ended
      /\ \A d \in Clients \ {c} : client'[d] = client[d]
  BY <1>4 DEF Becomes
<1>6. HasRead(c)' /\ Fresh(c)'
  BY <1>2, <1>4, <1>5 DEF PageInv, HasRead, Fresh
<1>7. \E r \in 0 .. SeqSpace - 1 : Talks(c, r)'
  <2>1. PICK r \in 0 .. SeqSpace - 1 : Talks(c, r)
    BY DEF PageInv
  <2>2. Talks(c, r)'
    BY <1>2, <1>4, <1>5, <2>1, NoneYet
    DEF Talks, Reads, Requests, Answers, Replies, Connected, Idle, server
  <2> QED BY <2>2
<1>8. ASSUME NEW d \in Clients, d # c
      PROVE  HasRead(d)' /\ Fresh(d)' /\ \E r \in 0 .. SeqSpace - 1 : Talks(d, r)'
  <2>1. PICK r \in 0 .. SeqSpace - 1 : Talks(d, r)
    BY DEF PageInv
  <2>2. Talks(d, r)'
    BY <1>2, <1>5, <1>8, <2>1, TalksKept
  <2> QED BY <1>2, <1>5, <1>8, <2>2 DEF PageInv, HasRead, Fresh
<1> QED BY <1>1, <1>3, <1>6, <1>7, <1>8 DEF PageInv

(* A client sends again what is not acknowledged: nothing it expects changes. *)
LEMMA PageSends ==
  ASSUME PageInv, NEW c \in Clients, ClientSends(c) PROVE PageInv'
<1>1. AckInv /\ AckInv' /\ Shapes
  BY AckClients DEF PageInv, AckInv
<1>2. UNCHANGED <<parts, gPB, server, client, toClient>> /\ toServer' = toServer \union Outstanding(c)
  BY DEF ClientSends
<1>3. FinWithData' /\ Numbers' /\ \A d \in Clients : HasRead(d)' /\ Fresh(d)'
  BY <1>2 DEF PageInv, FinWithData, Numbers, server, HasRead, Fresh
<1>4. ASSUME NEW d \in Clients PROVE \E r \in 0 .. SeqSpace - 1 : Talks(d, r)'
  <2>1. PICK r \in 0 .. SeqSpace - 1 : Talks(d, r)
    BY DEF PageInv
  <2>2. CASE d # c
    <3>1. \A s \in toServer' : s \in toServer \/ s.client # d
      BY <1>2, <2>2, OutstandingShaped
    <3> QED BY <1>2, <2>1, <2>2, <3>1, TalksKept
  <2>3. CASE d = c
    <3>1. ASSUME NEW s \in Outstanding(c), s.data # << >>
          PROVE  Connected(c) /\ s.data = Asked[c] /\ s.seq = 0 /\ s.ack = r
      <4>1. /\ client[c].state = "asking" /\ s.data = Asked[c] /\ s.seq = client[c].una
            /\ s.ack = client[c].rcv
        BY <3>1, OutstandingShaped
      <4>2. client[c].una = 0 /\ client[c].rcv = Plus(r, PartLength * Len(<< >>))
        BY <2>1, <2>3, <4>1 DEF Talks, Reads
      <4>3. PartLength * Len(<< >>) = 0
        BY DEF PartLength
      <4>4. client[c].rcv = r
        BY <4>2, <4>3, PlusZero
      <4> QED BY <4>1, <4>2, <4>4 DEF Connected
    <3>2. Requests(c, r)'
      BY <1>2, <2>1, <2>3, <3>1 DEF Talks, Requests, Connected
    <3>3. Reads(c, r)' /\ Answers(c, r)'
      BY <1>2, <2>1, <2>3 DEF Talks, Reads, Answers, Connected, PartOf
    <3>4. Replies(c, r)'
      BY <1>2, <2>1, <2>3 DEF Talks, Replies, Connected, Idle, server
    <3> QED BY <2>3, <3>2, <3>3, <3>4 DEF Talks
  <2> QED BY <2>2, <2>3
<1> QED BY <1>1, <1>3, <1>4 DEF PageInv

(* It is enough to look at the client that receives.                       *)
LEMMA PageReceiver ==
  ASSUME PageInv, NEW c \in Clients, NEW s \in toClient, s.client = c, ClientReceives(c, s),
         \A d \in Clients \ {c} : client'[d] = client[d],
         HasRead(c)', Fresh(c)', NEW r \in 0 .. SeqSpace - 1, Talks(c, r)'
  PROVE  PageInv'
<1>1. AckInv'
  BY AckClients DEF PageInv
<1>2. UNCHANGED <<parts, gPB, server, toServer, toClient>>
  BY DEF ClientReceives
<1>3. FinWithData' /\ Numbers'
  BY <1>2 DEF PageInv, FinWithData, Numbers, server
<1>4. ASSUME NEW d \in Clients, d # c
      PROVE  HasRead(d)' /\ Fresh(d)' /\ \E q \in 0 .. SeqSpace - 1 : Talks(d, q)'
  <2>1. PICK q \in 0 .. SeqSpace - 1 : Talks(d, q)
    BY DEF PageInv
  <2>2. Talks(d, q)'
    BY <1>2, <1>4, <2>1, TalksKept
  <2> QED BY <1>2, <1>4, <2>2 DEF PageInv, HasRead, Fresh
<1> QED BY <1>1, <1>3, <1>4 DEF PageInv

(* A client that gets its SYN+ACK expects the first part of its own page.  *)
LEMMA PageSynAck ==
  ASSUME PageInv, NEW c \in Clients, NEW s \in toClient, s.client = c, ClientReceives(c, s),
         GetsSynAck(c, s)
  PROVE  PageInv'
<1>1. Shapes /\ UNCHANGED <<parts, gPB, server, toServer, toClient>>
  BY DEF PageInv, AckInv, ClientReceives
<1>2. /\ client[c].state = "syn" /\ "SYN" \in s.flags
      /\ Becomes(c, [state |-> "asking", nxt |-> Plus(client[c].nxt, RequestLength(c)),
                     una |-> client[c].nxt, rcv |-> Plus(s.seq, 1), got |-> client[c].got,
                     ended |-> client[c].ended])
  BY <1>1, GetsSynAckDoes
<1>3. /\ client'[c].state = "asking" /\ client'[c].nxt = Plus(client[c].nxt, RequestLength(c))
      /\ client'[c].una = client[c].nxt /\ client'[c].rcv = Plus(s.seq, 1)
      /\ client'[c].got = client[c].got /\ client'[c].ended = client[c].ended
      /\ \A d \in Clients \ {c} : client'[d] = client[d]
  BY <1>2 DEF Becomes
<1>4. client[c].got = << >> /\ ~client[c].ended /\ client[c].nxt = 0
  BY <1>2, PlusZero DEF PageInv, Fresh
<1> DEFINE r == Plus(s.seq, 1)
<1>5. r \in 0 .. SeqSpace - 1
  BY <1>2, PlusType DEF PageInv, Numbers
<1>6. Talks(c, r)'
  <2>1. PICK q \in 0 .. SeqSpace - 1 : Talks(c, q)
    BY DEF PageInv
  <2>2. PartLength * Len(<< >>) = 0 /\ Plus(r, 0) = r
    BY <1>5, PlusZero DEF PartLength
  <2> HIDE DEF r
  <2>3. client'[c].rcv = r
    BY <1>3 DEF r
  <2>4. Reads(c, r)'
    BY <1>3, <1>4, <2>2, <2>3 DEF Reads
  <2>5. Requests(c, r)' /\ Answers(c, r)' /\ Replies(c, r)'
    BY <1>1, <1>2, <2>1, NoneYet DEF Connected, Requests, Answers, Replies, Idle, server
  <2> QED BY <2>4, <2>5 DEF Talks
<1>7. HasRead(c)' /\ Fresh(c)'
  BY <1>1, <1>3 DEF PageInv, HasRead, Fresh
<1> QED BY <1>3, <1>5, <1>6, <1>7, PageReceiver

(* A client that is done has read what it has read.                        *)
LEMMA PageFinAck ==
  ASSUME PageInv, NEW c \in Clients, NEW s \in toClient, s.client = c, ClientReceives(c, s),
         GetsFinAck(c, s)
  PROVE  PageInv'
<1>1. Shapes /\ UNCHANGED <<parts, gPB, server, toServer, toClient>>
  BY DEF PageInv, AckInv, ClientReceives
<1>2. client[c].state = "closing"
      /\ Becomes(c, [state |-> "done", nxt |-> client[c].nxt, una |-> client[c].nxt,
                     rcv |-> client[c].rcv, got |-> client[c].got, ended |-> client[c].ended])
  BY <1>1, GetsFinAckDoes
<1>3. /\ client'[c].state = "done"
      /\ client'[c].got = client[c].got /\ client'[c].ended = client[c].ended
      /\ \A d \in Clients \ {c} : client'[d] = client[d]
  BY <1>2 DEF Becomes
<1>4. PICK r \in 0 .. SeqSpace - 1 : Talks(c, r)
  BY DEF PageInv
<1>5. Talks(c, r)'
  <2>1. Reads(c, r)' /\ Requests(c, r)' /\ Answers(c, r)'
    BY <1>1, <1>3, <1>4 DEF Talks, Reads, Requests, Answers, Connected, PartOf
  <2>2. Replies(c, r)'
    BY <1>1, <1>3, <1>4 DEF Talks, Replies, Connected, Idle, server
  <2> QED BY <2>1, <2>2 DEF Talks
<1>6. HasRead(c)' /\ Fresh(c)'
  BY <1>1, <1>3 DEF PageInv, HasRead, Fresh
<1> QED BY <1>3, <1>5, <1>6, PageReceiver

(* A segment in order with data is the next part: the sequence numbers of  *)
(* the parts differ, and only the last of them has the FIN.                *)
LEMMA PageData ==
  ASSUME PartsFit, Understands, PageInv, NEW c \in Clients, NEW s \in toClient, s.client = c,
         ClientReceives(c, s), GetsData(c, s)
  PROVE  PageInv'
<1>1. Shapes /\ UNCHANGED <<parts, gPB, server, toServer, toClient>>
      /\ HasRead(c) /\ FinWithData
  BY DEF PageInv, AckInv, ClientReceives
<1>2. PICK r \in 0 .. SeqSpace - 1 : Talks(c, r)
  BY DEF PageInv
<1> DEFINE old == client[c]
           acked == IF Acked(old, s) /\ old.state = "asking" THEN "waiting" ELSE old.state
           inOrder == s.seq = old.rcv /\ ~old.ended
           len == IF s.data = << >> THEN 0 ELSE PartLength
           fin == inOrder /\ "FIN" \in s.flags
           n == Len(old.got)
<1>3. PICK k :
        /\ Becomes(c, k) /\ old.state \in {"asking", "waiting"} /\ "SYN" \notin s.flags
        /\ k.state = IF fin /\ acked = "waiting" THEN "closing" ELSE acked
        /\ k.una = IF Acked(old, s) THEN old.nxt ELSE old.una
        /\ ~(fin /\ acked = "waiting") => k.nxt = old.nxt
        /\ k.rcv = IF inOrder THEN Plus(old.rcv, len + IF fin THEN 1 ELSE 0) ELSE old.rcv
        /\ k.got = IF inOrder /\ len > 0 THEN Append(old.got, s.data) ELSE old.got
        /\ k.ended = (old.ended \/ fin)
  BY <1>1, GetsDataDoes
<1>4. client'[c] = k /\ \A d \in Clients \ {c} : client'[d] = client[d]
  BY <1>3 DEF Becomes
<1>5. /\ ~old.ended /\ old.rcv = Plus(r, PartLength * n) /\ n \in Nat /\ n <= parts
      /\ old.got \in Seq({Page(Asked[c], m) : m \in Nat})
      /\ \A m \in 1 .. n : old.got[m] = Page(Asked[c], m)
  BY <1>1, <1>2, <1>3 DEF Talks, Reads, HasRead
<1>6. s.data # << >> => acked = "waiting"
  <2> SUFFICES ASSUME s.data # << >>, old.state = "asking" PROVE Acked(old, s)
    BY <1>3
  <2>1. "ACK" \in s.flags /\ s.ack = Plus(0, RequestLength(c))
    BY <1>2 DEF Talks, Answers
  <2>2. old.nxt = Plus(0, RequestLength(c))
    BY <1>2 DEF Talks, Reads
  <2> QED BY <2>1, <2>2 DEF Acked
<1>7. acked \in {"asking", "waiting"}
  BY <1>3
<1> SUFFICES HasRead(c)' /\ Fresh(c)' /\ Talks(c, r)'
  BY <1>4, PageReceiver
<1>8. Connected(c) /\ (k.state \in {"asking", "waiting", "closing"} => Connected(c)') /\ Fresh(c)'
  BY <1>3, <1>4, <1>7 DEF Connected, Fresh
<1>9. k.state \in {"asking", "waiting", "closing"}
  BY <1>3, <1>7
<1>10. Requests(c, r)' /\ Answers(c, r)' /\ Replies(c, r)'
  <2>1. Connected(c)'
    BY <1>8, <1>9
  <2>2. Requests(c, r)' /\ Answers(c, r)'
    BY <1>1, <1>2, <2>1 DEF Talks, Requests, Answers, PartOf
  <2>3. Replies(c, r)'
    BY <1>1, <1>2, <2>1 DEF Talks, Replies, Idle, server
  <2> QED BY <2>2, <2>3
<1>11. CASE inOrder /\ s.data # << >>
  <2>1. PICK m \in 1 .. parts : PartOf(c, r, s, m)
    BY <1>2, <1>11 DEF Talks, Answers
  <2>2. parts \in Nat \ {0} /\ SeqSpace \in Nat \ {0} /\ PartLength = 3
    BY <1>1, ServerAssumption DEF Shapes, PartLength
  <2>3. m - 1 = n
    <3>1. Plus(r, PartLength * (m - 1)) = Plus(r, PartLength * n)
      BY <1>5, <1>11, <2>1 DEF PartOf
    <3>2. PartLength * (m - 1) \in Nat /\ PartLength * (m - 1) < SeqSpace
      <4>1. m - 1 \in Nat /\ m - 1 <= parts
        BY <2>2
      <4> QED BY <1>1, <4>1, PartBounds
    <3>3. PartLength * n \in Nat /\ PartLength * n < SeqSpace
      BY <1>1, <1>5, PartBounds
    <3>4. PartLength * (m - 1) = PartLength * n
      BY <3>1, <3>2, <3>3, PlusDistinct
    <3>5. m - 1 \in Int /\ n \in Int /\ 3 * (m - 1) = 3 * n
      BY <1>5, <2>2, <3>4
    <3> HIDE DEF n
    <3> QED BY <3>5
  <2>4. m = n + 1 /\ m \in Nat /\ m <= parts /\ s.data = Page(Asked[c], m)
    BY <1>5, <2>1, <2>2, <2>3 DEF PartOf, Understands
  <2>5. k.got = Append(old.got, s.data)
    BY <1>3, <1>11, <2>2
  <2>6. /\ k.got \in Seq({Page(Asked[c], j) : j \in Nat}) /\ Len(k.got) = m
        /\ \A j \in 1 .. m : k.got[j] = Page(Asked[c], j)
    <3> DEFINE P == {Page(Asked[c], j) : j \in Nat}
    <3>1. old.got \in Seq(P) /\ s.data \in P
      BY <1>5, <2>4
    <3> HIDE DEF P
    <3>2. k.got \in Seq(P) /\ Len(k.got) = m
      BY <2>4, <2>5, <3>1
    <3>3. \A j \in 1 .. m : k.got[j] = IF j = m THEN s.data ELSE old.got[j]
      BY <1>5, <2>4, <2>5, <3>1
    <3>4. \A j \in 1 .. m : k.got[j] = Page(Asked[c], j)
      BY <1>5, <2>4, <3>3
    <3> QED BY <3>2, <3>4 DEF P
  <2>7. k.ended => m = parts
    BY <1>3, <1>5, <2>1 DEF PartOf
  <2>8. HasRead(c)'
    BY <1>1, <1>4, <2>4, <2>6, <2>7 DEF HasRead
  <2>9. Reads(c, r)'
    <3>1. CASE fin
      BY <1>3, <1>4, <1>6, <1>11, <3>1 DEF Reads
    <3>2. CASE ~fin
      <4>1. k.state = "waiting" /\ ~k.ended
        BY <1>3, <1>5, <1>6, <1>11, <3>2
      <4>2. k.rcv = Plus(Plus(r, PartLength * n), PartLength)
        <5>1. k.rcv = Plus(old.rcv, PartLength + 0)
          BY <1>3, <1>11, <3>2
        <5> QED BY <1>5, <2>2, <5>1
      <4>3. PartLength * n + PartLength = PartLength * m /\ PartLength * n \in Nat
        BY <1>5, <2>2, <2>4
      <4>4. PartLength * m < SeqSpace
        BY <1>1, <2>4, PartBounds
      <4>5. k.rcv = Plus(r, PartLength * m)
        BY <2>2, <4>2, <4>3, <4>4, PlusTwice
      <4> QED BY <1>4, <2>6, <4>1, <4>5 DEF Reads
    <3> QED BY <3>1, <3>2
  <2> QED BY <1>8, <1>10, <2>8, <2>9 DEF Talks
<1>12. CASE ~inOrder \/ s.data = << >>
  <2>1. ~fin /\ k.got = old.got /\ ~k.ended
    <3>1. s.data = << >> => "FIN" \notin s.flags /\ ~(len > 0)
      BY <1>1 DEF FinWithData
    <3>2. ~fin
      BY <1>12, <3>1
    <3> QED BY <1>3, <1>5, <1>12, <3>1, <3>2
  <2>2. HasRead(c)'
    BY <1>1, <1>4, <2>1 DEF HasRead
  <2>3. k.rcv = old.rcv
    <3>1. CASE ~inOrder
      BY <1>3, <3>1
    <3>2. CASE s.data = << >>
      <4>1. old.rcv \in 0 .. SeqSpace - 1
        <5>1. PartLength * n \in Nat /\ r \in Nat
          BY <1>1, <1>5, PartBounds, ServerAssumption
        <5>2. Plus(r, PartLength * n) \in 0 .. SeqSpace - 1
          BY <5>1, PlusType
        <5> QED BY <1>5, <5>2
      <4>2. Plus(old.rcv, 0 + 0) = old.rcv
        BY <4>1, PlusZero
      <4> QED BY <1>3, <2>1, <3>2, <4>2
    <3> QED BY <1>12, <3>1, <3>2
  <2>4. k.state = "asking" => old.state = "asking" /\ ~Acked(old, s)
    BY <1>3, <2>1
  <2>5. Reads(c, r)'
    BY <1>2, <1>3, <1>4, <1>5, <2>1, <2>3, <2>4 DEF Talks, Reads
  <2> QED BY <1>8, <1>10, <2>2, <2>5 DEF Talks
<1> QED BY <1>11, <1>12

(* A step of the server: it never touches the clients, so only what it     *)
(* sends and what it keeps matter.                                         *)
LEMMA PageOfServer ==
  ASSUME PageInv, AckInv', UNCHANGED <<parts, client, toServer>>, FinWithData', Numbers',
         \A c \in Clients : \A r \in 0 .. SeqSpace - 1 :
           Talks(c, r) => Answers(c, r)' /\ Replies(c, r)'
  PROVE  PageInv'
<1>1. ASSUME NEW c \in Clients PROVE HasRead(c)' /\ Fresh(c)'
  BY DEF PageInv, HasRead, Fresh
<1>2. ASSUME NEW c \in Clients PROVE \E r \in 0 .. SeqSpace - 1 : Talks(c, r)'
  <2>1. PICK r \in 0 .. SeqSpace - 1 : Talks(c, r)
    BY DEF PageInv
  <2>2. Reads(c, r)' /\ Requests(c, r)'
    BY <2>1 DEF Talks, Reads, Requests, Connected
  <2> QED BY <2>1, <2>2 DEF Talks
<1> QED BY <1>1, <1>2 DEF PageInv

(* What answers a client's request still does when no data is sent.        *)
LEMMA AnswersKept ==
  ASSUME NEW c \in Clients, NEW r, Talks(c, r), UNCHANGED <<parts, client>>,
         \A s \in toClient' : s \in toClient \/ s.data = << >>
  PROVE  Answers(c, r)'
BY DEF Talks, Answers, Connected, PartOf

(* accept: it hands the sketch a request, or answers without data.         *)
LEMMA PageAccept ==
  ASSUME PageInv, NEW s \in toServer, Accept(s) PROVE PageInv'
<1>1. AckInv /\ AckInv' /\ Shapes /\ Flagged /\ FinWithData /\ Numbers
  BY AckServer DEF PageInv, AckInv
<1>2. Idle /\ UNCHANGED <<parts, client, toServer>> /\ parts \in Nat \ {0}
      /\ Shaped(s) /\ s.client \in Clients
  BY <1>1, ServerAssumption DEF Accept, Shapes
<1>3. CASE AcceptSyn(s)
  <2>1. /\ toClient' = toClient \union {SynAck(s)} /\ reply' = reply
        /\ seqnum' = (seqnum + 3) % Isns
    BY <1>3 DEF AcceptSyn, Sends
  <2>2. /\ SynAck(s).data = << >> /\ SynAck(s).flags = {"SYN", "ACK"}
        /\ SynAck(s).seq = seqnum * Apart
    BY SegmentShaped DEF SynAck
  <2>3. seqnum * Apart \in Nat /\ seqnum' \in Nat
    <3>1. seqnum \in Nat /\ Isns \in Nat \ {0} /\ Apart \in Nat
      BY <1>1, ServerAssumption DEF Numbers
    <3> QED BY <2>1, <3>1
  <2> HIDE DEF SynAck
  <2>4. FinWithData' /\ Numbers'
    BY <1>1, <2>1, <2>2, <2>3 DEF FinWithData, Numbers
  <2>5. Idle'
    BY <1>2, <2>1 DEF Idle
  <2>6. ASSUME NEW c \in Clients, NEW r \in 0 .. SeqSpace - 1, Talks(c, r)
        PROVE  Answers(c, r)' /\ Replies(c, r)'
    BY <1>2, <2>1, <2>2, <2>5, <2>6, AnswersKept DEF Replies
  <2> QED BY <1>1, <1>2, <2>4, <2>6, PageOfServer
<1>4. CASE AcceptData(s)
  <2>1. /\ gPB' = s /\ info_data_len' = PayloadLength(s) /\ PayloadLength(s) > 0
        /\ reply' = [value |-> Understood[s.data], acked |-> FALSE, sent |-> 0]
        /\ UNCHANGED <<seqnum, toClient>>
    BY <1>4 DEF AcceptData
  <2>2. s.data # << >> /\ info_data_len' = FormLength[s.data]
    BY <2>1 DEF PayloadLength
  <2>3. FinWithData' /\ Numbers'
    BY <1>1, <2>1 DEF FinWithData, Numbers
  <2>4. ASSUME NEW c \in Clients, NEW r \in 0 .. SeqSpace - 1, Talks(c, r)
        PROVE  Answers(c, r)' /\ Replies(c, r)'
    <3>1. Answers(c, r)'
      BY <1>2, <2>1, <2>4, AnswersKept
    <3>2. Replies(c, r)'
      <4> SUFFICES ASSUME s.client = c PROVE Replies(c, r)'
        BY <2>1 DEF Replies
      <4>1. Connected(c) /\ s.data = Asked[c] /\ s.seq = 0 /\ s.ack = r
        BY <2>2, <2>4 DEF Talks, Requests
      <4>2. reply'.value = Understood[Asked[c]] /\ reply'.acked = FALSE /\ reply'.sent = 0
        BY <2>1, <4>1
      <4>3. info_data_len' = RequestLength(c)
        BY <2>2, <4>1 DEF RequestLength
      <4> QED BY <1>2, <2>1, <4>1, <4>2, <4>3 DEF Replies, Connected
    <3> QED BY <3>1, <3>2
  <2> QED BY <1>1, <1>2, <2>3, <2>4, PageOfServer
<1>5. CASE AcceptOther(s)
  <2>1. reply' = reply /\ seqnum' = seqnum
    BY <1>5 DEF AcceptOther
  <2>2. Idle'
    BY <1>2, <2>1 DEF Idle
  <2>3. \A t \in toClient' : t \in toClient \/ (t.data = << >> /\ t.flags = {"ACK"})
    <3>1. CASE "FIN" \in s.flags
      <4>1. toClient' = toClient \union {AckAny(s, 0)}
        BY <1>5, <3>1 DEF AcceptOther, Sends
      <4>2. AckAny(s, 0) = Segment(s.client, {"ACK"}, s.ack, Plus(s.seq, 1), << >>)
        BY DEF AckAny, StepSeq
      <4>3. AckAny(s, 0).data = << >> /\ AckAny(s, 0).flags = {"ACK"}
        BY <4>2, SegmentShaped
      <4> HIDE DEF AckAny
      <4> QED BY <4>1, <4>3
    <3>2. CASE "FIN" \notin s.flags
      BY <1>5, <3>2 DEF AcceptOther
    <3> QED BY <3>1, <3>2
  <2>4. FinWithData' /\ Numbers'
    BY <1>1, <2>1, <2>3 DEF FinWithData, Numbers
  <2>5. ASSUME NEW c \in Clients, NEW r \in 0 .. SeqSpace - 1, Talks(c, r)
        PROVE  Answers(c, r)' /\ Replies(c, r)'
    BY <1>2, <2>2, <2>3, <2>5, AnswersKept DEF Replies
  <2> QED BY <1>1, <1>2, <2>4, <2>5, PageOfServer
<1> QED BY <1>3, <1>4, <1>5 DEF Accept

(* The sketch's three functions, and what the parts they send are.         *)
LEMMA PageSketch ==
  ASSUME PartsFit, PageInv, Sketch PROVE PageInv'
<1>1. AckInv /\ AckInv' /\ Shapes /\ Working /\ FinWithData /\ Numbers
  BY AckServer DEF PageInv, AckInv
<1>2. /\ UNCHANGED <<parts, client, toServer, seqnum>> /\ parts \in Nat \ {0} /\ PartLength = 3
  BY <1>1, ServerAssumption DEF Sketch, HttpServerReply, HttpServerReplyAck,
     HttpServerReplyWithFlags, ReplyInParts, Shapes, PartLength
<1>3. \A n : Page(reply.value, n) # << >>
  BY DEF Page
<1>4. ASSUME \A s \in toClient' : s \in toClient \/
               ("SYN" \notin s.flags /\ ("FIN" \in s.flags => s.data # << >>)),
             \A c \in Clients : \A r \in 0 .. SeqSpace - 1 :
               Talks(c, r) => Answers(c, r)' /\ Replies(c, r)'
      PROVE  PageInv'
  <2>1. FinWithData' /\ Numbers'
    BY <1>1, <1>2, <1>4 DEF FinWithData, Numbers
  <2> QED BY <1>1, <1>2, <1>4, <2>1, PageOfServer
<1>5. CASE HttpServerReply
  <2> DEFINE a == Plus(gPB.seq, info_data_len)
             ack == Segment(gPB.client, {"ACK"}, gPB.ack, a, << >>)
             data == Segment(gPB.client, {"ACK", "PSH", "FIN"}, gPB.ack, a, NextPart)
  <2>1. /\ ~Idle /\ ~reply.acked /\ parts = 1 /\ reply'.sent = 1
        /\ toClient' = toClient \union {ack, data}
    BY <1>1, <1>5, ReplyDoes
  <2>2. /\ ack.data = << >> /\ ack.flags = {"ACK"} /\ data.flags = {"ACK", "PSH", "FIN"}
        /\ data.client = gPB.client /\ data.seq = gPB.ack /\ data.ack = a /\ data.data = NextPart
    BY SegmentShaped
  <2> HIDE DEF ack, data
  <2>3. NextPart # << >> /\ Idle'
    BY <1>2, <1>3, <2>1 DEF NextPart, Idle
  <2>4. ASSUME NEW c \in Clients, NEW r \in 0 .. SeqSpace - 1, Talks(c, r)
        PROVE  Answers(c, r)' /\ Replies(c, r)'
    <3>1. CASE gPB.client # c
      BY <1>2, <2>1, <2>2, <2>3, <2>4, <3>1
      DEF Talks, Answers, Replies, Connected, PartOf
    <3>2. CASE gPB.client = c
      <4>1. /\ Connected(c) /\ reply.value = Understood[Asked[c]] /\ gPB.seq = 0 /\ gPB.ack = r
            /\ reply.sent = 0 /\ info_data_len = RequestLength(c)
        BY <2>1, <2>4, <3>2 DEF Talks, Replies
      <4>2. data.data = Page(Understood[Asked[c]], 1) /\ data.ack = Plus(0, RequestLength(c))
        BY <2>2, <4>1 DEF NextPart
      <4>3. data.seq = Plus(r, PartLength * (1 - 1))
        BY <1>2, <2>2, <4>1, PlusZero
      <4>4. PartOf(c, r, data, 1)
        BY <2>1, <4>2, <4>3 DEF PartOf
      <4>5. Answers(c, r)'
        BY <1>2, <2>1, <2>2, <2>4, <4>1, <4>2, <4>4 DEF Talks, Answers, Connected, PartOf
      <4> QED BY <2>3, <4>5 DEF Replies
    <3> QED BY <3>1, <3>2
  <2> QED BY <1>4, <2>1, <2>2, <2>3, <2>4
<1>6. CASE HttpServerReplyAck
  <2>1. /\ ~Idle /\ ~reply.acked /\ UNCHANGED info_data_len /\ SEQ' = gPB.ack
        /\ toClient' = toClient \union {gPB'}
        /\ reply'.acked = TRUE /\ reply'.sent = reply.sent /\ reply'.value = reply.value
        /\ gPB' = Segment(gPB.client, {"ACK"}, gPB.ack, Plus(gPB.seq, info_data_len), << >>)
    BY <1>1, <1>6, ReplyAckDoes
  <2>2. /\ gPB'.data = << >> /\ gPB'.flags = {"ACK"} /\ gPB'.client = gPB.client
        /\ gPB'.ack = Plus(gPB.seq, info_data_len)
    BY <2>1, SegmentShaped
  <2>3. ASSUME NEW c \in Clients, NEW r \in 0 .. SeqSpace - 1, Talks(c, r)
        PROVE  Answers(c, r)' /\ Replies(c, r)'
    <3>1. Answers(c, r)'
      BY <1>2, <2>1, <2>2, <2>3, AnswersKept
    <3>2. Replies(c, r)'
      <4> SUFFICES ASSUME gPB.client = c PROVE Replies(c, r)'
        BY <2>2 DEF Replies
      <4>1. /\ Connected(c) /\ reply.value = Understood[Asked[c]] /\ gPB.seq = 0 /\ gPB.ack = r
            /\ reply.sent = 0 /\ info_data_len = RequestLength(c)
        BY <2>1, <2>3 DEF Talks, Replies
      <4>2. SEQ' = Plus(r, PartLength * reply'.sent)
        BY <1>2, <2>1, <4>1, PlusZero
      <4> QED BY <1>2, <2>1, <2>2, <4>1, <4>2 DEF Replies, Connected
    <3> QED BY <3>1, <3>2
  <2> QED BY <1>4, <2>1, <2>2, <2>3
<1>7. CASE HttpServerReplyWithFlags
  <2>1. PICK part :
         /\ ~Idle /\ reply.acked /\ parts > 1
         /\ part = Segment(gPB.client, IF LastPart THEN {"ACK", "FIN"} ELSE {"ACK"},
                           SEQ, gPB.ack, NextPart)
         /\ toClient' = toClient \union {part}
         /\ gPB' = (IF LastPart THEN Nothing ELSE part)
         /\ SEQ' = Plus(SEQ, PartLength)
         /\ reply'.acked = reply.acked /\ reply'.value = reply.value
         /\ reply'.sent = reply.sent + 1 /\ reply'.sent \in 0 .. parts
    BY <1>1, <1>7, WithFlagsDoes
  <2>2. /\ part.client = gPB.client /\ part.seq = SEQ /\ part.ack = gPB.ack
        /\ part.data = NextPart /\ part.flags = IF LastPart THEN {"ACK", "FIN"} ELSE {"ACK"}
    BY <2>1, SegmentShaped
  <2>3. NextPart # << >> /\ (LastPart => Idle') /\ (Idle' => LastPart)
    BY <1>2, <1>3, <2>1 DEF NextPart, Idle, LastPart
  <2>4. "SYN" \notin part.flags /\ "ACK" \in part.flags /\ ("FIN" \in part.flags => LastPart)
    BY <2>2
  <2>5. reply.sent \in Nat /\ reply.sent + 1 \in 1 .. parts
    BY <1>1, <1>2, <2>1 DEF Shapes
  <2>6. ASSUME NEW c \in Clients, NEW r \in 0 .. SeqSpace - 1, Talks(c, r)
        PROVE  Answers(c, r)' /\ Replies(c, r)'
    <3>1. CASE gPB.client # c
      BY <1>2, <2>1, <2>2, <2>3, <2>6, <3>1
      DEF Talks, Answers, Replies, Connected, PartOf
    <3>2. CASE gPB.client = c
      <4>1. /\ Connected(c) /\ reply.value = Understood[Asked[c]]
            /\ gPB.ack = Plus(0, RequestLength(c)) /\ SEQ = Plus(r, PartLength * reply.sent)
        BY <2>1, <2>6, <3>2 DEF Talks, Replies
      <4> DEFINE n == reply.sent + 1
      <4>2. n \in 1 .. parts /\ n - 1 = reply.sent
        BY <2>5
      <4>3. part.data = Page(Understood[Asked[c]], n)
        BY <2>2, <4>1 DEF NextPart
      <4>4. "FIN" \in part.flags => n = parts
        BY <2>4 DEF LastPart
      <4>5. PartOf(c, r, part, n)
        BY <2>2, <4>1, <4>2, <4>3, <4>4 DEF PartOf
      <4> HIDE DEF n
      <4>6. Answers(c, r)'
        BY <1>2, <2>1, <2>2, <2>4, <2>6, <4>1, <4>2, <4>5 DEF Talks, Answers, Connected, PartOf
      <4>7. Replies(c, r)'
        <5>1. CASE LastPart
          BY <2>3, <5>1 DEF Replies
        <5>2. CASE ~LastPart
          <6>1. PartLength * reply.sent \in Nat /\ PartLength * n < SeqSpace
            BY <1>1, <1>2, <2>5, <4>2, PartBounds DEF n
          <6>2. PartLength * reply.sent + PartLength = PartLength * n /\ PartLength \in Nat
            BY <1>2, <2>5 DEF n
          <6>3. Plus(Plus(r, PartLength * reply.sent), PartLength) = Plus(r, PartLength * n)
            BY <6>1, <6>2, PlusTwice
          <6>4. SEQ' = Plus(r, PartLength * reply'.sent)
            BY <2>1, <4>1, <6>3 DEF n
          <6>5. gPB'.ack = gPB.ack /\ gPB'.client = c
            BY <2>1, <2>2, <3>2, <5>2
          <6> QED BY <1>2, <2>1, <4>1, <6>4, <6>5 DEF Replies, Connected
        <5> QED BY <5>1, <5>2
      <4> QED BY <4>6, <4>7
    <3> QED BY <3>1, <3>2
  <2>7. \A s \in toClient' : s \in toClient \/
          ("SYN" \notin s.flags /\ ("FIN" \in s.flags => s.data # << >>))
    BY <2>1, <2>2, <2>3, <2>4
  <2> QED BY <1>4, <2>6, <2>7
<1> QED BY <1>5, <1>6, <1>7 DEF Sketch

(* The invariant of the pages is kept by every step.                       *)
LEMMA PageStep ==
  ASSUME PartsFit, Understands, PageInv, [Next]_vars PROVE PageInv'
<1>1. \A s \in toClient : s.client \in Clients
  BY DEF PageInv, AckInv, Shapes
<1>2. ASSUME NEW s \in toClient, ClientReceives(s.client, s) PROVE PageInv'
  BY <1>1, <1>2, PageSynAck, PageFinAck, PageData DEF ClientReceives
<1>3. CASE UNCHANGED vars
  <2>1. AckInv' /\ FinWithData' /\ Numbers'
    BY <1>3, AckStep DEF PageInv, FinWithData, Numbers, vars, server
  <2>2. ASSUME NEW c \in Clients, NEW r \in 0 .. SeqSpace - 1, Talks(c, r)
        PROVE  Answers(c, r)' /\ Replies(c, r)'
    BY <1>3, <2>2 DEF Talks, Answers, Replies, Connected, PartOf, Idle, vars, server
  <2> QED BY <1>3, <2>1, <2>2, PageOfServer DEF vars
<1> QED BY <1>2, <1>3, PageConnect, PageSends, PageAccept, PageSketch DEF Next

(* A client reads the page for what its user typed in, part by part from   *)
(* the first on, and all of it once it has ended (httpServerReply,         *)
(* httpServerReplyAck and httpServerReply_with_flags), however many        *)
(* clients there are and whatever becomes of the segments: the one length  *)
(* and the one sequence number that the server keeps are those of the      *)
(* request that the sketch is answering.  The page must be shorter than    *)
(* the sequence space, and the text must survive its encoding.             *)
THEOREM ReadsItsOwnPage ==
  ASSUME PartsFit, Understands PROVE Spec => []PageForTheRequest
<1>1. PageInv /\ [Next]_vars => PageInv'
  BY PageStep
<1>2. PageInv => PageForTheRequest
  BY DEF PageInv, HasRead, PageForTheRequest
<1> QED BY PageInit, <1>1, <1>2, PTL DEF Spec

-----------------------------------------------------------------------------
(* The table is a sequence, and the history variables speak of its entries.*)
Table ==
  /\ listeners \in Seq([port : Ports, listening : BOOLEAN])
  /\ asked \subseteq DOMAIN listeners
  /\ called \subseteq DOMAIN listeners
  /\ i \in Nat

(* The table is empty at first.                                            *)
LEMMA TableInit == UdpInit => Table
BY DEF UdpInit, Table

(* Switching entries on and off leaves the table's shape and ports alone.  *)
LEMMA SetListeningKeeps ==
  ASSUME Table, NEW flag \in BOOLEAN
  PROVE  /\ SetListening(flag) \in Seq([port : Ports, listening : BOOLEAN])
         /\ DOMAIN SetListening(flag) = DOMAIN listeners
         /\ \A k \in DOMAIN listeners :
              /\ SetListening(flag)[k].port = listeners[k].port
              /\ SetListening(flag)[k].listening =
                   IF listeners[k].port = dstPort THEN flag ELSE listeners[k].listening
<1> DEFINE n == Len(listeners)
           R == [port : Ports, listening : BOOLEAN]
           New(k) == IF k \in On(dstPort) THEN [listeners[k] EXCEPT !.listening = flag]
                     ELSE listeners[k]
<1>1. n \in Nat /\ DOMAIN listeners = 1 .. n
  BY DEF Table
<1>2. ASSUME NEW k \in 1 .. n
      PROVE  /\ New(k) \in R
             /\ New(k).port = listeners[k].port
             /\ New(k).listening = IF listeners[k].port = dstPort THEN flag
                                   ELSE listeners[k].listening
  <2>1. listeners[k] \in R
    <3>1. listeners \in Seq(R)
      BY DEF Table
    <3> HIDE DEF R
    <3> QED BY <1>1, <3>1, LenProperties
  <2> QED BY <1>1, <2>1 DEF On
<1>3. SetListening(flag) = [k \in 1 .. n |-> New(k)]
  BY <1>1 DEF SetListening
<1> HIDE DEF New, R
<1>4. SetListening(flag) \in [1 .. n -> R]
  BY <1>2, <1>3
<1>5. SetListening(flag) \in Seq(R)
  BY <1>1, <1>4, SeqDef
<1>6. \A k \in 1 .. n : SetListening(flag)[k] = New(k)
  BY <1>3
<1>7. DOMAIN SetListening(flag) = 1 .. n
  BY <1>3
<1> QED BY <1>1, <1>2, <1>5, <1>6, <1>7 DEF R

(* A new entry comes after all the others.                                 *)
LEMMA AppendKeeps ==
  ASSUME Table, NEW e \in [port : Ports, listening : BOOLEAN]
  PROVE  /\ Append(listeners, e) \in Seq([port : Ports, listening : BOOLEAN])
         /\ DOMAIN Append(listeners, e) = DOMAIN listeners \union {Len(listeners) + 1}
         /\ Len(listeners) + 1 \notin DOMAIN listeners
         /\ \A k \in DOMAIN listeners : Append(listeners, e)[k] = listeners[k]
         /\ Append(listeners, e)[Len(listeners) + 1] = e
BY DEF Table

(* Every step of the program keeps the table's shape.                      *)
LEMMA TableStep == Table /\ [UdpNext]_udpVars => Table'
<1> SUFFICES ASSUME Table, [UdpNext]_udpVars PROVE Table'
  OBVIOUS
<1>1. ASSUME NEW p \in Ports, ListenOnPort(p) PROVE Table'
  <2>1. [port |-> p, listening |-> TRUE] \in [port : Ports, listening : BOOLEAN]
    OBVIOUS
  <2> QED BY <1>1, <2>1, AppendKeeps DEF ListenOnPort, Table, loop
<1>2. ASSUME NEW p \in Ports, PauseListenOnPort(p) PROVE Table'
  BY <1>2, SetListeningKeeps DEF PauseListenOnPort, Table, On
<1>3. ASSUME NEW p \in Ports, ResumeListenOnPort(p) PROVE Table'
  BY <1>3, SetListeningKeeps DEF ResumeListenOnPort, Table, loop
<1>4. ASSUME NEW p \in Ports, CallbackReplies(p) PROVE Table'
  BY <1>4 DEF CallbackReplies, Table, loop
<1>5. ASSUME NEW p \in Ports, NEW d \in Ports, CallbackSends(p, d) \/ UdpPacket(p, d)
      PROVE Table'
  BY <1>5 DEF CallbackSends, UdpPacket, Table, loop
<1>6. CASE OtherFrame
  BY <1>6 DEF OtherFrame, Table, loop
<1>7. CASE Loop
  <2>1. i' \in Nat /\ UNCHANGED <<listeners, asked>>
    BY <1>7 DEF Loop, CallListener, SkipListener, CallbackReturns, PacketProcessed, Table
  <2>2. called' \subseteq DOMAIN listeners
    BY <1>7 DEF Loop, CallListener, SkipListener, CallbackReturns, PacketProcessed,
                Table, Matches, On
  <2> QED BY <2>1, <2>2 DEF Table
<1>8. CASE UNCHANGED udpVars
  BY <1>8 DEF udpVars, loop, Table
<1> QED BY <1>1, <1>2, <1>3, <1>4, <1>5, <1>6, <1>7, <1>8 DEF UdpNext

-----------------------------------------------------------------------------
(* When pause and resume are called for the port in gPB, entries listen    *)
(* exactly as the sketch asked, whatever packets and callbacks come in     *)
(* between (udpServerPauseListenOnPort, udpServerResumeListenOnPort).      *)
THEOREM ListensAsAsked == ASSUME PortInBuffer PROVE UdpSpec => []ListeningAsAsked
<1> DEFINE IInv == Table /\ ListeningAsAsked
<1>1. UdpInit => IInv
  BY TableInit DEF UdpInit, ListeningAsAsked, Listening
<1>2. IInv /\ [UdpNext]_udpVars => IInv'
  <2> SUFFICES ASSUME Table, ListeningAsAsked, [UdpNext]_udpVars PROVE ListeningAsAsked'
    BY TableStep
  <2>1. ASSUME NEW p \in Ports, ListenOnPort(p) PROVE ListeningAsAsked'
    <3>1. [port |-> p, listening |-> TRUE] \in [port : Ports, listening : BOOLEAN]
      OBVIOUS
    <3>2. CASE UNCHANGED listeners
      BY <2>1, <3>2 DEF ListenOnPort, ListeningAsAsked, Listening
    <3>3. CASE listeners' = Append(listeners, [port |-> p, listening |-> TRUE])
      BY <2>1, <3>1, <3>3, AppendKeeps DEF ListenOnPort, ListeningAsAsked, Listening, Table
    <3> QED BY <2>1, <3>2, <3>3 DEF ListenOnPort
  <2>2. ASSUME NEW p \in Ports, PauseListenOnPort(p) PROVE ListeningAsAsked'
    <3>1. listeners' = SetListening(FALSE) /\ asked' = asked \union On(dstPort)
      BY <2>2 DEF PauseListenOnPort
    <3>2. DOMAIN listeners' = DOMAIN listeners
      BY <3>1, SetListeningKeeps
    <3>3. \A k \in DOMAIN listeners :
            listeners'[k].listening <=> (listeners[k].listening /\ k \notin On(dstPort))
      BY <3>1, SetListeningKeeps DEF On
    <3> QED BY <3>1, <3>2, <3>3 DEF ListeningAsAsked, Listening, On
  <2>3. ASSUME NEW p \in Ports, ResumeListenOnPort(p) PROVE ListeningAsAsked'
    <3>1. listeners' = SetListening(TRUE) /\ asked' = asked \ On(dstPort)
      BY <2>3 DEF ResumeListenOnPort
    <3>2. DOMAIN listeners' = DOMAIN listeners
      BY <3>1, SetListeningKeeps
    <3>3. \A k \in DOMAIN listeners :
            listeners'[k].listening <=> (listeners[k].listening \/ k \in On(dstPort))
      BY <3>1, SetListeningKeeps DEF On
    <3> QED BY <3>1, <3>2, <3>3 DEF ListeningAsAsked, Listening, On
  <2>4. CASE UNCHANGED <<listeners, asked>>
    BY <2>4 DEF ListeningAsAsked, Listening
  <2>5. CASE OtherFrame \/ Loop \/ UNCHANGED udpVars
    BY <2>4, <2>5 DEF OtherFrame, Loop, CallListener, SkipListener, CallbackReturns,
                      PacketProcessed, udpVars
  <2>6. ASSUME NEW p \in Ports, NEW d \in Ports,
               CallbackReplies(p) \/ CallbackSends(p, d) \/ UdpPacket(p, d)
        PROVE  ListeningAsAsked'
    BY <2>4, <2>6 DEF CallbackReplies, CallbackSends, UdpPacket
  <2> QED BY <2>1, <2>2, <2>3, <2>5, <2>6 DEF UdpNext
<1> QED BY <1>1, <1>2, PTL DEF UdpSpec

(* Until a callback builds a packet of its own, callbacks are called for   *)
(* packets to their own port only (udpServerHasProcessedPacket): gPB still *)
(* holds the packet that came in when the loop gets to the next entry.     *)
THEOREM CalledForOwnPortOnly == UdpSpec => []CalledForOwnPort
<1> DEFINE InBuffer == pc # "idle" /\ ~overwritten => dstPort = packetPort
           IInv == Table /\ InBuffer /\ CalledForOwnPort
<1>1. UdpInit => IInv
  BY TableInit DEF UdpInit, CalledForOwnPort
<1>2. IInv /\ [UdpNext]_udpVars => IInv'
  <2> SUFFICES ASSUME Table, InBuffer, CalledForOwnPort, [UdpNext]_udpVars
               PROVE  InBuffer' /\ CalledForOwnPort'
    BY TableStep
  <2>1. ASSUME NEW p \in Ports, ListenOnPort(p) PROVE InBuffer' /\ CalledForOwnPort'
    <3>1. [port |-> p, listening |-> TRUE] \in [port : Ports, listening : BOOLEAN]
      OBVIOUS
    <3> QED BY <2>1, <3>1, AppendKeeps
            DEF ListenOnPort, CalledForOwnPort, Table, loop, buffer
  <2>2. ASSUME NEW p \in Ports, PauseListenOnPort(p) \/ ResumeListenOnPort(p)
        PROVE  InBuffer' /\ CalledForOwnPort'
    BY <2>2, SetListeningKeeps
    DEF PauseListenOnPort, ResumeListenOnPort, CalledForOwnPort, Table, loop, buffer
  <2>3. CASE OtherFrame
    BY <2>3 DEF OtherFrame, CalledForOwnPort, loop
  <2>4. CASE CallListener
    BY <2>4 DEF CallListener, Matches, On, CalledForOwnPort, buffer
  <2>5. CASE SkipListener \/ CallbackReturns \/ PacketProcessed
    BY <2>5 DEF SkipListener, CallbackReturns, PacketProcessed, CalledForOwnPort, buffer
  <2>6. ASSUME NEW p \in Ports, NEW d \in Ports, UdpPacket(p, d)
        PROVE  InBuffer' /\ CalledForOwnPort'
    BY <2>6 DEF UdpPacket, CalledForOwnPort
  <2>7. CASE UNCHANGED udpVars
    BY <2>7 DEF udpVars, loop, buffer, CalledForOwnPort
  <2>8. ASSUME NEW p \in Ports, NEW d \in Ports,
               CallbackReplies(p) \/ CallbackSends(p, d)
        PROVE  InBuffer' /\ CalledForOwnPort'
    BY <2>8 DEF CallbackReplies, CallbackSends, CalledForOwnPort
  <2> QED BY <2>1, <2>2, <2>3, <2>4, <2>5, <2>6, <2>7, <2>8 DEF UdpNext, Loop
<1> QED BY <1>1, <1>2, PTL DEF UdpSpec

-----------------------------------------------------------------------------
(* The loop's index, and the history variable due, stay within the table:  *)
(* entries are only ever added, so a callback that returns finds its own.  *)
Bounds ==
  /\ Len(listeners) <= MaxListeners
  /\ dstPort \in Ports /\ srcPort \in Ports /\ packetPort \in Ports
  /\ overwritten \in BOOLEAN
  /\ pc \in {"idle", "loop", "callback"}
  /\ i \in 1 .. MaxListeners + 1
  /\ pc = "loop" => i <= Len(listeners) + 1
  /\ pc = "callback" => i \in DOMAIN listeners
  /\ due \subseteq DOMAIN listeners

(* So are its counters.                                                    *)
LEMMA BoundsInit == UdpInit => Bounds
<1> SUFFICES ASSUME UdpInit PROVE Bounds
  OBVIOUS
<1>1. Len(listeners) = 0 /\ i = 1 /\ MaxListeners \in Nat \ {0}
  BY UdpAssumption DEF UdpInit
<1>2. Len(listeners) <= MaxListeners /\ i \in 1 .. MaxListeners + 1
  BY <1>1
<1> QED BY <1>2 DEF UdpInit, Bounds

(* A sketch's call of listen adds an entry only while there is room.       *)
LEMMA BoundsListen ==
  ASSUME Table, Bounds, NEW p \in Ports, ListenOnPort(p) PROVE Bounds'
<1>1. [port |-> p, listening |-> TRUE] \in [port : Ports, listening : BOOLEAN]
  OBVIOUS
<1>2. Len(listeners) \in Nat /\ MaxListeners \in Nat /\ DOMAIN listeners = 1 .. Len(listeners)
  BY UdpAssumption DEF Table
<1>3. CASE listeners' = listeners
  BY <1>3 DEF ListenOnPort, Bounds, buffer, loop
<1>4. CASE /\ Len(listeners) < MaxListeners
           /\ listeners' = Append(listeners, [port |-> p, listening |-> TRUE])
  <2>1. /\ Len(listeners') = Len(listeners) + 1
        /\ DOMAIN listeners' = DOMAIN listeners \union {Len(listeners) + 1}
    BY <1>1, <1>4, AppendKeeps DEF Table
  <2>2. UNCHANGED <<dstPort, srcPort, packetPort, overwritten, pc, i, due>>
    BY DEF ListenOnPort, buffer, loop
  <2> QED BY <1>2, <1>4, <2>1, <2>2 DEF Bounds
<1> QED BY <1>3, <1>4 DEF ListenOnPort

(* Pausing and resuming leave the table's length alone.                    *)
LEMMA BoundsSwitch ==
  ASSUME Table, Bounds, NEW p \in Ports, PauseListenOnPort(p) \/ ResumeListenOnPort(p)
  PROVE  Bounds'
<1>1. DOMAIN listeners' = DOMAIN listeners
  BY SetListeningKeeps DEF PauseListenOnPort, ResumeListenOnPort
<1>2. Len(listeners') = Len(listeners)
  <2>1. listeners' \in Seq([port : Ports, listening : BOOLEAN])
    BY SetListeningKeeps DEF PauseListenOnPort, ResumeListenOnPort
  <2>2. listeners \in Seq([port : Ports, listening : BOOLEAN])
    BY DEF Table
  <2>3. /\ Len(listeners) \in Nat /\ DOMAIN listeners = 1 .. Len(listeners)
        /\ Len(listeners') \in Nat /\ DOMAIN listeners' = 1 .. Len(listeners')
    BY <2>1, <2>2
  <2> QED BY <1>1, <2>3
<1>3. /\ UNCHANGED <<dstPort, srcPort, packetPort, overwritten, pc, i>>
      /\ due' \subseteq due
  BY DEF PauseListenOnPort, ResumeListenOnPort, buffer, loop
<1> QED BY <1>1, <1>2, <1>3 DEF Bounds

(* Every step keeps the table and the index within its bounds.             *)
LEMMA BoundsStep == Table /\ Bounds /\ [UdpNext]_udpVars => Bounds'
<1> SUFFICES ASSUME Table, Bounds, [UdpNext]_udpVars PROVE Bounds'
  OBVIOUS
<1> USE UdpAssumption
<1>1. Len(listeners) \in Nat /\ DOMAIN listeners = 1 .. Len(listeners) /\ MaxListeners \in Nat
  BY DEF Table
<1>2. ASSUME NEW p \in Ports, CallbackReplies(p) PROVE Bounds'
  BY <1>2 DEF CallbackReplies, Bounds, loop
<1>3. ASSUME NEW p \in Ports, NEW d \in Ports, CallbackSends(p, d) PROVE Bounds'
  BY <1>3 DEF CallbackSends, Bounds, loop
<1>4. ASSUME NEW p \in Ports, NEW d \in Ports, UdpPacket(p, d) PROVE Bounds'
  <2>1. due' \subseteq DOMAIN listeners
    BY <1>4 DEF UdpPacket, On
  <2>2. i' = 1 /\ pc' = "loop" /\ listeners' = listeners /\ overwritten' \in BOOLEAN
    BY <1>4 DEF UdpPacket
  <2>3. dstPort' \in Ports /\ srcPort' \in Ports /\ packetPort' \in Ports
    BY <1>4 DEF UdpPacket
  <2>4. i' \in 1 .. MaxListeners + 1 /\ i' <= Len(listeners) + 1
    BY <1>1, <2>2
  <2> QED BY <2>1, <2>2, <2>3, <2>4 DEF Bounds
<1>5. CASE OtherFrame
  BY <1>5 DEF OtherFrame, Bounds, loop
<1>6. CASE CallListener
  BY <1>1, <1>6 DEF CallListener, Bounds, buffer
<1>7. CASE SkipListener
  BY <1>1, <1>7 DEF SkipListener, Bounds, buffer
<1>8. CASE CallbackReturns
  BY <1>1, <1>8 DEF CallbackReturns, Bounds, buffer
<1>9. CASE PacketProcessed
  BY <1>9 DEF PacketProcessed, Bounds, buffer
<1>10. CASE UNCHANGED udpVars
  BY <1>10 DEF udpVars, buffer, loop, Bounds
<1> QED BY <1>2, <1>3, <1>4, <1>5, <1>6, <1>7, <1>8, <1>9, <1>10, BoundsListen, BoundsSwitch
        DEF UdpNext, Loop

(* The table never holds more than UDPSERVER_MAXLISTENERS entries, and the *)
(* loop of udpServerHasProcessedPacket reads none beyond the last one, in  *)
(* every interleaving of packets with the calls of the callbacks.          *)
THEOREM ListenersTyped == UdpSpec => []UdpTypeOK
<1>1. UdpInit => Table /\ Bounds
  BY TableInit, BoundsInit
<1>2. Table /\ Bounds /\ [UdpNext]_udpVars => (Table /\ Bounds)'
  BY TableStep, BoundsStep
<1>3. Table /\ Bounds => UdpTypeOK
  <2> SUFFICES ASSUME Table, Bounds PROVE UdpTypeOK
    OBVIOUS
  <2>1. DOMAIN listeners = 1 .. Len(listeners) /\ Len(listeners) \in Nat
    BY DEF Table
  <2>2. DOMAIN listeners \subseteq Entries
    BY <2>1, UdpAssumption DEF Bounds, Entries
  <2> QED BY <2>2 DEF Table, Bounds, UdpTypeOK
<1> QED BY <1>1, <1>2, <1>3, PTL DEF UdpSpec

-----------------------------------------------------------------------------
(* While gPB still holds the packet, the entries it is due to are on its   *)
(* port and listening, and the loop has called those that it has passed.   *)
DueGetCalled ==
  pc # "idle" /\ ~overwritten =>
    /\ dstPort = packetPort
    /\ \A k \in due : listeners[k].port = packetPort /\ listeners[k].listening
    /\ \A k \in due : k < i => k \in called
    /\ \A k \in due : pc = "callback" /\ k = i => k \in called

(* A new entry is not due the packet, and moves none that is.              *)
LEMMA DueListen ==
  ASSUME Table, Bounds, DueGetCalled, NEW p \in Ports, ListenOnPort(p) PROVE DueGetCalled'
<1>1. [port |-> p, listening |-> TRUE] \in [port : Ports, listening : BOOLEAN]
  OBVIOUS
<1>2. \A k \in DOMAIN listeners : listeners'[k] = listeners[k]
  BY <1>1, AppendKeeps DEF ListenOnPort
<1>3. UNCHANGED <<dstPort, packetPort, overwritten, pc, i, due, called>>
  BY DEF ListenOnPort, buffer, loop
<1> QED BY <1>2, <1>3 DEF DueGetCalled, Bounds

(* A pause takes all that the packet is still due away, for the port in    *)
(* gPB is the packet's; resuming starts entries that listen already.       *)
LEMMA DueSwitch ==
  ASSUME PortInBuffer, Table, Bounds, DueGetCalled, NEW p \in Ports,
         PauseListenOnPort(p) \/ ResumeListenOnPort(p)
  PROVE  DueGetCalled'
<1>1. UNCHANGED <<dstPort, packetPort, overwritten, pc, i, called>>
  BY DEF PauseListenOnPort, ResumeListenOnPort, buffer, loop
<1>2. CASE PauseListenOnPort(p)
  <2>1. due' = due \ On(dstPort)
    BY <1>2 DEF PauseListenOnPort
  <2>2. pc # "idle" /\ ~overwritten => due' = {}
    BY <2>1 DEF DueGetCalled, Bounds, On
  <2> QED BY <1>1, <2>2 DEF DueGetCalled
<1>3. CASE ResumeListenOnPort(p)
  <2>1. /\ due' = due
        /\ \A k \in DOMAIN listeners : /\ listeners'[k].port = listeners[k].port
                                       /\ listeners[k].listening => listeners'[k].listening
    BY <1>3, SetListeningKeeps DEF ResumeListenOnPort, loop
  <2> QED BY <1>1, <2>1 DEF DueGetCalled, Bounds
<1> QED BY <1>2, <1>3

(* Every step of the dispatch loop leaves behind it listeners called if due. *)
LEMMA DueStep ==
  ASSUME PortInBuffer, Table, Bounds, DueGetCalled, [UdpNext]_udpVars PROVE DueGetCalled'
<1>1. Len(listeners) \in Nat /\ DOMAIN listeners = 1 .. Len(listeners) /\ i \in Nat
  BY DEF Table
<1>2. ASSUME NEW p \in Ports, NEW d \in Ports, CallbackReplies(p) \/ CallbackSends(p, d)
      PROVE DueGetCalled'
  BY <1>2 DEF CallbackReplies, CallbackSends, DueGetCalled
<1>3. ASSUME NEW p \in Ports, NEW d \in Ports, UdpPacket(p, d) PROVE DueGetCalled'
  <2>1. /\ pc' = "loop" /\ i' = 1 /\ dstPort' = packetPort' /\ listeners' = listeners
        /\ due' \subseteq DOMAIN listeners
        /\ \A k \in due' : listeners[k].port = packetPort' /\ listeners[k].listening
    BY <1>3 DEF UdpPacket, On, Listening
  <2>2. \A k \in due' : ~(k < i')
    BY <1>1, <2>1
  <2> QED BY <2>1, <2>2 DEF DueGetCalled
<1>4. CASE OtherFrame
  BY <1>4 DEF OtherFrame, DueGetCalled, loop
<1>5. CASE CallListener
  BY <1>5 DEF CallListener, DueGetCalled, buffer
<1>6. CASE SkipListener
  <2>1. UNCHANGED <<listeners, dstPort, overwritten, pc, packetPort, due, called>>
    BY <1>6 DEF SkipListener, buffer
  <2>2. i' = i + 1 /\ pc = "loop" /\ ~Matches(i)
    BY <1>6 DEF SkipListener
  <2>3. ~overwritten => i \notin due
    BY <2>2 DEF DueGetCalled, Matches, On, Listening, Bounds
  <2>4. \A k \in due : k < i' => k < i \/ k = i
    BY <1>1, <2>2 DEF Bounds
  <2> QED BY <2>1, <2>2, <2>3, <2>4 DEF DueGetCalled
<1>7. CASE CallbackReturns
  <2>1. UNCHANGED <<listeners, dstPort, overwritten, packetPort, due, called>>
    BY <1>7 DEF CallbackReturns, buffer
  <2>2. i' = i + 1 /\ pc = "callback" /\ pc' = "loop"
    BY <1>7 DEF CallbackReturns
  <2>3. \A k \in due : k < i' => k < i \/ k = i
    BY <1>1, <2>2 DEF Bounds
  <2> QED BY <2>1, <2>2, <2>3 DEF DueGetCalled
<1>8. CASE PacketProcessed
  BY <1>8 DEF PacketProcessed, DueGetCalled
<1>9. CASE UNCHANGED udpVars
  BY <1>9 DEF udpVars, buffer, loop, DueGetCalled
<1> QED BY <1>2, <1>3, <1>4, <1>5, <1>6, <1>7, <1>8, <1>9, DueListen, DueSwitch
        DEF UdpNext, Loop

(* When pause and resume are called for the port in gPB, the loop calls    *)
(* every callback the packet is due to, whatever entries the callbacks it  *)
(* calls on the way add, pause and resume (udpServerHasProcessedPacket).   *)
THEOREM DueListenersCalled ==
  ASSUME PortInBuffer PROVE UdpSpec => []AllListenersCalled
<1> DEFINE IInv == Table /\ Bounds /\ DueGetCalled
<1>1. UdpInit => IInv
  BY TableInit, BoundsInit DEF UdpInit, DueGetCalled
<1>2. IInv /\ [UdpNext]_udpVars => IInv'
  BY TableStep, BoundsStep, DueStep
<1>3. IInv => AllListenersCalled
  <2> SUFFICES ASSUME IInv, pc = "loop", i > Len(listeners), ~overwritten, NEW k \in due
               PROVE  k \in called
    BY DEF AllListenersCalled
  <2>1. k \in Nat /\ k <= Len(listeners) /\ Len(listeners) \in Nat /\ i \in Nat
    BY DEF Table, Bounds
  <2> QED BY <2>1 DEF DueGetCalled
<1> QED BY <1>1, <1>2, <1>3, PTL DEF UdpSpec

=============================================================================
