----------------------------- MODULE TcpServer -----------------------------
(***************************************************************************)
(* The web server of tcpip.cpp: accept at the end of packetLoop, and a     *)
(* sketch that answers with httpServerReply, or with httpServerReplyAck    *)
(* and httpServerReply_with_flags in several parts, as the examples do.    *)
(* The server keeps nothing of a connection: every answer is built in gPB  *)
(* from the segment that is still there.  What it does keep, one length    *)
(* and one sequence number, serves all clients at once.                    *)
(*                                                                         *)
(* Segments in either direction are lost, duplicated and reordered; a      *)
(* segment received is one of those ever sent.                             *)
(***************************************************************************)
EXTENDS WebUtil, FiniteSets

CONSTANTS
  Clients,
  Asked,     \* Asked[c]: the text the user of client c types in
  SeqSpace,  \* 2^32 in the code
  Isns,      \* 256 in the code: the values of seqnum
  Apart,     \* 256 in the code: the factor of seqnum in a sequence number
  MaxLen,    \* the sketch's buffer for the value of a key
  Parts      \* in how many parts a sketch answers

ASSUME ServerAssumption ==
  /\ SeqSpace \in Nat \ {0} /\ Isns \in 1 .. 256 /\ Apart \in Nat \ {0} /\ MaxLen \in 1 .. 255
  /\ Parts \subseteq Nat \ {0}

VARIABLES
  parts,
  gPB,                \* the segment in the packet buffer; it is forgotten here
                      \* once the next packet overwrites it before any use
  info_data_len, seqnum, SEQ,
  reply,              \* what the sketch has still to send, and where it is
  handed,             \* history: the requests packetLoop returned to the
                      \* sketch, by their client and the octet they end at
  client,             \* the clients' connections
  toServer, toClient  \* every segment ever sent

server == <<info_data_len, seqnum, SEQ, reply, handed>>
vars == <<parts, gPB, server, client, toServer, toClient>>

Plus(seq, n) == (seq + n) % SeqSpace

(* Part n of the page for a value.                                         *)
Page(value, n) == <<value, n>>
PartLength == 3
Values == {Asked[c] : c \in Clients}

(* The form a value is sent in has other fields before and after it.  A    *)
(* request is shown by the value in its form.                              *)
Key == <<107>>
Form(value) ==
  <<120, EqualSign, 107, Ampersand>> \o Key \o <<EqualSign>> \o UrlEncode(value)
    \o <<Ampersand, 121, EqualSign, 49, Space>>
FormLength == [v \in Values |-> Len(Form(v))]
Understood == [v \in Values |-> UrlDecode(FindKeyVal(Form(v), Key, MaxLen))]
Request(c) == Asked[c]
RequestLength(c) == FormLength[Asked[c]]

Segment(c, flags, seq, ack, data) ==
  [client |-> c, flags |-> flags, seq |-> seq, ack |-> ack, data |-> data]
Nothing == [client |-> CHOOSE c \in Clients : TRUE, flags |-> {}, seq |-> 0, ack |-> 0, data |-> << >>]

Init ==
  /\ parts \in Parts
  /\ gPB = Nothing /\ info_data_len = 0 /\ seqnum = 10 % Isns /\ SEQ = 0
  /\ reply = [value |-> << >>, acked |-> TRUE, sent |-> parts] /\ handed = {}
  /\ client = [c \in Clients |->
       [state |-> "closed", nxt |-> SeqSpace - 1, una |-> SeqSpace - 1, rcv |-> 0, got |-> << >>,
        ended |-> FALSE]]
  /\ toServer = {} /\ toClient = {}

-----------------------------------------------------------------------------
(* The clients: TCP implementations that send one request and close once   *)
(* the server has.  Client c's unacknowledged segment.                     *)
Outstanding(c) ==
  LET k == client[c] IN
  CASE k.state = "syn" -> {Segment(c, {"SYN"}, k.una, 0, << >>)}
    [] k.state = "asking" -> {Segment(c, {"ACK", "PSH"}, k.una, k.rcv, Request(c))}
    [] k.state = "closing" -> {Segment(c, {"ACK", "FIN"}, k.una, k.rcv, << >>)}
    [] OTHER -> {}
Connect(c) ==
  /\ client[c].state = "closed"
  /\ client' = [client EXCEPT ![c].state = "syn", ![c].nxt = Plus(@, 1)]
  /\ UNCHANGED <<parts, gPB, server, toServer, toClient>>
ClientSends(c) ==
  /\ toServer' = toServer \union Outstanding(c)
  /\ toServer' # toServer
  /\ UNCHANGED <<parts, gPB, server, client, toClient>>

(* An acknowledgement of all that is outstanding moves the client on.      *)
Acked(k, s) == "ACK" \in s.flags /\ s.ack = k.nxt
GetsSynAck(c, s) ==
  /\ client[c].state = "syn" /\ {"SYN", "ACK"} \subseteq s.flags /\ Acked(client[c], s)
  /\ client' = [client EXCEPT ![c].state = "asking", ![c].una = client[c].nxt,
                   ![c].nxt = Plus(@, RequestLength(c)), ![c].rcv = Plus(s.seq, 1)]
(* Data are taken in order; the FIN after the data ends them.              *)
GetsData(c, s) ==
  LET k == client[c]
      acked == IF Acked(k, s) /\ k.state = "asking" THEN "waiting" ELSE k.state
      una == IF Acked(k, s) THEN k.nxt ELSE k.una
      inOrder == s.seq = k.rcv /\ ~k.ended
      len == IF s.data = << >> THEN 0 ELSE PartLength
      fin == inOrder /\ "FIN" \in s.flags
      closes == fin /\ acked = "waiting"
  IN
  /\ k.state \in {"asking", "waiting"} /\ "SYN" \notin s.flags
  /\ client' = [client EXCEPT ![c] =
       [state |-> IF closes THEN "closing" ELSE acked, una |-> una,
        nxt |-> IF closes THEN Plus(k.nxt, 1) ELSE k.nxt,
        rcv |-> IF inOrder THEN Plus(k.rcv, len + IF fin THEN 1 ELSE 0) ELSE k.rcv,
        got |-> IF inOrder /\ len > 0 THEN Append(k.got, s.data) ELSE k.got,
        ended |-> k.ended \/ fin]]
GetsFinAck(c, s) ==
  /\ client[c].state = "closing" /\ Acked(client[c], s) /\ s.data = << >>
  /\ client' = [client EXCEPT ![c].state = "done", ![c].una = client[c].nxt]
ClientReceives(c, s) ==
  /\ s.client = c /\ (GetsSynAck(c, s) \/ GetsData(c, s) \/ GetsFinAck(c, s))
  /\ client' # client
  /\ UNCHANGED <<parts, gPB, server, toServer, toClient>>

-----------------------------------------------------------------------------
(* What the server sends is built from the segment s in gPB: the ports and *)
(* the sequence numbers change places, and rel is what it acknowledges.    *)
StepSeq(s, rel, flags) == Segment(s.client, flags, s.ack, Plus(s.seq, rel), << >>)
SynAck(s) == Segment(s.client, {"SYN", "ACK"}, seqnum * Apart, Plus(s.seq, 1), << >>)
AckAnyPlain(s, len) == StepSeq(s, len, {"ACK"})
AckAny(s, len) == StepSeq(s, IF len = 0 THEN 1 ELSE len, {"ACK"})
Sends(segments) == toClient' = toClient \union segments
Idle == reply.sent = parts

(* getTcpPayloadLength of the segment in gPB.                              *)
PayloadLength(s) == IF s.data = << >> THEN 0 ELSE FormLength[s.data]
AcceptSyn(s) ==
  /\ "SYN" \in s.flags /\ Sends({SynAck(s)}) /\ gPB' = Nothing
  /\ seqnum' = (seqnum + 3) % Isns /\ UNCHANGED <<info_data_len, SEQ, reply, handed>>
(* The sketch is given the request and looks up the value of its key.      *)
AcceptData(s) ==
  /\ "SYN" \notin s.flags /\ "ACK" \in s.flags /\ PayloadLength(s) > 0
  /\ info_data_len' = PayloadLength(s) /\ gPB' = s
  /\ reply' = [value |-> Understood[s.data], acked |-> FALSE, sent |-> 0]
  /\ handed' = handed \union {[client |-> s.client, upto |-> Plus(s.seq, PayloadLength(s))]}
  /\ UNCHANGED <<seqnum, SEQ, toClient>>
AcceptOtherAcksAll(s) ==
  /\ "SYN" \notin s.flags /\ "ACK" \in s.flags
  /\ info_data_len' = PayloadLength(s) /\ gPB' = Nothing
  /\ Sends({AckAny(s, PayloadLength(s))}) /\ UNCHANGED <<seqnum, SEQ, reply, handed>>
AcceptOther(s) ==
  /\ "SYN" \notin s.flags /\ "ACK" \in s.flags /\ PayloadLength(s) = 0
  /\ info_data_len' = 0
  /\ gPB' = Nothing
  /\ IF "FIN" \in s.flags THEN Sends({AckAny(s, 0)}) ELSE UNCHANGED toClient
  /\ UNCHANGED <<seqnum, SEQ, reply, handed>>
Accept(s) ==
  /\ Idle
  /\ AcceptSyn(s) \/ AcceptData(s) \/ AcceptOther(s)
  /\ UNCHANGED <<parts, client, toServer>>

NextPart == Page(reply.value, reply.sent + 1)
LastPart == reply.sent + 1 = parts
HttpServerReply ==
  LET ack == AckAny(gPB, info_data_len)
      data == [ack EXCEPT !.flags = {"ACK", "PSH", "FIN"}, !.data = NextPart]
  IN
  /\ ~Idle /\ parts = 1
  /\ Sends({ack, data}) /\ gPB' = Nothing /\ reply' = [reply EXCEPT !.sent = 1]
  /\ UNCHANGED <<parts, info_data_len, seqnum, SEQ, handed, client, toServer>>
(* httpServerReplyAck, called once before the parts.                       *)
HttpServerReplyAck ==
  LET ack == AckAny(gPB, PayloadLength(gPB)) IN
  /\ ~Idle /\ parts > 1 /\ ~reply.acked
  /\ Sends({ack}) /\ gPB' = ack /\ SEQ' = ack.seq /\ reply' = [reply EXCEPT !.acked = TRUE]
  /\ UNCHANGED <<parts, info_data_len, seqnum, handed, client, toServer>>
ReplyInParts(step) ==
  LET part == [gPB EXCEPT !.seq = SEQ, !.data = NextPart,
                          !.flags = IF LastPart THEN {"ACK", "FIN"} ELSE {"ACK"}]
  IN
  /\ ~Idle /\ parts > 1 /\ reply.acked
  /\ Sends({part}) /\ gPB' = (IF LastPart THEN Nothing ELSE part) /\ SEQ' = Plus(SEQ, step)
  /\ reply' = [reply EXCEPT !.sent = @ + 1]
  /\ UNCHANGED <<parts, info_data_len, seqnum, handed, client, toServer>>
ReplyWithFlagsInPlace == ReplyInParts(0)
HttpServerReplyWithFlags == ReplyInParts(PartLength)

-----------------------------------------------------------------------------
Sketch == HttpServerReply \/ HttpServerReplyAck \/ HttpServerReplyWithFlags
Next ==
  \/ \E c \in Clients : Connect(c) \/ ClientSends(c)
  \/ \E s \in toServer : Accept(s)
  \/ \E s \in toClient : ClientReceives(s.client, s)
  \/ Sketch
Spec == Init /\ [][Next]_vars

(* The sketch answers, and a client that sends the same segment over and   *)
(* over gets it through.  On the way back nothing is lost for good.        *)
Heard(c) == \E s \in Outstanding(c) : s \in toServer /\ Accept(s)
Answered(c) == \E s \in toClient : ClientReceives(c, s)
FairSpec ==
  /\ Spec /\ WF_vars(Sketch)
  /\ \A c \in Clients :
       WF_vars(Connect(c)) /\ WF_vars(ClientSends(c)) /\ SF_vars(Heard(c)) /\ SF_vars(Answered(c))

-----------------------------------------------------------------------------
(* Whatever is lost, repeated or reordered, and however the clients'       *)
(* segments interleave, a client reads the page for what its user typed    *)
(* in, part by part from the first on, and all of it once it has ended.    *)
PageForTheRequest ==
  \A c \in Clients :
    LET got == client[c].got IN
    /\ Len(got) <= parts
    /\ \A n \in 1 .. Len(got) : got[n] = Page(Asked[c], n)
    /\ client[c].ended => Len(got) = parts

(* The server acknowledges no request that it has not handed to the       *)
(* sketch: what a client is told has arrived is a request packetLoop       *)
(* returned to the sketch, its SYN or its FIN.                             *)
Marks(c) ==
  {Plus(r.seq, 1) : r \in {q \in toServer : q.client = c /\ q.data = << >>
                                           /\ q.flags \intersect {"SYN", "FIN"} # {}}}
AckedWasHanded ==
  \A s \in toClient :
    [client |-> s.client, upto |-> s.ack] \in handed \/ s.ack \in Marks(s.client)

(* Every client that connects has its whole page and its connection closed *)
(* in the end.                                                             *)
EveryClientServed == \A c \in Clients : <>(client[c].state = "done")
=============================================================================
