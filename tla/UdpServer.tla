----------------------------- MODULE UdpServer -----------------------------
(***************************************************************************)
(* The UDP server of udpserver.cpp: a fixed table of listeners, and the    *)
(* loop that offers a received packet to each of them.  The loop compares  *)
(* with the destination port in gPB, the one buffer for receiving and      *)
(* sending, while the callbacks it calls may register, pause and resume    *)
(* listeners and send packets of their own out of the same buffer.         *)
(***************************************************************************)
EXTENDS Naturals, Sequences

CONSTANTS
  Ports,
  MaxListeners,    \* UDPSERVER_MAXLISTENERS
  PortInBuffer     \* pause and resume are only called for the port in gPB

ASSUME UdpAssumption ==
  /\ MaxListeners \in Nat \ {0}
  /\ PortInBuffer \in BOOLEAN

VARIABLES
  listeners,       \* the first numListeners entries of the table
  dstPort, srcPort,\* the UDP ports in gPB
  overwritten,     \* a callback for the last packet built its own in gPB
  pc,              \* "idle", "loop" or "callback"
  i,               \* the loop's index while not idle
  packetPort,      \* the port the packet in the loop was sent to
  due,             \* entries on that port, listening ever since it came in
  called,          \* entries whose callback was called for it
  asked            \* entries the sketch last asked to pause

buffer == <<dstPort, srcPort, overwritten>>
loop == <<pc, i, packetPort, due, called>>
udpVars == <<listeners, buffer, loop, asked>>

Entries == 1 .. MaxListeners

UdpTypeOK ==
  /\ listeners \in Seq([port : Ports, listening : BOOLEAN])
  /\ Len(listeners) <= MaxListeners
  /\ dstPort \in Ports /\ srcPort \in Ports /\ packetPort \in Ports
  /\ overwritten \in BOOLEAN
  /\ pc \in {"idle", "loop", "callback"} /\ i \in 1 .. MaxListeners + 1
  /\ due \subseteq Entries /\ called \subseteq Entries /\ asked \subseteq Entries

UdpInit ==
  /\ listeners = << >> /\ dstPort \in Ports /\ srcPort \in Ports
  /\ overwritten = FALSE
  /\ pc = "idle" /\ i = 1 /\ packetPort = dstPort
  /\ due = {} /\ called = {} /\ asked = {}

On(port) == {k \in DOMAIN listeners : listeners[k].port = port}
Listening == {k \in DOMAIN listeners : listeners[k].listening}

-----------------------------------------------------------------------------
(* The sketch, from its loop or from a callback.                           *)
SketchRuns == pc \in {"idle", "callback"}

ListenOnPortOffByOne(port) ==
  /\ SketchRuns
  /\ listeners' = IF Len(listeners) <= MaxListeners
                  THEN Append(listeners, [port |-> port, listening |-> TRUE])
                  ELSE listeners
  /\ UNCHANGED <<buffer, loop, asked>>
ListenOnPort(port) ==
  /\ SketchRuns
  /\ listeners' = IF Len(listeners) < MaxListeners
                  THEN Append(listeners, [port |-> port, listening |-> TRUE])
                  ELSE listeners
  /\ UNCHANGED <<buffer, loop, asked>>

(* Pause and resume look at the port in gPB; their argument is not used.   *)
SetListeningUnconditional(flag) ==
  [k \in DOMAIN listeners |-> [listeners[k] EXCEPT !.listening = flag]]
SetListening(flag) ==
  [k \in DOMAIN listeners |->
     IF k \in On(dstPort) THEN [listeners[k] EXCEPT !.listening = flag]
     ELSE listeners[k]]

PauseListenOnPort(port) ==
  /\ SketchRuns /\ (PortInBuffer => port = dstPort)
  /\ listeners' = SetListening(FALSE)
  /\ asked' = asked \union On(port) /\ due' = due \ On(port)
  /\ UNCHANGED <<buffer, pc, i, packetPort, called>>

ResumeListenOnPort(port) ==
  /\ SketchRuns /\ (PortInBuffer => port = dstPort)
  /\ listeners' = SetListening(TRUE)
  /\ asked' = asked \ On(port)
  /\ UNCHANGED <<buffer, loop>>

(* A callback that answers with makeUdpReply or sends with sendUdp: both   *)
(* build their packet in gPB.                                              *)
CallbackReplies(sport) ==
  /\ pc = "callback" /\ overwritten' = TRUE
  /\ dstPort' = srcPort /\ srcPort' = sport
  /\ UNCHANGED <<listeners, loop, asked>>
CallbackSends(sport, dport) ==
  /\ pc = "callback" /\ overwritten' = TRUE
  /\ dstPort' = dport /\ srcPort' = sport
  /\ UNCHANGED <<listeners, loop, asked>>

-----------------------------------------------------------------------------
(* packetReceive brings in another frame: for the UDP server, or any other *)
(* whose bytes at the place of the ports may be anything.                  *)
OtherFrame ==
  /\ pc = "idle" /\ dstPort' \in Ports /\ srcPort' \in Ports
  /\ UNCHANGED <<listeners, overwritten, loop, asked>>

UdpPacket(sport, dport) ==
  /\ pc = "idle" /\ listeners # << >>  \* udpServerListening()
  /\ dstPort' = dport /\ srcPort' = sport /\ packetPort' = dport
  /\ overwritten' = FALSE
  /\ pc' = "loop" /\ i' = 1 /\ called' = {}
  /\ due' = On(dport) \intersect Listening
  /\ UNCHANGED <<listeners, asked>>

(* udpServerHasProcessedPacket: one turn of the loop, up to its callback.  *)
MatchesSource(k) == listeners[k].port = srcPort /\ k \in Listening
Matches(k) == k \in On(dstPort) /\ k \in Listening

CallListener ==
  /\ pc = "loop" /\ i <= Len(listeners) /\ Matches(i)
  /\ pc' = "callback" /\ called' = called \union {i}
  /\ UNCHANGED <<listeners, buffer, i, packetPort, due, asked>>
SkipListener ==
  /\ pc = "loop" /\ i <= Len(listeners) /\ ~Matches(i)
  /\ i' = i + 1
  /\ UNCHANGED <<listeners, buffer, pc, packetPort, due, called, asked>>
CallbackReturnsDone ==
  /\ pc = "callback" /\ pc' = "loop" /\ i' = Len(listeners) + 1
  /\ UNCHANGED <<listeners, buffer, packetPort, due, called, asked>>
CallbackReturns ==
  /\ pc = "callback" /\ pc' = "loop" /\ i' = i + 1
  /\ UNCHANGED <<listeners, buffer, packetPort, due, called, asked>>
PacketProcessed ==
  /\ pc = "loop" /\ i > Len(listeners)
  /\ pc' = "idle"
  /\ UNCHANGED <<listeners, buffer, i, packetPort, due, called, asked>>

Loop == CallListener \/ SkipListener \/ CallbackReturns \/ PacketProcessed
UdpNext ==
  \/ \E p \in Ports :
       \/ ListenOnPort(p) \/ PauseListenOnPort(p) \/ ResumeListenOnPort(p)
       \/ CallbackReplies(p) \/ \E d \in Ports : CallbackSends(p, d) \/ UdpPacket(p, d)
  \/ OtherFrame \/ Loop

UdpSpec == UdpInit /\ [][UdpNext]_udpVars

-----------------------------------------------------------------------------
(* A packet reaches every entry on its port that was listening when it     *)
(* came in, but for those that a callback paused in the meantime, as long  *)
(* as no callback has built a packet of its own over it.                   *)
AllListenersCalled ==
  pc = "loop" /\ i > Len(listeners) /\ ~overwritten => due \subseteq called

(* On the same condition a callback is called for packets sent to its own  *)
(* port, and no others.                                                    *)
CalledForOwnPort ==
  ~overwritten => \A k \in called : listeners[k].port = packetPort

(* Pausing a port stops its entries and resuming it starts them again,     *)
(* and no other entry is touched.                                          *)
ListeningAsAsked == Listening = DOMAIN listeners \ asked

=============================================================================
