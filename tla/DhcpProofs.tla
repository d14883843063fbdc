----------------------------- MODULE DhcpProofs -----------------------------
(***************************************************************************)
(* Proofs about Dhcp, for any number of boards and any timing.             *)
(***************************************************************************)
EXTENDS Dhcp, TLAPS

(* FilterRestored alone is not inductive: disableBroadcast(true) leaves    *)
(* BCEN alone when the sketch asked for broadcasts, which restores the     *)
(* sketch's choice only because BCEN cannot be off then.                   *)
AskedMeansOn == \A b \in Boards : broadcast_enabled[b] => bcen[b]
Flags ==
  /\ bcen \in [Boards -> BOOLEAN] /\ broadcast_enabled \in [Boards -> BOOLEAN]
  /\ dhcpState \in [Boards -> States]
FilterInv == Flags /\ AskedMeansOn /\ FilterRestored

(* Switching the filter for one board.                                     *)
LEMMA EnableKeeps ==
  ASSUME Flags, NEW b \in Boards, NEW temporary \in BOOLEAN,
         EnableBroadcast(b, temporary)
  PROVE  /\ bcen' = [bcen EXCEPT ![b] = TRUE] /\ bcen' \in [Boards -> BOOLEAN]
         /\ broadcast_enabled' \in [Boards -> BOOLEAN]
         /\ broadcast_enabled'[b] = (broadcast_enabled[b] \/ ~temporary)
         /\ \A d \in Boards \ {b} : broadcast_enabled'[d] = broadcast_enabled[d]
BY DEF Flags, EnableBroadcast

(* disableBroadcast: the same for switching off, for good or for now.      *)
LEMMA DisableKeeps ==
  ASSUME Flags, NEW b \in Boards, NEW temporary \in BOOLEAN,
         DisableBroadcast(b, temporary)
  PROVE  /\ bcen' \in [Boards -> BOOLEAN] /\ broadcast_enabled' \in [Boards -> BOOLEAN]
         /\ broadcast_enabled'[b] = (broadcast_enabled[b] /\ temporary)
         /\ bcen'[b] = (bcen[b] /\ broadcast_enabled'[b])
         /\ \A d \in Boards \ {b} : /\ broadcast_enabled'[d] = broadcast_enabled[d]
                                    /\ bcen'[d] = bcen[d]
BY DEF Flags, DisableBroadcast

(* No board is bound at first.                                             *)
LEMMA FilterInit == Init => FilterInv
BY DEF Init, FilterInv, Flags, AskedMeansOn, FilterRestored, States

(* The boards of the network are boards, and stay the same.                *)
Network == sketch.boards \subseteq Boards
LEMMA NetworkFixed == Spec => []Network
<1>1. Init => Network
  BY DhcpAssumption DEF Init, Network
<1>2. [Next]_vars => UNCHANGED sketch
  BY DEF Next, vars, Board, Server, Discover, ProcessOffer, ProcessAck, RequestTimeout,
         Renew, SetupReturns, SetupAgain, SketchTogglesBroadcast, ServerOffers,
         ServerGrants, Lose, Tick, setup, boardvars
<1>3. Network /\ [Next]_vars => Network'
  BY <1>2 DEF Network
<1> QED BY <1>1, <1>3, PTL DEF Spec

(* Every step leaves a bound board's filter as its sketch asked for.       *)
LEMMA FilterStep == Network /\ FilterInv /\ [Next]_vars => FilterInv'
<1> SUFFICES ASSUME Network, Flags, AskedMeansOn, FilterRestored, [Next]_vars
             PROVE  FilterInv'
  BY DEF FilterInv
<1> USE DEF FilterInv
<1>1. ASSUME NEW b \in Boards, Discover(b) PROVE FilterInv'
  <2>1. /\ dhcpState' = [dhcpState EXCEPT ![b] = "SELECTING"]
        /\ EnableBroadcast(b, TRUE)
    BY <1>1 DEF Discover, Goto
  <2>2. Flags'
    BY <2>1, EnableKeeps DEF Flags, States
  <2> QED BY <2>1, <2>2, EnableKeeps DEF Flags, AskedMeansOn, FilterRestored
<1>2. ASSUME NEW b \in Boards, NEW m \in wire, ProcessAck(b, m) PROVE FilterInv'
  <2>1. /\ dhcpState' = [dhcpState EXCEPT ![b] = "BOUND"]
        /\ DisableBroadcast(b, TRUE)
    BY <1>2 DEF ProcessAck, Goto
  <2>2. Flags'
    BY <2>1, DisableKeeps DEF Flags, States
  <2> QED BY <2>1, <2>2, DisableKeeps DEF Flags, AskedMeansOn, FilterRestored
<1>3. ASSUME NEW b \in Boards, SketchTogglesBroadcast(b) PROVE FilterInv'
  <2>1. dhcpState' = dhcpState
    BY <1>3 DEF SketchTogglesBroadcast
  <2>2. CASE EnableBroadcast(b, FALSE)
    <3>1. Flags'
      BY <2>1, <2>2, EnableKeeps DEF Flags
    <3> QED BY <2>1, <2>2, <3>1, EnableKeeps DEF Flags, AskedMeansOn, FilterRestored
  <2>3. CASE DisableBroadcast(b, FALSE)
    <3>1. Flags'
      BY <2>1, <2>3, DisableKeeps DEF Flags
    <3> QED BY <2>1, <2>3, <3>1, DisableKeeps DEF Flags, AskedMeansOn, FilterRestored
  <2> QED BY <1>3, <2>2, <2>3 DEF SketchTogglesBroadcast
<1>4. ASSUME UNCHANGED filter, NEW b \in Boards,
             \E s \in {"INIT", "REQUESTING"} : dhcpState' = [dhcpState EXCEPT ![b] = s]
      PROVE  FilterInv'
  BY <1>4 DEF filter, Flags, AskedMeansOn, FilterRestored, States
<1>5. ASSUME NEW b \in Boards, Renew(b) PROVE FilterInv'
  BY <1>5 DEF Renew, Goto, filter, Flags, AskedMeansOn, FilterRestored, States
<1>6. CASE UNCHANGED <<filter, dhcpState>>
  BY <1>6 DEF filter, Flags, AskedMeansOn, FilterRestored
<1>7. ASSUME NEW b \in Boards, NEW m \in wire, ProcessOffer(b, m) PROVE FilterInv'
  BY <1>4, <1>7 DEF ProcessOffer, Goto
<1>8. ASSUME NEW b \in Boards, RequestTimeout(b) \/ SetupAgain(b) PROVE FilterInv'
  BY <1>4, <1>8 DEF RequestTimeout, SetupAgain, Goto
<1>9. ASSUME NEW b \in Boards, SetupReturns(b) PROVE FilterInv'
  BY <1>6, <1>9 DEF SetupReturns
<1>10. CASE Server \/ Tick \/ (\E m \in wire : Lose(m)) \/ UNCHANGED vars
  BY <1>6, <1>10 DEF Server, ServerGrants, ServerOffers, Tick, Lose, vars, boardvars
<1> QED BY <1>1, <1>2, <1>3, <1>5, <1>7, <1>8, <1>9, <1>10 DEF Next, Board, Network

(* The temporary enableBroadcast and disableBroadcast of DhcpStateMachine  *)
(* leave the reception of broadcasts as the sketch last asked for, however *)
(* requests time out and the sketch changes its mind in between.           *)
THEOREM FilterAsAsked == Spec => []FilterRestored
<1>1. FilterInv => FilterRestored
  BY DEF FilterInv
<1> QED BY NetworkFixed, FilterInit, FilterStep, <1>1, PTL DEF Spec

-----------------------------------------------------------------------------
(* A board outside the network never starts.                               *)
Outside == \A b \in Boards \ sketch.boards : dhcpState[b] = "INIT" /\ myip[b] = NoIp
TypeInv == TypeOK /\ Network /\ Outside

(* What Goto does, board by board.                                         *)
LEMMA GotoDoes ==
  ASSUME TypeOK, NEW b \in Boards, NEW state \in States, Goto(b, state)
  PROVE  /\ dhcpState' \in [Boards -> States]
         /\ stateAge' \in [Boards -> 0 .. Timeout + 1]
         /\ dhcpState'[b] = state /\ stateAge'[b] = 0
         /\ \A d \in Boards \ {b} : /\ dhcpState'[d] = dhcpState[d]
                                    /\ stateAge'[d] = stateAge[d]
<1>1. 0 \in 0 .. Timeout + 1
  BY DhcpAssumption
<1> QED BY <1>1 DEF TypeOK, Goto

(* What is sent is a message.                                              *)
LEMMA MessageType ==
  ASSUME NEW b \in Boards, NEW type \in {"DISCOVER", "OFFER", "REQUEST", "ACK"},
         NEW xid \in Xids, NEW ip \in Ips
  PROVE  /\ DhcpMessage(b, type, xid, ip) \in Messages
         /\ DhcpMessage(b, type, xid, ip).type = type
         /\ DhcpMessage(b, type, xid, ip).board = b
         /\ DhcpMessage(b, type, xid, ip).xid = xid
         /\ DhcpMessage(b, type, xid, ip).ip = ip
<1>1. (dhcpState[b] = "BOUND") \in BOOLEAN /\ (ip # NoIp) \in BOOLEAN
  OBVIOUS
<1> QED BY <1>1 DEF DhcpMessage, Messages

(* What the server makes of a message: the board's message with another    *)
(* type and, in an offer, an address.                                      *)
LEMMA AnswerType ==
  ASSUME NEW m \in Messages, NEW a \in Addrs
  PROVE  /\ [m EXCEPT !.type = "OFFER", !.ip = a] \in Messages
         /\ [m EXCEPT !.type = "OFFER", !.ip = a].type = "OFFER"
         /\ [m EXCEPT !.type = "OFFER", !.ip = a].ip = a
         /\ [m EXCEPT !.type = "OFFER", !.ip = a].board = m.board
         /\ [m EXCEPT !.type = "OFFER", !.ip = a].xid = m.xid
         /\ [m EXCEPT !.type = "ACK"] \in Messages
         /\ [m EXCEPT !.type = "ACK"].type = "ACK"
         /\ [m EXCEPT !.type = "ACK"].ip = m.ip
         /\ [m EXCEPT !.type = "ACK"].board = m.board
         /\ [m EXCEPT !.type = "ACK"].xid = m.xid
BY DEF Messages, Ips

(* A tick, board by board and address by address: no timer passes its      *)
(* bound, because a tick waits for every board whose timer is due.         *)
LEMMA TickDoes ==
  ASSUME TypeInv, Tick
  PROVE  /\ stateAge' \in [Boards -> 0 .. Timeout + 1]
         /\ leaseAge' \in [Boards -> 0 .. RenewAfter]
         /\ left' \in [Addrs -> 0 .. Lease]
         /\ owner' \in [Addrs -> Boards \union {Nobody}]
         /\ \A b \in Boards : dhcpState[b] \notin {"INIT", "BOUND"} =>
              stateAge'[b] = stateAge[b] + 1
         /\ \A b \in Boards : dhcpState[b] = "BOUND" => leaseAge'[b] = leaseAge[b] + 1
         /\ \A b \in Boards : dhcpState[b] = "INIT" => myip[b] = NoIp
         /\ \A a \in Addrs : left[a] > 1 => left'[a] = left[a] - 1 /\ owner'[a] = owner[a]
<1> USE DhcpAssumption
<1>1. Timeout \in Nat /\ RenewAfter \in Nat /\ Lease \in Nat /\ RenewAfter > 0
  OBVIOUS
<1>2. ASSUME NEW b \in Boards
      PROVE  /\ (IF dhcpState[b] \in {"INIT", "BOUND"} THEN 0 ELSE StateElapsed(b))
                  \in 0 .. Timeout + 1
             /\ dhcpState[b] \notin {"INIT", "BOUND"} => StateElapsed(b) = stateAge[b] + 1
             /\ (IF dhcpState[b] = "BOUND" THEN Older(leaseAge[b], RenewAfter)
                 ELSE leaseAge[b]) \in 0 .. RenewAfter
             /\ dhcpState[b] = "BOUND" => Older(leaseAge[b], RenewAfter) = leaseAge[b] + 1
             /\ dhcpState[b] = "INIT" => myip[b] = NoIp
  <2>1. stateAge[b] \in 0 .. Timeout + 1 /\ leaseAge[b] \in 0 .. RenewAfter
        /\ dhcpState[b] \in States
    BY DEF TypeInv, TypeOK
  <2>2. CASE b \in sketch.boards
    <3>1. ~Due(b)
      BY <2>2 DEF Tick
    <3>2. dhcpState[b] # "INIT"
      BY <3>1 DEF Due
    <3>3. dhcpState[b] = "BOUND" => leaseAge[b] < RenewAfter
      BY <1>1, <2>1, <3>1 DEF Due, RenewalDue
    <3>4. dhcpState[b] # "BOUND" => stateAge[b] <= Timeout
      BY <1>1, <2>1, <3>1, <3>2 DEF Due, Expired
    <3> QED BY <1>1, <2>1, <3>2, <3>3, <3>4 DEF StateElapsed, Older
  <2>3. CASE b \notin sketch.boards
    BY <1>1, <2>1, <2>3 DEF TypeInv, Outside
  <2> QED BY <2>2, <2>3
<1>3. stateAge' = [b \in Boards |-> IF dhcpState[b] \in {"INIT", "BOUND"} THEN 0
                                    ELSE StateElapsed(b)]
  BY DEF Tick
<1>4. leaseAge' = [b \in Boards |-> IF dhcpState[b] = "BOUND"
                                    THEN Older(leaseAge[b], RenewAfter) ELSE leaseAge[b]]
  BY DEF Tick
<1>5. /\ left' = [a \in Addrs |-> IF left[a] > 0 THEN left[a] - 1 ELSE 0]
      /\ owner' = [a \in Addrs |-> IF left'[a] = 0 THEN Nobody ELSE owner[a]]
      /\ left \in [Addrs -> 0 .. Lease] /\ owner \in [Addrs -> Boards \union {Nobody}]
  BY DEF Tick, TypeInv, TypeOK
<1>6. left' \in [Addrs -> 0 .. Lease] /\ owner' \in [Addrs -> Boards \union {Nobody}]
  BY <1>1, <1>5
<1>7. \A a \in Addrs : left[a] > 1 => left'[a] = left[a] - 1 /\ owner'[a] = owner[a]
  BY <1>1, <1>5
<1> HIDE DEF StateElapsed, Older
<1>8. stateAge' \in [Boards -> 0 .. Timeout + 1] /\ leaseAge' \in [Boards -> 0 .. RenewAfter]
  BY <1>2, <1>3, <1>4
<1>9. \A b \in Boards :
        /\ dhcpState[b] \notin {"INIT", "BOUND"} => stateAge'[b] = stateAge[b] + 1
        /\ dhcpState[b] = "BOUND" => leaseAge'[b] = leaseAge[b] + 1
        /\ dhcpState[b] = "INIT" => myip[b] = NoIp
  BY <1>2, <1>3, <1>4
<1> QED BY <1>6, <1>7, <1>8, <1>9

(* The types hold at power-up.                                             *)
LEMMA TypeInit == Init => TypeInv
<1> SUFFICES ASSUME Init PROVE TypeInv
  OBVIOUS
<1>1. 0 \in 0 .. Timeout + 1 /\ 0 \in 0 .. RenewAfter /\ 0 \in 0 .. Lease
  BY DhcpAssumption
<1>2. (CHOOSE x \in Xids : TRUE) \in Xids
  BY DhcpAssumption
<1>3. "INIT" \in States /\ NoIp \in Ips
  BY DEF States, Ips
<1> QED BY <1>1, <1>2, <1>3, DhcpAssumption DEF Init, TypeInv, TypeOK, Network, Outside

(* Every step keeps the types.                                             *)
LEMMA TypeStep == TypeInv /\ [Next]_vars => TypeInv'
<1> SUFFICES ASSUME TypeInv, [Next]_vars PROVE TypeInv'
  OBVIOUS
<1>1. TypeOK /\ Network /\ Outside /\ Flags
  BY DEF TypeInv, TypeOK, Flags
<1>2. ASSUME NEW b \in sketch.boards PROVE b \in Boards
  BY <1>1 DEF Network
<1>3. ASSUME NEW m \in wire PROVE m \in Messages
  BY <1>1 DEF TypeOK
<1>4. {"INIT", "SELECTING", "REQUESTING", "BOUND", "RENEWING"} \subseteq States
  BY DEF States
<1>5. ASSUME NEW b \in sketch.boards, Discover(b) PROVE TypeInv'
  <2>1. PICK x \in Xids : /\ currentXid' = [currentXid EXCEPT ![b] = x]
                          /\ wire' = AfterInit(b) \union {DhcpMessage(b, "DISCOVER", x, NoIp)}
    BY <1>5 DEF Discover
  <2>2. wire' \subseteq Messages
    BY <1>2, <1>3, <2>1, MessageType DEF AfterInit, Ips
  <2>3. currentXid' \in [Boards -> Xids] /\ myip' \in [Boards -> Ips]
        /\ \A d \in Boards \ {b} : myip'[d] = myip[d]
    BY <1>1, <1>5, <2>1 DEF Discover, TypeOK, Ips
  <2>4. Goto(b, "SELECTING") /\ EnableBroadcast(b, TRUE)
        /\ UNCHANGED <<leaseAge, setup, server>>
    BY <1>5 DEF Discover
  <2>5. bcen' \in [Boards -> BOOLEAN] /\ broadcast_enabled' \in [Boards -> BOOLEAN]
    BY <1>1, <1>2, <2>4, EnableKeeps
  <2> QED BY <1>1, <1>2, <1>4, <2>2, <2>3, <2>4, <2>5, GotoDoes
          DEF TypeInv, TypeOK, Network, Outside, setup, server
<1>6. ASSUME NEW b \in sketch.boards, NEW m \in wire, ProcessOffer(b, m) PROVE TypeInv'
  <2>1. wire' \subseteq Messages
    <3>1. m.ip \in Ips /\ currentXid[b] \in Xids
      BY <1>1, <1>2, <1>3 DEF Messages, TypeOK
    <3>2. DhcpMessage(b, "REQUEST", currentXid[b], m.ip) \in Messages
      BY <1>2, <3>1, MessageType
    <3> QED BY <1>3, <1>6, <3>2 DEF ProcessOffer
  <2>2. Goto(b, "REQUESTING") /\ UNCHANGED <<currentXid, myip, leaseAge, filter, setup, server>>
    BY <1>6 DEF ProcessOffer
  <2> QED BY <1>1, <1>2, <1>4, <2>1, <2>2, GotoDoes
          DEF TypeInv, TypeOK, Network, Outside, setup, server, filter
<1>7. ASSUME NEW b \in sketch.boards, NEW m \in wire, ProcessAck(b, m) PROVE TypeInv'
  <2>1. wire' \subseteq Messages /\ myip' \in [Boards -> Ips]
        /\ \A d \in Boards \ {b} : myip'[d] = myip[d]
    BY <1>1, <1>3, <1>7 DEF ProcessAck, TypeOK, Messages
  <2>2. leaseAge' \in [Boards -> 0 .. RenewAfter]
    <3>1. 0 \in 0 .. RenewAfter
      BY DhcpAssumption
    <3> QED BY <1>1, <1>7, <3>1 DEF ProcessAck, TypeOK
  <2>3. Goto(b, "BOUND") /\ DisableBroadcast(b, TRUE) /\ UNCHANGED <<currentXid, setup, server>>
    BY <1>7 DEF ProcessAck
  <2>4. bcen' \in [Boards -> BOOLEAN] /\ broadcast_enabled' \in [Boards -> BOOLEAN]
    BY <1>1, <1>2, <2>3, DisableKeeps
  <2> QED BY <1>1, <1>2, <1>4, <2>1, <2>2, <2>3, <2>4, GotoDoes
          DEF TypeInv, TypeOK, Network, Outside, setup, server
<1>8. ASSUME NEW b \in sketch.boards, RequestTimeout(b) PROVE TypeInv'
  BY <1>1, <1>2, <1>4, <1>8, GotoDoes
  DEF RequestTimeout, TypeInv, TypeOK, Network, Outside, setup, server, filter
<1>9. ASSUME NEW b \in sketch.boards, Renew(b) PROVE TypeInv'
  <2>1. wire' \subseteq Messages
    <3>1. myip[b] \in Ips /\ currentXid[b] \in Xids
      BY <1>1, <1>2 DEF TypeOK
    <3>2. DhcpMessage(b, "REQUEST", currentXid[b], myip[b]) \in Messages
      BY <1>2, <3>1, MessageType
    <3> QED BY <1>3, <1>9, <3>2 DEF Renew
  <2>2. leaseAge' \in [Boards -> 0 .. RenewAfter]
    <3>1. 0 \in 0 .. RenewAfter
      BY DhcpAssumption
    <3> QED BY <1>1, <1>9, <3>1 DEF Renew, TypeOK
  <2>3. Goto(b, "RENEWING") /\ UNCHANGED <<currentXid, myip, filter, setup, server>>
    BY <1>9 DEF Renew
  <2> QED BY <1>1, <1>2, <1>4, <2>1, <2>2, <2>3, GotoDoes
          DEF TypeInv, TypeOK, Network, Outside, setup, server, filter
<1>10. ASSUME NEW b \in sketch.boards, SetupReturns(b) PROVE TypeInv'
  BY <1>1, <1>2, <1>10
  DEF SetupReturns, TypeInv, TypeOK, Network, Outside, server, filter
<1>11. ASSUME NEW b \in sketch.boards, SetupAgain(b) PROVE TypeInv'
  BY <1>1, <1>2, <1>4, <1>11
  DEF SetupAgain, TypeInv, TypeOK, Network, Outside, server, filter
<1>12. ASSUME NEW b \in sketch.boards, SketchTogglesBroadcast(b) PROVE TypeInv'
  <2>1. bcen' \in [Boards -> BOOLEAN] /\ broadcast_enabled' \in [Boards -> BOOLEAN]
    BY <1>1, <1>2, <1>12, EnableKeeps, DisableKeeps DEF SketchTogglesBroadcast
  <2> QED BY <1>1, <1>12, <2>1
          DEF SketchTogglesBroadcast, TypeInv, TypeOK, Network, Outside, setup, server
<1>13. ASSUME NEW m \in wire, NEW a \in Addrs, ServerOffers(m, a) PROVE TypeInv'
  <2>1. wire' \subseteq Messages
    <3>1. [m EXCEPT !.type = "OFFER", !.ip = a] \in Messages
      BY <1>3, AnswerType
    <3> QED BY <1>3, <1>13, <3>1 DEF ServerOffers
  <2> QED BY <1>1, <1>13, <2>1
          DEF ServerOffers, TypeInv, TypeOK, Network, Outside, setup, server, filter, boardvars
<1>14. ASSUME NEW m \in wire, ServerGrants(m) PROVE TypeInv'
  <2>1. wire' \subseteq Messages /\ m.board \in Boards
    <3>1. [m EXCEPT !.type = "ACK"] \in Messages /\ m.board \in Boards
      BY <1>3 DEF Messages
    <3> QED BY <1>3, <1>14, <3>1 DEF ServerGrants
  <2>2. owner' \in [Addrs -> Boards \union {Nobody}]
    BY <1>1, <1>14, <2>1 DEF ServerGrants, TypeOK
  <2>3. left' \in [Addrs -> 0 .. Lease]
    <3>1. Lease \in 0 .. Lease
      BY DhcpAssumption
    <3> QED BY <1>1, <1>14, <3>1 DEF ServerGrants, TypeOK
  <2> QED BY <1>1, <1>14, <2>1, <2>2, <2>3
          DEF ServerGrants, TypeInv, TypeOK, Network, Outside, setup, filter, boardvars
<1>15. ASSUME NEW m \in wire, Lose(m) PROVE TypeInv'
  BY <1>1, <1>15 DEF Lose, TypeInv, TypeOK, Network, Outside, setup, server, filter, boardvars
<1>16. CASE Tick
  BY <1>1, <1>16, TickDoes DEF Tick, TypeInv, TypeOK, Network, Outside, setup, filter
<1>17. CASE UNCHANGED vars
  BY <1>1, <1>17 DEF vars, TypeInv, TypeOK, Network, Outside, setup, server, filter
<1> QED BY <1>5, <1>6, <1>7, <1>8, <1>9, <1>10, <1>11, <1>12, <1>13, <1>14, <1>15, <1>16, <1>17
        DEF Next, Board, Server

(* Every variable stays within its type; the two timers stay within their  *)
(* bounds, so the counters of the model lose nothing of the time that      *)
(* DhcpStateMachine compares.                                              *)
THEOREM TypeCorrect == Spec => []TypeOK
<1>1. TypeInv => TypeOK
  BY DEF TypeInv
<1> QED BY TypeInit, TypeStep, <1>1, PTL DEF Spec

-----------------------------------------------------------------------------
(* A board that waits for an offer or an acknowledgement has switched      *)
(* broadcasts on (DhcpStateMachine, DHCP_STATE_INIT), and nothing the      *)
(* other boards, the server or its own timeouts do switches them off while *)
(* it waits: only a sketch that calls disableBroadcast itself can.         *)
THEOREM WaitingBoardHears == Spec => []WaitingHears
<1> DEFINE IInv == Network /\ Flags /\ WaitingHears
<1>1. Init => IInv
  BY FilterInit, DhcpAssumption DEF FilterInv, Flags, Network, Init, WaitingHears
<1>2. IInv /\ FilterInv /\ [Next]_vars => IInv'
  <2> SUFFICES ASSUME IInv, FilterInv, [Next]_vars PROVE IInv'
    OBVIOUS
  <2>1. Flags' /\ UNCHANGED sketch /\ Network'
    <3>1. UNCHANGED sketch
      BY DEF Next, vars, Board, Server, Discover, ProcessOffer, ProcessAck, RequestTimeout,
             Renew, SetupReturns, SetupAgain, SketchTogglesBroadcast, ServerOffers,
             ServerGrants, Lose, Tick, setup, boardvars
    <3> QED BY <3>1, FilterStep DEF Network, FilterInv
  <2> SUFFICES ASSUME sketch.does # "toggles", NEW d \in Boards,
                      dhcpState'[d] \in {"SELECTING", "REQUESTING"}
               PROVE  bcen'[d]
    BY <2>1 DEF WaitingHears
  <2>2. dhcpState[d] \in {"SELECTING", "REQUESTING"} => bcen[d]
    BY DEF WaitingHears
  <2>3. ASSUME NEW b \in Boards, Discover(b) PROVE bcen'[d]
    <3>1. /\ dhcpState' = [dhcpState EXCEPT ![b] = "SELECTING"]
          /\ bcen' = [bcen EXCEPT ![b] = TRUE]
      BY <2>3 DEF Discover, Goto, EnableBroadcast
    <3> QED BY <2>2, <3>1 DEF Flags
  <2>4. ASSUME NEW b \in Boards, NEW m \in wire, ProcessAck(b, m) PROVE bcen'[d]
    <3>1. dhcpState' = [dhcpState EXCEPT ![b] = "BOUND"] /\ DisableBroadcast(b, TRUE)
      BY <2>4 DEF ProcessAck, Goto
    <3>2. d # b /\ dhcpState'[d] = dhcpState[d]
      BY <3>1 DEF Flags
    <3> QED BY <2>2, <3>1, <3>2, DisableKeeps
  <2>5. ASSUME NEW b \in Boards, UNCHANGED bcen,
               dhcpState' = [dhcpState EXCEPT ![b] = "INIT"] \/
               dhcpState' = [dhcpState EXCEPT ![b] = "RENEWING"] \/ UNCHANGED dhcpState
        PROVE  bcen'[d]
    BY <2>2, <2>5 DEF Flags
  <2>6. ASSUME NEW b \in Boards, NEW m \in wire, ProcessOffer(b, m) PROVE bcen'[d]
    <3>1. /\ dhcpState' = [dhcpState EXCEPT ![b] = "REQUESTING"] /\ UNCHANGED bcen
          /\ dhcpState[b] = "SELECTING"
      BY <2>6 DEF ProcessOffer, Goto, filter
    <3> QED BY <2>2, <3>1 DEF Flags
  <2>7. ASSUME NEW b \in Boards, RequestTimeout(b) \/ Renew(b) \/ SetupAgain(b) \/ SetupReturns(b)
        PROVE  bcen'[d]
    BY <2>5, <2>7 DEF RequestTimeout, Renew, SetupAgain, SetupReturns, Goto, filter
  <2>8. CASE UNCHANGED <<bcen, dhcpState>>
    BY <2>2, <2>8
  <2>9. CASE Server \/ Tick \/ (\E m \in wire : Lose(m)) \/ UNCHANGED vars
    BY <2>8, <2>9 DEF Server, ServerGrants, ServerOffers, Tick, Lose, vars, boardvars, filter
  <2> QED BY <2>3, <2>4, <2>6, <2>7, <2>9 DEF Next, Board, Network, SketchTogglesBroadcast
<1> QED BY NetworkFixed, FilterInit, FilterStep, <1>1, <1>2, PTL DEF Spec

-----------------------------------------------------------------------------
(* A board and the server talk under one xid at a time, and no other board *)
(* uses it meanwhile.                                                      *)
Active(b) == dhcpState[b] # "INIT"
OwnXid ==
  \A b, d \in Boards : b # d /\ Active(b) /\ Active(d) => currentXid[b] # currentXid[d]

(* What is under way under the board's xid: one message of its own at      *)
(* most, which fits its state.                                             *)
Fits(state, type) ==
  \/ state = "SELECTING" /\ type \in {"DISCOVER", "OFFER"}
  \/ state \in {"REQUESTING", "RENEWING"} /\ type \in {"REQUEST", "ACK"}
Talk(b) ==
  Active(b) =>
    \A m \in wire : m.xid = currentXid[b] =>
      /\ m.board = b /\ Fits(dhcpState[b], m.type)
      /\ \A n \in wire : n.xid = currentXid[b] => n = m

(* Every address on the wire and every lease is one the server has.        *)
Addressed ==
  /\ \A m \in wire : m.type # "DISCOVER" => m.ip \in Addrs
  /\ \A b \in Boards : dhcpState[b] \in {"BOUND", "RENEWING"} => myip[b] \in Addrs
  /\ \A b \in Boards : dhcpState[b] \in {"SELECTING", "REQUESTING"} => myip[b] = NoIp
TalkInv == TypeInv /\ OwnXid /\ (\A b \in Boards : Talk(b)) /\ Addressed

(* The server's clock for the lease runs with the board's: the lease of an *)
(* acknowledgement under way is no older than the request it answers, the  *)
(* lease of the address in use no older than the board's timers say.       *)
Granted(b) ==
  dhcpState[b] \in {"REQUESTING", "RENEWING"} =>
    \A m \in wire : m.xid = currentXid[b] /\ m.type = "ACK" =>
      owner[m.ip] = b /\ left[m.ip] + stateAge[b] >= Lease
Covered(b) ==
  /\ dhcpState[b] = "INIT" /\ myip[b] # NoIp => owner[myip[b]] = b
  /\ dhcpState[b] = "BOUND" =>
       /\ owner[myip[b]] = b
       /\ left[myip[b]] + leaseAge[b] + Timeout + 1 >= Lease
  /\ dhcpState[b] = "RENEWING" =>
       /\ owner[myip[b]] = b
       /\ left[myip[b]] + stateAge[b] + RenewAfter + Timeout + 1 >= Lease
LeaseInv == TalkInv /\ \A b \in Boards : Granted(b) /\ Covered(b)

(* At power-up no address is in use.                                       *)
LEMMA LeaseInit == Init => LeaseInv
<1> SUFFICES ASSUME Init PROVE LeaseInv
  OBVIOUS
<1>1. wire = {} /\ \A b \in Boards : dhcpState[b] = "INIT" /\ myip[b] = NoIp
  BY DEF Init
<1>2. OwnXid /\ (\A b \in Boards : Talk(b) /\ Granted(b) /\ Covered(b)) /\ Addressed
  BY <1>1 DEF OwnXid, Talk, Granted, Covered, Addressed, Active
<1> QED BY <1>2, TypeInit DEF LeaseInv, TalkInv

(* What each action of a board does to the state, the xid and the wire.    *)
LEMMA DiscoverDoes ==
  ASSUME TypeInv, UniqueXids, NEW b \in Boards, Discover(b)
  PROVE  /\ dhcpState[b] = "INIT" /\ dhcpState'[b] = "SELECTING" /\ myip'[b] = NoIp
         /\ UNCHANGED <<owner, left, leaseAge>>
         /\ \A d \in Boards \ {b} :
              /\ dhcpState'[d] = dhcpState[d] /\ currentXid'[d] = currentXid[d]
              /\ myip'[d] = myip[d] /\ stateAge'[d] = stateAge[d]
         /\ \E new : /\ \A m \in wire' : m \in wire \/ m = new
                     /\ \A m \in wire' : m # new => m.xid # currentXid'[b]
                     /\ new.board = b /\ new.type = "DISCOVER" /\ new.xid = currentXid'[b]
                     /\ new \in wire'
         /\ \A d \in Boards \ {b} : Active(d) => currentXid[d] # currentXid'[b]
<1>1. PICK x \in Xids : /\ x \notin Taken(b)
                        /\ currentXid' = [currentXid EXCEPT ![b] = x]
                        /\ wire' = AfterInit(b) \union {DhcpMessage(b, "DISCOVER", x, NoIp)}
  BY DEF Discover
<1>2. currentXid'[b] = x /\ \A d \in Boards \ {b} : currentXid'[d] = currentXid[d]
  BY <1>1 DEF TypeInv, TypeOK
<1>3. Goto(b, "SELECTING") /\ dhcpState[b] = "INIT" /\ myip' = [myip EXCEPT ![b] = NoIp]
  BY DEF Discover
<1>4. /\ dhcpState'[b] = "SELECTING"
      /\ \A d \in Boards \ {b} : dhcpState'[d] = dhcpState[d] /\ stateAge'[d] = stateAge[d]
  BY <1>3, GotoDoes DEF TypeInv, States
<1>5. myip'[b] = NoIp /\ \A d \in Boards \ {b} : myip'[d] = myip[d]
  BY <1>3 DEF TypeInv, TypeOK
<1>6. \A m \in AfterInit(b) : m \in wire /\ m.xid # x
  BY <1>1 DEF Taken, AfterInit
<1>7. \A d \in Boards \ {b} : Active(d) => currentXid[d] # x
  BY <1>1 DEF Taken, Active
<1> DEFINE new == DhcpMessage(b, "DISCOVER", x, NoIp)
<1>8. new.board = b /\ new.type = "DISCOVER" /\ new.xid = x
  BY MessageType DEF Ips
<1> HIDE DEF new
<1>9. new \in wire' /\ \A m \in wire' : m \in AfterInit(b) \/ m = new
  BY <1>1 DEF new
<1>10. UNCHANGED <<owner, left, leaseAge>>
  BY DEF Discover, server
<1> QED BY <1>2, <1>3, <1>4, <1>5, <1>6, <1>7, <1>8, <1>9, <1>10

(* A request goes out: the answer to an offer, or a renewal.               *)
Requests(b) == Renew(b) \/ \E m \in wire : ProcessOffer(b, m)
RequestDone(b) ==
  /\ Active(b) /\ dhcpState'[b] \in {"REQUESTING", "RENEWING"} /\ stateAge'[b] = 0
  /\ UNCHANGED <<currentXid, myip, owner, left>>
  /\ dhcpState'[b] = "REQUESTING" => dhcpState[b] = "SELECTING"
  /\ dhcpState'[b] = "RENEWING" => dhcpState[b] = "BOUND" /\ leaseAge[b] <= RenewAfter
  /\ \A d \in Boards \ {b} : /\ dhcpState'[d] = dhcpState[d] /\ stateAge'[d] = stateAge[d]
                             /\ leaseAge'[d] = leaseAge[d]
  /\ \E new : /\ \A m \in wire' : m \in wire \/ m = new
              /\ \A m \in wire' : m # new => m.xid # currentXid[b]
              /\ new.board = b /\ new.type = "REQUEST" /\ new.xid = currentXid[b]
              /\ new.ip \in Addrs
LEMMA RequestDoes ==
  ASSUME TalkInv, NEW b \in Boards, Requests(b) PROVE RequestDone(b)
<1> USE DEF RequestDone
<1>1. TypeInv /\ TypeOK /\ Talk(b) /\ Addressed /\ currentXid[b] \in Xids
  BY DEF TalkInv, TypeInv, TypeOK
<1>2. ASSUME NEW n \in wire, ProcessOffer(b, n)
      PROVE  RequestDone(b)
  <2> DEFINE new == DhcpMessage(b, "REQUEST", currentXid[b], n.ip)
  <2>1. n.ip \in Addrs /\ n.xid = currentXid[b]
    BY <1>1, <1>2 DEF ProcessOffer, Received, Addressed
  <2>2. new.board = b /\ new.type = "REQUEST" /\ new.xid = currentXid[b] /\ new.ip \in Addrs
    BY <1>1, <2>1, MessageType DEF Ips
  <2>3. dhcpState[b] = "SELECTING" /\ wire' = (wire \ {n}) \union {new}
    BY <1>2 DEF ProcessOffer
  <2>4. \A m \in wire : m.xid = currentXid[b] => m = n
    BY <1>1, <1>2, <2>1, <2>3 DEF Talk, Active
  <2>5. Goto(b, "REQUESTING") /\ UNCHANGED <<currentXid, myip, leaseAge, owner, left>>
    BY <1>2 DEF ProcessOffer, server
  <2>6. /\ dhcpState'[b] = "REQUESTING" /\ stateAge'[b] = 0
        /\ \A d \in Boards \ {b} : dhcpState'[d] = dhcpState[d] /\ stateAge'[d] = stateAge[d]
    BY <1>1, <2>5, GotoDoes DEF States
  <2> HIDE DEF new
  <2> QED BY <2>2, <2>3, <2>4, <2>5, <2>6 DEF Active
<1>3. CASE Renew(b)
  <2> DEFINE new == DhcpMessage(b, "REQUEST", currentXid[b], myip[b])
  <2>1. dhcpState[b] = "BOUND" /\ wire' = wire \union {new}
    BY <1>3 DEF Renew
  <2>2. myip[b] \in Addrs
    BY <1>1, <2>1 DEF Addressed
  <2>3. new.board = b /\ new.type = "REQUEST" /\ new.xid = currentXid[b] /\ new.ip \in Addrs
    BY <1>1, <2>2, MessageType DEF Ips
  <2>4. \A m \in wire : m.xid # currentXid[b]
    BY <1>1, <2>1 DEF Talk, Active, Fits
  <2>5. /\ Goto(b, "RENEWING") /\ UNCHANGED <<currentXid, myip, owner, left>>
        /\ leaseAge' = [leaseAge EXCEPT ![b] = 0]
    BY <1>3 DEF Renew, server
  <2>6. /\ dhcpState'[b] = "RENEWING" /\ stateAge'[b] = 0
        /\ \A d \in Boards \ {b} : dhcpState'[d] = dhcpState[d] /\ stateAge'[d] = stateAge[d]
    BY <1>1, <2>5, GotoDoes DEF States
  <2>7. leaseAge[b] <= RenewAfter /\ \A d \in Boards \ {b} : leaseAge'[d] = leaseAge[d]
    BY <1>1, <2>5, DhcpAssumption DEF TypeOK
  <2> HIDE DEF new
  <2> QED BY <2>1, <2>3, <2>4, <2>5, <2>6, <2>7 DEF Active
<1> QED BY <1>2, <1>3 DEF Requests

(* The board takes the acknowledgement it waits for off the wire, which    *)
(* holds nothing more of its conversation then.                            *)
LEMMA AckDoes ==
  ASSUME TalkInv, NEW b \in Boards, NEW m \in wire, ProcessAck(b, m)
  PROVE  /\ dhcpState[b] \in {"REQUESTING", "RENEWING"} /\ dhcpState'[b] = "BOUND"
         /\ m.type = "ACK" /\ m.xid = currentXid[b] /\ m.ip \in Addrs
         /\ UNCHANGED <<currentXid, owner, left>>
         /\ myip'[b] = m.ip /\ leaseAge'[b] = 0
         /\ \A d \in Boards \ {b} :
              /\ dhcpState'[d] = dhcpState[d] /\ stateAge'[d] = stateAge[d]
              /\ leaseAge'[d] = leaseAge[d] /\ myip'[d] = myip[d]
         /\ wire' \subseteq wire /\ \A n \in wire' : n.xid # currentXid[b]
<1>1. TypeInv /\ TypeOK /\ Talk(b) /\ Addressed
  BY DEF TalkInv, TypeInv
<1>2. /\ dhcpState[b] \in {"REQUESTING", "RENEWING"} /\ m.type = "ACK" /\ m.xid = currentXid[b]
      /\ wire' = wire \ {m} /\ myip' = [myip EXCEPT ![b] = m.ip]
      /\ leaseAge' = [leaseAge EXCEPT ![b] = 0] /\ Goto(b, "BOUND")
      /\ UNCHANGED <<currentXid, owner, left>>
  BY DEF ProcessAck, Received, server
<1>3. m.ip \in Addrs
  BY <1>1, <1>2 DEF Addressed
<1>4. \A n \in wire : n.xid = currentXid[b] => n = m
  BY <1>1, <1>2 DEF Talk, Active
<1>5. /\ dhcpState'[b] = "BOUND"
      /\ \A d \in Boards \ {b} : dhcpState'[d] = dhcpState[d] /\ stateAge'[d] = stateAge[d]
  BY <1>1, <1>2, GotoDoes DEF States
<1>6. /\ myip'[b] = m.ip /\ leaseAge'[b] = 0
      /\ \A d \in Boards \ {b} : leaseAge'[d] = leaseAge[d] /\ myip'[d] = myip[d]
  BY <1>1, <1>2 DEF TypeOK
<1> QED BY <1>2, <1>3, <1>4, <1>5, <1>6

(* A timeout and a sketch that starts over put the machine back to INIT.   *)
LEMMA GiveUpDoes ==
  ASSUME TypeInv, NEW b \in Boards, RequestTimeout(b) \/ SetupAgain(b)
  PROVE  /\ dhcpState'[b] = "INIT" /\ UNCHANGED <<currentXid, myip, leaseAge, wire, owner, left>>
         /\ \A d \in Boards \ {b} : dhcpState'[d] = dhcpState[d] /\ stateAge'[d] = stateAge[d]
<1>1. CASE RequestTimeout(b)
  BY <1>1, GotoDoes DEF TypeInv, States, RequestTimeout, server
<1>2. CASE SetupAgain(b)
  BY <1>2 DEF TypeInv, TypeOK, SetupAgain, server
<1> QED BY <1>1, <1>2

(* The server answers one message by another of the same conversation.     *)
Answers(m) == ServerGrants(m) \/ \E a \in Addrs : ServerOffers(m, a)
LEMMA ServerDoes ==
  ASSUME TalkInv, NEW m \in wire, Answers(m)
  PROVE  /\ UNCHANGED <<dhcpState, currentXid, myip, stateAge, leaseAge>>
         /\ \E new : /\ wire' = (wire \ {m}) \union {new}
                     /\ new.board = m.board /\ new.xid = m.xid /\ new.ip \in Addrs
                     /\ \/ m.type = "DISCOVER" /\ new.type = "OFFER" /\ UNCHANGED <<owner, left>>
                        \/ /\ m.type = "REQUEST" /\ new.type = "ACK" /\ new.ip = m.ip
                           /\ MayHave(m.board, m.ip)
                           /\ owner' = [owner EXCEPT ![m.ip] = m.board]
                           /\ left' = [left EXCEPT ![m.ip] = Lease]
<1>1. m \in Messages /\ (m.type # "DISCOVER" => m.ip \in Addrs)
  BY DEF TalkInv, TypeInv, TypeOK, Addressed
<1>2. ASSUME NEW a \in Addrs, ServerOffers(m, a)
      PROVE  /\ m.type = "DISCOVER"
             /\ wire' = (wire \ {m}) \union {[m EXCEPT !.type = "OFFER", !.ip = a]}
             /\ UNCHANGED <<dhcpState, currentXid, myip, stateAge, leaseAge, owner, left>>
  BY <1>2 DEF ServerOffers, boardvars, server
<1>3. ASSUME ServerGrants(m)
      PROVE  /\ m.type = "REQUEST" /\ MayHave(m.board, m.ip)
             /\ wire' = (wire \ {m}) \union {[m EXCEPT !.type = "ACK"]}
             /\ owner' = [owner EXCEPT ![m.ip] = m.board]
             /\ left' = [left EXCEPT ![m.ip] = Lease]
             /\ UNCHANGED <<dhcpState, currentXid, myip, stateAge, leaseAge>>
  BY <1>3 DEF ServerGrants, boardvars
<1>4. CASE \E a \in Addrs : ServerOffers(m, a)
  <2>1. PICK a \in Addrs : ServerOffers(m, a)
    BY <1>4
  <2> DEFINE new == [m EXCEPT !.type = "OFFER", !.ip = a]
  <2>2. new.board = m.board /\ new.xid = m.xid /\ new.ip = a /\ new.type = "OFFER"
    BY <1>1, AnswerType
  <2>3. wire' = (wire \ {m}) \union {new}
    BY <1>2, <2>1
  <2> HIDE DEF new
  <2> QED BY <1>2, <2>1, <2>2, <2>3
<1>5. CASE ServerGrants(m)
  <2> DEFINE new == [m EXCEPT !.type = "ACK"]
  <2>1. new.board = m.board /\ new.xid = m.xid /\ new.ip = m.ip /\ new.type = "ACK"
    BY <1>1 DEF Messages
  <2>2. wire' = (wire \ {m}) \union {new} /\ m.ip \in Addrs
    BY <1>1, <1>3, <1>5
  <2> HIDE DEF new
  <2> QED BY <1>3, <1>5, <2>1, <2>2
<1> QED BY <1>4, <1>5 DEF Answers

(* A conversation stands when its board keeps its state and xid, or starts *)
(* over, and nothing is added to it.                                       *)
LEMMA TalkKept ==
  ASSUME NEW d \in Boards, Talk(d), currentXid'[d] = currentXid[d],
         dhcpState'[d] \in {dhcpState[d], "INIT"},
         \A m \in wire' : m.xid = currentXid[d] => m \in wire \/ ~Active(d)
  PROVE  Talk(d)'
BY DEF Talk, Active

(* No step mixes two conversations.                                        *)
LEMMA TalkStep == ASSUME UniqueXids, TalkInv, [Next]_vars PROVE TalkInv'
<1>1. TypeInv /\ TypeInv' /\ OwnXid /\ Addressed /\ \A b \in Boards : Talk(b)
  BY TypeStep DEF TalkInv
<1>2. ASSUME NEW b \in Boards, Discover(b) PROVE TalkInv'
  <2>1. OwnXid'
    BY <1>1, <1>2, DiscoverDoes DEF OwnXid, Active
  <2>2. ASSUME NEW d \in Boards PROVE Talk(d)'
    <3>1. CASE d = b
      BY <1>1, <1>2, <3>1, DiscoverDoes DEF Talk, Fits
    <3>2. CASE d # b
      <4>1. \A m \in wire' : m.xid = currentXid[d] => m \in wire \/ ~Active(d)
        BY <1>1, <1>2, <3>2, DiscoverDoes
      <4> QED BY <1>1, <1>2, <3>2, <4>1, DiscoverDoes, TalkKept
    <3> QED BY <3>1, <3>2
  <2>3. Addressed'
    <3>1. \A m \in wire' : m \in wire \/ m.type = "DISCOVER"
      BY <1>1, <1>2, DiscoverDoes
    <3>2. \A d \in Boards : \/ dhcpState'[d] = "SELECTING" /\ myip'[d] = NoIp
                            \/ dhcpState'[d] = dhcpState[d] /\ myip'[d] = myip[d]
      BY <1>1, <1>2, DiscoverDoes
    <3> QED BY <1>1, <3>1, <3>2 DEF Addressed
  <2> QED BY <1>1, <2>1, <2>2, <2>3 DEF TalkInv
<1>3. ASSUME NEW b \in Boards, Requests(b) PROVE TalkInv'
  <2>0. RequestDone(b)
    BY <1>3, RequestDoes
  <2> USE DEF RequestDone
  <2>1. OwnXid'
    BY <1>1, <2>0 DEF OwnXid, Active
  <2>2. ASSUME NEW d \in Boards PROVE Talk(d)'
    <3>1. CASE d = b
      BY <1>1, <2>0, <3>1 DEF Talk, Fits
    <3>2. CASE d # b
      <4>1. Active(d) => currentXid[d] # currentXid[b]
        BY <1>1, <2>0, <3>2 DEF OwnXid
      <4>2. \A m \in wire' : m.xid = currentXid[d] => m \in wire \/ ~Active(d)
        BY <1>1, <2>0, <4>1
      <4> QED BY <1>1, <2>0, <3>2, <4>2, TalkKept
    <3> QED BY <3>1, <3>2
  <2>3. Addressed'
    <3>1. \A m \in wire' : m \in wire \/ m.ip \in Addrs
      BY <1>1, <2>0
    <3>2. \A d \in Boards : \/ dhcpState'[d] = dhcpState[d] /\ myip'[d] = myip[d]
                            \/ /\ dhcpState'[d] = "REQUESTING" /\ dhcpState[d] = "SELECTING"
                               /\ myip'[d] = myip[d]
                            \/ /\ dhcpState'[d] = "RENEWING" /\ dhcpState[d] = "BOUND"
                               /\ myip'[d] = myip[d]
      BY <1>1, <2>0
    <3> QED BY <1>1, <3>1, <3>2 DEF Addressed
  <2> QED BY <1>1, <2>1, <2>2, <2>3 DEF TalkInv
<1>4. ASSUME NEW b \in Boards, NEW m \in wire, ProcessAck(b, m) PROVE TalkInv'
  <2>1. OwnXid'
    BY <1>1, <1>4, AckDoes DEF OwnXid, Active
  <2>2. ASSUME NEW d \in Boards PROVE Talk(d)'
    <3>1. CASE d = b
      BY <1>1, <1>4, <3>1, AckDoes DEF Talk
    <3>2. CASE d # b
      <4>1. \A n \in wire' : n.xid = currentXid[d] => n \in wire \/ ~Active(d)
        BY <1>1, <1>4, AckDoes
      <4> QED BY <1>1, <1>4, <3>2, <4>1, AckDoes, TalkKept
    <3> QED BY <3>1, <3>2
  <2>3. Addressed'
    <3>1. wire' \subseteq wire
      BY <1>1, <1>4, AckDoes
    <3>2. \A d \in Boards : \/ dhcpState'[d] = dhcpState[d] /\ myip'[d] = myip[d]
                            \/ dhcpState'[d] = "BOUND" /\ myip'[d] \in Addrs
      BY <1>1, <1>4, AckDoes
    <3> QED BY <1>1, <3>1, <3>2 DEF Addressed
  <2> QED BY <1>1, <2>1, <2>2, <2>3 DEF TalkInv
<1>5. ASSUME NEW b \in Boards, RequestTimeout(b) \/ SetupAgain(b) PROVE TalkInv'
  <2>1. UNCHANGED <<currentXid, myip, wire>> /\ \A d \in Boards : dhcpState'[d] \in {dhcpState[d], "INIT"}
    BY <1>1, <1>5, GiveUpDoes
  <2>2. OwnXid'
    BY <1>1, <2>1 DEF OwnXid, Active
  <2>3. \A d \in Boards : Talk(d)'
    BY <1>1, <2>1, TalkKept
  <2>4. Addressed'
    BY <1>1, <2>1 DEF Addressed
  <2> QED BY <1>1, <2>2, <2>3, <2>4 DEF TalkInv
<1>6. ASSUME NEW m \in wire, Answers(m) PROVE TalkInv'
  <2>1. PICK new : /\ wire' = (wire \ {m}) \union {new}
                   /\ new.board = m.board /\ new.xid = m.xid /\ new.ip \in Addrs
                   /\ \/ m.type = "DISCOVER" /\ new.type = "OFFER"
                      \/ m.type = "REQUEST" /\ new.type = "ACK"
    BY <1>6, ServerDoes
  <2>2. UNCHANGED <<dhcpState, currentXid, myip>>
    BY <1>6, ServerDoes
  <2>3. OwnXid' /\ Addressed'
    BY <1>1, <2>1, <2>2 DEF OwnXid, Active, Addressed
  <2>4. ASSUME NEW d \in Boards PROVE Talk(d)'
    <3>1. CASE m.xid = currentXid[d]
      BY <1>1, <2>1, <2>2, <3>1 DEF Talk, Active, Fits
    <3>2. CASE m.xid # currentXid[d]
      BY <1>1, <2>1, <2>2, <3>2, TalkKept
    <3> QED BY <3>1, <3>2
  <2> QED BY <1>1, <2>3, <2>4 DEF TalkInv
<1>7. CASE UNCHANGED <<dhcpState, currentXid, myip>> /\ wire' \subseteq wire
  <2>1. OwnXid' /\ Addressed'
    BY <1>1, <1>7 DEF OwnXid, Active, Addressed
  <2>2. \A d \in Boards : Talk(d)'
    BY <1>1, <1>7, TalkKept
  <2> QED BY <1>1, <2>1, <2>2 DEF TalkInv
<1>8. ASSUME NEW b \in Boards, SetupReturns(b) \/ SketchTogglesBroadcast(b) PROVE TalkInv'
  BY <1>7, <1>8 DEF SetupReturns, SketchTogglesBroadcast
<1>9. CASE Tick \/ (\E m \in wire : Lose(m)) \/ UNCHANGED vars
  BY <1>7, <1>9 DEF Tick, Lose, vars, boardvars
<1>10. sketch.boards \subseteq Boards
  BY <1>1 DEF TypeInv, Network
<1> QED BY <1>2, <1>3, <1>4, <1>5, <1>6, <1>8, <1>9, <1>10
        DEF Next, Board, Server, Requests, Answers

(* The lease of a board that a step leaves alone.                          *)
LEMMA LeaseKept ==
  ASSUME NEW d \in Boards, Granted(d), Covered(d), UNCHANGED <<owner, left>>,
         dhcpState'[d] = dhcpState[d], currentXid'[d] = currentXid[d],
         myip'[d] = myip[d], stateAge'[d] = stateAge[d], leaseAge'[d] = leaseAge[d],
         \A m \in wire' : m.xid = currentXid[d] /\ m.type = "ACK" => m \in wire \/ ~Active(d)
  PROVE  Granted(d)' /\ Covered(d)'
BY DEF Granted, Covered, Active

(* The server grants: to the board that has the address, or to any board   *)
(* when none has it.                                                       *)
LEMMA LeaseGranted ==
  ASSUME TalkInv, NEW m \in wire, Answers(m), NEW d \in Boards, Granted(d), Covered(d)
  PROVE  Granted(d)' /\ Covered(d)'
<1>1. TypeOK /\ Talk(d) /\ Addressed /\ m \in Messages
  BY DEF TalkInv, TypeInv, TypeOK
<1>2. UNCHANGED <<dhcpState, currentXid, myip, stateAge, leaseAge>>
  BY ServerDoes
<1>3. PICK new :
        /\ wire' = (wire \ {m}) \union {new}
        /\ new.board = m.board /\ new.xid = m.xid /\ new.ip \in Addrs
        /\ \/ m.type = "DISCOVER" /\ new.type = "OFFER" /\ UNCHANGED <<owner, left>>
           \/ /\ m.type = "REQUEST" /\ new.type = "ACK" /\ new.ip = m.ip
              /\ MayHave(m.board, m.ip)
              /\ owner' = [owner EXCEPT ![m.ip] = m.board]
              /\ left' = [left EXCEPT ![m.ip] = Lease]
  BY ServerDoes
<1>4. CASE m.type = "DISCOVER"
  BY <1>2, <1>3, <1>4, LeaseKept
<1>5. CASE m.type = "REQUEST"
  <2>1. /\ new.type = "ACK" /\ new.ip = m.ip /\ m.ip \in Addrs
        /\ owner[m.ip] \in {m.board, Nobody}
        /\ owner' = [owner EXCEPT ![m.ip] = m.board]
        /\ left' = [left EXCEPT ![m.ip] = Lease]
    BY <1>3, <1>5 DEF MayHave
  <2>2. /\ Lease \in Nat /\ Timeout \in Nat /\ RenewAfter \in Nat
        /\ stateAge[d] \in Nat /\ leaseAge[d] \in Nat
    BY <1>1, DhcpAssumption DEF TypeOK
  <2>3. ASSUME NEW a \in Addrs, owner[a] = d
        PROVE  owner'[a] = d /\ (left'[a] = left[a] \/ left'[a] = Lease)
    BY <1>1, <2>1, <2>3, DhcpAssumption DEF TypeOK
  <2>4. owner'[m.ip] = m.board /\ left'[m.ip] = Lease
    BY <1>1, <2>1 DEF TypeOK
  <2>5. ASSUME NEW a \in Addrs, owner[a] = d, NEW n \in Nat, left[a] + n >= Lease
        PROVE  owner'[a] = d /\ left'[a] + n >= Lease
    BY <2>2, <2>3, <2>5
  <2>6. Granted(d)'
    <3> SUFFICES ASSUME dhcpState[d] \in {"REQUESTING", "RENEWING"},
                        NEW k \in wire', k.xid = currentXid[d], k.type = "ACK"
                 PROVE  owner'[k.ip] = d /\ left'[k.ip] + stateAge[d] >= Lease
      BY <1>2 DEF Granted
    <3>1. CASE k = new
      <4>1. m.board = d
        BY <1>1, <1>3, <3>1 DEF Talk, Active
      <4> QED BY <2>1, <2>2, <2>4, <3>1, <4>1
    <3>2. CASE k \in wire
      <4>1. k.ip \in Addrs /\ owner[k.ip] = d /\ left[k.ip] + stateAge[d] >= Lease
        BY <1>1, <3>2 DEF Granted, Addressed
      <4> QED BY <2>2, <2>5, <4>1
    <3> QED BY <1>3, <3>1, <3>2
  <2>7. Covered(d)'
    <3>1. myip[d] # NoIp => myip[d] \in Addrs
      BY <1>1 DEF TypeOK, Ips
    <3>2. dhcpState[d] = "INIT" /\ myip[d] # NoIp => owner'[myip[d]] = d
      BY <2>3, <3>1 DEF Covered
    <3>3. dhcpState[d] = "BOUND" =>
            /\ owner'[myip[d]] = d
            /\ left'[myip[d]] + leaseAge[d] + Timeout + 1 >= Lease
      <4> SUFFICES ASSUME dhcpState[d] = "BOUND"
                   PROVE  /\ owner'[myip[d]] = d
                          /\ left'[myip[d]] + leaseAge[d] + Timeout + 1 >= Lease
        OBVIOUS
      <4>1. /\ myip[d] \in Addrs /\ owner[myip[d]] = d
            /\ left[myip[d]] + leaseAge[d] + Timeout + 1 >= Lease
        BY <1>1 DEF Covered, Addressed
      <4> QED BY <2>2, <2>3, <4>1
    <3>4. dhcpState[d] = "RENEWING" =>
            /\ owner'[myip[d]] = d
            /\ left'[myip[d]] + stateAge[d] + RenewAfter + Timeout + 1 >= Lease
      <4> SUFFICES ASSUME dhcpState[d] = "RENEWING"
                   PROVE  /\ owner'[myip[d]] = d
                          /\ left'[myip[d]] + stateAge[d] + RenewAfter + Timeout + 1 >= Lease
        OBVIOUS
      <4>1. /\ myip[d] \in Addrs /\ owner[myip[d]] = d
            /\ left[myip[d]] + stateAge[d] + RenewAfter + Timeout + 1 >= Lease
        BY <1>1 DEF Covered, Addressed
      <4> QED BY <2>2, <2>3, <4>1
    <3> QED BY <1>2, <3>2, <3>3, <3>4 DEF Covered
  <2> QED BY <2>6, <2>7
<1> QED BY <1>3, <1>4, <1>5

(* While a board's timers have not run out there is time left on the lease *)
(* that it holds or is about to be told of, if the lease outlasts them.    *)
LeaseOutlasts == Lease > 2 * (Timeout + 1) + RenewAfter
LEMMA LeaseTick ==
  ASSUME LeaseOutlasts, TalkInv, Tick, NEW d \in Boards, Granted(d), Covered(d)
  PROVE  Granted(d)' /\ Covered(d)'
<1>1. TypeInv /\ TypeOK /\ Addressed
  BY DEF TalkInv, TypeInv
<1>2. /\ Lease \in Nat /\ Timeout \in Nat /\ RenewAfter \in Nat
      /\ Lease > 2 * (Timeout + 1) + RenewAfter
  BY DhcpAssumption DEF LeaseOutlasts
<1>3. UNCHANGED <<dhcpState, currentXid, myip, wire>>
  BY DEF Tick
<1>4. /\ stateAge[d] \in 0 .. Timeout + 1 /\ leaseAge[d] \in 0 .. RenewAfter
      /\ stateAge'[d] \in 0 .. Timeout + 1 /\ leaseAge'[d] \in 0 .. RenewAfter
      /\ dhcpState[d] \in States
  BY <1>1, TickDoes DEF TypeOK
<1>5. \A a \in Addrs : left[a] \in Nat /\ (left[a] > 1 => left'[a] = left[a] - 1
                                                        /\ owner'[a] = owner[a])
  BY <1>1, <1>2, TickDoes DEF TypeOK
<1>6. Granted(d)'
  <2> SUFFICES ASSUME dhcpState[d] \in {"REQUESTING", "RENEWING"},
                      NEW k \in wire, k.xid = currentXid[d], k.type = "ACK"
               PROVE  owner'[k.ip] = d /\ left'[k.ip] + stateAge'[d] >= Lease
    BY <1>3 DEF Granted
  <2>1. stateAge'[d] = stateAge[d] + 1
    BY <1>1, TickDoes
  <2>2. k.ip \in Addrs /\ owner[k.ip] = d /\ left[k.ip] + stateAge[d] >= Lease
    BY <1>1 DEF Granted, Addressed
  <2>3. left[k.ip] > 1
    BY <1>2, <1>4, <1>5, <2>1, <2>2
  <2> QED BY <1>2, <1>4, <1>5, <2>1, <2>2, <2>3
<1>7. CASE dhcpState[d] = "BOUND"
  <2>1. leaseAge'[d] = leaseAge[d] + 1
    BY <1>1, <1>7, TickDoes
  <2>2. /\ myip[d] \in Addrs /\ owner[myip[d]] = d
        /\ left[myip[d]] + leaseAge[d] + Timeout + 1 >= Lease
    BY <1>1, <1>7 DEF Covered, Addressed
  <2>3. left[myip[d]] > 1
    BY <1>2, <1>4, <1>5, <2>1, <2>2
  <2>4. owner'[myip[d]] = d /\ left'[myip[d]] + leaseAge'[d] + Timeout + 1 >= Lease
    BY <1>2, <1>4, <1>5, <2>1, <2>2, <2>3
  <2> QED BY <1>3, <1>6, <1>7, <2>4 DEF Covered
<1>8. CASE dhcpState[d] = "RENEWING"
  <2>1. stateAge'[d] = stateAge[d] + 1
    BY <1>1, <1>8, TickDoes
  <2>2. /\ myip[d] \in Addrs /\ owner[myip[d]] = d
        /\ left[myip[d]] + stateAge[d] + RenewAfter + Timeout + 1 >= Lease
    BY <1>1, <1>8 DEF Covered, Addressed
  <2>3. left[myip[d]] > 1
    BY <1>2, <1>4, <1>5, <2>1, <2>2
  <2>4. owner'[myip[d]] = d /\ left'[myip[d]] + stateAge'[d] + RenewAfter + Timeout + 1 >= Lease
    BY <1>2, <1>4, <1>5, <2>1, <2>2, <2>3
  <2> QED BY <1>3, <1>6, <1>8, <2>4 DEF Covered
<1>9. CASE dhcpState[d] = "INIT"
  <2>1. myip[d] = NoIp
    BY <1>1, <1>9, TickDoes
  <2> QED BY <1>3, <1>6, <1>9, <2>1 DEF Covered
<1>10. CASE dhcpState[d] \in {"SELECTING", "REQUESTING"}
  BY <1>3, <1>6, <1>10 DEF Covered
<1> QED BY <1>4, <1>7, <1>8, <1>9, <1>10 DEF States

(* Every step keeps used addresses covered by their leases.                *)
LEMMA LeaseStep ==
  ASSUME UniqueXids, LeaseOutlasts, LeaseInv, [Next]_vars PROVE LeaseInv'
<1>1. /\ TalkInv /\ TalkInv' /\ TypeInv /\ OwnXid /\ Addressed
      /\ \A b \in Boards : Talk(b) /\ Granted(b) /\ Covered(b)
  BY TalkStep DEF LeaseInv, TalkInv
<1> SUFFICES ASSUME NEW d \in Boards PROVE Granted(d)' /\ Covered(d)'
  BY <1>1 DEF LeaseInv
<1>2. ASSUME NEW b \in Boards, Discover(b) PROVE Granted(d)' /\ Covered(d)'
  <2>1. CASE d = b
    BY <1>1, <1>2, <2>1, DiscoverDoes DEF Granted, Covered
  <2>2. CASE d # b
    <3>1. \A m \in wire' : m.xid = currentXid[d] /\ m.type = "ACK" => m \in wire \/ ~Active(d)
      BY <1>1, <1>2, <2>2, DiscoverDoes
    <3> QED BY <1>1, <1>2, <2>2, <3>1, DiscoverDoes, LeaseKept
  <2> QED BY <2>1, <2>2
<1>3. ASSUME NEW b \in Boards, Requests(b) PROVE Granted(d)' /\ Covered(d)'
  <2> USE DEF RequestDone
  <2>1. RequestDone(b)
    BY <1>1, <1>3, RequestDoes
  <2>2. CASE d # b
    <3>1. \A m \in wire' : m.xid = currentXid[d] /\ m.type = "ACK" => m \in wire \/ ~Active(d)
      BY <1>1, <2>1
    <3> QED BY <1>1, <2>1, <2>2, <3>1, LeaseKept
  <2>3. CASE d = b
    <3>1. Granted(d)'
      <4>1. \A m \in wire' : m.xid = currentXid[b] => m.type = "REQUEST"
        BY <2>1
      <4> QED BY <2>1, <2>3, <4>1 DEF Granted
    <3>2. CASE dhcpState'[b] = "REQUESTING"
      BY <2>3, <3>1, <3>2 DEF Covered
    <3>3. CASE dhcpState'[b] = "RENEWING"
      <4>1. dhcpState[b] = "BOUND" /\ leaseAge[b] <= RenewAfter /\ myip[b] \in Addrs
        BY <1>1, <2>1, <3>3 DEF Addressed
      <4>2. owner[myip[b]] = b /\ left[myip[b]] + leaseAge[b] + Timeout + 1 >= Lease
        BY <1>1, <4>1 DEF Covered
      <4>3. /\ Lease \in Nat /\ Timeout \in Nat /\ RenewAfter \in Nat
            /\ leaseAge[b] \in Nat /\ left[myip[b]] \in Nat
        BY <1>1, <4>1, DhcpAssumption DEF TypeInv, TypeOK
      <4>4. left[myip[b]] + 0 + RenewAfter + Timeout + 1 >= Lease
        BY <4>1, <4>2, <4>3
      <4>5. stateAge'[b] = 0 /\ UNCHANGED <<myip, owner, left>>
        BY <2>1
      <4>6. Covered(b)'
        BY <3>3, <4>2, <4>4, <4>5 DEF Covered
      <4> QED BY <2>3, <3>1, <4>6
    <3> QED BY <2>1, <3>2, <3>3
  <2> QED BY <2>2, <2>3
<1>4. ASSUME NEW b \in Boards, NEW m \in wire, ProcessAck(b, m) PROVE Granted(d)' /\ Covered(d)'
  <2>1. CASE d # b
    <3>1. wire' \subseteq wire
      BY <1>1, <1>4, AckDoes
    <3> QED BY <1>1, <1>4, <2>1, <3>1, AckDoes, LeaseKept
  <2>2. CASE d = b
    <3>1. owner[m.ip] = b /\ left[m.ip] + stateAge[b] >= Lease /\ m.ip \in Addrs
      BY <1>1, <1>4, AckDoes DEF Granted
    <3>2. /\ Lease \in Nat /\ Timeout \in Nat /\ stateAge[b] \in 0 .. Timeout + 1
          /\ left[m.ip] \in Nat
      BY <1>1, <3>1, DhcpAssumption DEF TypeInv, TypeOK
    <3>3. left[m.ip] + 0 + Timeout + 1 >= Lease
      BY <3>1, <3>2
    <3>4. /\ dhcpState'[b] = "BOUND" /\ myip'[b] = m.ip /\ leaseAge'[b] = 0
          /\ UNCHANGED <<owner, left>>
      BY <1>1, <1>4, AckDoes
    <3> QED BY <2>2, <3>1, <3>3, <3>4 DEF Granted, Covered
  <2> QED BY <2>1, <2>2
<1>5. ASSUME NEW b \in Boards, RequestTimeout(b) \/ SetupAgain(b) PROVE Granted(d)' /\ Covered(d)'
  <2>1. CASE d # b
    BY <1>1, <1>5, <2>1, GiveUpDoes, LeaseKept
  <2>2. CASE d = b
    <3>1. dhcpState'[b] = "INIT" /\ UNCHANGED <<myip, owner>>
      BY <1>1, <1>5, GiveUpDoes
    <3>2. myip[b] # NoIp => owner[myip[b]] = b
      <4>1. dhcpState[b] \in States
        BY <1>1 DEF TypeInv, TypeOK
      <4> QED BY <1>1, <4>1 DEF Covered, Addressed, States
    <3> QED BY <2>2, <3>1, <3>2 DEF Granted, Covered
  <2> QED BY <2>1, <2>2
<1>6. ASSUME NEW m \in wire, Answers(m) PROVE Granted(d)' /\ Covered(d)'
  BY <1>1, <1>6, LeaseGranted
<1>7. CASE /\ UNCHANGED <<dhcpState, currentXid, myip, stateAge, leaseAge, owner, left>>
           /\ wire' \subseteq wire
  BY <1>1, <1>7, LeaseKept
<1>8. ASSUME NEW b \in Boards, SetupReturns(b) \/ SketchTogglesBroadcast(b)
      PROVE  Granted(d)' /\ Covered(d)'
  BY <1>7, <1>8 DEF SetupReturns, SketchTogglesBroadcast, server
<1>9. CASE (\E m \in wire : Lose(m)) \/ UNCHANGED vars
  BY <1>7, <1>9 DEF Lose, vars, boardvars, server
<1>10. CASE Tick
  BY <1>1, <1>10, LeaseTick
<1>11. sketch.boards \subseteq Boards
  BY <1>1 DEF TypeInv, Network
<1> QED BY <1>2, <1>3, <1>4, <1>5, <1>6, <1>8, <1>9, <1>10, <1>11
        DEF Next, Board, Server, Requests, Answers

(* A board uses an address only while the server's lease for it runs, with *)
(* any number of boards and messages lost or late without limit: the       *)
(* machine gives an address up (DHCP_STATE_RENEWING to INIT) before its    *)
(* lease is over.  Boards that draw their xid from millis() at the same    *)
(* time, and a lease shorter than two request timeouts beyond the renewal, *)
(* are excluded: in both cases a board can use an address that is leased   *)
(* to another one or to nobody.                                            *)
THEOREM LeaseOfItsOwn ==
  ASSUME UniqueXids, LeaseOutlasts PROVE Spec => []LeaseCovers
<1>1. LeaseInv /\ [Next]_vars => LeaseInv'
  BY LeaseStep
<1>2. LeaseInv => LeaseCovers
  <2> SUFFICES ASSUME LeaseInv, NEW b \in Boards, myip[b] # NoIp PROVE owner[myip[b]] = b
    BY DEF LeaseCovers
  <2>1. dhcpState[b] \in States /\ Covered(b) /\ Addressed
    BY DEF LeaseInv, TalkInv, TypeInv, TypeOK
  <2> QED BY <2>1 DEF Covered, Addressed, States
<1> QED BY LeaseInit, <1>1, <1>2, PTL DEF Spec

=============================================================================
