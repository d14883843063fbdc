-------------------------------- MODULE Dhcp --------------------------------
(***************************************************************************)
(* The DHCP client of dhcp.cpp on several boards of one network: dhcpSetup *)
(* and DhcpStateMachine, with the broadcast filter they switch and the     *)
(* broadcast address they maintain.  The server and the wire are external: *)
(* messages are delayed without limit, reordered and lost.                 *)
(*                                                                         *)
(* Time is a Tick that every timer sees.  A sketch calls packetLoop at     *)
(* least once a tick, so a tick waits for every board whose timer is due.  *)
(***************************************************************************)
EXTENDS Naturals, FiniteSets

CONSTANTS
  Boards, Addrs, NoIp,
  Alone,       \* the board of the networks with one board
  Xids,        \* values of millis() used as transaction id
  UniqueXids,  \* boards never draw the same one at the same time
  Timeout,     \* DHCP_REQUEST_TIMEOUT, in ticks
  RenewAfter,  \* leaseTime: the last of options 51 and 58 in the ACK
  Lease,       \* what the server means by the lease, in ticks
  Sketches     \* does: what the sketches do besides, see SketchTypes;
               \* boards: those of the network

Nobody == "nobody"

(* "plain": call dhcpSetup and packetLoop; "toggles": switch broadcast      *)
(* reception too; "again": go on when dhcpSetup returns, and call it again *)
(* later.                                                                  *)
SketchTypes == {"plain", "toggles", "again"}

ASSUME DhcpAssumption ==
  /\ NoIp \notin Addrs /\ Nobody \notin Boards
  /\ UniqueXids \in BOOLEAN /\ Alone \in Boards /\ Xids # {}
  /\ Sketches \subseteq [does : SketchTypes, boards : SUBSET Boards]
  /\ {Timeout, RenewAfter, Lease} \subseteq Nat \ {0}

VARIABLES
  sketch,             \* the boards of this network and their sketches
  dhcpState, currentXid, myip,
  stateAge,           \* millis() - stateTimer, counted to Timeout + 2, which
                      \* it never reaches when each timer is looked at in time
  leaseAge,           \* millis() - leaseStart, counted to RenewAfter while BOUND
  broadcast_enabled,  \* the sketch asked for broadcasts
  bcen,               \* ERXFCON_BCEN, the chip's filter
  inSetup,            \* dhcpSetup has not returned
  broadcastFor,       \* the myip that broadcastip was computed from
  wire,
  owner, left         \* external: the server's leases and their time left

filter == <<broadcast_enabled, bcen>>
setup == <<sketch, inSetup, broadcastFor>>
server == <<owner, left>>
vars == <<sketch, dhcpState, currentXid, myip, stateAge, leaseAge, filter, setup, wire,
          server>>

States == {"INIT", "SELECTING", "REQUESTING", "BOUND", "RENEWING"}
Ips == Addrs \union {NoIp}
Messages ==
  [type : {"DISCOVER", "OFFER", "REQUEST", "ACK"}, board : Boards, xid : Xids,
   ip : Ips,           \* yiaddr, or the address asked for
   ciaddr : BOOLEAN,   \* ciaddr is filled in: a renewal
   serverId : BOOLEAN] \* options 50 and 54 are present

TypeOK ==
  /\ sketch \in Sketches
  /\ dhcpState \in [Boards -> States] /\ currentXid \in [Boards -> Xids]
  /\ myip \in [Boards -> Ips] /\ broadcastFor \in [Boards -> Ips]
  /\ stateAge \in [Boards -> 0 .. Timeout + 1]
  /\ leaseAge \in [Boards -> 0 .. RenewAfter]
  /\ broadcast_enabled \in [Boards -> BOOLEAN] /\ bcen \in [Boards -> BOOLEAN]
  /\ inSetup \in [Boards -> BOOLEAN]
  /\ wire \subseteq Messages
  /\ owner \in [Addrs -> Boards \union {Nobody}] /\ left \in [Addrs -> 0 .. Lease]

Init ==
  /\ sketch \in Sketches
  /\ dhcpState = [b \in Boards |-> "INIT"] /\ myip = [b \in Boards |-> NoIp]
  /\ currentXid = [b \in Boards |-> CHOOSE x \in Xids : TRUE]
  /\ stateAge = [b \in Boards |-> 0] /\ leaseAge = [b \in Boards |-> 0]
  /\ broadcast_enabled = [b \in Boards |-> FALSE]
  /\ bcen = [b \in Boards |-> TRUE]
  /\ inSetup = [b \in Boards |-> TRUE]
  /\ broadcastFor = [b \in Boards |-> NoIp]
  /\ wire = {}
  /\ owner = [a \in Addrs |-> Nobody] /\ left = [a \in Addrs |-> 0]

-----------------------------------------------------------------------------
(* send_dhcp_message: in BOUND it fills in ciaddr, and it adds options 50  *)
(* and 54 for every caller that passes an address.                         *)
DhcpMessage(b, type, xid, ip) ==
  [type |-> type, board |-> b, xid |-> xid, ip |-> ip,
   ciaddr |-> dhcpState[b] = "BOUND", serverId |-> ip # NoIp]

(* The chip drops broadcasts when BCEN is off; an answer to a client that  *)
(* filled in ciaddr is sent to it alone, any other one broadcast.          *)
Hears(b, m) == IF m.ciaddr THEN m.board = b ELSE bcen[b]

(* dhcp_received_message_type: nothing but the xid and the type is tested. *)
ReceivedAnyXid(b, m, type) == m.type = type
Received(b, m, type) == m.type = type /\ m.xid = currentXid[b]

ExpiredSelectingOnly(b) == stateAge[b] > Timeout /\ dhcpState[b] = "SELECTING"
ExpiredLate(b) == stateAge[b] > Timeout + 1
Expired(b) == stateAge[b] > Timeout
Older(n, bound) == IF n < bound THEN n + 1 ELSE bound
StateElapsed(b) == Older(stateAge[b], Timeout + 2)
RenewalDue(b) == leaseAge[b] >= RenewAfter

(* enableBroadcast and disableBroadcast, temporary or not.                 *)
EnableBroadcastFlagOnly(b, temporary) ==
  /\ broadcast_enabled' = [broadcast_enabled EXCEPT ![b] = @ \/ ~temporary]
  /\ UNCHANGED bcen
EnableBroadcast(b, temporary) ==
  /\ bcen' = [bcen EXCEPT ![b] = TRUE]
  /\ broadcast_enabled' = [broadcast_enabled EXCEPT ![b] = @ \/ ~temporary]
DisableBroadcastAlways(b, temporary) ==
  /\ broadcast_enabled' = [broadcast_enabled EXCEPT ![b] = @ /\ temporary]
  /\ bcen' = [bcen EXCEPT ![b] = FALSE]
DisableBroadcast(b, temporary) ==
  /\ broadcast_enabled' = [broadcast_enabled EXCEPT ![b] = @ /\ temporary]
  /\ bcen' = [bcen EXCEPT ![b] = @ /\ broadcast_enabled'[b]]

(* What matters of the wire once b draws a new xid: its own offers and     *)
(* acknowledgements with the old one are as good as lost.                  *)
AfterInit(b) == {m \in wire : m.board = b => m.type = "REQUEST"}

(* Transaction ids in use elsewhere: by other boards, or in messages.      *)
Taken(b) ==
  {m.xid : m \in AfterInit(b)} \union {currentXid[d] : d \in {e \in Boards \ {b} :
                                 dhcpState[e] # "INIT"}}

-----------------------------------------------------------------------------
(* DhcpStateMachine, one action per case and outcome.                      *)
(* stateTimer is read in SELECTING, REQUESTING and RENEWING only, and each *)
(* of them is entered with stateTimer = millis(); elsewhere stateAge is 0. *)
Goto(b, state) ==
  /\ dhcpState' = [dhcpState EXCEPT ![b] = state]
  /\ stateAge' = [stateAge EXCEPT ![b] = 0]

(* INIT: forget the address, draw an xid, broadcast DISCOVER.              *)
Discover(b) ==
  /\ dhcpState[b] = "INIT"
  /\ \E x \in Xids :
       /\ UniqueXids => x \notin Taken(b)
       /\ currentXid' = [currentXid EXCEPT ![b] = x]
       /\ wire' = AfterInit(b) \union {DhcpMessage(b, "DISCOVER", x, NoIp)}
  /\ myip' = [myip EXCEPT ![b] = NoIp]
  /\ EnableBroadcast(b, TRUE)
  /\ Goto(b, "SELECTING")
  /\ UNCHANGED <<leaseAge, setup, server>>

ProcessOffer(b, m) ==
  /\ dhcpState[b] = "SELECTING" /\ Hears(b, m) /\ Received(b, m, "OFFER")
  /\ wire' = (wire \ {m}) \union {DhcpMessage(b, "REQUEST", currentXid[b], m.ip)}
  /\ Goto(b, "REQUESTING")
  /\ UNCHANGED <<currentXid, myip, leaseAge, filter, setup, server>>

ProcessAck(b, m) ==
  /\ dhcpState[b] \in {"REQUESTING", "RENEWING"}
  /\ Hears(b, m) /\ Received(b, m, "ACK")
  /\ wire' = wire \ {m}
  /\ DisableBroadcast(b, TRUE)
  /\ myip' = [myip EXCEPT ![b] = m.ip]
  /\ leaseAge' = [leaseAge EXCEPT ![b] = 0]
  /\ Goto(b, "BOUND")
  /\ UNCHANGED <<currentXid, setup, server>>

RequestTimeout(b) ==
  /\ dhcpState[b] \in {"SELECTING", "REQUESTING", "RENEWING"} /\ Expired(b)
  /\ Goto(b, "INIT")
  /\ UNCHANGED <<currentXid, myip, leaseAge, filter, setup, wire, server>>

Renew(b) ==
  /\ dhcpState[b] = "BOUND" /\ RenewalDue(b)
  /\ wire' = wire \union {DhcpMessage(b, "REQUEST", currentXid[b], myip[b])}
  /\ leaseAge' = [leaseAge EXCEPT ![b] = 0]
  /\ Goto(b, "RENEWING")
  /\ UNCHANGED <<currentXid, myip, filter, setup, server>>

(* dhcpSetup returns when bound, or after a minute; from then on the state *)
(* machine runs inside packetLoop.  The sketch may start all over again.   *)
SetupReturns(b) ==
  /\ sketch.does = "again" /\ inSetup[b] /\ inSetup' = [inSetup EXCEPT ![b] = FALSE]
  /\ broadcastFor' = [broadcastFor EXCEPT ![b] = myip[b]]
  /\ UNCHANGED <<sketch, dhcpState, currentXid, myip, stateAge, leaseAge, filter,
                 wire, server>>

SetupAgain(b) ==
  /\ ~inSetup[b] /\ inSetup' = [inSetup EXCEPT ![b] = TRUE]
  /\ dhcpState' = [dhcpState EXCEPT ![b] = "INIT"]
  /\ UNCHANGED <<sketch, currentXid, myip, stateAge, leaseAge, filter,
                 broadcastFor, wire, server>>

SketchTogglesBroadcast(b) ==
  /\ sketch.does = "toggles"
  /\ EnableBroadcast(b, FALSE) \/ DisableBroadcast(b, FALSE)
  /\ UNCHANGED <<dhcpState, currentXid, myip, stateAge, leaseAge, setup, wire,
                 server>>

-----------------------------------------------------------------------------
(* External: the server, the wire, the clock.                              *)
boardvars == <<dhcpState, currentXid, myip, stateAge, leaseAge, filter, setup>>

MayHave(b, a) == owner[a] \in {b, Nobody}

ServerOffers(m, a) ==
  /\ m.type = "DISCOVER" /\ MayHave(m.board, a)
  /\ wire' = (wire \ {m}) \union {[m EXCEPT !.type = "OFFER", !.ip = a]}
  /\ UNCHANGED <<boardvars, server>>
ServerGrants(m) ==
  /\ m.type = "REQUEST" /\ MayHave(m.board, m.ip)
  /\ owner' = [owner EXCEPT ![m.ip] = m.board]
  /\ left' = [left EXCEPT ![m.ip] = Lease]
  /\ wire' = (wire \ {m}) \union {[m EXCEPT !.type = "ACK"]}
  /\ UNCHANGED boardvars
Lose(m) == wire' = wire \ {m} /\ UNCHANGED <<boardvars, server>>

Due(b) ==
  CASE dhcpState[b] = "INIT" -> TRUE
    [] dhcpState[b] = "BOUND" -> RenewalDue(b)
    [] OTHER -> Expired(b)
Tick ==
  /\ \A b \in sketch.boards : ~Due(b)
  /\ stateAge' = [b \in Boards |->
                    IF dhcpState[b] \in {"INIT", "BOUND"} THEN 0
                    ELSE StateElapsed(b)]
  /\ leaseAge' = [b \in Boards |->
                    IF dhcpState[b] = "BOUND" THEN Older(leaseAge[b], RenewAfter)
                    ELSE leaseAge[b]]
  /\ left' = [a \in Addrs |-> IF left[a] > 0 THEN left[a] - 1 ELSE 0]
  /\ owner' = [a \in Addrs |-> IF left'[a] = 0 THEN Nobody ELSE owner[a]]
  /\ UNCHANGED <<dhcpState, currentXid, myip, filter, setup, wire>>

Board(b) ==
  \/ Discover(b) \/ RequestTimeout(b) \/ Renew(b)
  \/ \E m \in wire : ProcessOffer(b, m) \/ ProcessAck(b, m)
  \/ SetupReturns(b) \/ SetupAgain(b) \/ SketchTogglesBroadcast(b)
Server ==
  \E m \in wire : ServerGrants(m) \/ \E a \in Addrs : ServerOffers(m, a)

Next ==
  (\E b \in sketch.boards : Board(b)) \/ Server \/ Tick \/ \E m \in wire : Lose(m)

Spec == Init /\ [][Next]_vars

(* packetLoop keeps running, time passes, what is sent again and again is  *)
(* answered in time some day, and nothing stays on the wire forever.       *)
Awaited(b, m) ==
  /\ m.board = b /\ m.xid = currentXid[b]
  /\ dhcpState[b] \in (IF m.type = "DISCOVER" THEN {"SELECTING"}
                       ELSE {"REQUESTING", "RENEWING"})
Fairness ==
  /\ WF_vars(Discover(Alone)) /\ WF_vars(RequestTimeout(Alone)) /\ WF_vars(Renew(Alone))
  /\ SF_vars(\E m \in wire : ProcessOffer(Alone, m))
  /\ SF_vars(\E m \in wire : ProcessAck(Alone, m))
  /\ SF_vars(\E m \in wire : Awaited(Alone, m) /\ \E a \in Addrs : ServerOffers(m, a))
  /\ SF_vars(\E m \in wire : Awaited(Alone, m) /\ ServerGrants(m))
  /\ WF_vars(\E m \in wire : m.board = Alone /\ m.xid # currentXid[Alone] /\ Lose(m))
  /\ WF_vars(Tick)
FairSpec == Spec /\ Fairness

-----------------------------------------------------------------------------
(* A board that uses an address has the server's lease for it, whatever is *)
(* lost or late, so no two boards ever use the same one: a board that      *)
(* cannot renew gives its address up before the server hands it on.        *)
LeaseCovers == \A b \in Boards : myip[b] # NoIp => owner[myip[b]] = b

(* The broadcasts DHCP let in are shut out again once it is done, and the  *)
(* sketch's own choice stands.                                             *)
FilterRestored ==
  \A b \in Boards : dhcpState[b] \in {"BOUND", "RENEWING"} =>
    bcen[b] = broadcast_enabled[b]

(* A board waiting for a broadcast answer can hear it, unless its sketch    *)
(* has switched broadcasts off meanwhile.                                  *)
WaitingHears ==
  sketch.does # "toggles" =>
    \A b \in Boards : dhcpState[b] \in {"SELECTING", "REQUESTING"} => bcen[b]

(* A board alone on its network that has no address gets one.              *)
EventuallyBound ==
  sketch = [does |-> "plain", boards |-> {Alone}] =>
    (dhcpState[Alone] # "BOUND" ~> dhcpState[Alone] = "BOUND")

=============================================================================
