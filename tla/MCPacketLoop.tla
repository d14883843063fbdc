---------------------------- MODULE MCPacketLoop ----------------------------
(* Instances of PacketLoop for TLC.                                        *)
EXTENDS PacketLoop, TLC
CONSTANTS gw1, gw2, dns1, far1, far2, n1, n2

Arg(m, g, d, mask) == [my |-> m, gw |-> g, dns |-> d, mask |-> mask]
Names == (n1 :> far1) @@ (n2 :> far2)
Quiet(kinds, reqs) ==
  [kinds |-> kinds, when |-> "quiet", reqs |-> reqs, persist |-> FALSE, parts |-> 1,
   short |-> {}, repeats |-> FALSE, refuses |-> FALSE]

(* Two names looked up in turn, with a local DNS server.                   *)
Lookups ==
  LET setup == Arg(Me, gw1, dns1, TRUE)
  IN [net |-> [setups |-> {setup}, acks |-> {}, hisIps |-> {far1, far2}],
      configs |-> <<setup>>, tcp |-> Quiet({}, 0), names |-> {n1, n2}, looks |-> 2]

(* A name looked up, and requests to that host; the gateway replaced.      *)
Browse ==
  LET first == Arg(Me, gw1, NoIp, TRUE)
      second == Arg(NoIp, gw2, NoIp, TRUE)
  IN [net |-> [setups |-> {first, second}, acks |-> {}, hisIps |-> {far1}],
      configs |-> <<first, second>>, tcp |-> Quiet({"www", "stash"}, 2),
      names |-> {n1}, looks |-> 1]

(* A lookup on a board configured by DHCP, with leases that end any time.  *)
Leased ==
  [net |-> [setups |-> {}, acks |-> {Arg(Me, gw1, NoIp, TRUE)}, hisIps |-> {far1}],
   configs |-> << >>, tcp |-> Quiet({}, 0), names |-> {n1}, looks |-> 1]

StackPrograms == {Lookups, Browse, Leased}
=============================================================================
