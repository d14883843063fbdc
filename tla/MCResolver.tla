----------------------------- MODULE MCResolver -----------------------------
(* Instances of Resolver for TLC: sketches that configure the card in      *)
(* different ways.                                                         *)
EXTENDS Resolver

CONSTANTS gw1, gw2, lan1, dns1, far1

Arg(my, gw, dns, mask) == [my |-> my, gw |-> gw, dns |-> dns, mask |-> mask]

(* A local DNS server; the gateway is replaced at run time.                *)
LocalDns == [setups |-> {Arg(Me, gw1, dns1, TRUE), Arg(NoIp, gw2, NoIp, TRUE)},
             acks |-> {}, hisIps |-> {far1}]

(* A DNS server beyond the gateway, or none at all; the gateway replaced;  *)
(* a local peer as well as a remote one.                                   *)
RemoteDns == [setups |-> {Arg(Me, gw1, far1, TRUE), Arg(Me, gw2, NoIp, TRUE)},
              acks |-> {}, hisIps |-> {far1, lan1}]

(* Configured by DHCP; leases that end and begin again.                    *)
Dhcp == [setups |-> {}, acks |-> {Arg(Me, gw1, dns1, TRUE)}, hisIps |-> {far1}]

MaskedSketches == {LocalDns, RemoteDns, Dhcp}
=============================================================================
