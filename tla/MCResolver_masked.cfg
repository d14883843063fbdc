SPECIFICATION Spec
CONSTANTS
  gw1 = gw1
  gw2 = gw2
  lan1 = lan1
  dns1 = dns1
  far1 = far1
  Me = Me
  NoIp = NoIp
  Bcast = Bcast
  GoogleDns = far1
  Lan = {gw1, gw2, dns1, lan1}
  Remote = {far1}
  Sketches <- MaskedSketches
  DelayWrap = 2
  MaxSetups = 2
  MaxWire = 1
INVARIANT TypeOK
INVARIANT GatewayMacGenuine
PROPERTY DnsQueryReachesServer
PROPERTY OffSubnetViaGateway
PROPERTY PeerMacGenuine
