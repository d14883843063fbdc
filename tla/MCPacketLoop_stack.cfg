SPECIFICATION FairSpec
CONSTANTS
  gw1 = gw1
  gw2 = gw2
  dns1 = dns1
  far1 = far1
  far2 = far2
  n1 = n1
  n2 = n2
  Me = Me
  NoIp = NoIp
  Bcast = Bcast
  NoName = NoName
  GoogleDns = far1
  Lan = {gw1, gw2, dns1}
  Remote = {far1, far2}
  Programs <- StackPrograms
  Address <- Names
  DelayWrap = 1
  MaxSetups = 2
  MaxWire = 0
  NFd = 3
  NLow = 3
  MaxParts = 1
  MaxReqs = 2
  MaxSyns = 2
  ClockWrap = 3
  Timeout = 1
  NTid = 3
CHECK_DEADLOCK FALSE
PROPERTY PartsImplemented
PROPERTY LookupReturns
PROPERTY AnswerForThisLookup
PROPERTY EveryRequestServed
