SPECIFICATION UdpSpec
CONSTANTS
  p1 = p1
  p2 = p2
  Ports = {p1, p2}
  MaxListeners = 3
  PortInBuffer = TRUE
INVARIANT UdpTypeOK
INVARIANT AllListenersCalled
INVARIANT CalledForOwnPort
INVARIANT ListeningAsAsked
