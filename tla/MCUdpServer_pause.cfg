SPECIFICATION UdpSpec
CONSTANTS
  p1 = p1
  p2 = p2
  Ports = {p1, p2}
  MaxListeners = 2
  PortInBuffer = FALSE
INVARIANT ListeningAsAsked
