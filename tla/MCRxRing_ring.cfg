SPECIFICATION FairSpec
CONSTANTS
  Stop = 33
  Counts = {5, 10}
  BufferSize = 4
  NumIds = 2
INVARIANT TypeOK
INVARIANT ReceivedIntact
INVARIANT CurrentPacketKept
INVARIANT SliceIsOfCurrentOnceReleased
PROPERTY FramesKeepComing
