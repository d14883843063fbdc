SPECIFICATION FairSpec
CONSTANTS
  b1 = b1
  b2 = b2
  a1 = a1
  NoIp = NoIp
  Boards = {b1, b2}
  Addrs = {a1}
  Alone = b1
  Xids = {1, 2, 3}
  UniqueXids = TRUE
  Timeout = 1
  RenewAfter = 1
  Lease = 6
  Sketches <- Networks
INVARIANT TypeOK
INVARIANT LeaseCovers
INVARIANT FilterRestored
INVARIANT WaitingHears
PROPERTY EventuallyBound
