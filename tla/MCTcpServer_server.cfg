SPECIFICATION FairSpec
CONSTANTS
  c1 = c1
  c2 = c2
  Clients = {c1, c2}
  Asked <- TypedIn
  SeqSpace = 32
  Isns = 2
  Apart = 8
  MaxLen = 10
  Parts = {1, 2}
INVARIANT PageForTheRequest
INVARIANT AckedWasHanded
PROPERTY EveryClientServed
CHECK_DEADLOCK FALSE
