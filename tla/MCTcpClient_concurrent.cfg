SPECIFICATION Spec
CONSTANTS
  Settings <- ConcurrentSettings
  NFd = 2
  NLow = 3
  MaxParts = 1
  MaxReqs = 2
  MaxSyns = 2
CHECK_DEADLOCK FALSE
INVARIANT ReplyForTheRequest
