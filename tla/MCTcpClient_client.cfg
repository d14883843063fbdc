SPECIFICATION Spec
CONSTANTS
  Settings <- ClientSettings
  NFd = 2
  NLow = 3
  MaxParts = 3
  MaxReqs = 2
  MaxSyns = 3
CHECK_DEADLOCK FALSE
INVARIANT TypeOK
INVARIANT FillOnce
INVARIANT OneReply
INVARIANT ReplyForTheRequest
INVARIANT PayloadOnOwnConnection
INVARIANT AckedMeansHanded
