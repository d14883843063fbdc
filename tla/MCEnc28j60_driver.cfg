SPECIFICATION FairSpec
CONSTANTS
  Variants <- Builds
  Patience = 2
  RetryLimit = 1
  MaxFrames = 2
INVARIANT BankRight
PROPERTY FramesGetTheirTime
PROPERTY CallsReturn
INVARIANT OwnFramesHeard
