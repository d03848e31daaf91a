SPECIFICATION FairSpec
CONSTANTS
  HeaderSize = 2
  ScratchSize = 3
  MaxLength = 4
  MaxMessages = 3
INVARIANT RecvInv
PROPERTY ImplementsMessageQueue
PROPERTY EveryMessageArrives
CHECK_DEADLOCK FALSE
