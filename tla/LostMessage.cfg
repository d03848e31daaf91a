SPECIFICATION FairSpec
CONSTANTS
  t1 = t1
  Text = {t1}
  MaxCells = 1
  MaxTokens = 1
  MaxMagic = 0
  MaxSigints = 1
  Faults = {}
PROPERTY AwaitedMessageIsWritten
CHECK_DEADLOCK FALSE
