SPECIFICATION FairSpec
CONSTANTS
  t1 = t1
  Text = {t1}
  MaxCells = 2
  MaxTokens = 2
  MaxMagic = 1
  MaxSigints = 2
  Faults = {}
PROPERTY EveryRequestIsAnswered
PROPERTY SigintIsHandled
PROPERTY CellServiceIsFair
CHECK_DEADLOCK FALSE
