SPECIFICATION Spec
CONSTANTS
  t1 = t1 t2 = t2
  Text = {t1, t2}
  MaxCells = 2
  MaxTokens = 3
  MaxMagic = 1
  MaxSigints = 2
  Faults = {}
INVARIANT TypeOK
INVARIANT OneExpressionAtATime
INVARIANT ExchangeIsNotInterrupted
INVARIANT MessageMeetsItsMarker
INVARIANT ReplyMatchesRequest
INVARIANT NoMessageLeftBehind
PROPERTY ExchangeWhileStopped
PROPERTY ImplementsCellService
CHECK_DEADLOCK FALSE
