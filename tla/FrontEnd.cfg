SPECIFICATION FairSpec
CONSTANTS
  MaxOperations = 2
  MaxLines = 2
  MaxOutput = 2
INVARIANT TerminalInv
INVARIANT OwnReplyOrNone
PROPERTY LinesAreKept
PROPERTY CallEnds
PROPERTY CommandReturns
PROPERTY EchoIsFollowed
CHECK_DEADLOCK FALSE
