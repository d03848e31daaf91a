SPECIFICATION Spec
CONSTANTS
  MaxLaunches = 3
  MaxCells = 2
  MaxDepth = 2
  Text <- MCText
  Frame <- MCFrame
  ErrorLine <- MCErrorLine
INVARIANT BindingsInv
INVARIANT TraceIsTheStack
INVARIANT StderrIsTheCells
CHECK_DEADLOCK FALSE
