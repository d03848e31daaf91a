SPECIFICATION FairSpec
CONSTANTS
  MaxCells = 2
  MaxItems = 5
  BufferSize = 3
INVARIANT RouterInv
INVARIANT RoutedInOrder
PROPERTY MarkersAreServed
CHECK_DEADLOCK FALSE
