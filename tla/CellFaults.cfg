SPECIFICATION Spec
CONSTANTS
  t1 = t1 t2 = t2
  Text = {t1, t2}
  MaxCells = 3
  MaxTokens = 3
  MaxMagic = 2
  MaxSigints = 0
  Faults = {"expression", "death", "print"}
SYMMETRY Symmetry
INVARIANT ErrorIsNamedRight
INVARIANT PipesAgree
INVARIANT OutputInOrder
CHECK_DEADLOCK FALSE
