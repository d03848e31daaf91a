SPECIFICATION Spec
CONSTANTS
  v1 = v1 v2 = v2
  Version = {v1, v2}
  None = None
  MaxRuns = 4
  MaxBreaks = 2
  Faults = TRUE
INVARIANT ScriptInv
INVARIANT FinishedMeansInstalled
PROPERTY ToolchainsAreKept
CHECK_DEADLOCK FALSE
