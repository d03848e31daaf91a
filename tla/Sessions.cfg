SPECIFICATION FairSpec
CONSTANTS
  MaxSessions = 2
  MaxNumber = 5
  MaxProcesses = 3
INVARIANT SessionInv
INVARIANT OnlyOwnMessages
INVARIANT FilesLeftBehind
PROPERTY ZombiesEnd
PROPERTY CallsAreAnswered
CHECK_DEADLOCK FALSE
