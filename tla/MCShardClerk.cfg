SPECIFICATION FairSpec
CONSTANTS
  Clerk = {c1}
  Group = {100, 101}
  n = 2
  Server <- MCServer
  NShards = 2
  Key = {3}
  Configs <- MCConfigs
  MaxStarts = 2
  MaxMoves = 2
  MaxOps = 2
  MaxLost = 1
INVARIANTS CutOff AnsweredByOwner
PROPERTY KeepsTrying
CHECK_DEADLOCK FALSE
