SPECIFICATION FairSpec
CONSTANTS
  N = 3
  Server = {0, 1, 2}
  Client = {c1}
  Sizes = {3, 5, 7}
  Handles <- MCHandles
  MaxStarts = 2
  MaxMoves = 3
  MaxOps = 2
  MaxLost = 1
INVARIANTS PartitionHolds LeaderInMinority OneInstance ReturnsAnswered
PROPERTY OperationsReturn
CHECK_DEADLOCK FALSE
