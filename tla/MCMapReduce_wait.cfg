SPECIFICATION FairSpec
CONSTANTS
  Worker = {w1}
  Lasting = {w1}
  Limit = 1
  nRPC <- MCnRPC
  Mortal <- MCMortal
  nMap = 1
  nReduce = 1
  NoTask = NoTask
PROPERTY WorkersShutDown
CHECK_DEADLOCK FALSE
